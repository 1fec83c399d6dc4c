------------------------------- MODULE StoreMap -------------------------------
(***************************************************************************)
(* The shared map of cache entries (ipc/StoreMap.cc) as the shared memory   *)
(* cache uses it (MemStore.cc).  An entry is an anchor (key, marks, chain   *)
(* start) and a chain of slices; readers, one writer and header updaters in *)
(* several kid processes use it under the anchor's read/write lock.  An     *)
(* update writes a fresh anchor and a fresh chain prefix, splices that to   *)
(* the suffix of the stale chain and moves the entry's name to the fresh    *)
(* anchor.                                                                  *)
(*                                                                          *)
(* A lock operation is one step here (module ReadWriteLock shows that its   *)
(* accesses may be interleaved); who holds a lock follows from op.  A lock  *)
(* may be refused without a visible holder: some kid is passing by.         *)
(***************************************************************************)
EXTENDS Integers, FiniteSets

CONSTANTS
    Kids,           \* processes; each serves one StoreEntry at a time
    Purposes,       \* what each kid does with entries: get, cache, evict, update headers
    Keys, NoKey,
    Limit,          \* entryLimit(): names and anchors are 0..Limit-1
    NameByKey,      \* nameByKey(), the hash
    Slices, None,   \* slice ids; None stands for a negative one
    MaxEntrySlices, \* bound: slices of an entry, written or appended
    MaxEntries,     \* bound: entries written
    CountFloor      \* bound: the least that entryCount() may go down to

FileNos == 0 .. Limit - 1

ASSUME StoreMapAssumption ==
    /\ Limit \in Nat \ {0}
    /\ Purposes \in [Kids -> SUBSET {"get", "cache", "evict", "update"}]
    /\ None \notin Slices /\ IsFiniteSet(Slices)
    /\ NameByKey \in [Keys -> FileNos] /\ NoKey \notin Keys
    /\ MaxEntrySlices \in Nat /\ MaxEntries \in Nat /\ CountFloor \in Int

VARIABLES
    anchors,   \* anchors->items
    next,      \* Slice::next
    freeSlots, \* MemStore::freeSlots
    fileNos,   \* fileNos->items, as fileNoByName() reads them
    count,     \* anchors->count
    op,        \* what each kid is doing, with its local variables
    made,      \* entries written so far; numbers the entries
    evicted,   \* the entries of each key that eviction calls had to evict
    doubleFree,\* whether an already free slice was freed
    overlap    \* "none" while updates took turns, "some" once two of them overlapped, "stale" once
               \* one of them locked an anchor that had lost its name since the lookup

vars == <<anchors, next, freeSlots, fileNos, count, op, made, evicted, doubleFree, overlap>>
shared == <<anchors, next, freeSlots, fileNos, count, doubleFree>>

\* StoreMapAnchor::rewind(), and the constructor; the start of an empty anchor,
\* which is 0 there, is never used
Rewound == [key |-> NoKey, id |-> 0, updated |-> FALSE, start |-> None, splicingPoint |-> None,
            waitingToBeFreed |-> FALSE, writerHalted |-> FALSE]

Idle == [pc |-> "idle", key |-> NoKey, file |-> 0, fresh |-> 0, name |-> 0, splice |-> None, saw |-> 0]

Init ==
    /\ anchors = [f \in FileNos |-> Rewound]
    /\ next = [s \in Slices |-> None]
    /\ freeSlots = Slices
    /\ fileNos = [n \in FileNos |-> n]
    /\ count = 0
    /\ op = [p \in Kids |-> Idle]
    /\ made = 0
    /\ evicted = [k \in Keys |-> {}]
    /\ doubleFree = FALSE
    /\ overlap = "none"

-----------------------------------------------------------------------------
(* Locks *)

Updating == {"headers", "victim", "fresh", "prefixed", "spliced", "relocated", "marked"}
UpdatePcs == {"update", "stale"} \cup Updating
FreshShared == {"spliced", "relocated", "marked"}

Shared(p, f) ==
    \/ op[p].pc \in ({"reading", "copying", "stale"} \cup Updating) /\ op[p].file = f
    \/ op[p].pc \in FreshShared /\ op[p].fresh = f
Exclusive(p, f) ==
    \/ op[p].pc = "writing" /\ op[p].file = f
    \/ op[p].pc \in {"fresh", "prefixed"} /\ op[p].fresh = f
Appending(p, f) == op[p].pc = "appending" /\ op[p].file = f
HoldsHeaders(p, f) == op[p].pc \in Updating /\ op[p].file = f

\* Mutant: readers do not keep a writer out
MayLockExclusiveUnread(f) == \A q \in Kids : ~Exclusive(q, f) /\ ~Appending(q, f)

MayLockExclusive(f) == \A q \in Kids : ~Shared(q, f) /\ ~Exclusive(q, f) /\ ~Appending(q, f)
MayLockShared(f) == \A q \in Kids : ~Exclusive(q, f)

\* Mutant: lockHeaders() does not test the flag
MayLockHeadersTwice(f) == MayLockShared(f)

MayLockHeaders(f) == MayLockShared(f) /\ \A q \in Kids : ~HoldsHeaders(q, f)
Writing(f) == \E q \in Kids : Exclusive(q, f) \/ Appending(q, f)

Goto(p, pc) == op' = [op EXCEPT ![p].pc = pc]
Finish(p) == op' = [op EXCEPT ![p] = Idle]

-----------------------------------------------------------------------------
(* Chains *)

\* A set of slices that holds, with each slice but splicingPoint, the one after it
Closed(links, S, splicingPoint) == \A r \in S \ {splicingPoint} : links[r] \in S \cup {None}

\* The slices from s to splicingPoint, or to the end when that is not met: those that no
\* such set with s can leave out.
ChainBy(links, s, splicingPoint) ==
    IF s = None THEN {}
    ELSE {r \in Slices : \A S \in SUBSET (Slices \ {r}) :
                             s \in S => ~Closed(links, S, splicingPoint)}
Chain(s, splicingPoint) == ChainBy(next, s, splicingPoint)

WholeChain(f) == Chain(anchors[f].start, None)
OwnSlices(f) == Chain(anchors[f].start, anchors[f].splicingPoint)
Empty(f) == anchors[f].key = NoKey
LastSlice(f) == CHOOSE s \in WholeChain(f) : next[s] = None

\* freeChain() of the exclusively locked anchor f, which becomes anchor a
FreeChain(f, a) ==
    LET freed == IF Empty(f) THEN {} ELSE OwnSlices(f)
    IN /\ anchors' = [anchors EXCEPT ![f] = a]
       /\ next' = [s \in Slices |-> IF s \in freed THEN None ELSE next[s]]
       /\ freeSlots' = freeSlots \cup freed
       /\ doubleFree' = (doubleFree \/ freed \cap freeSlots # {})

Mark(a) == [a EXCEPT !.waitingToBeFreed = TRUE]

CountDown(by) == count - by >= CountFloor /\ count' = count - by

-----------------------------------------------------------------------------
(* Finding the anchor of a key; another kid may relocate it at any time *)

\* fileNoByKey(), the first step of every operation on a key
FindAnchor(p, k, pc) ==
    /\ op[p].pc = "idle"
    /\ op' = [op EXCEPT ![p] = [Idle EXCEPT !.pc = pc, !.key = k, !.file = fileNos[NameByKey[k]],
                                            !.saw = IF pc = "evict" THEN made ELSE 0]]
    /\ overlap' = IF pc = "update" /\ overlap = "none" /\ \E q \in Kids : op[q].pc \in UpdatePcs
                  THEN "some"
                  ELSE overlap
    /\ UNCHANGED <<shared, made, evicted>>

GiveUp(p) ==
    /\ op[p].pc \in {"get", "cache", "update"}
    /\ Finish(p)
    /\ UNCHANGED <<shared, made, evicted, overlap>>

-----------------------------------------------------------------------------
(* Reading *)

\* what openForReadingAt() checks under the shared lock
Readable(f, k) == anchors[f].key = k /\ ~anchors[f].waitingToBeFreed

\* get() copies a complete entry at once; the reader of one that is still being
\* written, and the updater, keep the entry
OpenForReadingAt(p) ==
    LET f == op[p].file
    IN /\ op[p].pc \in {"get", "update"}
       /\ MayLockShared(f) /\ Readable(f, op[p].key)
       /\ Goto(p, CASE op[p].pc = "update" -> "stale"
                    [] Writing(f) -> "reading"
                    [] OTHER -> "copying")
       /\ UNCHANGED <<shared, made, evicted, overlap>>

CloseForReading(p) ==
    /\ op[p].pc \in {"reading", "copying"}
    /\ Finish(p)
    /\ UNCHANGED <<shared, made, evicted, overlap>>

\* get() did not like what it loaded: freeEntry(), refused because of our own
\* lock, marks the entry
LoadFailed(p) ==
    /\ op[p].pc = "copying"
    /\ anchors' = [anchors EXCEPT ![op[p].file] = Mark(@)]
    /\ Finish(p)
    /\ UNCHANGED <<next, freeSlots, fileNos, count, made, evicted, doubleFree, overlap>>

-----------------------------------------------------------------------------
(* Writing *)

\* setKey() asks the other stores whether the key is being deleted
NewAnchor(k, id, updated, marked) ==
    [Rewound EXCEPT !.key = k, !.id = id, !.updated = updated, !.waitingToBeFreed = marked]

\* Mutant: the overwritten entry stays counted
OverwriteUncounted(f, a) ==
    /\ MayLockExclusive(f)
    /\ FreeChain(f, a)
    /\ count' = count + 1
    /\ UNCHANGED fileNos

\* openForWritingAt() and set(): the old entry, if any, gives way
OpenForWritingAt(f, a) ==
    LET used == anchors[f].waitingToBeFreed \/ ~Empty(f)
    IN /\ MayLockExclusive(f)
       /\ FreeChain(f, a)
       /\ CountDown((IF used THEN 1 ELSE 0) - 1)
       /\ UNCHANGED fileNos

StartCaching(p) ==
    /\ op[p].pc = "cache" /\ made < MaxEntries
    /\ \E marked \in BOOLEAN : OpenForWritingAt(op[p].file, NewAnchor(op[p].key, made + 1, FALSE, marked))
    /\ made' = made + 1
    /\ Goto(p, "writing")
    /\ UNCHANGED <<evicted, overlap>>

\* startCaching() lets others read an entry of known size while it is written
StartAppending(p) ==
    /\ op[p].pc = "writing" /\ anchors[op[p].file].start = None
    /\ Goto(p, "appending")
    /\ UNCHANGED <<shared, made, evicted, overlap>>

\* reserveSapForWriting(): a free slice and page, or the first slice of a purged entry
\* with its page; GetPage() may find none although a slice is free
ReserveSlice(p, f, s) ==
    LET linked == IF anchors[f].start = None
                  THEN [anchors EXCEPT ![f].start = s]
                  ELSE anchors
        Link(nexts) == IF anchors[f].start = None
                       THEN nexts
                       ELSE [nexts EXCEPT ![LastSlice(f)] = s]
    IN \/ /\ s \in freeSlots
          /\ freeSlots' = freeSlots \ {s}
          /\ anchors' = linked /\ next' = Link(next)
          /\ UNCHANGED <<count, doubleFree>>
       \/ \E n \in FileNos : \* purgeOne()
          LET g == fileNos[n]
              freed == OwnSlices(g)
          IN /\ MayLockExclusive(g) /\ ~Empty(g)
             /\ s = anchors[g].start
             /\ anchors' = [linked EXCEPT ![g] = Rewound]
             /\ next' = Link([r \in Slices |-> IF r \in freed THEN None ELSE next[r]])
             /\ freeSlots' = (freeSlots \cup freed) \ {s}
             /\ doubleFree' = (doubleFree \/ freed \cap freeSlots # {})
             /\ CountDown(1)

\* copyToShm() fills one more slice
CopyToShm(p) ==
    LET f == op[p].file
    IN /\ op[p].pc \in {"writing", "appending"}
       /\ Cardinality(WholeChain(f)) < MaxEntrySlices
       /\ \E s \in Slices : ReserveSlice(p, f, s)
       /\ UNCHANGED <<fileNos, op, made, evicted, overlap>>

CompleteWriting(p) ==
    /\ op[p].pc \in {"writing", "appending"}
    /\ Finish(p)
    /\ UNCHANGED <<shared, made, evicted, overlap>>

\* abortWriting() of an anchor that lets readers in
Halt(f) == anchors' = [anchors EXCEPT ![f] = [Mark(@) EXCEPT !.writerHalted = TRUE]]

\* Mutant: the anchor is emptied but its slices are forgotten
AbortForgettingSlices(p) ==
    /\ op[p].pc \in {"writing", "appending"}
    /\ anchors' = [anchors EXCEPT ![op[p].file] = Rewound]
    /\ CountDown(1)
    /\ Finish(p)
    /\ UNCHANGED <<next, freeSlots, fileNos, made, evicted, doubleFree, overlap>>

AbortWriting(p) ==
    LET f == op[p].file
        busy == \E q \in Kids : Shared(q, f)
    IN /\ \/ /\ op[p].pc = "writing" \/ (op[p].pc = "appending" /\ ~busy)
             /\ FreeChain(f, Rewound) /\ CountDown(1)
          \/ /\ op[p].pc = "appending"
             /\ Halt(f)
             /\ UNCHANGED <<next, freeSlots, count, doubleFree>>
       /\ Finish(p)
       /\ UNCHANGED <<fileNos, made, evicted, overlap>>

-----------------------------------------------------------------------------
(* Evicting *)

\* what an update has moved away from the anchor that kid p found
MovedAway(p) == {anchors[g].id : g \in {h \in FileNos : /\ h = fileNos[NameByKey[op[p].key]]
                                                       /\ h # op[p].file /\ anchors[h].updated}}

\* evictCached() of an entry that we have locked: freeEntry() can only mark it
EvictCached(p) ==
    LET f == op[p].file
    IN /\ op[p].pc \in {"reading", "writing", "appending"}
       /\ anchors' = [anchors EXCEPT ![f] = Mark(@)]
       /\ evicted' = [evicted EXCEPT ![op[p].key] = @ \cup ({anchors[f].id} \ MovedAway(p))]
       /\ UNCHANGED <<next, freeSlots, fileNos, count, op, made, doubleFree, overlap>>

\* evictIfFound() is about every entry that the key had when it was looked up
Evicted(p) ==
    /\ evicted' = [evicted EXCEPT ![op[p].key] = @ \cup ((1 .. op[p].saw) \ MovedAway(p))]
    /\ Finish(p)

\* freeEntryByKey() under the exclusive, the shared or without a lock
FreeEntryByKey(p) ==
    LET f == op[p].file
        same == anchors[f].key = op[p].key
    IN /\ op[p].pc = "evict"
       /\ \/ /\ MayLockExclusive(f) /\ same
             /\ FreeChain(f, Rewound) /\ CountDown(1)
             /\ Evicted(p)
          \/ /\ MayLockShared(f) /\ same
             /\ anchors' = [anchors EXCEPT ![f] = Mark(@)]
             /\ Evicted(p)
             /\ UNCHANGED <<next, freeSlots, count, doubleFree>>
          \/ /\ same
             /\ Goto(p, "evictUnlocked")
             /\ UNCHANGED <<anchors, next, freeSlots, count, evicted, doubleFree>>
          \/ /\ ~same
             /\ Evicted(p)
             /\ UNCHANGED <<anchors, next, freeSlots, count, doubleFree>>
       /\ UNCHANGED <<fileNos, made, overlap>>

\* Mutant: an entry that cannot be locked is left alone
LeaveUnlocked(p) ==
    /\ op[p].pc = "evictUnlocked"
    /\ Evicted(p)
    /\ UNCHANGED <<shared, made, overlap>>

\* the entry that was checked may be another one by now
MarkUnlocked(p) ==
    /\ op[p].pc = "evictUnlocked"
    /\ anchors' = [anchors EXCEPT ![op[p].file] = Mark(@)]
    /\ Evicted(p)
    /\ UNCHANGED <<next, freeSlots, fileNos, count, made, doubleFree, overlap>>

-----------------------------------------------------------------------------
(* Updating headers: openForUpdating(), updateHeadersOrThrow(), closeForUpdating() *)

\* An update locks anchor f, which name led to when it was looked up
LocksNamed(name, f) == overlap' = IF fileNos[name] = f THEN overlap ELSE "stale"

LockHeaders(p) ==
    /\ op[p].pc = "stale"
    /\ \/ /\ ~Writing(op[p].file) /\ MayLockHeaders(op[p].file)
          /\ Goto(p, "headers")
          /\ LocksNamed(NameByKey[op[p].key], op[p].file)
       \/ Finish(p) /\ UNCHANGED overlap
    /\ UNCHANGED <<shared, made, evicted>>

\* visitVictims() offers the names in turn, to all kids together
FindVictim(p) ==
    /\ op[p].pc = "headers"
    /\ \E n \in FileNos :
        op' = [op EXCEPT ![p].pc = "victim", ![p].name = n, ![p].fresh = fileNos[n]]
    /\ UNCHANGED <<shared, made, evicted, overlap>>

\* one that is in use is forgotten
SkipVictim(p) == op' = [op EXCEPT ![p].pc = "headers", ![p].name = 0, ![p].fresh = 0]

OpenKeyless(p) ==
    /\ op[p].pc = "victim"
    /\ \/ /\ \E marked \in BOOLEAN :
               OpenForWritingAt(op[p].fresh,
                                NewAnchor(op[p].key, anchors[op[p].file].id, TRUE, marked))
          /\ Goto(p, "fresh")
          /\ LocksNamed(op[p].name, op[p].fresh)
       \/ SkipVictim(p) /\ UNCHANGED <<shared, overlap>>
    /\ UNCHANGED <<made, evicted>>

\* the fresh headers may fill several slices
ExtendPrefix(p) ==
    /\ op[p].pc = "fresh"
    /\ Cardinality(WholeChain(op[p].fresh)) + 1 < MaxEntrySlices
    /\ \E s \in Slices : ReserveSlice(p, op[p].fresh, s)
    /\ UNCHANGED <<fileNos, op, made, evicted, overlap>>

\* the headers end in some slice of the stale chain
WritePrefix(p) ==
    /\ op[p].pc = "fresh"
    /\ \E s \in Slices : ReserveSlice(p, op[p].fresh, s)
    /\ \E s \in WholeChain(op[p].file) : op' = [op EXCEPT ![p].pc = "prefixed", ![p].splice = s]
    /\ UNCHANGED <<fileNos, made, evicted, overlap>>

AbortUpdating(p) ==
    /\ \/ op[p].pc = "headers" /\ UNCHANGED shared
       \/ /\ op[p].pc \in {"fresh", "prefixed"}
          /\ FreeChain(op[p].fresh, Rewound) /\ CountDown(1)
          /\ UNCHANGED fileNos
    /\ Finish(p)
    /\ UNCHANGED <<made, evicted, overlap>>

\* freeEntry(update.fresh.fileNo) if somebody deletes the stale entry
PropagateMark(as, p) ==
    IF as[op[p].file].waitingToBeFreed
    THEN [as EXCEPT ![op[p].fresh] = Mark(@)]
    ELSE as

Splice(p) ==
    /\ op[p].pc = "prefixed"
    /\ next' = [next EXCEPT ![LastSlice(op[p].fresh)] = next[op[p].splice]]
    /\ anchors' = PropagateMark(anchors, p)
    /\ Goto(p, "spliced")
    /\ UNCHANGED <<freeSlots, fileNos, count, made, evicted, doubleFree, overlap>>

\* Mutant: the stored value, which is one too high, is used as it is
RelocateOffByOne(p) ==
    /\ op[p].pc = "spliced"
    /\ fileNos' = [fileNos EXCEPT ![NameByKey[op[p].key]] = op[p].fresh + 1]
    /\ Goto(p, "relocated")
    /\ UNCHANGED <<anchors, next, freeSlots, count, made, evicted, doubleFree, overlap>>

\* Mutant: the name of the fresh anchor is relocated first
RelocateOtherName(p) ==
    /\ op[p].pc = "spliced"
    /\ fileNos' = [fileNos EXCEPT ![op[p].name] = op[p].file]
    /\ Goto(p, "relocated")
    /\ UNCHANGED <<anchors, next, freeSlots, count, made, evicted, doubleFree, overlap>>

Relocate(p) ==
    /\ op[p].pc = "spliced"
    /\ fileNos' = [fileNos EXCEPT ![NameByKey[op[p].key]] = op[p].fresh]
    /\ Goto(p, "relocated")
    /\ UNCHANGED <<anchors, next, freeSlots, count, made, evicted, doubleFree, overlap>>

\* Mutant: the stale anchor keeps the suffix it gave away
FreeStaleWhole(p) ==
    /\ op[p].pc = "relocated"
    /\ anchors' = [PropagateMark(anchors, p) EXCEPT ![op[p].file] = Mark(@)]
    /\ Goto(p, "marked")
    /\ UNCHANGED <<next, freeSlots, fileNos, count, made, evicted, doubleFree, overlap>>

FreeStale(p) ==
    /\ op[p].pc = "relocated"
    /\ anchors' = [PropagateMark(anchors, p) EXCEPT
                       ![op[p].file] = [Mark(@) EXCEPT !.splicingPoint = op[p].splice]]
    /\ Goto(p, "marked")
    /\ UNCHANGED <<next, freeSlots, fileNos, count, made, evicted, doubleFree, overlap>>

CloseForUpdating(p) ==
    /\ op[p].pc = "marked"
    /\ fileNos' = [fileNos EXCEPT ![op[p].name] = op[p].file]
    /\ Finish(p)
    /\ UNCHANGED <<anchors, next, freeSlots, count, made, evicted, doubleFree, overlap>>

-----------------------------------------------------------------------------
Next == \E p \in Kids :
    \/ \E k \in Keys, pc \in Purposes[p] : FindAnchor(p, k, pc)
    \/ GiveUp(p)
    \/ OpenForReadingAt(p) \/ CloseForReading(p) \/ LoadFailed(p)
    \/ StartCaching(p) \/ StartAppending(p) \/ CopyToShm(p) \/ CompleteWriting(p) \/ AbortWriting(p)
    \/ EvictCached(p) \/ FreeEntryByKey(p) \/ MarkUnlocked(p)
    \/ LockHeaders(p) \/ FindVictim(p) \/ OpenKeyless(p) \/ ExtendPrefix(p) \/ WritePrefix(p)
    \/ AbortUpdating(p) \/ Splice(p) \/ Relocate(p) \/ FreeStale(p) \/ CloseForUpdating(p)

Spec == Init /\ [][Next]_vars

-----------------------------------------------------------------------------
(* Properties *)

Closing == {"spliced", "relocated"}
Held(f) == \E p \in Kids : Shared(p, f) \/ Exclusive(p, f) \/ Appending(p, f)

Anchors == [key : Keys \cup {NoKey}, id : 0 .. MaxEntries, updated : BOOLEAN,
            start : Slices \cup {None}, splicingPoint : Slices \cup {None},
            waitingToBeFreed : BOOLEAN, writerHalted : BOOLEAN]
Ops == [pc : {"idle", "get", "cache", "update", "evict", "evictUnlocked", "reading", "copying",
              "writing", "appending", "stale"} \cup Updating,
        key : Keys \cup {NoKey}, file : FileNos, fresh : FileNos, name : FileNos,
        splice : Slices \cup {None}, saw : 0 .. MaxEntries]

\* Types; a kid that works on an entry has its key, and an updater that wrote
\* the fresh prefix has a slice of the stale chain to splice it to.
TypeOK ==
    /\ anchors \in [FileNos -> Anchors]
    /\ next \in [Slices -> Slices \cup {None}]
    /\ freeSlots \subseteq Slices
    /\ fileNos \in [FileNos -> FileNos]
    /\ count \in Int
    /\ op \in [Kids -> Ops]
    /\ made \in 0 .. MaxEntries
    /\ evicted \in [Keys -> SUBSET (0 .. MaxEntries)]
    /\ doubleFree \in BOOLEAN
    /\ \A p \in Kids : /\ op[p].pc # "idle" => op[p].key \in Keys
                       /\ op[p].pc = "prefixed" => op[p].splice \in Slices

\* Nobody frees, reuses or frees again a slice that freeChain() of an existing
\* entry would free; only while closeForUpdating() is between the splice and
\* setting the stale splicingPoint would two anchors free the same slices.
OwnChainsAreApart ==
    LET owned == [f \in FileNos |-> IF Empty(f) THEN {} ELSE OwnSlices(f)]
    IN /\ ~doubleFree
       /\ \A f \in FileNos : owned[f] \cap freeSlots = {}
       /\ \A f, g \in FileNos : f # g /\ owned[f] \cap owned[g] # {} =>
              \E p \in Kids : op[p].pc \in Closing /\ {op[p].file, op[p].fresh} = {f, g}

\* As long as updates take turns, whatever readers, writers and evictions do meanwhile,
\* no slice has two owners that would free it (freeChain(), closeForUpdating()).
ChainsStayApart == overlap = "none" => OwnChainsAreApart

\* Every slice is free or belongs to an entry that can be freed: no abort,
\* overwrite, purge or update leaks a slice of the shared memory cache, as long
\* as updates take turns.
NoSliceIsLost ==
    overlap = "none" =>
        Slices = freeSlots \cup UNION {OwnSlices(f) : f \in {g \in FileNos : ~Empty(g)}}

\* The class comment of StoreMapAnchor: the lock on an anchor protects all
\* slices of the entry, so none of them is free while a kid holds the lock.
LockedChainIsIntact ==
    \A f \in FileNos : ~Empty(f) /\ Held(f) => WholeChain(f) \cap freeSlots = {}

\* A kid that opened an entry for reading, writing or updating finds that entry
\* under its anchor until it closes it, whatever others evict, purge or move.
HeldEntryIsKept ==
    \A p \in Kids :
        /\ op[p].pc \in ({"reading", "copying", "writing", "appending", "stale"} \cup Updating) =>
              anchors[op[p].file].key = op[p].key
        /\ op[p].pc \in ({"fresh", "prefixed"} \cup FreshShared) =>
              anchors[op[p].fresh].key = op[p].key

\* While and right after closeForUpdating() moves an entry that nobody marked
\* for deletion, the key leads to a readable anchor of that entry at all times,
\* as long as updates take turns.
UpdateIsSeamless ==
    \A p \in Kids :
        LET f == fileNos[NameByKey[op[p].key]]
            unmarked(g) == ~anchors[g].waitingToBeFreed
        IN /\ overlap = "none"
           /\ \/ op[p].pc \in Closing /\ unmarked(op[p].file) /\ unmarked(op[p].fresh)
              \/ op[p].pc = "marked" /\ unmarked(op[p].fresh)
           => Readable(f, op[p].key) /\ MayLockShared(f)

\* When no update is being closed, every anchor has exactly one name: the exchanges of
\* updates that run side by side, or one after the other on the same entry, neither lose
\* an anchor (and its slices) for good nor share it.  What breaks this is only an update
\* that locked an anchor by a name looked up too early: its stale anchor after
\* fileNoByName() in openForUpdating(), its fresh one after that in openKeyless().
NamesReachEveryAnchor ==
    overlap # "stale" /\ (\A p \in Kids : op[p].pc \notin {"relocated", "marked"}) =>
        \A f \in FileNos : \E n \in FileNos : fileNos[n] = f

\* Would a get() for key k that starts now find an entry evicted before?  An entry that
\* was marked between the two checks of closeForUpdating() does not count until the second
\* one: the code says that this race is accepted.
FindsEvicted(k) ==
    LET f == fileNos[NameByKey[k]]
    IN /\ Readable(f, k) /\ MayLockShared(f)
       /\ anchors[f].id \in evicted[k]
       /\ ~\E p \in Kids : /\ op[p].pc = "relocated" /\ op[p].fresh = f
                           /\ anchors[op[p].file].waitingToBeFreed

\* Storage.h on evictCached(): new get() calls do not return the entry.  An
\* eviction is lost only to an update that moved the entry away from the anchor
\* under which the eviction found it, as long as updates take turns.
EvictionLostOnlyToUpdate == overlap = "none" => \A k \in Keys : ~FindsEvicted(k)

\* entryCount() never exceeds the number of entries (it may be less: an anchor
\* marked when already empty is counted down once too often).
CountIsNotTooHigh == count <= Cardinality({f \in FileNos : ~Empty(f)})

\* The kids use the lock of each anchor as the lock's promise allows: every step
\* is, for each anchor, a step of LockPromise or leaves its holders alone.
HeldMode(p, f) == CASE Exclusive(p, f) -> "exclusive"
                    [] Appending(p, f) -> "appending"
                    [] HoldsHeaders(p, f) -> "headers"
                    [] Shared(p, f) /\ ~HoldsHeaders(p, f) -> "shared"
                    [] OTHER -> "idle"
Lock(f) == INSTANCE LockPromise WITH Users <- Kids, held <- [p \in Kids |-> HeldMode(p, f)]
UsesLocksProperly ==
    [][\A f \in FileNos : Lock(f)!Next \/ UNCHANGED [p \in Kids |-> HeldMode(p, f)]]_vars
=============================================================================
