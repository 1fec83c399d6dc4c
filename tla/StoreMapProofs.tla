--------------------------- MODULE StoreMapProofs ---------------------------
(***************************************************************************)
(* Theorems about StoreMap, for any kids, purposes, keys, anchors, slices   *)
(* and bounds.                                                              *)
(***************************************************************************)
EXTENDS StoreMap, FiniteSetTheorems, TLAPS

Pcs == {"idle", "get", "cache", "update", "evict", "evictUnlocked", "reading", "copying",
        "writing", "appending", "stale"} \cup Updating

\* A chain consists of slices.
LEMMA ChainInSlices == ASSUME NEW s, NEW x PROVE Chain(s, x) \subseteq Slices
BY DEF Chain, ChainBy

\* Moving on to another control location keeps the types of op.
LEMMA GotoType ==
    ASSUME op \in [Kids -> Ops], NEW p \in Kids, NEW pc \in Pcs
    PROVE  /\ [op EXCEPT ![p].pc = pc] \in [Kids -> Ops]
           /\ [op EXCEPT ![p].pc = pc][p] = [op[p] EXCEPT !.pc = pc]
           /\ \A q \in Kids \ {p} : [op EXCEPT ![p].pc = pc][q] = op[q]
BY DEF Ops, Pcs

\* A kid that does nothing has local variables of the right types.
LEMMA IdleType == StoreMapAssumption => Idle \in Ops
BY DEF StoreMapAssumption, Idle, Ops, FileNos

\* A rewound anchor (StoreMapAnchor::rewind()) is an anchor.
LEMMA RewoundType == StoreMapAssumption => Rewound \in Anchors
BY DEF StoreMapAssumption, Rewound, Anchors

\* The empty map has the right types.
LEMMA InitType == Init => TypeOK
<1> SUFFICES ASSUME Init PROVE TypeOK
    OBVIOUS
<1>1. Idle \in Ops /\ Rewound \in Anchors
    BY StoreMapAssumption, IdleType, RewoundType
<1>2. /\ anchors \in [FileNos -> Anchors]
      /\ op \in [Kids -> Ops]
      /\ fileNos \in [FileNos -> FileNos]
      /\ next \in [Slices -> Slices \cup {None}]
      /\ freeSlots \subseteq Slices
    BY <1>1 DEF Init
<1>3. /\ count \in Int
      /\ made \in 0 .. MaxEntries
      /\ evicted \in [Keys -> SUBSET (0 .. MaxEntries)]
    BY StoreMapAssumption DEF Init, StoreMapAssumption
<1>4. doubleFree \in BOOLEAN
    BY DEF Init
<1>5. \A p \in Kids : op[p].pc = "idle"
    BY DEF Init, Idle
<1> QED
    BY <1>2, <1>3, <1>4, <1>5 DEF TypeOK

-----------------------------------------------------------------------------
(* The inductive invariant *)

HoldsAny(p, f) == Shared(p, f) \/ Exclusive(p, f) \/ Appending(p, f)

\* No other kid holds a lock of anchor f.
Alone(p, f) == \A q \in Kids \ {p} : ~HoldsAny(q, f)

\* What the locks of the anchors are for, by what the kids are doing: a writer
\* is alone, one that appends shares with readers only, headers are updated by
\* one kid, and an updater has two anchors.
LocksExclude ==
    /\ \A p \in Kids, f \in FileNos : Exclusive(p, f) => Alone(p, f)
    /\ \A p, q \in Kids, f \in FileNos :
          p # q /\ Appending(p, f) => ~Exclusive(q, f) /\ ~Appending(q, f)
    /\ \A p, q \in Kids, f \in FileNos :
          HoldsHeaders(p, f) /\ HoldsHeaders(q, f) => p = q
    /\ \A p \in Kids :
          op[p].pc \in ({"fresh", "prefixed"} \cup FreshShared) => op[p].fresh # op[p].file

IInv == TypeOK /\ LocksExclude /\ HeldEntryIsKept

\* What a step of kid p may do to locks and keys: others go on with what they
\* are doing, p takes only locks that are free, and changes the key of an anchor
\* only if nobody else holds it.
OthersStay(p) == \A q \in Kids \ {p} : op'[q] = op[q]

LocksGranted(p) ==
    \A f \in FileNos :
        /\ Exclusive(p, f)' => Exclusive(p, f) \/ MayLockExclusive(f)
        /\ Appending(p, f)' => Appending(p, f) \/ Exclusive(p, f)
        /\ Shared(p, f)' => Shared(p, f) \/ MayLockShared(f) \/ Exclusive(p, f)
        /\ HoldsHeaders(p, f)' => HoldsHeaders(p, f) \/ (MayLockHeaders(f) /\ Shared(p, f))
        /\ HoldsHeaders(p, f) /\ Shared(p, f)' => HoldsHeaders(p, f)'

TwoAnchors(p) ==
    op[p].pc \in ({"fresh", "prefixed"} \cup FreshShared) => op[p].fresh # op[p].file

KeysStay(p) == \A f \in FileNos : anchors'[f].key = anchors[f].key \/ Alone(p, f)

OwnEntry(p) ==
    /\ op[p].pc \in ({"reading", "copying", "writing", "appending", "stale"} \cup Updating) =>
          anchors[op[p].file].key = op[p].key
    /\ op[p].pc \in ({"fresh", "prefixed"} \cup FreshShared) =>
          anchors[op[p].fresh].key = op[p].key

\* Locks that a kid does not touch are as they were.
LEMMA OthersLocks ==
    ASSUME NEW p \in Kids, OthersStay(p), NEW q \in Kids \ {p}, NEW f
    PROVE  /\ Exclusive(q, f)' <=> Exclusive(q, f)
           /\ Appending(q, f)' <=> Appending(q, f)
           /\ Shared(q, f)' <=> Shared(q, f)
           /\ HoldsHeaders(q, f)' <=> HoldsHeaders(q, f)
BY DEF OthersStay, Exclusive, Appending, Shared, HoldsHeaders

\* Who may lock exclusively is alone, and holds nothing.
LEMMA MayLockAlone ==
    ASSUME NEW p \in Kids, NEW f, MayLockExclusive(f)
    PROVE  Alone(p, f) /\ ~HoldsAny(p, f)
BY DEF MayLockExclusive, Alone, HoldsAny

\* A step of one kid that takes only what the locks grant keeps them exclusive.
LEMMA StepKeepsLocks ==
    ASSUME LocksExclude, NEW p \in Kids, OthersStay(p), LocksGranted(p), TwoAnchors(p)'
    PROVE  LocksExclude'
<1>1. ASSUME NEW q \in Kids, NEW f \in FileNos, Exclusive(q, f)'
      PROVE  Alone(q, f)'
  <2> SUFFICES ASSUME NEW r \in Kids \ {q} PROVE ~HoldsAny(r, f)'
      BY DEF Alone
  <2>1. CASE q = p
    <3>1. Alone(p, f)
        BY <1>1, <2>1, MayLockAlone DEF LocksGranted, LocksExclude
    <3> QED BY <2>1, <3>1, OthersLocks DEF Alone, HoldsAny
  <2>2. CASE q # p /\ r = p
    <3>1. Exclusive(q, f)
        BY <1>1, <2>2, OthersLocks
    <3>2. ~HoldsAny(p, f)
        BY <2>2, <3>1 DEF LocksExclude, Alone
    <3>3. ~MayLockExclusive(f) /\ ~MayLockShared(f)
        BY <3>1 DEF MayLockExclusive, MayLockShared
    <3> QED BY <2>2, <3>2, <3>3 DEF LocksGranted, HoldsAny
  <2>3. CASE q # p /\ r # p
    <3>1. Exclusive(q, f)
        BY <1>1, <2>3, OthersLocks
    <3> QED BY <2>3, <3>1, OthersLocks DEF LocksExclude, Alone, HoldsAny
  <2> QED BY <2>1, <2>2, <2>3
<1>2. ASSUME NEW q \in Kids, NEW r \in Kids, NEW f \in FileNos, q # r, Appending(q, f)'
      PROVE  ~Exclusive(r, f)' /\ ~Appending(r, f)'
  <2>1. CASE q = p
    <3>1. Appending(p, f) \/ Exclusive(p, f)
        BY <1>2, <2>1 DEF LocksGranted
    <3>2. ~Exclusive(r, f) /\ ~Appending(r, f)
        BY <1>2, <2>1, <3>1 DEF LocksExclude, Alone, HoldsAny
    <3> QED BY <1>2, <2>1, <3>2, OthersLocks
  <2>2. CASE q # p /\ r = p
    <3>1. Appending(q, f)
        BY <1>2, <2>2, OthersLocks
    <3>2. ~Exclusive(p, f) /\ ~Appending(p, f)
        BY <2>2, <3>1 DEF LocksExclude
    <3>3. ~MayLockExclusive(f)
        BY <3>1 DEF MayLockExclusive
    <3> QED BY <2>2, <3>2, <3>3 DEF LocksGranted
  <2>3. CASE q # p /\ r # p
      BY <1>2, <2>3, OthersLocks DEF LocksExclude
  <2> QED BY <2>1, <2>2, <2>3
<1>3. ASSUME NEW q \in Kids, NEW r \in Kids, NEW f \in FileNos,
             HoldsHeaders(q, f)', HoldsHeaders(r, f)', q # r
      PROVE  FALSE
  <2>1. CASE q # p /\ r # p
      BY <1>3, <2>1, OthersLocks DEF LocksExclude
  <2>2. ASSUME NEW x \in Kids \ {p}, HoldsHeaders(p, f)', HoldsHeaders(x, f)'
        PROVE  FALSE
    <3>1. HoldsHeaders(x, f)
        BY <2>2, OthersLocks
    <3>2. ~MayLockHeaders(f)
        BY <3>1 DEF MayLockHeaders
    <3> QED BY <2>2, <3>1, <3>2 DEF LocksGranted, LocksExclude
  <2> QED BY <1>3, <2>1, <2>2
<1>4. ASSUME NEW q \in Kids,
             op'[q].pc \in ({"fresh", "prefixed"} \cup FreshShared)
      PROVE  op'[q].fresh # op'[q].file
  <2>1. CASE q = p
      BY <1>4, <2>1 DEF TwoAnchors, FreshShared
  <2>2. CASE q # p
      BY <1>4, <2>2 DEF OthersStay, LocksExclude
  <2> QED BY <2>1, <2>2
<1> QED BY <1>1, <1>2, <1>3, <1>4 DEF LocksExclude, FreshShared

\* A step of one kid that changes only keys of anchors nobody else holds keeps
\* the entries of the others.
LEMMA StepKeepsEntries ==
    ASSUME IInv, NEW p \in Kids, OthersStay(p), KeysStay(p), OwnEntry(p)'
    PROVE  HeldEntryIsKept'
<1> SUFFICES ASSUME NEW q \in Kids PROVE OwnEntry(q)'
    BY DEF HeldEntryIsKept, OwnEntry, Updating, FreshShared
<1>1. CASE q = p
    BY <1>1
<1>2. CASE q # p
  <2>1. op'[q] = op[q] /\ op[q] \in Ops
      BY <1>2 DEF OthersStay, IInv, TypeOK
  <2>2. OwnEntry(q)
      BY DEF IInv, HeldEntryIsKept, OwnEntry
  <2>3. op[q].file \in FileNos /\ op[q].fresh \in FileNos
      BY <2>1 DEF Ops
  <2>4. op[q].pc \in ({"reading", "copying", "writing", "appending", "stale"} \cup Updating) =>
            anchors'[op[q].file].key = anchors[op[q].file].key
      BY <1>2, <2>3 DEF KeysStay, Alone, HoldsAny, Shared, Exclusive, Appending
  <2>5. op[q].pc \in ({"fresh", "prefixed"} \cup FreshShared) =>
            anchors'[op[q].fresh].key = anchors[op[q].fresh].key
      BY <1>2, <2>3 DEF KeysStay, Alone, HoldsAny, Shared, Exclusive, Appending
  <2> QED BY <2>1, <2>2, <2>4, <2>5 DEF OwnEntry, Updating, FreshShared
<1> QED BY <1>1, <1>2

-----------------------------------------------------------------------------
(* What the parts of actions do *)

\* freeChain() keeps the types and touches the anchor it frees, no other.
LEMMA FreeChainEffect ==
    ASSUME TypeOK, NEW f \in FileNos, NEW a \in Anchors, FreeChain(f, a)
    PROVE  /\ anchors' \in [FileNos -> Anchors]
           /\ next' \in [Slices -> Slices \cup {None}]
           /\ freeSlots' \subseteq Slices
           /\ doubleFree' \in BOOLEAN
           /\ anchors'[f] = a
           /\ \A g \in FileNos \ {f} : anchors'[g] = anchors[g]
<1>1. anchors' = [anchors EXCEPT ![f] = a] /\ anchors \in [FileNos -> Anchors]
    BY DEF FreeChain, TypeOK
<1>2. next' \in [Slices -> Slices \cup {None}]
    BY DEF FreeChain, TypeOK
<1>3. OwnSlices(f) \subseteq Slices
    BY ChainInSlices DEF OwnSlices
<1>4. freeSlots' \subseteq Slices
    BY <1>3 DEF FreeChain, TypeOK
<1>5. doubleFree' \in BOOLEAN
    BY DEF FreeChain
<1> QED BY <1>1, <1>2, <1>4, <1>5

\* Marking an anchor changes nothing else.
LEMMA MarkEffect ==
    ASSUME anchors \in [FileNos -> Anchors], NEW f \in FileNos,
           anchors' = [anchors EXCEPT ![f] = Mark(@)]
    PROVE  /\ anchors' \in [FileNos -> Anchors]
           /\ \A g \in FileNos : anchors'[g].key = anchors[g].key
BY DEF Mark, Anchors

\* A slice is linked to the chain of f; at most an entry that nobody has
\* locked loses its anchor.
LEMMA ReserveSliceEffect ==
    ASSUME TypeOK, NEW p \in Kids, NEW f \in FileNos, NEW s \in Slices, ReserveSlice(p, f, s)
    PROVE  /\ anchors' \in [FileNos -> Anchors]
           /\ next' \in [Slices -> Slices \cup {None}]
           /\ freeSlots' \subseteq Slices
           /\ count' \in Int
           /\ doubleFree' \in BOOLEAN
           /\ \A g \in FileNos : anchors'[g].key = anchors[g].key \/ MayLockExclusive(g)
<1> DEFINE linked == IF anchors[f].start = None THEN [anchors EXCEPT ![f].start = s] ELSE anchors
           Link(nexts) == IF anchors[f].start = None THEN nexts
                          ELSE [nexts EXCEPT ![LastSlice(f)] = s]
<1>1. /\ linked \in [FileNos -> Anchors]
      /\ \A g \in FileNos : linked[g].key = anchors[g].key
    BY DEF TypeOK, Anchors
<1>2. \A nexts \in [Slices -> Slices \cup {None}] : Link(nexts) \in [Slices -> Slices \cup {None}]
    OBVIOUS
<1>3. CASE /\ s \in freeSlots
           /\ freeSlots' = freeSlots \ {s}
           /\ anchors' = linked /\ next' = Link(next)
           /\ UNCHANGED <<count, doubleFree>>
  <2>1. next' \in [Slices -> Slices \cup {None}]
      BY <1>2, <1>3 DEF TypeOK
  <2> HIDE DEF linked, Link
  <2> QED BY <1>1, <1>3, <2>1 DEF TypeOK
<1>4. ASSUME NEW n \in FileNos,
             MayLockExclusive(fileNos[n]),
             anchors' = [linked EXCEPT ![fileNos[n]] = Rewound],
             next' = Link([r \in Slices |-> IF r \in OwnSlices(fileNos[n]) THEN None ELSE next[r]]),
             freeSlots' = (freeSlots \cup OwnSlices(fileNos[n])) \ {s},
             doubleFree' = (doubleFree \/ OwnSlices(fileNos[n]) \cap freeSlots # {}),
             CountDown(1)
      PROVE  /\ anchors' \in [FileNos -> Anchors]
             /\ next' \in [Slices -> Slices \cup {None}]
             /\ freeSlots' \subseteq Slices
             /\ count' \in Int
             /\ doubleFree' \in BOOLEAN
             /\ \A g \in FileNos : anchors'[g].key = anchors[g].key \/ MayLockExclusive(g)
  <2>1. fileNos[n] \in FileNos /\ Rewound \in Anchors
      BY StoreMapAssumption, RewoundType DEF TypeOK
  <2>2. [r \in Slices |-> IF r \in OwnSlices(fileNos[n]) THEN None ELSE next[r]]
            \in [Slices -> Slices \cup {None}]
      BY DEF TypeOK
  <2>3. next' \in [Slices -> Slices \cup {None}]
      BY <1>2, <1>4, <2>2
  <2>4. freeSlots' \subseteq Slices
      BY <1>4, ChainInSlices DEF OwnSlices, TypeOK
  <2>5. count' \in Int
      BY <1>4 DEF CountDown, TypeOK
  <2>6. doubleFree' \in BOOLEAN
      BY <1>4 DEF TypeOK
  <2> HIDE DEF linked, Link
  <2>7. /\ anchors' \in [FileNos -> Anchors]
        /\ \A g \in FileNos : anchors'[g].key = anchors[g].key \/ MayLockExclusive(g)
      BY <1>1, <1>4, <2>1
  <2> QED BY <2>3, <2>4, <2>5, <2>6, <2>7
<1> QED BY <1>3, <1>4 DEF ReserveSlice

\* openForWritingAt() replaces the anchor it could lock exclusively, no other.
LEMMA OpenForWritingEffect ==
    ASSUME TypeOK, NEW f \in FileNos, NEW a \in Anchors, OpenForWritingAt(f, a)
    PROVE  /\ anchors' \in [FileNos -> Anchors]
           /\ next' \in [Slices -> Slices \cup {None}]
           /\ freeSlots' \subseteq Slices
           /\ count' \in Int
           /\ doubleFree' \in BOOLEAN
           /\ fileNos' = fileNos
           /\ MayLockExclusive(f)
           /\ anchors'[f] = a
           /\ \A g \in FileNos \ {f} : anchors'[g] = anchors[g]
<1>1. MayLockExclusive(f) /\ FreeChain(f, a) /\ fileNos' = fileNos
    BY DEF OpenForWritingAt
<1>2. count' \in Int
    BY DEF OpenForWritingAt, CountDown, TypeOK
<1> QED BY <1>1, <1>2, FreeChainEffect

\* The part of TypeOK that is about what the kids are doing.
OpsOK == /\ op \in [Kids -> Ops]
         /\ \A p \in Kids : /\ op[p].pc # "idle" => op[p].key \in Keys
                            /\ op[p].pc = "prefixed" => op[p].splice \in Slices

\* Ending an operation lets locks go and takes none.
LEMMA FinishEffect ==
    ASSUME TypeOK, NEW p \in Kids, Finish(p)
    PROVE  OpsOK' /\ OthersStay(p) /\ LocksGranted(p) /\ TwoAnchors(p)' /\ OwnEntry(p)'
<1>1. Idle \in Ops /\ Idle.pc = "idle"
    BY StoreMapAssumption, IdleType DEF Idle
<1>2. op' \in [Kids -> Ops] /\ op'[p] = Idle /\ OthersStay(p)
    BY <1>1 DEF Finish, TypeOK, OthersStay
<1>3. OpsOK'
    BY <1>1, <1>2 DEF OpsOK, TypeOK, OthersStay
<1> QED BY <1>1, <1>2, <1>3 DEF LocksGranted, TwoAnchors, OwnEntry, Exclusive, Appending, Shared,
                                HoldsHeaders, Updating, FreshShared

\* Moving on keeps the key and the anchors of the operation.
LEMMA GotoEffect ==
    ASSUME TypeOK, NEW p \in Kids, NEW pc \in Pcs \ {"prefixed"}, op[p].pc # "idle", Goto(p, pc)
    PROVE  /\ OpsOK' /\ OthersStay(p)
           /\ op'[p].pc = pc /\ op'[p].key = op[p].key
           /\ op'[p].file = op[p].file /\ op'[p].fresh = op[p].fresh
<1>1. op' = [op EXCEPT ![p].pc = pc] /\ op \in [Kids -> Ops]
    BY DEF Goto, TypeOK
<1>2. op' \in [Kids -> Ops] /\ op'[p] = [op[p] EXCEPT !.pc = pc] /\ OthersStay(p)
    BY <1>1, GotoType DEF OthersStay
<1>3. /\ op'[p].pc = pc /\ op'[p].key = op[p].key
      /\ op'[p].file = op[p].file /\ op'[p].fresh = op[p].fresh
    BY <1>1, <1>2 DEF Ops
<1>4. OpsOK'
    BY <1>2, <1>3 DEF OpsOK, TypeOK, OthersStay
<1> QED BY <1>2, <1>3, <1>4

\* A victim that cannot be locked is forgotten; the updater stays with its entry.
LEMMA SkipVictimEffect ==
    ASSUME TypeOK, NEW p \in Kids, op[p].pc # "idle", SkipVictim(p)
    PROVE  /\ OpsOK' /\ OthersStay(p)
           /\ op'[p].pc = "headers" /\ op'[p].key = op[p].key
           /\ op'[p].file = op[p].file /\ op'[p].saw = op[p].saw
<1>1. op \in [Kids -> Ops] /\ op[p] \in Ops /\ op[p].key \in Keys /\ 0 \in FileNos
    BY StoreMapAssumption DEF TypeOK, StoreMapAssumption, FileNos
<1>2. /\ op'[p] = [op[p] EXCEPT !.pc = "headers", !.name = 0, !.fresh = 0]
      /\ OthersStay(p) /\ op' \in [Kids -> Ops]
    BY <1>1 DEF SkipVictim, OthersStay, Ops, Updating
<1>3. /\ op'[p].pc = "headers" /\ op'[p].key = op[p].key
      /\ op'[p].file = op[p].file /\ op'[p].saw = op[p].saw
    BY <1>1, <1>2 DEF Ops
<1> QED
    BY <1>1, <1>2, <1>3 DEF OpsOK, OthersStay, TypeOK

\* The conclusion of the lemmas on actions
Fine(p) == /\ TypeOK' /\ OthersStay(p) /\ LocksGranted(p) /\ TwoAnchors(p)'
           /\ KeysStay(p) /\ OwnEntry(p)'

Owns(p) == /\ op[p] \in Ops /\ op[p].file \in FileNos /\ op[p].fresh \in FileNos
           /\ OwnEntry(p) /\ TwoAnchors(p)

\* The invariant, for what one kid is working on.
LEMMA OwnsFacts == ASSUME IInv, NEW p \in Kids PROVE Owns(p)
<1>1. op[p] \in Ops
    BY DEF IInv, TypeOK
<1> QED BY <1>1 DEF Ops, IInv, HeldEntryIsKept, LocksExclude, OwnEntry, TwoAnchors, Owns

-----------------------------------------------------------------------------
(* The actions *)

\* Looking up the anchor of a key takes no lock.
LEMMA FindAnchorStep ==
    ASSUME IInv, NEW p \in Kids, NEW k \in Keys,
           NEW pc \in {"get", "cache", "evict", "update"}, FindAnchor(p, k, pc)
    PROVE  Fine(p)
<1> DEFINE new == [Idle EXCEPT !.pc = pc, !.key = k, !.file = fileNos[NameByKey[k]],
                               !.saw = IF pc = "evict" THEN made ELSE 0]
<1>1. fileNos[NameByKey[k]] \in FileNos /\ made \in 0 .. MaxEntries /\ 0 \in 0 .. MaxEntries
    BY StoreMapAssumption DEF StoreMapAssumption, IInv, TypeOK
<1>2. Idle \in Ops
    BY StoreMapAssumption, IdleType
<1>3. new \in Ops /\ new.pc = pc /\ new.key = k
    BY <1>1, <1>2 DEF Ops, Idle
<1>4. op' = [op EXCEPT ![p] = new] /\ op[p].pc = "idle"
    BY DEF FindAnchor
<1> HIDE DEF new
<1>5. op' \in [Kids -> Ops] /\ op'[p] = new /\ OthersStay(p)
    BY <1>3, <1>4 DEF IInv, TypeOK, OthersStay
<1>6. TypeOK'
    BY <1>3, <1>5 DEF FindAnchor, IInv, TypeOK, shared, OthersStay
<1>7. LocksGranted(p) /\ TwoAnchors(p)' /\ OwnEntry(p)'
    BY <1>3, <1>5 DEF LocksGranted, TwoAnchors, OwnEntry, Exclusive, Appending, Shared,
                      HoldsHeaders, Updating, FreshShared
<1>8. KeysStay(p)
    BY DEF FindAnchor, shared, KeysStay
<1> QED BY <1>5, <1>6, <1>7, <1>8 DEF Fine

\* GiveUp, CloseForReading and CompleteWriting only end an operation.
LEMMA FinishStep ==
    ASSUME IInv, NEW p \in Kids, Finish(p), UNCHANGED <<shared, made, evicted>>
    PROVE  Fine(p)
<1>1. OpsOK' /\ OthersStay(p) /\ LocksGranted(p) /\ TwoAnchors(p)' /\ OwnEntry(p)'
    BY FinishEffect DEF IInv
<1>2. TypeOK'
    BY <1>1 DEF IInv, TypeOK, OpsOK, shared
<1>3. KeysStay(p)
    BY DEF shared, KeysStay
<1> QED BY <1>1, <1>2, <1>3 DEF Fine

\* openForReadingAt() locks and checks the key before it keeps the entry.
LEMMA OpenForReadingStep ==
    ASSUME IInv, NEW p \in Kids, OpenForReadingAt(p)
    PROVE  Fine(p)
<1>1. Owns(p)
    BY OwnsFacts
<1>2. PICK pc \in {"stale", "reading", "copying"} : Goto(p, pc)
    BY DEF OpenForReadingAt
<1>3. /\ op[p].pc \in {"get", "update"}
      /\ MayLockShared(op[p].file) /\ anchors[op[p].file].key = op[p].key
      /\ UNCHANGED <<shared, made, evicted>>
    BY DEF OpenForReadingAt, Readable
<1>4. /\ OpsOK' /\ OthersStay(p)
      /\ op'[p].pc = pc /\ op'[p].key = op[p].key
      /\ op'[p].file = op[p].file /\ op'[p].fresh = op[p].fresh
    BY <1>2, <1>3, GotoEffect DEF IInv, Pcs
<1>5. TypeOK'
    BY <1>3, <1>4 DEF IInv, TypeOK, OpsOK, shared
<1>6. LocksGranted(p) /\ TwoAnchors(p)'
    BY <1>3, <1>4 DEF LocksGranted, TwoAnchors, Exclusive, Appending, Shared, HoldsHeaders,
                      Updating, FreshShared
<1>7. KeysStay(p) /\ OwnEntry(p)'
    BY <1>3, <1>4 DEF shared, KeysStay, OwnEntry, FreshShared
<1> QED BY <1>4, <1>5, <1>6, <1>7 DEF Fine

\* A reader that gives up an entry marks it and lets it go.
LEMMA LoadFailedStep ==
    ASSUME IInv, NEW p \in Kids, LoadFailed(p)
    PROVE  Fine(p)
<1>1. Owns(p)
    BY OwnsFacts
<1>2. OpsOK' /\ OthersStay(p) /\ LocksGranted(p) /\ TwoAnchors(p)' /\ OwnEntry(p)'
    BY FinishEffect DEF IInv, LoadFailed
<1>3. /\ anchors' \in [FileNos -> Anchors]
      /\ \A g \in FileNos : anchors'[g].key = anchors[g].key
    BY <1>1, MarkEffect DEF LoadFailed, Owns, IInv, TypeOK
<1>4. TypeOK'
    BY <1>2, <1>3 DEF LoadFailed, IInv, TypeOK, OpsOK
<1> QED BY <1>2, <1>3, <1>4 DEF Fine, KeysStay

\* set() makes an anchor with the given key.
LEMMA NewAnchorType ==
    ASSUME NEW k \in Keys, NEW id \in 0 .. MaxEntries, NEW u \in BOOLEAN, NEW m \in BOOLEAN
    PROVE  NewAnchor(k, id, u, m) \in Anchors /\ NewAnchor(k, id, u, m).key = k
BY StoreMapAssumption DEF NewAnchor, Rewound, Anchors, StoreMapAssumption

\* A writer gets its anchor exclusively, under its key.
LEMMA StartCachingStep ==
    ASSUME IInv, NEW p \in Kids, StartCaching(p)
    PROVE  Fine(p)
<1> DEFINE f == op[p].file
<1>1. Owns(p) /\ op[p].pc = "cache" /\ op[p].key \in Keys /\ made \in 0 .. MaxEntries
    BY OwnsFacts DEF StartCaching, IInv, TypeOK
<1>2. made' = made + 1 /\ made' \in 0 .. MaxEntries /\ evicted' = evicted /\ Goto(p, "writing")
    BY <1>1, StoreMapAssumption DEF StartCaching, StoreMapAssumption
<1>3. PICK marked \in BOOLEAN :
          OpenForWritingAt(f, NewAnchor(op[p].key, made + 1, FALSE, marked))
    BY DEF StartCaching
<1> DEFINE a == NewAnchor(op[p].key, made + 1, FALSE, marked)
<1>4. a \in Anchors /\ a.key = op[p].key
    BY <1>1, <1>2, NewAnchorType
<1> HIDE DEF a
<1>5. OpenForWritingAt(f, a)
    BY <1>3 DEF a
<1>6. f \in FileNos
    BY <1>1 DEF Owns
<1> HIDE DEF f
<1>7. /\ anchors' \in [FileNos -> Anchors]
      /\ next' \in [Slices -> Slices \cup {None}]
      /\ freeSlots' \subseteq Slices
      /\ count' \in Int
      /\ doubleFree' \in BOOLEAN
      /\ fileNos' = fileNos
      /\ MayLockExclusive(f)
      /\ anchors'[f] = a
      /\ \A g \in FileNos \ {f} : anchors'[g] = anchors[g]
    BY <1>4, <1>5, <1>6, OpenForWritingEffect DEF IInv
<1>8. /\ OpsOK' /\ OthersStay(p)
      /\ op'[p].pc = "writing" /\ op'[p].key = op[p].key /\ op'[p].file = f
    BY <1>1, <1>2, GotoEffect DEF IInv, Pcs, f
<1>9. TypeOK'
    BY <1>2, <1>7, <1>8 DEF IInv, TypeOK, OpsOK
<1>10. LocksGranted(p) /\ TwoAnchors(p)'
    BY <1>7, <1>8 DEF LocksGranted, TwoAnchors, Exclusive, Appending, Shared, HoldsHeaders,
                      Updating, FreshShared
<1>11. KeysStay(p)
    BY <1>7, MayLockAlone DEF KeysStay
<1>12. OwnEntry(p)'
    BY <1>4, <1>7, <1>8 DEF OwnEntry, FreshShared
<1> QED BY <1>8, <1>9, <1>10, <1>11, <1>12 DEF Fine

\* A writer that lets readers in keeps its anchor.
LEMMA StartAppendingStep ==
    ASSUME IInv, NEW p \in Kids, StartAppending(p)
    PROVE  Fine(p)
<1>1. Owns(p) /\ op[p].pc = "writing" /\ Goto(p, "appending") /\ UNCHANGED <<shared, made, evicted>>
    BY OwnsFacts DEF StartAppending
<1>2. /\ OpsOK' /\ OthersStay(p)
      /\ op'[p].pc = "appending" /\ op'[p].key = op[p].key /\ op'[p].file = op[p].file
    BY <1>1, GotoEffect DEF IInv, Pcs
<1>3. TypeOK'
    BY <1>1, <1>2 DEF IInv, TypeOK, OpsOK, shared
<1>4. LocksGranted(p) /\ TwoAnchors(p)'
    BY <1>1, <1>2 DEF LocksGranted, TwoAnchors, Exclusive, Appending, Shared, HoldsHeaders,
                      Updating, FreshShared
<1>5. KeysStay(p) /\ OwnEntry(p)'
    BY <1>1, <1>2 DEF shared, KeysStay, OwnEntry, Owns, FreshShared
<1> QED BY <1>2, <1>3, <1>4, <1>5 DEF Fine

\* A writer that purges for a slice does not purge its own entry.
LEMMA CopyToShmStep ==
    ASSUME IInv, NEW p \in Kids, CopyToShm(p)
    PROVE  Fine(p)
<1>1. Owns(p) /\ op[p].pc \in {"writing", "appending"} /\ UNCHANGED <<fileNos, op, made, evicted>>
    BY OwnsFacts DEF CopyToShm
<1>2. PICK s \in Slices : ReserveSlice(p, op[p].file, s)
    BY DEF CopyToShm
<1>3. /\ anchors' \in [FileNos -> Anchors]
      /\ next' \in [Slices -> Slices \cup {None}]
      /\ freeSlots' \subseteq Slices
      /\ count' \in Int
      /\ doubleFree' \in BOOLEAN
      /\ \A g \in FileNos : anchors'[g].key = anchors[g].key \/ MayLockExclusive(g)
    BY <1>1, <1>2, ReserveSliceEffect DEF IInv, Owns
<1>4. TypeOK'
    BY <1>1, <1>3 DEF IInv, TypeOK
<1>5. OthersStay(p) /\ LocksGranted(p) /\ TwoAnchors(p)'
    BY <1>1 DEF OthersStay, LocksGranted, TwoAnchors, Exclusive, Appending, Shared, HoldsHeaders,
                FreshShared
<1>6. KeysStay(p)
    BY <1>3, MayLockAlone DEF KeysStay
<1>7. ~MayLockExclusive(op[p].file)
    BY <1>1 DEF MayLockExclusive, Exclusive, Appending
<1>8. OwnEntry(p)'
    BY <1>1, <1>3, <1>7 DEF OwnEntry, Owns, FreshShared
<1> QED BY <1>4, <1>5, <1>6, <1>8 DEF Fine

\* An exclusively locked entry, or one that its writer alone has open, is
\* freed at the end of an operation.
LEMMA FreeAndFinishStep ==
    ASSUME IInv, NEW p \in Kids, NEW f \in FileNos, FreeChain(f, Rewound), CountDown(1),
           Finish(p), Alone(p, f), made' = made, fileNos' = fileNos,
           evicted' \in [Keys -> SUBSET (0 .. MaxEntries)]
    PROVE  Fine(p)
<1>1. OpsOK' /\ OthersStay(p) /\ LocksGranted(p) /\ TwoAnchors(p)' /\ OwnEntry(p)'
    BY FinishEffect DEF IInv
<1>2. /\ anchors' \in [FileNos -> Anchors]
      /\ next' \in [Slices -> Slices \cup {None}]
      /\ freeSlots' \subseteq Slices
      /\ doubleFree' \in BOOLEAN
      /\ \A g \in FileNos \ {f} : anchors'[g] = anchors[g]
    BY StoreMapAssumption, RewoundType, FreeChainEffect DEF IInv
<1>3. count' \in Int
    BY DEF CountDown, IInv, TypeOK
<1>4. TypeOK'
    BY <1>1, <1>2, <1>3 DEF IInv, TypeOK, OpsOK
<1>5. KeysStay(p)
    BY <1>2 DEF KeysStay
<1> QED BY <1>1, <1>4, <1>5 DEF Fine

\* A mark is all that is left of an operation.
LEMMA MarkAndFinishStep ==
    ASSUME IInv, NEW p \in Kids, Finish(p), anchors' \in [FileNos -> Anchors],
           \A g \in FileNos : anchors'[g].key = anchors[g].key,
           UNCHANGED <<next, freeSlots, fileNos, count, made, doubleFree>>,
           evicted' \in [Keys -> SUBSET (0 .. MaxEntries)]
    PROVE  Fine(p)
<1>1. OpsOK' /\ OthersStay(p) /\ LocksGranted(p) /\ TwoAnchors(p)' /\ OwnEntry(p)'
    BY FinishEffect DEF IInv
<1>2. TypeOK'
    BY <1>1 DEF IInv, TypeOK, OpsOK
<1> QED BY <1>1, <1>2 DEF Fine, KeysStay

\* An aborted writer frees its entry when alone, and marks it otherwise.
LEMMA AbortWritingStep ==
    ASSUME IInv, NEW p \in Kids, AbortWriting(p)
    PROVE  Fine(p)
<1> DEFINE f == op[p].file
<1>1. f \in FileNos
    BY OwnsFacts DEF Owns
<1>2. Finish(p) /\ fileNos' = fileNos /\ made' = made /\ evicted' = evicted
    BY DEF AbortWriting
<1>3. evicted' \in [Keys -> SUBSET (0 .. MaxEntries)]
    BY <1>2 DEF IInv, TypeOK
<1>4. CASE /\ op[p].pc = "writing" \/ (op[p].pc = "appending" /\ ~\E q \in Kids : Shared(q, f))
           /\ FreeChain(f, Rewound) /\ CountDown(1)
  <2>1. Exclusive(p, f) \/ (Appending(p, f) /\ ~\E q \in Kids : Shared(q, f))
      BY <1>4 DEF Exclusive, Appending
  <2>2. Alone(p, f)
      BY <1>1, <2>1 DEF IInv, LocksExclude, Alone, HoldsAny
  <2> HIDE DEF f
  <2> QED BY <1>1, <1>2, <1>3, <1>4, <2>2, FreeAndFinishStep
<1>5. CASE /\ op[p].pc = "appending"
           /\ Halt(f)
           /\ UNCHANGED <<next, freeSlots, count, doubleFree>>
  <2> DEFINE m == [Mark(anchors[f]) EXCEPT !.writerHalted = TRUE]
  <2>1. anchors[f] \in Anchors /\ anchors \in [FileNos -> Anchors]
      BY <1>1 DEF IInv, TypeOK
  <2>2. Mark(anchors[f]) \in Anchors /\ Mark(anchors[f]).key = anchors[f].key
      BY <2>1 DEF Mark, Anchors
  <2>3. m \in Anchors /\ m.key = anchors[f].key
      BY <2>2 DEF Anchors
  <2>4. anchors' = [anchors EXCEPT ![f] = m]
      BY <1>5 DEF Halt
  <2> HIDE DEF m, f
  <2>5. /\ anchors' \in [FileNos -> Anchors]
        /\ \A g \in FileNos : anchors'[g].key = anchors[g].key
      BY <1>1, <2>1, <2>3, <2>4
  <2> QED BY <1>2, <1>3, <1>5, <2>5, MarkAndFinishStep
<1> QED BY <1>4, <1>5 DEF AbortWriting

\* Marking an entry one has open changes no key.
LEMMA EvictCachedStep ==
    ASSUME IInv, NEW p \in Kids, EvictCached(p)
    PROVE  Fine(p)
<1>1. Owns(p) /\ op[p].pc \in {"reading", "writing", "appending"} /\ op[p].key \in Keys
    BY OwnsFacts DEF EvictCached, IInv, TypeOK
<1>2. UNCHANGED <<next, freeSlots, fileNos, count, op, made, doubleFree>>
    BY DEF EvictCached
<1>3. /\ anchors' \in [FileNos -> Anchors]
      /\ \A g \in FileNos : anchors'[g].key = anchors[g].key
    BY <1>1, MarkEffect DEF EvictCached, Owns, IInv, TypeOK
<1>4. anchors[op[p].file].id \in 0 .. MaxEntries
    BY <1>1 DEF Owns, IInv, TypeOK, Anchors
<1>5. evicted' \in [Keys -> SUBSET (0 .. MaxEntries)]
    BY <1>4 DEF EvictCached, IInv, TypeOK
<1>6. TypeOK'
    BY <1>2, <1>3, <1>5 DEF IInv, TypeOK
<1>7. OthersStay(p) /\ LocksGranted(p) /\ TwoAnchors(p)'
    BY <1>1, <1>2 DEF OthersStay, LocksGranted, TwoAnchors, Exclusive, Appending, Shared,
                      HoldsHeaders, FreshShared, Updating
<1>8. KeysStay(p) /\ OwnEntry(p)'
    BY <1>1, <1>2, <1>3 DEF KeysStay, OwnEntry, Owns, FreshShared
<1> QED BY <1>6, <1>7, <1>8 DEF Fine

\* The record of evictions keeps its type.
LEMMA EvictedType ==
    ASSUME IInv, NEW p \in Kids, op[p].pc # "idle", Evicted(p)
    PROVE  evicted' \in [Keys -> SUBSET (0 .. MaxEntries)] /\ Finish(p)
<1>1. op[p].saw \in 0 .. MaxEntries /\ op[p].key \in Keys
    BY OwnsFacts DEF Owns, Ops, IInv, TypeOK
<1>2. 1 .. op[p].saw \subseteq 0 .. MaxEntries
    BY <1>1, StoreMapAssumption DEF StoreMapAssumption
<1>3. /\ evicted' = [evicted EXCEPT ![op[p].key] = @ \cup ((1 .. op[p].saw) \ MovedAway(p))]
      /\ evicted \in [Keys -> SUBSET (0 .. MaxEntries)] /\ Finish(p)
    BY DEF Evicted, IInv, TypeOK
<1> QED BY <1>1, <1>2, <1>3

\* freeEntryByKey() frees under the exclusive lock, and marks otherwise.
LEMMA FreeEntryByKeyStep ==
    ASSUME IInv, NEW p \in Kids, FreeEntryByKey(p)
    PROVE  Fine(p)
<1> DEFINE f == op[p].file
<1>1. f \in FileNos /\ op[p].pc = "evict" /\ UNCHANGED <<fileNos, made>>
    BY OwnsFacts DEF Owns, FreeEntryByKey
<1>2. CASE MayLockExclusive(f) /\ FreeChain(f, Rewound) /\ CountDown(1) /\ Evicted(p)
  <2>1. evicted' \in [Keys -> SUBSET (0 .. MaxEntries)] /\ Finish(p)
      BY <1>1, <1>2, EvictedType
  <2>2. Alone(p, f)
      BY <1>2, MayLockAlone
  <2> HIDE DEF f
  <2> QED BY <1>1, <1>2, <2>1, <2>2, FreeAndFinishStep
<1>3. CASE /\ anchors' = [anchors EXCEPT ![f] = Mark(@)]
           /\ Evicted(p)
           /\ UNCHANGED <<next, freeSlots, count, doubleFree>>
  <2>1. evicted' \in [Keys -> SUBSET (0 .. MaxEntries)] /\ Finish(p)
      BY <1>1, <1>3, EvictedType
  <2>2. /\ anchors' \in [FileNos -> Anchors]
        /\ \A g \in FileNos : anchors'[g].key = anchors[g].key
      BY <1>1, <1>3, MarkEffect DEF IInv, TypeOK
  <2> QED BY <1>1, <1>3, <2>1, <2>2, MarkAndFinishStep
<1>4. CASE /\ Goto(p, "evictUnlocked")
           /\ UNCHANGED <<anchors, next, freeSlots, count, evicted, doubleFree>>
  <2>1. OpsOK' /\ OthersStay(p) /\ op'[p].pc = "evictUnlocked"
      BY <1>1, <1>4, GotoEffect DEF IInv, Pcs
  <2>2. TypeOK'
      BY <1>1, <1>4, <2>1 DEF IInv, TypeOK, OpsOK
  <2>3. LocksGranted(p) /\ TwoAnchors(p)' /\ OwnEntry(p)' /\ KeysStay(p)
      BY <1>4, <2>1 DEF LocksGranted, TwoAnchors, OwnEntry, KeysStay, Exclusive, Appending, Shared,
                        HoldsHeaders, Updating, FreshShared
  <2> QED BY <2>1, <2>2, <2>3 DEF Fine
<1>5. CASE /\ Evicted(p)
           /\ UNCHANGED <<anchors, next, freeSlots, count, doubleFree>>
  <2>1. evicted' \in [Keys -> SUBSET (0 .. MaxEntries)] /\ Finish(p)
      BY <1>1, <1>5, EvictedType
  <2> QED BY <1>1, <1>5, <2>1, MarkAndFinishStep DEF IInv, TypeOK
<1> QED BY <1>2, <1>3, <1>4, <1>5 DEF FreeEntryByKey

\* The mark without a lock changes no key, whatever entry it hits.
LEMMA MarkUnlockedStep ==
    ASSUME IInv, NEW p \in Kids, MarkUnlocked(p)
    PROVE  Fine(p)
<1>1. op[p].file \in FileNos /\ op[p].pc = "evictUnlocked"
    BY OwnsFacts DEF Owns, MarkUnlocked
<1>2. evicted' \in [Keys -> SUBSET (0 .. MaxEntries)] /\ Finish(p)
    BY <1>1, EvictedType DEF MarkUnlocked
<1>3. /\ anchors' \in [FileNos -> Anchors]
      /\ \A g \in FileNos : anchors'[g].key = anchors[g].key
    BY <1>1, MarkEffect DEF MarkUnlocked, IInv, TypeOK
<1> QED BY <1>2, <1>3, MarkAndFinishStep DEF MarkUnlocked

\* The headers lock is taken on top of the shared one, or both are dropped.
LEMMA LockHeadersStep ==
    ASSUME IInv, NEW p \in Kids, LockHeaders(p)
    PROVE  Fine(p)
<1>1. Owns(p) /\ op[p].pc = "stale" /\ UNCHANGED <<shared, made, evicted>>
    BY OwnsFacts DEF LockHeaders
<1>2. CASE MayLockHeaders(op[p].file) /\ Goto(p, "headers")
  <2>1. /\ OpsOK' /\ OthersStay(p)
        /\ op'[p].pc = "headers" /\ op'[p].key = op[p].key /\ op'[p].file = op[p].file
      BY <1>1, <1>2, GotoEffect DEF IInv, Pcs, Updating
  <2>2. TypeOK'
      BY <1>1, <2>1 DEF IInv, TypeOK, OpsOK, shared
  <2>3. LocksGranted(p) /\ TwoAnchors(p)'
      BY <1>1, <1>2, <2>1 DEF LocksGranted, TwoAnchors, Exclusive, Appending, Shared, HoldsHeaders,
                              Updating, FreshShared
  <2>4. KeysStay(p) /\ OwnEntry(p)'
      BY <1>1, <2>1 DEF shared, KeysStay, OwnEntry, Owns, FreshShared, Updating
  <2> QED BY <2>1, <2>2, <2>3, <2>4 DEF Fine
<1>3. CASE Finish(p)
    BY <1>1, <1>3, FinishStep
<1> QED BY <1>2, <1>3 DEF LockHeaders

\* The name of a victim is read without a lock.
LEMMA FindVictimStep ==
    ASSUME IInv, NEW p \in Kids, FindVictim(p)
    PROVE  Fine(p)
<1>1. Owns(p) /\ op[p].pc = "headers" /\ op[p].key \in Keys /\ UNCHANGED <<shared, made, evicted>>
    BY OwnsFacts DEF FindVictim, IInv, TypeOK
<1>2. PICK n \in FileNos :
          op' = [op EXCEPT ![p].pc = "victim", ![p].name = n, ![p].fresh = fileNos[n]]
    BY DEF FindVictim
<1> DEFINE new == [[[op[p] EXCEPT !.pc = "victim"] EXCEPT !.name = n] EXCEPT !.fresh = fileNos[n]]
<1>3. fileNos[n] \in FileNos
    BY DEF IInv, TypeOK
<1>4. /\ new \in Ops /\ new.pc = "victim" /\ new.key = op[p].key /\ new.file = op[p].file
    BY <1>1, <1>3 DEF Owns, Ops, Updating
<1>5. op' = [op EXCEPT ![p] = new]
    BY <1>2 DEF IInv, TypeOK
<1> HIDE DEF new
<1>6. op' \in [Kids -> Ops] /\ op'[p] = new /\ OthersStay(p)
    BY <1>4, <1>5 DEF IInv, TypeOK, OthersStay
<1>7. TypeOK'
    BY <1>1, <1>4, <1>6 DEF IInv, TypeOK, OthersStay, shared
<1>8. LocksGranted(p) /\ TwoAnchors(p)'
    BY <1>1, <1>4, <1>6 DEF LocksGranted, TwoAnchors, Exclusive, Appending, Shared, HoldsHeaders,
                            Updating, FreshShared
<1>9. KeysStay(p) /\ OwnEntry(p)'
    BY <1>1, <1>4, <1>6 DEF shared, KeysStay, OwnEntry, Owns, FreshShared, Updating
<1> QED BY <1>6, <1>7, <1>8, <1>9 DEF Fine

\* An updater's fresh anchor is locked exclusively and is not its stale one.
LEMMA OpenKeylessStep ==
    ASSUME IInv, NEW p \in Kids, OpenKeyless(p)
    PROVE  Fine(p)
<1> DEFINE f == op[p].fresh
<1>1. Owns(p) /\ op[p].pc = "victim" /\ op[p].key \in Keys /\ UNCHANGED <<made, evicted>>
    BY OwnsFacts DEF OpenKeyless, IInv, TypeOK
<1>2. f \in FileNos /\ op[p].file \in FileNos
    BY <1>1 DEF Owns
<1>3. ASSUME NEW marked \in BOOLEAN, Goto(p, "fresh"),
             OpenForWritingAt(f, NewAnchor(op[p].key, anchors[op[p].file].id, TRUE, marked))
      PROVE  Fine(p)
  <2> DEFINE a == NewAnchor(op[p].key, anchors[op[p].file].id, TRUE, marked)
  <2>1. anchors[op[p].file].id \in 0 .. MaxEntries
      BY <1>2 DEF IInv, TypeOK, Anchors
  <2>2. a \in Anchors /\ a.key = op[p].key
      BY <1>1, <2>1, NewAnchorType
  <2> HIDE DEF a
  <2>3. OpenForWritingAt(f, a)
      BY <1>3 DEF a
  <2> HIDE DEF f
  <2>4. /\ anchors' \in [FileNos -> Anchors]
        /\ next' \in [Slices -> Slices \cup {None}]
        /\ freeSlots' \subseteq Slices
        /\ count' \in Int
        /\ doubleFree' \in BOOLEAN
        /\ fileNos' = fileNos
        /\ MayLockExclusive(f)
        /\ anchors'[f] = a
        /\ \A g \in FileNos \ {f} : anchors'[g] = anchors[g]
      BY <1>2, <2>2, <2>3, OpenForWritingEffect DEF IInv
  <2>5. /\ OpsOK' /\ OthersStay(p)
        /\ op'[p].pc = "fresh" /\ op'[p].key = op[p].key
        /\ op'[p].file = op[p].file /\ op'[p].fresh = f
      BY <1>1, <1>3, GotoEffect DEF IInv, Pcs, Updating, f
  <2>6. TypeOK'
      BY <1>1, <2>4, <2>5 DEF IInv, TypeOK, OpsOK
  <2>7. f # op[p].file
    <3>1. Shared(p, op[p].file)
        BY <1>1 DEF Shared, Updating
    <3> QED BY <2>4, <3>1 DEF MayLockExclusive
  <2>8. LocksGranted(p) /\ TwoAnchors(p)'
      BY <1>1, <2>4, <2>5, <2>7 DEF LocksGranted, TwoAnchors, Exclusive, Appending, Shared,
                                    HoldsHeaders, Updating, FreshShared
  <2>9. KeysStay(p)
      BY <2>4, MayLockAlone DEF KeysStay
  <2>10. OwnEntry(p)'
      BY <1>1, <1>2, <2>2, <2>4, <2>5, <2>7 DEF OwnEntry, Owns, FreshShared, Updating
  <2> QED BY <2>5, <2>6, <2>8, <2>9, <2>10 DEF Fine
<1>4. CASE SkipVictim(p) /\ UNCHANGED shared
  <2>1. /\ OpsOK' /\ OthersStay(p)
        /\ op'[p].pc = "headers" /\ op'[p].key = op[p].key /\ op'[p].file = op[p].file
      BY <1>1, <1>4, SkipVictimEffect DEF IInv
  <2>2. TypeOK'
      BY <1>1, <1>4, <2>1 DEF IInv, TypeOK, OpsOK, shared
  <2>3. LocksGranted(p) /\ TwoAnchors(p)'
      BY <1>1, <2>1 DEF LocksGranted, TwoAnchors, Exclusive, Appending, Shared, HoldsHeaders,
                        Updating, FreshShared
  <2>4. KeysStay(p) /\ OwnEntry(p)'
      BY <1>1, <1>4, <2>1 DEF shared, KeysStay, OwnEntry, Owns, FreshShared, Updating
  <2> QED BY <2>1, <2>2, <2>3, <2>4 DEF Fine
<1> QED BY <1>3, <1>4 DEF OpenKeyless

\* An updater writes part of the fresh prefix.
LEMMA ExtendPrefixStep ==
    ASSUME IInv, NEW p \in Kids, ExtendPrefix(p)
    PROVE  Fine(p)
<1>1. Owns(p) /\ op[p].pc = "fresh" /\ UNCHANGED <<fileNos, op, made, evicted>>
    BY OwnsFacts DEF ExtendPrefix
<1>2. PICK s \in Slices : ReserveSlice(p, op[p].fresh, s)
    BY DEF ExtendPrefix
<1>3. /\ anchors' \in [FileNos -> Anchors]
      /\ next' \in [Slices -> Slices \cup {None}]
      /\ freeSlots' \subseteq Slices
      /\ count' \in Int
      /\ doubleFree' \in BOOLEAN
      /\ \A g \in FileNos : anchors'[g].key = anchors[g].key \/ MayLockExclusive(g)
    BY <1>1, <1>2, ReserveSliceEffect DEF IInv, Owns
<1>4. TypeOK'
    BY <1>1, <1>3 DEF IInv, TypeOK
<1>5. OthersStay(p) /\ LocksGranted(p) /\ TwoAnchors(p)'
    BY <1>1 DEF OthersStay, LocksGranted, TwoAnchors, Owns, Exclusive, Appending, Shared, HoldsHeaders,
                FreshShared, Updating
<1>6. KeysStay(p)
    BY <1>3, MayLockAlone DEF KeysStay
<1>7. ~MayLockExclusive(op[p].file) /\ ~MayLockExclusive(op[p].fresh)
    BY <1>1 DEF MayLockExclusive, Exclusive, Shared, Updating
<1>8. OwnEntry(p)'
    BY <1>1, <1>3, <1>7 DEF OwnEntry, Owns, FreshShared, Updating
<1> QED BY <1>4, <1>5, <1>6, <1>8 DEF Fine

\* Once the fresh prefix is written, the updater knows where to splice it.
LEMMA WritePrefixStep ==
    ASSUME IInv, NEW p \in Kids, WritePrefix(p)
    PROVE  Fine(p)
<1>1. Owns(p) /\ op[p].pc = "fresh" /\ op[p].key \in Keys /\ UNCHANGED <<fileNos, made, evicted>>
    BY OwnsFacts DEF WritePrefix, IInv, TypeOK
<1>2. PICK s \in Slices : ReserveSlice(p, op[p].fresh, s)
    BY DEF WritePrefix
<1>3. PICK x \in WholeChain(op[p].file) : op' = [op EXCEPT ![p].pc = "prefixed", ![p].splice = x]
    BY DEF WritePrefix
<1>4. x \in Slices
    BY ChainInSlices DEF WholeChain
<1> DEFINE new == [[op[p] EXCEPT !.pc = "prefixed"] EXCEPT !.splice = x]
<1>5. /\ new \in Ops /\ new.pc = "prefixed" /\ new.splice = x
      /\ new.key = op[p].key /\ new.file = op[p].file /\ new.fresh = op[p].fresh
    BY <1>1, <1>4 DEF Owns, Ops, Updating
<1>6. op' = [op EXCEPT ![p] = new]
    BY <1>3 DEF IInv, TypeOK
<1> HIDE DEF new
<1>7. op' \in [Kids -> Ops] /\ op'[p] = new /\ OthersStay(p)
    BY <1>5, <1>6 DEF IInv, TypeOK, OthersStay
<1>8. /\ anchors' \in [FileNos -> Anchors]
      /\ next' \in [Slices -> Slices \cup {None}]
      /\ freeSlots' \subseteq Slices
      /\ count' \in Int
      /\ doubleFree' \in BOOLEAN
      /\ \A g \in FileNos : anchors'[g].key = anchors[g].key \/ MayLockExclusive(g)
    BY <1>1, <1>2, ReserveSliceEffect DEF IInv, Owns
<1>9. TypeOK'
    BY <1>1, <1>4, <1>5, <1>7, <1>8 DEF IInv, TypeOK, OthersStay
<1>10. LocksGranted(p) /\ TwoAnchors(p)'
    BY <1>1, <1>5, <1>7 DEF LocksGranted, TwoAnchors, Owns, Exclusive, Appending, Shared,
                            HoldsHeaders, Updating, FreshShared
<1>11. KeysStay(p)
    BY <1>8, MayLockAlone DEF KeysStay
<1>12. ~MayLockExclusive(op[p].file) /\ ~MayLockExclusive(op[p].fresh)
    BY <1>1 DEF MayLockExclusive, Exclusive, Shared, Updating
<1>13. OwnEntry(p)'
    BY <1>1, <1>5, <1>7, <1>8, <1>12 DEF OwnEntry, Owns, FreshShared, Updating
<1> QED BY <1>7, <1>9, <1>10, <1>11, <1>13 DEF Fine

\* An updater that gives up frees nothing but its own fresh anchor.
LEMMA AbortUpdatingStep ==
    ASSUME IInv, NEW p \in Kids, AbortUpdating(p)
    PROVE  Fine(p)
<1>1. op[p].fresh \in FileNos /\ Finish(p) /\ UNCHANGED <<made, evicted>>
    BY OwnsFacts DEF Owns, AbortUpdating
<1>2. CASE op[p].pc = "headers" /\ UNCHANGED shared
    BY <1>1, <1>2, FinishStep
<1>3. CASE /\ op[p].pc \in {"fresh", "prefixed"}
           /\ FreeChain(op[p].fresh, Rewound) /\ CountDown(1)
           /\ UNCHANGED fileNos
  <2>1. Exclusive(p, op[p].fresh)
      BY <1>3 DEF Exclusive
  <2>2. Alone(p, op[p].fresh)
      BY <1>1, <2>1 DEF IInv, LocksExclude
  <2>3. evicted' \in [Keys -> SUBSET (0 .. MaxEntries)]
      BY <1>1 DEF IInv, TypeOK
  <2> QED BY <1>1, <1>3, <2>2, <2>3, FreeAndFinishStep
<1> QED BY <1>2, <1>3 DEF AbortUpdating

\* Propagating the mark of the stale anchor keeps types and keys.
LEMMA PropagateMarkEffect ==
    ASSUME anchors \in [FileNos -> Anchors], NEW p \in Kids, op[p].fresh \in FileNos
    PROVE  /\ PropagateMark(anchors, p) \in [FileNos -> Anchors]
           /\ \A g \in FileNos : PropagateMark(anchors, p)[g].key = anchors[g].key
<1>1. anchors[op[p].fresh] \in Anchors
    OBVIOUS
<1>2. /\ Mark(anchors[op[p].fresh]) \in Anchors
      /\ Mark(anchors[op[p].fresh]).key = anchors[op[p].fresh].key
    BY <1>1 DEF Mark, Anchors
<1>3. /\ [anchors EXCEPT ![op[p].fresh] = Mark(@)] \in [FileNos -> Anchors]
      /\ \A g \in FileNos : [anchors EXCEPT ![op[p].fresh] = Mark(@)][g].key = anchors[g].key
    BY <1>2
<1> QED BY <1>3 DEF PropagateMark

\* A step of closeForUpdating() that keeps both anchors locked: the locks it
\* goes on to hold, it has or gets from its exclusive one.
LEMMA ClosingStep ==
    ASSUME IInv, NEW p \in Kids, NEW pc \in FreshShared, Goto(p, pc),
           op[p].pc \in {"prefixed"} \cup FreshShared,
           anchors' \in [FileNos -> Anchors],
           \A g \in FileNos : anchors'[g].key = anchors[g].key,
           next' \in [Slices -> Slices \cup {None}],
           fileNos' \in [FileNos -> FileNos],
           UNCHANGED <<freeSlots, count, made, evicted, doubleFree>>
    PROVE  Fine(p)
<1>1. Owns(p) /\ op[p].pc # "idle"
    BY OwnsFacts DEF FreshShared
<1>2. pc \in Pcs \ {"prefixed"}
    BY DEF Pcs, Updating, FreshShared
<1>3. /\ OpsOK' /\ OthersStay(p)
      /\ op'[p].pc = pc /\ op'[p].key = op[p].key
      /\ op'[p].file = op[p].file /\ op'[p].fresh = op[p].fresh
    BY <1>1, <1>2, GotoEffect DEF IInv
<1>4. TypeOK'
    BY <1>3 DEF IInv, TypeOK, OpsOK
<1>5. LocksGranted(p) /\ TwoAnchors(p)'
    BY <1>1, <1>3 DEF LocksGranted, TwoAnchors, Owns, Exclusive, Appending, Shared, HoldsHeaders,
                      Updating, FreshShared
<1>6. KeysStay(p) /\ OwnEntry(p)'
    BY <1>1, <1>3 DEF KeysStay, OwnEntry, Owns, FreshShared, Updating
<1> QED BY <1>3, <1>4, <1>5, <1>6 DEF Fine

\* The splice links slices and lets readers of the fresh anchor in.
LEMMA SpliceStep ==
    ASSUME IInv, NEW p \in Kids, Splice(p)
    PROVE  Fine(p)
<1>1. /\ Owns(p) /\ op[p].pc = "prefixed" /\ op[p].splice \in Slices /\ Goto(p, "spliced")
      /\ UNCHANGED <<freeSlots, fileNos, count, made, evicted, doubleFree>>
    BY OwnsFacts DEF Splice, IInv, TypeOK
<1>2. next' \in [Slices -> Slices \cup {None}]
  <2>1. next \in [Slices -> Slices \cup {None}] /\ next[op[p].splice] \in Slices \cup {None}
      BY <1>1 DEF IInv, TypeOK
  <2> QED BY <2>1 DEF Splice
<1>3. /\ anchors' \in [FileNos -> Anchors]
      /\ \A g \in FileNos : anchors'[g].key = anchors[g].key
    BY <1>1, PropagateMarkEffect DEF Splice, Owns, IInv, TypeOK
<1>4. fileNos' \in [FileNos -> FileNos]
    BY <1>1 DEF IInv, TypeOK
<1> QED BY <1>1, <1>2, <1>3, <1>4, ClosingStep DEF FreshShared

\* The name of the key leads to the fresh anchor.
LEMMA RelocateStep ==
    ASSUME IInv, NEW p \in Kids, Relocate(p)
    PROVE  Fine(p)
<1>1. /\ Owns(p) /\ op[p].pc = "spliced" /\ Goto(p, "relocated")
      /\ UNCHANGED <<anchors, next, freeSlots, count, made, evicted, doubleFree>>
    BY OwnsFacts DEF Relocate
<1>2. fileNos' \in [FileNos -> FileNos]
    BY <1>1 DEF Relocate, Owns, IInv, TypeOK
<1>3. anchors' \in [FileNos -> Anchors] /\ next' \in [Slices -> Slices \cup {None}]
    BY <1>1 DEF IInv, TypeOK
<1> QED BY <1>1, <1>2, <1>3, ClosingStep DEF FreshShared

\* The stale anchor is marked and cut off where the chains meet.
LEMMA FreeStaleStep ==
    ASSUME IInv, NEW p \in Kids, FreeStale(p)
    PROVE  Fine(p)
<1> DEFINE as == PropagateMark(anchors, p)
           f == op[p].file
           m == [Mark(as[f]) EXCEPT !.splicingPoint = op[p].splice]
<1>1. /\ Owns(p) /\ op[p].pc = "relocated" /\ Goto(p, "marked")
      /\ UNCHANGED <<next, freeSlots, fileNos, count, made, evicted, doubleFree>>
    BY OwnsFacts DEF FreeStale
<1>2. f \in FileNos /\ op[p].splice \in Slices \cup {None}
    BY <1>1 DEF Owns, Ops
<1>3. as \in [FileNos -> Anchors] /\ \A g \in FileNos : as[g].key = anchors[g].key
    BY <1>1, PropagateMarkEffect DEF Owns, IInv, TypeOK
<1>4. anchors' = [as EXCEPT ![f] = m]
    BY DEF FreeStale
<1> HIDE DEF as
<1>5. Mark(as[f]) \in Anchors /\ Mark(as[f]).key = as[f].key
    BY <1>2, <1>3 DEF Mark, Anchors
<1>6. m \in Anchors /\ m.key = as[f].key
    BY <1>2, <1>5 DEF Anchors
<1> HIDE DEF m, f
<1>7. /\ anchors' \in [FileNos -> Anchors]
      /\ \A g \in FileNos : anchors'[g].key = anchors[g].key
    BY <1>2, <1>3, <1>4, <1>6
<1>8. fileNos' \in [FileNos -> FileNos] /\ next' \in [Slices -> Slices \cup {None}]
    BY <1>1 DEF IInv, TypeOK
<1> QED BY <1>1, <1>7, <1>8, ClosingStep DEF FreshShared

\* The old name of the fresh anchor leads to the stale one, and both are let go.
LEMMA CloseForUpdatingStep ==
    ASSUME IInv, NEW p \in Kids, CloseForUpdating(p)
    PROVE  Fine(p)
<1>1. /\ Finish(p) /\ fileNos' = [fileNos EXCEPT ![op[p].name] = op[p].file]
      /\ UNCHANGED <<anchors, next, freeSlots, count, made, evicted, doubleFree>>
    BY DEF CloseForUpdating
<1>2. OpsOK' /\ OthersStay(p) /\ LocksGranted(p) /\ TwoAnchors(p)' /\ OwnEntry(p)'
    BY <1>1, FinishEffect DEF IInv
<1>3. op[p].file \in FileNos
    BY OwnsFacts DEF Owns
<1>4. fileNos' \in [FileNos -> FileNos]
    BY <1>1, <1>3 DEF IInv, TypeOK
<1>5. TypeOK'
    BY <1>1, <1>2, <1>4 DEF IInv, TypeOK, OpsOK
<1> QED BY <1>1, <1>2, <1>5 DEF Fine, KeysStay

-----------------------------------------------------------------------------
(* The theorems *)

\* Nobody works on an entry at the start.
LEMMA InitIInv == Init => IInv
<1> SUFFICES ASSUME Init PROVE IInv
    OBVIOUS
<1>1. \A p \in Kids : op[p].pc = "idle"
    BY DEF Init, Idle
<1>2. LocksExclude /\ HeldEntryIsKept
    BY <1>1 DEF LocksExclude, HeldEntryIsKept, Exclusive, Appending, HoldsHeaders, Updating,
                FreshShared
<1> QED BY <1>2, InitType DEF IInv

\* Every step is one of a kid, and fine.
LEMMA NextIsFine == ASSUME IInv, Next PROVE \E p \in Kids : Fine(p)
<1>1. ASSUME NEW p \in Kids, NEW k \in Keys, NEW pc \in Purposes[p], FindAnchor(p, k, pc)
      PROVE  Fine(p)
  <2>1. pc \in {"get", "cache", "evict", "update"}
      BY StoreMapAssumption DEF StoreMapAssumption
  <2> QED BY <1>1, <2>1, FindAnchorStep
<1>2. ASSUME NEW p \in Kids, GiveUp(p) \/ CloseForReading(p) \/ CompleteWriting(p)
      PROVE  Fine(p)
    BY <1>2, FinishStep DEF GiveUp, CloseForReading, CompleteWriting
<1> QED
    BY <1>1, <1>2, OpenForReadingStep, LoadFailedStep, StartCachingStep,
       StartAppendingStep, CopyToShmStep, AbortWritingStep, EvictCachedStep, FreeEntryByKeyStep,
       MarkUnlockedStep, LockHeadersStep, FindVictimStep, OpenKeylessStep, ExtendPrefixStep,
       WritePrefixStep, AbortUpdatingStep, SpliceStep, RelocateStep, FreeStaleStep, CloseForUpdatingStep
       DEF Next

\* Every step of every kid keeps the inductive invariant.
LEMMA NextIInv == IInv /\ [Next]_vars => IInv'
<1> SUFFICES ASSUME IInv, [Next]_vars PROVE IInv'
    OBVIOUS
<1>1. CASE UNCHANGED vars
    BY <1>1 DEF vars, IInv, TypeOK, LocksExclude, HeldEntryIsKept, Alone, HoldsAny, Exclusive,
                Appending, Shared, HoldsHeaders
<1>2. CASE Next
  <2>1. PICK p \in Kids : Fine(p)
      BY <1>2, NextIsFine
  <2> QED BY <2>1, StepKeepsLocks, StepKeepsEntries DEF Fine, IInv
<1> QED BY <1>1, <1>2

\* The inductive invariant holds throughout.
THEOREM InductiveInvariant == Spec => []IInv
BY InitIInv, NextIInv, PTL DEF Spec

\* The types of the shared map and of what its users are doing (StoreMap.h,
\* MemStore.cc): no operation of any kid leaves them, and an updater that is to
\* splice has a slice to splice to.
THEOREM TypeCorrect == Spec => []TypeOK
<1>1. IInv => TypeOK
    BY DEF IInv
<1> QED BY <1>1, InductiveInvariant, PTL

\* The users of StoreMap keep the discipline of the anchors' locks: a writer is
\* alone, one that appends shares with readers only, one kid at most updates the
\* headers of an anchor, and an updater's two anchors differ.
THEOREM LocksAreExclusive == Spec => []LocksExclude
<1>1. IInv => LocksExclude
    BY DEF IInv
<1> QED BY <1>1, InductiveInvariant, PTL

\* An entry that was opened for reading, writing or updating keeps its key under
\* its anchor until it is closed, whatever other kids overwrite, evict, purge or
\* relocate meanwhile.
THEOREM EntriesAreKept == Spec => []HeldEntryIsKept
<1>1. IInv => HeldEntryIsKept
    BY DEF IInv
<1> QED BY <1>1, InductiveInvariant, PTL

-----------------------------------------------------------------------------
(* How the locks are used *)

\* The mode in which a kid holds the lock of an anchor.
LEMMA HeldModes ==
    ASSUME LocksExclude, NEW p \in Kids, NEW f \in FileNos
    PROVE  /\ HeldMode(p, f) = "exclusive" <=> Exclusive(p, f)
           /\ HeldMode(p, f) = "appending" <=> Appending(p, f)
           /\ HeldMode(p, f) = "headers" <=> HoldsHeaders(p, f)
           /\ HeldMode(p, f) = "shared" <=> Shared(p, f) /\ ~HoldsHeaders(p, f)
           /\ HeldMode(p, f) = "idle" <=> ~HoldsAny(p, f)
           /\ HeldMode(p, f) \in {"exclusive", "appending", "headers", "shared", "idle"}
BY DEF HeldMode, HoldsAny, LocksExclude, Exclusive, Appending, HoldsHeaders, Shared, Updating,
       FreshShared

\* A step of a kid changes its mode at most, and as LockPromise allows.
LEMMA StepUsesLocks ==
    ASSUME LocksExclude, LocksExclude', NEW p \in Kids, OthersStay(p), LocksGranted(p),
           NEW f \in FileNos
    PROVE  Lock(f)!Next \/ UNCHANGED [q \in Kids |-> HeldMode(q, f)]
<1> DEFINE held == [q \in Kids |-> HeldMode(q, f)]
           new == HeldMode(p, f)'
<1>1. \A q \in Kids \ {p} : HeldMode(q, f)' = HeldMode(q, f)
    BY OthersLocks DEF HeldMode
<1>2. held' = [held EXCEPT ![p] = new]
    BY <1>1
<1>3. /\ new = "exclusive" <=> Exclusive(p, f)'
      /\ new = "appending" <=> Appending(p, f)'
      /\ new = "headers" <=> HoldsHeaders(p, f)'
      /\ new = "shared" <=> Shared(p, f)' /\ ~HoldsHeaders(p, f)'
      /\ new \in {"exclusive", "appending", "headers", "shared", "idle"}
  <2>1. /\ HeldMode(p, f)' = "exclusive" <=> Exclusive(p, f)'
        /\ HeldMode(p, f)' = "appending" <=> Appending(p, f)'
        /\ HeldMode(p, f)' = "headers" <=> HoldsHeaders(p, f)'
        /\ HeldMode(p, f)' = "shared" <=> Shared(p, f)' /\ ~HoldsHeaders(p, f)'
        /\ HeldMode(p, f)' \in {"exclusive", "appending", "headers", "shared", "idle"}
      BY DEF HeldMode, HoldsAny, LocksExclude, Exclusive, Appending, HoldsHeaders, Shared, Updating,
             FreshShared
  <2> QED BY <2>1
<1>4. held[p] = HeldMode(p, f) /\ \A q \in Kids : held[q] = HeldMode(q, f)
    OBVIOUS
<1> HIDE DEF held, new
<1>5. CASE new = held[p]
  <2>1. held' = held
      BY <1>2, <1>5 DEF held
  <2> QED BY <2>1 DEF held
<1>6. CASE new = "exclusive" /\ new # held[p]
  <2>1. MayLockExclusive(f)
      BY <1>3, <1>4, <1>6, HeldModes DEF LocksGranted
  <2>2. held[p] = "idle" /\ \A q \in Kids \ {p} : held[q] = "idle"
      BY <1>4, <2>1, HeldModes DEF MayLockExclusive, HoldsAny
  <2>3. Lock(f)!GrantExclusive(p)
      BY <1>2, <1>6, <2>2 DEF Lock!GrantExclusive, Lock!Others, Lock!Change, held
  <2> QED BY <2>3 DEF Lock!Next
<1>7. CASE new = "appending" /\ new # held[p]
  <2>1. held[p] = "exclusive"
      BY <1>3, <1>4, <1>7, HeldModes DEF LocksGranted
  <2>2. Lock(f)!StartAppending(p)
      BY <1>2, <1>7, <2>1 DEF Lock!StartAppending, Lock!Change, held
  <2> QED BY <2>2 DEF Lock!Next
<1>8. CASE new = "headers" /\ new # held[p]
  <2>1. MayLockHeaders(f) /\ held[p] = "shared"
      BY <1>3, <1>4, <1>8, HeldModes DEF LocksGranted
  <2>2. \A q \in Kids \ {p} :
            held[q] \in {"exclusive", "appending", "headers", "shared", "idle"} \ {"headers"}
      BY <1>4, <2>1, HeldModes DEF MayLockHeaders
  <2>3. Lock(f)!GrantHeaders(p)
      BY <1>2, <1>8, <2>1, <2>2 DEF Lock!GrantHeaders, Lock!Others, Lock!Modes, Lock!Change, held
  <2> QED BY <2>3 DEF Lock!Next
<1>9. CASE new = "shared" /\ new # held[p]
  <2>1. held[p] # "headers" /\ held[p] \in {"exclusive", "appending", "idle"}
      BY <1>3, <1>4, <1>9, HeldModes DEF LocksGranted
  <2>2. CASE held[p] = "idle"
    <3>1. MayLockShared(f)
        BY <1>3, <1>4, <1>9, <2>2, HeldModes DEF LocksGranted, HoldsAny
    <3>2. \A q \in Kids \ {p} : held[q] \in {"idle", "shared", "headers", "appending"}
        BY <1>4, <3>1, HeldModes DEF MayLockShared
    <3>3. Lock(f)!GrantShared(p)
        BY <1>2, <1>9, <2>2, <3>2 DEF Lock!GrantShared, Lock!Others, Lock!Change, held
    <3> QED BY <3>3 DEF Lock!Next
  <2>3. CASE held[p] \in {"exclusive", "appending"}
    <3>1. Lock(f)!StopWriting(p)
        BY <1>2, <1>9, <2>3 DEF Lock!StopWriting, Lock!Change, held
    <3> QED BY <3>1 DEF Lock!Next
  <2> QED BY <2>1, <2>2, <2>3
<1>10. CASE new = "idle" /\ new # held[p]
  <2>1. held[p] \in {"exclusive", "appending", "headers", "shared", "idle"} \ {"idle"}
      BY <1>4, <1>10, HeldModes
  <2>2. Lock(f)!Release(p)
      BY <1>2, <1>10, <2>1 DEF Lock!Release, Lock!Modes, Lock!Change, held
  <2> QED BY <2>2 DEF Lock!Next
<1> QED BY <1>3, <1>5, <1>6, <1>7, <1>8, <1>9, <1>10

\* MemStore and StoreMap use the lock of every anchor as LockPromise, which
\* ReadWriteLock implements, allows: what they get, change and let go is granted
\* by the lock, whatever they do with two anchors at a time.
THEOREM LocksAreUsedProperly == Spec => UsesLocksProperly
<1>1. ASSUME IInv, IInv', [Next]_vars, ~UNCHANGED vars, NEW f \in FileNos
      PROVE  Lock(f)!Next \/ UNCHANGED [p \in Kids |-> HeldMode(p, f)]
  <2>1. PICK p \in Kids : Fine(p)
      BY <1>1, NextIsFine
  <2> QED BY <1>1, <2>1, StepUsesLocks DEF Fine, IInv
<1>2. IInv /\ IInv' /\ [Next]_vars =>
          [\A f \in FileNos : Lock(f)!Next \/ UNCHANGED [p \in Kids |-> HeldMode(p, f)]]_vars
    BY <1>1
<1> QED BY <1>2, InductiveInvariant, PTL DEF Spec, UsesLocksProperly

-----------------------------------------------------------------------------
(* Counting entries *)

Entries == {f \in FileNos : ~Empty(f)}

\* What a step does to entries and to their count: an entry that takes the place of
\* another is not counted again, one more entry counts one more at most, and
\* one entry at most goes where the count goes down by one.
Counted ==
    \/ count' = count /\ Entries \subseteq Entries'
    \/ \E f \in FileNos : count' = count + 1 /\ f \notin Entries /\ Entries' = Entries \cup {f}
    \/ \E f \in FileNos : count' = count - 1 /\ Entries \ {f} \subseteq Entries'

\* The anchors are finitely many, and so are the entries.
LEMMA EntriesAreFinite ==
    \A E \in SUBSET FileNos : IsFiniteSet(E) /\ Cardinality(E) \in Nat
<1>1. IsFiniteSet(FileNos)
    BY StoreMapAssumption, FS_Interval DEF FileNos, StoreMapAssumption
<1> QED
    BY <1>1, FS_Subset, FS_CardinalityType

\* A step that counts entries like this keeps the count from exceeding them.
LEMMA CountedKeeps ==
    ASSUME count \in Int, CountIsNotTooHigh, Counted PROVE CountIsNotTooHigh'
<1>1. IsFiniteSet(Entries) /\ Cardinality(Entries) \in Nat /\ count <= Cardinality(Entries)
    BY EntriesAreFinite DEF CountIsNotTooHigh, Entries
<1>2. IsFiniteSet(Entries') /\ Cardinality(Entries') \in Nat
    BY EntriesAreFinite DEF Entries
<1>3. SUFFICES count' <= Cardinality(Entries')
    BY DEF CountIsNotTooHigh, Entries
<1>4. CASE count' = count /\ Entries \subseteq Entries'
  <2>1. Cardinality(Entries) <= Cardinality(Entries')
      BY <1>2, <1>4, FS_Subset
  <2> QED
      BY <1>1, <1>2, <1>4, <2>1
<1>5. ASSUME NEW f \in FileNos, count' = count + 1, f \notin Entries, Entries' = Entries \cup {f}
      PROVE  count' <= Cardinality(Entries')
  <2>1. Cardinality(Entries') = Cardinality(Entries) + 1
      BY <1>1, <1>5, FS_AddElement
  <2> QED
      BY <1>1, <1>5, <2>1
<1>6. ASSUME NEW f \in FileNos, count' = count - 1, Entries \ {f} \subseteq Entries'
      PROVE  count' <= Cardinality(Entries')
  <2>1. PICK c \in Nat : c = Cardinality(Entries \ {f}) /\ c <= Cardinality(Entries')
      BY <1>1, <1>2, <1>6, FS_Subset, FS_CardinalityType
  <2>2. Cardinality(Entries) <= c + 1
    <3>1. CASE f \in Entries
      <4>1. Cardinality(Entries \ {f}) = Cardinality(Entries) - 1
          BY <1>1, <3>1, FS_RemoveElement
      <4> QED
          BY <1>1, <2>1, <4>1
    <3>2. CASE f \notin Entries
      <4>1. Entries \ {f} = Entries
          BY <3>2
      <4> QED
          BY <2>1, <4>1
    <3> QED
        BY <3>1, <3>2
  <2> QED
      BY <1>1, <1>2, <1>6, <2>1, <2>2
<1> QED
    BY <1>4, <1>5, <1>6 DEF Counted

\* Steps that leave the keys of anchors alone do not count.
LEMMA KeysKeepCount ==
    ASSUME count' = count, \A f \in FileNos : anchors'[f].key = anchors[f].key
    PROVE  Counted
BY DEF Counted, Entries, Empty

\* An entry that is freed is counted down (FreeChain with CountDown).
LEMMA FreedIsCounted ==
    ASSUME IInv, NEW f \in FileNos, FreeChain(f, Rewound), CountDown(1) PROVE Counted
<1>1. \A g \in FileNos \ {f} : anchors'[g] = anchors[g]
    BY StoreMapAssumption, RewoundType, FreeChainEffect DEF IInv
<1>2. Entries \ {f} \subseteq Entries' /\ count' = count - 1
    BY <1>1 DEF Entries, Empty, CountDown
<1> QED
    BY <1>2 DEF Counted

\* An entry that replaces a used anchor takes over its count (openForWritingAt()).
LEMMA WrittenIsCounted ==
    ASSUME IInv, NEW f \in FileNos, NEW a \in Anchors, a.key # NoKey, OpenForWritingAt(f, a)
    PROVE  Counted
<1>1. anchors'[f] = a /\ \A g \in FileNos \ {f} : anchors'[g] = anchors[g]
    BY OpenForWritingEffect DEF IInv
<1>2. Entries' = Entries \cup {f}
    BY <1>1 DEF Entries, Empty
<1>3. count \in Int
    BY DEF IInv, TypeOK
<1>4. CASE anchors[f].waitingToBeFreed \/ ~Empty(f)
  <2>1. count' = count
      BY <1>3, <1>4 DEF OpenForWritingAt, CountDown
  <2> QED
      BY <1>2, <2>1 DEF Counted
<1>5. CASE ~(anchors[f].waitingToBeFreed \/ ~Empty(f))
  <2>1. count' = count + 1
      BY <1>3, <1>5 DEF OpenForWritingAt, CountDown
  <2>2. f \notin Entries
      BY <1>5 DEF Entries
  <2> QED
      BY <1>2, <2>1, <2>2 DEF Counted
<1> QED
    BY <1>4, <1>5

\* A writer that takes the slice of another entry counts that one down.
LEMMA ReservedIsCounted ==
    ASSUME IInv, NEW p \in Kids, NEW f \in FileNos, NEW s \in Slices, ReserveSlice(p, f, s)
    PROVE  Counted
<1> DEFINE linked == IF anchors[f].start = None THEN [anchors EXCEPT ![f].start = s] ELSE anchors
<1>1. linked \in [FileNos -> Anchors] /\ \A g \in FileNos : linked[g].key = anchors[g].key
    BY DEF IInv, TypeOK, Anchors
<1>2. CASE anchors' = linked /\ count' = count
  <2> HIDE DEF linked
  <2> QED
      BY <1>1, <1>2, KeysKeepCount
<1>3. ASSUME NEW n \in FileNos, anchors' = [linked EXCEPT ![fileNos[n]] = Rewound], CountDown(1)
      PROVE  Counted
  <2>1. fileNos[n] \in FileNos
      BY DEF IInv, TypeOK
  <2> HIDE DEF linked
  <2>2. Entries \ {fileNos[n]} \subseteq Entries' /\ count' = count - 1
      BY <1>1, <1>3, <2>1 DEF Entries, Empty, CountDown
  <2> QED
      BY <2>1, <2>2 DEF Counted
<1> QED
    BY <1>2, <1>3 DEF ReserveSlice

\* Steps of one kid that mark anchors, or none, do not count.
LEMMA MarksAreNotCounted ==
    ASSUME IInv, NEW p \in Kids,
           \/ LoadFailed(p) \/ EvictCached(p) \/ MarkUnlocked(p)
           \/ Splice(p) \/ FreeStale(p) \/ Relocate(p) \/ CloseForUpdating(p)
    PROVE  Counted
<1>1. /\ op[p].file \in FileNos /\ op[p].fresh \in FileNos /\ anchors \in [FileNos -> Anchors]
      /\ op[p].splice \in Slices \cup {None}
    BY OwnsFacts DEF Owns, IInv, TypeOK, Ops
<1>2. CASE LoadFailed(p) \/ EvictCached(p) \/ MarkUnlocked(p)
  <2>1. anchors' = [anchors EXCEPT ![op[p].file] = Mark(@)] /\ count' = count
      BY <1>2 DEF LoadFailed, EvictCached, MarkUnlocked
  <2> QED
      BY <1>1, <2>1, MarkEffect, KeysKeepCount
<1>3. CASE Relocate(p) \/ CloseForUpdating(p)
  <2>1. anchors' = anchors /\ count' = count
      BY <1>3 DEF Relocate, CloseForUpdating
  <2> QED
      BY <2>1, KeysKeepCount
<1>4. CASE Splice(p)
  <2>1. anchors' = PropagateMark(anchors, p) /\ count' = count
      BY <1>4 DEF Splice
  <2> QED
      BY <1>1, <2>1, PropagateMarkEffect, KeysKeepCount
<1>5. CASE FreeStale(p)
  <2> DEFINE as == PropagateMark(anchors, p)
             m == [Mark(as[op[p].file]) EXCEPT !.splicingPoint = op[p].splice]
  <2>1. as \in [FileNos -> Anchors] /\ \A g \in FileNos : as[g].key = anchors[g].key
      BY <1>1, PropagateMarkEffect
  <2>2. anchors' = [as EXCEPT ![op[p].file] = m] /\ count' = count
      BY <1>5 DEF FreeStale
  <2> HIDE DEF as
  <2>3. m.key = as[op[p].file].key
      BY <1>1, <2>1 DEF Mark, Anchors
  <2> HIDE DEF m
  <2>4. \A g \in FileNos : anchors'[g].key = anchors[g].key
      BY <1>1, <2>1, <2>2, <2>3
  <2> QED
      BY <2>2, <2>4, KeysKeepCount
<1> QED
    BY <1>2, <1>3, <1>4, <1>5

\* Steps that write, abort or evict an entry count it.
LEMMA WritersCount ==
    ASSUME IInv, NEW p \in Kids,
           \/ StartCaching(p) \/ OpenKeyless(p) \/ CopyToShm(p) \/ ExtendPrefix(p) \/ WritePrefix(p)
           \/ AbortWriting(p) \/ AbortUpdating(p) \/ FreeEntryByKey(p)
    PROVE  Counted
<1>1. /\ op[p].file \in FileNos /\ op[p].fresh \in FileNos /\ anchors \in [FileNos -> Anchors]
      /\ op[p].pc # "idle" => op[p].key \in Keys
    BY OwnsFacts DEF Owns, IInv, TypeOK
<1>2. CASE StartCaching(p)
  <2>1. PICK marked \in BOOLEAN :
            OpenForWritingAt(op[p].file, NewAnchor(op[p].key, made + 1, FALSE, marked))
      BY <1>2 DEF StartCaching
  <2>2. made + 1 \in 0 .. MaxEntries /\ op[p].key \in Keys
      BY <1>1, <1>2, StoreMapAssumption DEF StartCaching, IInv, TypeOK, StoreMapAssumption
  <2>3. PICK a \in Anchors : a.key = op[p].key /\ OpenForWritingAt(op[p].file, a)
      BY <2>1, <2>2, NewAnchorType
  <2>4. a.key # NoKey
      BY <2>2, <2>3, StoreMapAssumption DEF StoreMapAssumption
  <2> QED
      BY <1>1, <2>3, <2>4, WrittenIsCounted
<1>3. CASE OpenKeyless(p)
  <2>1. CASE UNCHANGED shared
      BY <2>1, KeysKeepCount DEF shared
  <2>2. ASSUME NEW marked \in BOOLEAN,
               OpenForWritingAt(op[p].fresh,
                                NewAnchor(op[p].key, anchors[op[p].file].id, TRUE, marked))
        PROVE  Counted
    <3>1. anchors[op[p].file].id \in 0 .. MaxEntries /\ op[p].key \in Keys
        BY <1>1, <1>3 DEF Anchors, OpenKeyless
    <3>2. PICK a \in Anchors : a.key = op[p].key /\ OpenForWritingAt(op[p].fresh, a)
        BY <2>2, <3>1, NewAnchorType
    <3>3. a.key # NoKey
        BY <3>1, <3>2, StoreMapAssumption DEF StoreMapAssumption
    <3> QED
        BY <1>1, <3>2, <3>3, WrittenIsCounted
  <2> QED
      BY <1>3, <2>1, <2>2 DEF OpenKeyless
<1>4. CASE CopyToShm(p) \/ ExtendPrefix(p) \/ WritePrefix(p)
    BY <1>1, <1>4, ReservedIsCounted DEF CopyToShm, ExtendPrefix, WritePrefix
<1>5. CASE AbortWriting(p)
  <2>1. CASE FreeChain(op[p].file, Rewound) /\ CountDown(1)
      BY <1>1, <2>1, FreedIsCounted
  <2>2. CASE Halt(op[p].file) /\ count' = count
    <3>1. \A g \in FileNos : anchors'[g].key = anchors[g].key
        BY <1>1, <2>2 DEF Halt, Mark, Anchors
    <3> QED
        BY <2>2, <3>1, KeysKeepCount
  <2> QED
      BY <1>5, <2>1, <2>2 DEF AbortWriting
<1>6. CASE AbortUpdating(p)
  <2>1. CASE UNCHANGED shared
      BY <2>1, KeysKeepCount DEF shared
  <2>2. CASE FreeChain(op[p].fresh, Rewound) /\ CountDown(1)
      BY <1>1, <2>2, FreedIsCounted
  <2> QED
      BY <1>6, <2>1, <2>2 DEF AbortUpdating
<1>7. CASE FreeEntryByKey(p)
  <2>1. CASE FreeChain(op[p].file, Rewound) /\ CountDown(1)
      BY <1>1, <2>1, FreedIsCounted
  <2>2. CASE anchors' = [anchors EXCEPT ![op[p].file] = Mark(@)] /\ count' = count
      BY <1>1, <2>2, MarkEffect, KeysKeepCount
  <2>3. CASE anchors' = anchors /\ count' = count
      BY <2>3, KeysKeepCount
  <2> QED
      BY <1>7, <2>1, <2>2, <2>3 DEF FreeEntryByKey
<1> QED
    BY <1>2, <1>3, <1>4, <1>5, <1>6, <1>7

\* entryCount() never exceeds the number of entries, whatever writers, updaters and
\* evictions do to an anchor at the same time (openForWritingAt(), freeChain(),
\* purgeOne()).
THEOREM CountStaysLow == Spec => []CountIsNotTooHigh
<1>1. Init => CountIsNotTooHigh
  <2> SUFFICES ASSUME Init PROVE CountIsNotTooHigh
      OBVIOUS
  <2>1. Cardinality(Entries) \in Nat /\ count = 0
      BY EntriesAreFinite DEF Init, Entries
  <2> QED
      BY <2>1 DEF CountIsNotTooHigh, Entries
<1>2. ASSUME IInv, Next PROVE Counted
  <2>1. ASSUME NEW p \in Kids,
               \/ \E k \in Keys, pc \in Purposes[p] : FindAnchor(p, k, pc)
               \/ GiveUp(p) \/ OpenForReadingAt(p) \/ CloseForReading(p) \/ StartAppending(p)
               \/ CompleteWriting(p) \/ LockHeaders(p) \/ FindVictim(p)
        PROVE  Counted
    <3>1. anchors' = anchors /\ count' = count
        BY <2>1 DEF FindAnchor, GiveUp, OpenForReadingAt, CloseForReading, StartAppending,
                    CompleteWriting, LockHeaders, FindVictim, shared
    <3> QED
        BY <3>1, KeysKeepCount
  <2> QED
      BY <1>2, <2>1, MarksAreNotCounted, WritersCount DEF Next
<1>3. IInv /\ CountIsNotTooHigh /\ [Next]_vars => CountIsNotTooHigh'
  <2>1. ASSUME IInv, CountIsNotTooHigh, Next PROVE CountIsNotTooHigh'
      BY <1>2, <2>1, CountedKeeps DEF IInv, TypeOK
  <2>2. ASSUME CountIsNotTooHigh, UNCHANGED vars PROVE CountIsNotTooHigh'
      BY <2>2 DEF CountIsNotTooHigh, Empty, vars
  <2> QED
      BY <2>1, <2>2
<1> QED
    BY <1>1, <1>3, InductiveInvariant, PTL DEF Spec

-----------------------------------------------------------------------------
(* Updates that take turns, and those that overlap *)

Moved == {"relocated", "marked"}
WithFresh == {"fresh", "prefixed"} \cup FreshShared

\* No two updates overlap.
UpdatesTakeTurns ==
    \A p, q \in Kids : op[p].pc \in UpdatePcs /\ op[q].pc \in UpdatePcs => p = q

TurnsInv == overlap = "none" => UpdatesTakeTurns

\* Updates that met once do not count as taking turns again, and a stale lookup is
\* not forgotten.
Remembered == overlap' = overlap \/ overlap' = "stale" \/ (overlap = "none" /\ overlap' = "some")

\* A Goto() keeps all local variables but pc.
LEMMA GotoKeeps ==
    ASSUME TypeOK, NEW p \in Kids, NEW pc \in Pcs, Goto(p, pc)
    PROVE  /\ OthersStay(p) /\ op'[p].pc = pc
           /\ op'[p].key = op[p].key /\ op'[p].file = op[p].file
           /\ op'[p].fresh = op[p].fresh /\ op'[p].name = op[p].name
<1>1. op'[p] = [op[p] EXCEPT !.pc = pc] /\ OthersStay(p) /\ op[p] \in Ops
    BY GotoType DEF Goto, TypeOK, OthersStay
<1> QED
    BY <1>1 DEF Ops

\* Every step remembers how updates met.
LEMMA NextRemembers == ASSUME Next PROVE Remembered
<1>1. ASSUME NEW p \in Kids, NEW k \in Keys, NEW pc \in Purposes[p], FindAnchor(p, k, pc)
      PROVE  Remembered
    BY <1>1 DEF FindAnchor, Remembered
<1>2. ASSUME NEW p \in Kids, LockHeaders(p) \/ OpenKeyless(p) PROVE Remembered
    BY <1>2 DEF LockHeaders, OpenKeyless, LocksNamed, Remembered
<1>3. ASSUME NEW p \in Kids,
             \/ GiveUp(p) \/ OpenForReadingAt(p) \/ CloseForReading(p) \/ LoadFailed(p)
             \/ StartCaching(p) \/ StartAppending(p) \/ CopyToShm(p) \/ CompleteWriting(p)
             \/ AbortWriting(p) \/ EvictCached(p) \/ FreeEntryByKey(p) \/ MarkUnlocked(p)
      PROVE  overlap' = overlap
    BY <1>3 DEF GiveUp, OpenForReadingAt, CloseForReading, LoadFailed, StartCaching, StartAppending,
                CopyToShm, CompleteWriting, AbortWriting, EvictCached, FreeEntryByKey, MarkUnlocked
<1>4. ASSUME NEW p \in Kids,
             \/ FindVictim(p) \/ ExtendPrefix(p) \/ WritePrefix(p) \/ AbortUpdating(p)
             \/ Splice(p) \/ Relocate(p) \/ FreeStale(p) \/ CloseForUpdating(p)
      PROVE  overlap' = overlap
    BY <1>4 DEF FindVictim, ExtendPrefix, WritePrefix, AbortUpdating, Splice, Relocate, FreeStale,
                CloseForUpdating
<1> QED
    BY <1>1, <1>2, <1>3, <1>4 DEF Next, Remembered

\* Only a lookup starts an update.
LEMMA UpdatesStart ==
    ASSUME IInv, NEW p \in Kids,
           \/ GiveUp(p) \/ OpenForReadingAt(p) \/ CloseForReading(p) \/ LoadFailed(p)
           \/ StartCaching(p) \/ StartAppending(p) \/ CopyToShm(p) \/ CompleteWriting(p)
           \/ AbortWriting(p) \/ EvictCached(p) \/ FreeEntryByKey(p) \/ MarkUnlocked(p)
           \/ LockHeaders(p) \/ FindVictim(p) \/ OpenKeyless(p) \/ ExtendPrefix(p) \/ WritePrefix(p)
           \/ AbortUpdating(p) \/ Splice(p) \/ Relocate(p) \/ FreeStale(p) \/ CloseForUpdating(p)
    PROVE  OthersStay(p) /\ (op'[p].pc \in UpdatePcs => op[p].pc \in UpdatePcs)
<1> USE DEF UpdatePcs, Updating
<1>0. op \in [Kids -> Ops] /\ op[p] \in Ops /\ TypeOK
    BY DEF IInv, TypeOK
<1>1. CASE op' = op
    BY <1>1 DEF OthersStay
<1>2. CASE Finish(p)
    BY <1>0, <1>2 DEF Finish, OthersStay, Idle
<1>3. ASSUME NEW pc \in Pcs, Goto(p, pc), pc \in UpdatePcs => op[p].pc \in UpdatePcs
      PROVE  OthersStay(p) /\ (op'[p].pc \in UpdatePcs => op[p].pc \in UpdatePcs)
    BY <1>0, <1>3, GotoKeeps
<1>4. CASE FindVictim(p) \/ WritePrefix(p) \/ (OpenKeyless(p) /\ SkipVictim(p))
    BY <1>0, <1>4 DEF FindVictim, WritePrefix, OpenKeyless, SkipVictim, OthersStay
<1>5. CASE \/ OpenForReadingAt(p) \/ StartCaching(p) \/ StartAppending(p) \/ FreeEntryByKey(p)
           \/ LockHeaders(p) \/ (OpenKeyless(p) /\ Goto(p, "fresh")) \/ Splice(p)
           \/ Relocate(p) \/ FreeStale(p)
  <2>1. \/ Finish(p)
        \/ Goto(p, "stale") /\ op[p].pc = "update"
        \/ \E pc \in {"reading", "copying", "writing", "appending", "evictUnlocked"} : Goto(p, pc)
        \/ /\ op[p].pc \in UpdatePcs
           /\ \E pc \in {"headers", "fresh", "spliced", "relocated", "marked"} : Goto(p, pc)
    <3>1. CASE OpenForReadingAt(p)
        BY <3>1 DEF OpenForReadingAt
    <3>2. CASE StartCaching(p) \/ StartAppending(p)
        BY <3>2 DEF StartCaching, StartAppending
    <3>3. CASE FreeEntryByKey(p)
        BY <3>3 DEF FreeEntryByKey, Evicted
    <3>4. CASE LockHeaders(p) \/ (OpenKeyless(p) /\ Goto(p, "fresh"))
        BY <3>4 DEF LockHeaders, OpenKeyless
    <3>5. CASE Splice(p) \/ Relocate(p) \/ FreeStale(p)
        BY <3>5 DEF Splice, Relocate, FreeStale
    <3> QED
        BY <1>5, <3>1, <3>2, <3>3, <3>4, <3>5
  <2> QED
      BY <1>2, <1>3, <2>1 DEF Pcs
<1>6. CASE \/ GiveUp(p) \/ CloseForReading(p) \/ LoadFailed(p) \/ CopyToShm(p)
           \/ CompleteWriting(p) \/ AbortWriting(p) \/ EvictCached(p) \/ MarkUnlocked(p)
           \/ ExtendPrefix(p) \/ AbortUpdating(p) \/ CloseForUpdating(p)
  <2>1. Finish(p) \/ op' = op
      BY <1>6 DEF GiveUp, CloseForReading, LoadFailed, CopyToShm, CompleteWriting, AbortWriting,
                  EvictCached, MarkUnlocked, ExtendPrefix, AbortUpdating, CloseForUpdating, Evicted
  <2> QED
      BY <1>1, <1>2, <2>1
<1>7. OpenKeyless(p) => Goto(p, "fresh") \/ SkipVictim(p)
    BY DEF OpenKeyless
<1> QED
    BY <1>4, <1>5, <1>6, <1>7

\* Updates that take turns after a step did so before it.
LEMMA NoneBefore == ASSUME [Next]_vars, overlap' = "none" PROVE overlap = "none"
BY NextRemembers DEF Remembered, vars

\* Overlapping updates are noticed when the second of them looks up its key.
LEMMA NextTurns == ASSUME IInv, TurnsInv, Next PROVE TurnsInv'
<1> SUFFICES ASSUME overlap' = "none" PROVE UpdatesTakeTurns'
    BY DEF TurnsInv
<1>1. overlap = "none" /\ UpdatesTakeTurns
    BY NextRemembers DEF Remembered, TurnsInv
<1>2. ASSUME NEW p \in Kids, OthersStay(p), op'[p].pc \in UpdatePcs => op[p].pc \in UpdatePcs
      PROVE  UpdatesTakeTurns'
    BY <1>1, <1>2 DEF UpdatesTakeTurns, OthersStay
<1>3. ASSUME NEW p \in Kids, NEW k \in Keys, NEW pc \in Purposes[p], FindAnchor(p, k, pc)
      PROVE  UpdatesTakeTurns'
  <2>1. op'[p].pc = pc /\ OthersStay(p) /\ pc \in {"get", "cache", "evict", "update"}
      BY <1>3, StoreMapAssumption DEF FindAnchor, Idle, OthersStay, IInv, TypeOK, StoreMapAssumption
  <2>2. CASE pc = "update"
    <3>1. \A q \in Kids : op[q].pc \notin UpdatePcs
        BY <1>1, <1>3, <2>2 DEF FindAnchor
    <3> QED
        BY <2>1, <3>1 DEF UpdatesTakeTurns, OthersStay
  <2>3. CASE pc # "update"
      BY <1>2, <2>1, <2>3 DEF UpdatePcs, Updating
  <2> QED
      BY <2>2, <2>3
<1> QED
    BY <1>2, <1>3, UpdatesStart DEF Next

-----------------------------------------------------------------------------
(* Names of anchors, while no update acts on a stale lookup *)

\* What kid p may rely on: the name of the key leads to the stale anchor that it has
\* locked until it is relocated, and the other name to the fresh one until that is moved
\* to the stale anchor.  (Another update may move the key's name on meanwhile.)
NamesOf(p) ==
    /\ op[p].pc \in Updating \ Moved => fileNos[NameByKey[op[p].key]] = op[p].file
    /\ op[p].pc \in WithFresh => /\ fileNos[op[p].name] = op[p].fresh
                                 /\ op[p].name # NameByKey[op[p].key]
    /\ op[p].pc \in Moved /\ overlap = "none" => fileNos[NameByKey[op[p].key]] = op[p].fresh

FreshApart ==
    \A p, q \in Kids : op[p].pc \in WithFresh /\ op[q].pc \in WithFresh /\ op[p].fresh = op[q].fresh
                           => p = q

\* Name n is to be moved by an update that is being closed; where it leads then
Renamed(n) == \E p \in Kids : op[p].pc \in Moved /\ op[p].name = n
Leads(n, f) ==
    \/ \E p \in Kids : op[p].pc \in Moved /\ op[p].name = n /\ op[p].file = f
    \/ fileNos[n] = f /\ ~Renamed(n)

NamesInv ==
    /\ FreshApart
    /\ \A p \in Kids : NamesOf(p)
    /\ \A f \in FileNos : \E n \in FileNos : Leads(n, f)

\* A step that moves no name keeps the names, if its kid relies on no other ones.
LEMMA NamesStay ==
    ASSUME NamesInv, Remembered, NEW p \in Kids, OthersStay(p), fileNos' = fileNos, NamesOf(p)',
           op[p].pc \in Moved <=> op'[p].pc \in Moved,
           op[p].pc \in Moved => op'[p].name = op[p].name /\ op'[p].file = op[p].file,
           op'[p].pc \in WithFresh =>
               \A q \in Kids \ {p} : op[q].pc \in WithFresh => op[q].fresh # op'[p].fresh
    PROVE  NamesInv'
<1>1. \A q \in Kids : NamesOf(q)'
  <2>1. ASSUME NEW q \in Kids \ {p} PROVE NamesOf(q)'
    <3>1. op'[q] = op[q] /\ NamesOf(q)
        BY DEF OthersStay, NamesInv
    <3>2. overlap' = "none" => overlap = "none"
        BY DEF Remembered
    <3> QED
        BY <3>1, <3>2 DEF NamesOf
  <2> QED
      BY <2>1
<1>2. FreshApart'
    BY DEF NamesInv, FreshApart, OthersStay
<1>3. \A q \in Kids : /\ op[q].pc \in Moved <=> op'[q].pc \in Moved
                      /\ op[q].pc \in Moved => op'[q].name = op[q].name /\ op'[q].file = op[q].file
    BY DEF OthersStay
<1>4. ASSUME NEW n \in FileNos, NEW f \in FileNos, Leads(n, f) PROVE Leads(n, f)'
    BY <1>3, <1>4 DEF Leads, Renamed
<1>5. \A f \in FileNos : \E n \in FileNos : Leads(n, f)'
    BY <1>4 DEF NamesInv
<1> QED
    BY <1>1, <1>2, <1>5 DEF NamesInv

\* A kid that is not updating, or that goes on with the same names, relies on nothing new.
LEMMA NamesGoOn ==
    ASSUME NamesInv, Remembered, NEW p \in Kids, OthersStay(p), fileNos' = fileNos,
           \/ op'[p].pc \notin Updating /\ op[p].pc \notin Moved
           \/ /\ op'[p].key = op[p].key /\ op'[p].file = op[p].file
              /\ op[p].pc \in Updating /\ op'[p].pc \in Updating
              /\ op'[p].pc \in Moved <=> op[p].pc \in Moved
              /\ op'[p].pc \in WithFresh => /\ op[p].pc \in WithFresh
                                            /\ op'[p].fresh = op[p].fresh /\ op'[p].name = op[p].name
    PROVE  NamesInv'
<1>0. Moved \subseteq WithFresh /\ WithFresh \subseteq Updating
    BY DEF Moved, WithFresh, FreshShared, Updating
<1>1. CASE op'[p].pc \notin Updating /\ op[p].pc \notin Moved
  <2>1. NamesOf(p)'
      BY <1>0, <1>1 DEF NamesOf
  <2> QED
      BY <1>0, <1>1, <2>1, NamesStay
<1>2. CASE /\ op'[p].key = op[p].key /\ op'[p].file = op[p].file
           /\ op[p].pc \in Updating /\ op'[p].pc \in Updating
           /\ op'[p].pc \in Moved <=> op[p].pc \in Moved
           /\ op'[p].pc \in WithFresh => /\ op[p].pc \in WithFresh
                                         /\ op'[p].fresh = op[p].fresh /\ op'[p].name = op[p].name
  <2>1. NamesOf(p) /\ (overlap' = "none" => overlap = "none")
      BY DEF NamesInv, Remembered
  <2>2. NamesOf(p)'
      BY <1>0, <1>2, <2>1 DEF NamesOf
  <2>3. op'[p].pc \in WithFresh =>
            \A q \in Kids \ {p} : op[q].pc \in WithFresh => op[q].fresh # op'[p].fresh
      BY <1>2 DEF NamesInv, FreshApart
  <2> QED
      BY <1>0, <1>2, <2>2, <2>3, NamesStay
<1> QED
    BY <1>1, <1>2

\* No other update has the key's name of an update that still has to relocate it: not for
\* its own key, nor for its fresh anchor.
LEMMA KeyNameIsOwn ==
    ASSUME IInv, NamesInv, NEW p \in Kids, op[p].pc \in Updating \ Moved, NEW q \in Kids \ {p}
    PROVE  /\ op[q].pc \in Updating \ Moved => NameByKey[op[q].key] # NameByKey[op[p].key]
           /\ op[q].pc \in WithFresh => op[q].name # NameByKey[op[p].key]
<1>1. /\ NamesOf(p) /\ NamesOf(q) /\ Owns(p) /\ Owns(q)
    BY OwnsFacts DEF NamesInv
<1>2. ASSUME op[q].pc \in Updating \ Moved, NameByKey[op[q].key] = NameByKey[op[p].key] PROVE FALSE
  <2>1. op[q].file = op[p].file /\ op[p].file \in FileNos
      BY <1>1, <1>2 DEF NamesOf, Owns
  <2> QED
      BY <1>2, <2>1 DEF IInv, LocksExclude, HoldsHeaders
<1>3. ASSUME op[q].pc \in WithFresh, op[q].name = NameByKey[op[p].key] PROVE FALSE
  <2>1. op[q].fresh = op[p].file /\ op[p].file \in FileNos
      BY <1>1, <1>3 DEF NamesOf, Owns
  <2>2. Shared(p, op[p].file)
      BY DEF Shared
  <2>3. CASE op[q].pc \in {"fresh", "prefixed"}
      BY <2>1, <2>2, <2>3 DEF IInv, LocksExclude, Exclusive, Alone, HoldsAny
  <2>4. CASE op[q].pc \in FreshShared
    <3>1. anchors[op[p].file].key = op[p].key /\ anchors[op[q].fresh].key = op[q].key
        BY <1>1, <2>4 DEF Owns, OwnEntry
    <3> QED
        BY <1>1, <1>3, <2>1, <3>1 DEF NamesOf
  <2> QED
      BY <1>3, <2>3, <2>4 DEF WithFresh
<1> QED
    BY <1>2, <1>3

\* relocate() of the key's name to the fresh anchor is half of an exchange.
LEMMA RelocateNames ==
    ASSUME IInv, TurnsInv, NamesInv, NEW p \in Kids, Relocate(p) PROVE NamesInv'
<1>0. PICK n, m, f, h : /\ n = NameByKey[op[p].key] /\ m = op[p].name
                        /\ f = op[p].file /\ h = op[p].fresh
    OBVIOUS
<1>1. /\ op[p].pc = "spliced" /\ fileNos' = [fileNos EXCEPT ![n] = h] /\ Goto(p, "relocated")
      /\ fileNos \in [FileNos -> FileNos] /\ op[p].key \in Keys /\ n \in FileNos
      /\ f \in FileNos /\ h \in FileNos /\ m \in FileNos /\ overlap' = overlap
    BY <1>0, StoreMapAssumption DEF Relocate, IInv, TypeOK, Ops, StoreMapAssumption
<1>2. /\ OthersStay(p) /\ op'[p].pc = "relocated"
      /\ op'[p].key = op[p].key /\ op'[p].file = f /\ op'[p].fresh = h /\ op'[p].name = m
    BY <1>0, <1>1, GotoKeeps DEF IInv, Pcs, Updating
<1>3. op[p].pc \in Updating \ Moved /\ op[p].pc \in WithFresh
    BY <1>1 DEF Updating, Moved, WithFresh, FreshShared
<1>4. fileNos[n] = f /\ fileNos[m] = h /\ m # n
    BY <1>0, <1>3 DEF NamesInv, NamesOf
<1>5. ASSUME NEW q \in Kids \ {p}
      PROVE  /\ op[q].pc \in Updating \ Moved => NameByKey[op[q].key] # n
             /\ op[q].pc \in WithFresh => op[q].name # n
             /\ op[q].pc \in WithFresh => op[q].fresh # h
             /\ op[q].pc \in WithFresh => op[q].name # m
  <2>1. op[q].pc \in WithFresh => op[q].fresh # h /\ fileNos[op[q].name] = op[q].fresh
      BY <1>0, <1>3 DEF NamesInv, FreshApart, NamesOf
  <2> QED
      BY <1>0, <1>3, <1>4, <2>1, KeyNameIsOwn
<1>6. \A x \in FileNos : fileNos'[x] = IF x = n THEN h ELSE fileNos[x]
    BY <1>1
<1>7. NamesOf(p)'
    BY <1>0, <1>1, <1>2, <1>4, <1>6 DEF NamesOf, Moved
<1>8. ASSUME NEW q \in Kids \ {p} PROVE NamesOf(q)'
  <2>1. /\ op'[q] = op[q] /\ NamesOf(q) /\ op[q] \in Ops
        /\ op[q].pc # "idle" => op[q].key \in Keys
      BY <1>2 DEF OthersStay, NamesInv, IInv, TypeOK
  <2>2. overlap = "none" => op[q].pc \notin UpdatePcs
      BY <1>3 DEF TurnsInv, UpdatesTakeTurns, UpdatePcs
  <2>3. op[q].pc \in Updating => NameByKey[op[q].key] \in FileNos
      BY <2>1, StoreMapAssumption DEF StoreMapAssumption, Updating
  <2>4. op[q].name \in FileNos
      BY <2>1 DEF Ops
  <2>5. op[q].pc \in Updating \ Moved => fileNos'[NameByKey[op[q].key]] = op[q].file
      BY <1>5, <1>6, <2>1, <2>3 DEF NamesOf
  <2>6. op[q].pc \in WithFresh => /\ fileNos'[op[q].name] = op[q].fresh
                                  /\ op[q].name # NameByKey[op[q].key]
      BY <1>5, <1>6, <2>1, <2>4 DEF NamesOf
  <2>7. op[q].pc \in Moved => op[q].pc \in UpdatePcs
      BY DEF Moved, UpdatePcs, Updating
  <2> QED
      BY <1>1, <2>1, <2>2, <2>5, <2>6, <2>7 DEF NamesOf
<1>9. FreshApart'
    BY <1>2, <1>5 DEF NamesInv, FreshApart, OthersStay
<1>10. Moved \subseteq WithFresh /\ "relocated" \in Moved /\ "spliced" \notin Moved
    BY DEF Moved, WithFresh, FreshShared
<1>11. \A x \in FileNos : Renamed(x)' <=> Renamed(x) \/ x = m
    BY <1>1, <1>2, <1>10 DEF Renamed, OthersStay
<1>12. ~Renamed(n) /\ ~Renamed(m)
    BY <1>1, <1>5, <1>10 DEF Renamed
<1>13. ASSUME NEW g \in FileNos PROVE \E x \in FileNos : Leads(x, g)'
  <2>1. PICK x \in FileNos : Leads(x, g)
      BY DEF NamesInv
  <2>2. CASE x = n
    <3>1. g = f
        BY <1>4, <1>12, <2>1, <2>2 DEF Leads, Renamed
    <3>2. Leads(m, g)'
        BY <1>2, <1>10, <3>1 DEF Leads
    <3> QED
        BY <1>1, <3>2
  <2>3. CASE x = m
    <3>1. g = h
        BY <1>4, <1>12, <2>1, <2>3 DEF Leads, Renamed
    <3>2. Leads(n, g)'
        BY <1>1, <1>4, <1>6, <1>11, <1>12, <3>1 DEF Leads
    <3> QED
        BY <1>1, <3>2
  <2>4. CASE x # n /\ x # m
    <3>1. Leads(x, g)'
      <4>1. ASSUME NEW q \in Kids, op[q].pc \in Moved, op[q].name = x, op[q].file = g
            PROVE  Leads(x, g)'
        <5>1. op'[q] = op[q]
            BY <1>1, <1>2, <1>10, <4>1 DEF OthersStay
        <5> QED
            BY <4>1, <5>1 DEF Leads
      <4>2. CASE fileNos[x] = g /\ ~Renamed(x)
          BY <1>6, <1>11, <2>4, <4>2 DEF Leads
      <4> QED
          BY <2>1, <4>1, <4>2 DEF Leads
    <3> QED
        BY <3>1
  <2> QED
      BY <2>2, <2>3, <2>4
<1> QED
    BY <1>7, <1>8, <1>9, <1>13 DEF NamesInv

\* Moving the other name to the stale anchor completes the exchange.
LEMMA CloseNames ==
    ASSUME IInv, TurnsInv, NamesInv, NEW p \in Kids, CloseForUpdating(p) PROVE NamesInv'
<1>0. PICK m, f, h : m = op[p].name /\ f = op[p].file /\ h = op[p].fresh
    OBVIOUS
<1>1. /\ op[p].pc = "marked" /\ fileNos' = [fileNos EXCEPT ![m] = f] /\ Finish(p)
      /\ fileNos \in [FileNos -> FileNos] /\ op[p].key \in Keys
      /\ f \in FileNos /\ h \in FileNos /\ m \in FileNos /\ overlap' = overlap
    BY <1>0 DEF CloseForUpdating, IInv, TypeOK, Ops
<1>2. OthersStay(p) /\ op'[p].pc = "idle"
    BY <1>1 DEF Finish, IInv, TypeOK, OthersStay, Idle
<1>3. op[p].pc \in Moved /\ op[p].pc \in WithFresh /\ op[p].pc \in FreshShared
    BY <1>1 DEF Moved, WithFresh, FreshShared
<1>4. fileNos[m] = h /\ m # NameByKey[op[p].key] /\ anchors[h].key = op[p].key
    BY <1>0, <1>3, OwnsFacts DEF NamesInv, NamesOf, Owns, OwnEntry
<1>5. ASSUME NEW q \in Kids \ {p}
      PROVE  /\ op[q].pc \in Updating \ Moved => NameByKey[op[q].key] # m
             /\ op[q].pc \in WithFresh => op[q].name # m
  <2>1. NamesOf(q) /\ Owns(q)
      BY OwnsFacts DEF NamesInv
  <2>2. op[q].pc \in WithFresh => op[q].fresh # h
      BY <1>0, <1>3 DEF NamesInv, FreshApart
  <2>3. op[q].pc \in WithFresh => op[q].name # m
      BY <1>4, <2>1, <2>2 DEF NamesOf
  <2>4. ASSUME op[q].pc \in Updating \ Moved, NameByKey[op[q].key] = m PROVE FALSE
    <3>1. op[q].file = h
        BY <1>4, <2>1, <2>4 DEF NamesOf
    <3>2. anchors[op[q].file].key = op[q].key
        BY <2>1, <2>4 DEF Owns, OwnEntry
    <3> QED
        BY <1>4, <2>4, <3>1, <3>2
  <2> QED
      BY <2>3, <2>4
<1>6. \A x \in FileNos : fileNos'[x] = IF x = m THEN f ELSE fileNos[x]
    BY <1>1
<1>7. NamesOf(p)'
    BY <1>2 DEF NamesOf, Updating, Moved, WithFresh, FreshShared
<1>8. ASSUME NEW q \in Kids \ {p} PROVE NamesOf(q)'
  <2>1. /\ op'[q] = op[q] /\ NamesOf(q) /\ op[q] \in Ops
        /\ op[q].pc # "idle" => op[q].key \in Keys
      BY <1>2 DEF OthersStay, NamesInv, IInv, TypeOK
  <2>2. overlap = "none" => op[q].pc \notin UpdatePcs
      BY <1>1 DEF TurnsInv, UpdatesTakeTurns, UpdatePcs, Updating
  <2>3. op[q].pc \in Updating => NameByKey[op[q].key] \in FileNos
      BY <2>1, StoreMapAssumption DEF StoreMapAssumption, Updating
  <2>4. op[q].name \in FileNos
      BY <2>1 DEF Ops
  <2>5. op[q].pc \in Updating \ Moved => fileNos'[NameByKey[op[q].key]] = op[q].file
      BY <1>5, <1>6, <2>1, <2>3 DEF NamesOf
  <2>6. op[q].pc \in WithFresh => /\ fileNos'[op[q].name] = op[q].fresh
                                  /\ op[q].name # NameByKey[op[q].key]
      BY <1>5, <1>6, <2>1, <2>4 DEF NamesOf
  <2>7. op[q].pc \in Moved => op[q].pc \in UpdatePcs
      BY DEF Moved, UpdatePcs, Updating
  <2> QED
      BY <1>1, <2>1, <2>2, <2>5, <2>6, <2>7 DEF NamesOf
<1>9. Moved \subseteq WithFresh /\ "idle" \notin WithFresh
    BY DEF Moved, WithFresh, FreshShared
<1>10. FreshApart'
    BY <1>2, <1>9 DEF NamesInv, FreshApart, OthersStay
<1>11. \A x \in FileNos : Renamed(x)' <=> Renamed(x) /\ x # m
  <2>1. \A q \in Kids \ {p} : op'[q] = op[q] /\ (op[q].pc \in Moved => op[q].name # m)
      BY <1>2, <1>5, <1>9 DEF OthersStay
  <2> QED
      BY <1>0, <1>2, <1>9, <2>1 DEF Renamed
<1>12. ASSUME NEW g \in FileNos PROVE \E x \in FileNos : Leads(x, g)'
  <2>1. PICK x \in FileNos : Leads(x, g)
      BY DEF NamesInv
  <2>2. CASE x = m
    <3>1. Renamed(m)
        BY <1>0, <1>3 DEF Renamed
    <3>2. g = f
        BY <1>0, <1>5, <1>9, <2>1, <2>2, <3>1 DEF Leads
    <3> QED
        BY <1>1, <1>6, <1>11, <3>2 DEF Leads
  <2>3. CASE x # m
    <3>1. ASSUME NEW q \in Kids, op[q].pc \in Moved, op[q].name = x, op[q].file = g
          PROVE  Leads(x, g)'
      <4>1. op'[q] = op[q]
          BY <1>0, <1>2, <2>3, <3>1 DEF OthersStay
      <4> QED
          BY <3>1, <4>1 DEF Leads
    <3>2. ASSUME fileNos[x] = g, ~Renamed(x) PROVE Leads(x, g)'
        BY <1>6, <1>11, <2>3, <3>2 DEF Leads
    <3>3. Leads(x, g)'
        BY <2>1, <3>1, <3>2 DEF Leads
    <3> QED
        BY <3>3
  <2> QED
      BY <2>2, <2>3
<1> QED
    BY <1>7, <1>8, <1>10, <1>12 DEF NamesInv


\* Looking up a key or a victim takes no anchor yet.
LEMMA FindNames ==
    ASSUME IInv, NamesInv, Remembered, NEW p \in Kids,
           \/ \E k \in Keys, pc \in Purposes[p] : FindAnchor(p, k, pc)
           \/ FindVictim(p)
    PROVE  NamesInv'
<1> USE DEF Updating, Moved, WithFresh, FreshShared
<1>1. ASSUME NEW k \in Keys, NEW pc \in Purposes[p], FindAnchor(p, k, pc) PROVE NamesInv'
  <2>1. op'[p].pc = pc /\ OthersStay(p) /\ fileNos' = fileNos /\ op[p].pc = "idle"
      BY <1>1 DEF FindAnchor, Idle, IInv, TypeOK, OthersStay, shared
  <2>2. pc \in {"get", "cache", "evict", "update"}
      BY StoreMapAssumption DEF StoreMapAssumption
  <2> QED
      BY <2>1, <2>2, NamesGoOn
<1>2. ASSUME FindVictim(p) PROVE NamesInv'
  <2>1. PICK n \in FileNos :
            op' = [op EXCEPT ![p].pc = "victim", ![p].name = n, ![p].fresh = fileNos[n]]
      BY <1>2 DEF FindVictim
  <2>2. op[p].pc = "headers" /\ fileNos' = fileNos /\ op[p] \in Ops /\ op \in [Kids -> Ops]
      BY <1>2 DEF FindVictim, shared, IInv, TypeOK
  <2>3. op'[p] = [op[p] EXCEPT !.pc = "victim", !.name = n, !.fresh = fileNos[n]] /\ OthersStay(p)
      BY <2>1, <2>2 DEF OthersStay
  <2>4. op'[p].pc = "victim" /\ op'[p].key = op[p].key /\ op'[p].file = op[p].file
      BY <2>2, <2>3 DEF Ops
  <2> QED
      BY <2>2, <2>3, <2>4, NamesGoOn
<1> QED
    BY <1>1, <1>2

\* The headers lock is taken on the anchor that the key's name leads to.
LEMMA LockHeadersNames ==
    ASSUME IInv, NamesInv, Remembered, overlap' # "stale", NEW p \in Kids, LockHeaders(p)
    PROVE  NamesInv'
<1> USE DEF Updating, Moved, WithFresh, FreshShared
<1>1. op[p].pc = "stale" /\ fileNos' = fileNos
    BY DEF LockHeaders, shared
<1>2. CASE Finish(p)
  <2>1. OthersStay(p) /\ op'[p].pc = "idle"
      BY <1>2 DEF Finish, IInv, TypeOK, OthersStay, Idle
  <2> QED
      BY <1>1, <2>1, NamesGoOn
<1>3. CASE Goto(p, "headers") /\ LocksNamed(NameByKey[op[p].key], op[p].file)
  <2>1. fileNos[NameByKey[op[p].key]] = op[p].file
      BY <1>3 DEF LocksNamed
  <2>2. /\ OthersStay(p) /\ op'[p].pc = "headers"
        /\ op'[p].key = op[p].key /\ op'[p].file = op[p].file
      BY <1>3, GotoKeeps DEF IInv, Pcs
  <2>3. NamesOf(p)'
      BY <1>1, <2>1, <2>2 DEF NamesOf
  <2> QED
      BY <1>1, <2>2, <2>3, NamesStay
<1> QED
    BY <1>2, <1>3 DEF LockHeaders

\* The fresh anchor is locked under the name that leads to it: not the key's, and not one
\* that another update has.
LEMMA OpenKeylessNames ==
    ASSUME IInv, NamesInv, Remembered, overlap' # "stale", NEW p \in Kids, OpenKeyless(p)
    PROVE  NamesInv'
<1>1. op[p].pc = "victim" /\ fileNos' = fileNos
    BY DEF OpenKeyless, OpenForWritingAt, shared
<1>2. CASE SkipVictim(p)
  <2>1. /\ OthersStay(p) /\ op'[p].pc = "headers"
        /\ op'[p].key = op[p].key /\ op'[p].file = op[p].file
      BY <1>1, <1>2, SkipVictimEffect DEF IInv
  <2> QED
      BY <1>1, <2>1, NamesGoOn DEF Updating, Moved, WithFresh, FreshShared
<1>3. CASE Goto(p, "fresh") /\ MayLockExclusive(op[p].fresh) /\ LocksNamed(op[p].name, op[p].fresh)
  <2>1. fileNos[op[p].name] = op[p].fresh
      BY <1>3 DEF LocksNamed
  <2>2. /\ OthersStay(p) /\ op'[p].pc = "fresh"
        /\ op'[p].key = op[p].key /\ op'[p].file = op[p].file
        /\ op'[p].fresh = op[p].fresh /\ op'[p].name = op[p].name
      BY <1>3, GotoKeeps DEF IInv, Pcs, Updating
  <2>3. op[p].fresh # op[p].file
      BY <1>1, <1>3 DEF MayLockExclusive, Shared, Updating
  <2>4. fileNos[NameByKey[op[p].key]] = op[p].file
      BY <1>1 DEF NamesInv, NamesOf, Updating, Moved
  <2>5. op[p].name # NameByKey[op[p].key]
      BY <2>1, <2>3, <2>4
  <2>6. NamesOf(p)'
      BY <1>1, <2>1, <2>2, <2>4, <2>5 DEF NamesOf, Updating, Moved, WithFresh
  <2>7. \A q \in Kids \ {p} : op[q].pc \in WithFresh => op[q].fresh # op[p].fresh
      BY <1>3 DEF MayLockExclusive, Shared, Exclusive, WithFresh
  <2> QED
      BY <1>1, <2>2, <2>6, <2>7, NamesStay DEF Moved
<1> QED
    BY <1>2, <1>3 DEF OpenKeyless, OpenForWritingAt

\* Steps that end or go on without touching names.
LEMMA OtherStepsNames ==
    ASSUME IInv, NamesInv, Remembered, NEW p \in Kids,
           \/ GiveUp(p) \/ OpenForReadingAt(p) \/ CloseForReading(p) \/ LoadFailed(p)
           \/ StartCaching(p) \/ StartAppending(p) \/ CopyToShm(p) \/ CompleteWriting(p)
           \/ AbortWriting(p) \/ EvictCached(p) \/ FreeEntryByKey(p) \/ MarkUnlocked(p)
           \/ ExtendPrefix(p) \/ WritePrefix(p) \/ AbortUpdating(p) \/ Splice(p) \/ FreeStale(p)
    PROVE  NamesInv'
<1> USE DEF Updating, Moved, WithFresh, FreshShared
<1>1. ASSUME Finish(p), fileNos' = fileNos, op[p].pc \notin Moved PROVE NamesInv'
  <2>1. OthersStay(p) /\ op'[p].pc = "idle"
      BY <1>1 DEF Finish, IInv, TypeOK, OthersStay, Idle
  <2> QED
      BY <1>1, <2>1, NamesGoOn
<1>2. ASSUME NEW pc \in Pcs, Goto(p, pc), fileNos' = fileNos,
             \/ pc \notin Updating /\ op[p].pc \notin Moved
             \/ /\ op[p].pc \in WithFresh /\ pc \in WithFresh
                /\ pc \in Moved <=> op[p].pc \in Moved
      PROVE  NamesInv'
  <2>1. /\ OthersStay(p) /\ op'[p].pc = pc
        /\ op'[p].key = op[p].key /\ op'[p].file = op[p].file
        /\ op'[p].fresh = op[p].fresh /\ op'[p].name = op[p].name
      BY <1>2, GotoKeeps DEF IInv
  <2> QED
      BY <1>2, <2>1, NamesGoOn
<1>3. CASE \/ GiveUp(p) \/ CloseForReading(p) \/ LoadFailed(p) \/ CompleteWriting(p)
           \/ AbortWriting(p) \/ MarkUnlocked(p) \/ AbortUpdating(p)
  <2>1. Finish(p) /\ fileNos' = fileNos /\ op[p].pc \notin Moved
      BY <1>3 DEF GiveUp, CloseForReading, LoadFailed, CompleteWriting, AbortWriting, MarkUnlocked,
                  AbortUpdating, Evicted, shared
  <2> QED
      BY <1>1, <2>1
<1>4. CASE CopyToShm(p) \/ EvictCached(p) \/ ExtendPrefix(p)
  <2>1. /\ OthersStay(p) /\ op' = op /\ fileNos' = fileNos
        /\ op[p].pc \in {"writing", "appending", "reading", "fresh"}
      BY <1>4 DEF CopyToShm, EvictCached, ExtendPrefix, OthersStay
  <2> QED
      BY <2>1, NamesGoOn
<1>5. CASE OpenForReadingAt(p)
  <2>1. /\ fileNos' = fileNos /\ op[p].pc \in {"get", "update"}
        /\ Goto(p, "stale") \/ Goto(p, "reading") \/ Goto(p, "copying")
      BY <1>5 DEF OpenForReadingAt, shared
  <2> QED
      BY <1>2, <2>1 DEF Pcs
<1>6. CASE StartCaching(p) \/ StartAppending(p)
  <2>1. /\ fileNos' = fileNos /\ op[p].pc \in {"cache", "writing"}
        /\ Goto(p, "writing") \/ Goto(p, "appending")
      BY <1>6 DEF StartCaching, StartAppending, OpenForWritingAt, shared
  <2> QED
      BY <1>2, <2>1 DEF Pcs
<1>7. CASE FreeEntryByKey(p)
  <2>1. fileNos' = fileNos /\ op[p].pc = "evict" /\ (Finish(p) \/ Goto(p, "evictUnlocked"))
      BY <1>7 DEF FreeEntryByKey, Evicted
  <2> QED
      BY <1>1, <1>2, <2>1 DEF Pcs
<1>8. CASE Splice(p) \/ FreeStale(p)
  <2>1. /\ fileNos' = fileNos
        /\ \/ Goto(p, "spliced") /\ op[p].pc = "prefixed"
           \/ Goto(p, "marked") /\ op[p].pc = "relocated"
      BY <1>8 DEF Splice, FreeStale
  <2> QED
      BY <1>2, <2>1 DEF Pcs
<1>9. CASE WritePrefix(p)
  <2>1. PICK s \in Slices : op' = [op EXCEPT ![p].pc = "prefixed", ![p].splice = s]
      BY <1>9, ChainInSlices DEF WritePrefix, WholeChain
  <2>2. op[p].pc = "fresh" /\ fileNos' = fileNos /\ op[p] \in Ops /\ op \in [Kids -> Ops]
      BY <1>9 DEF WritePrefix, IInv, TypeOK
  <2>3. op'[p] = [op[p] EXCEPT !.pc = "prefixed", !.splice = s] /\ OthersStay(p)
      BY <2>1, <2>2 DEF OthersStay
  <2>4. /\ op'[p].pc = "prefixed" /\ op'[p].key = op[p].key /\ op'[p].file = op[p].file
        /\ op'[p].fresh = op[p].fresh /\ op'[p].name = op[p].name
      BY <2>2, <2>3 DEF Ops
  <2> QED
      BY <2>2, <2>3, <2>4, NamesGoOn
<1> QED
    BY <1>3, <1>4, <1>5, <1>6, <1>7, <1>8, <1>9

\* Every step keeps the names, unless an update locks an anchor by an outdated name.
LEMMA NextNames ==
    ASSUME IInv, TurnsInv, NamesInv, overlap' # "stale", Next PROVE NamesInv'
<1>1. Remembered
    BY NextRemembers
<1> QED
    BY <1>1, FindNames, LockHeadersNames, OpenKeylessNames, OtherStepsNames, RelocateNames,
       CloseNames DEF Next

\* overlap is "none" only as long as no two updates overlap.
THEOREM OverlapIsNoticed == Spec => []TurnsInv
<1>1. Init => TurnsInv
    BY DEF Init, Idle, TurnsInv, UpdatesTakeTurns, UpdatePcs, Updating
<1>2. IInv /\ TurnsInv /\ [Next]_vars => TurnsInv'
  <2>1. ASSUME TurnsInv, UNCHANGED vars PROVE TurnsInv'
      BY <2>1 DEF TurnsInv, UpdatesTakeTurns, vars
  <2> QED
      BY <2>1, NextTurns
<1> QED
    BY <1>1, <1>2, InductiveInvariant, PTL DEF Spec

\* However many updates run side by side, names and anchors stay in correspondence but for
\* the exchanges that are under way, until one of them locks an anchor by an outdated name.
THEOREM NamesCorrespond == Spec => [](overlap # "stale" => NamesInv)
<1>1. Init => NamesInv
  <2> SUFFICES ASSUME Init PROVE NamesInv
      OBVIOUS
  <2>1. \A p \in Kids : op[p].pc = "idle"
      BY DEF Init, Idle
  <2>2. \A f \in FileNos : Leads(f, f)
      BY <2>1 DEF Init, Leads, Renamed, Moved
  <2> QED
      BY <2>1, <2>2 DEF NamesInv, NamesOf, FreshApart, Updating, Moved, WithFresh, FreshShared
<1>2. IInv /\ TurnsInv /\ (overlap # "stale" => NamesInv) /\ [Next]_vars
          => (overlap # "stale" => NamesInv)'
  <2>1. ASSUME IInv, TurnsInv, overlap # "stale" => NamesInv, Next, overlap' # "stale"
        PROVE  NamesInv'
      BY <2>1, NextRemembers, NextNames DEF Remembered
  <2>2. ASSUME NamesInv, UNCHANGED vars PROVE NamesInv'
      BY <2>2 DEF NamesInv, NamesOf, FreshApart, Leads, Renamed, vars
  <2>3. UNCHANGED vars => overlap' = overlap
      BY DEF vars
  <2> QED
      BY <2>1, <2>2, <2>3
<1> QED
    BY <1>1, <1>2, InductiveInvariant, OverlapIsNoticed, PTL DEF Spec

\* relocate() neither loses an anchor for good nor gives it two names, whatever other
\* updates, of the same entry too, relocate between its two calls in closeForUpdating();
\* only locking an anchor by an outdated name breaks this.
THEOREM AnchorsKeepNames == Spec => []NamesReachEveryAnchor
<1>1. (overlap # "stale" => NamesInv) => NamesReachEveryAnchor
  <2> SUFFICES ASSUME NamesInv, \A p \in Kids : op[p].pc \notin Moved, NEW f \in FileNos
               PROVE  \E n \in FileNos : fileNos[n] = f
      BY DEF NamesReachEveryAnchor, Moved
  <2> QED
      BY DEF NamesInv, Leads
<1> QED
    BY <1>1, NamesCorrespond, PTL

\* While updates take turns, a key whose entry is being moved leads to a readable anchor
\* of that entry at every moment, unless somebody deletes it (closeForUpdating()).
THEOREM UpdatesAreSeamless == Spec => []UpdateIsSeamless
<1>1. IInv /\ (overlap # "stale" => NamesInv) => UpdateIsSeamless
  <2> SUFFICES
        ASSUME IInv, NamesInv, overlap = "none", NEW p \in Kids,
               \/ op[p].pc \in Closing /\ ~anchors[op[p].file].waitingToBeFreed
                                       /\ ~anchors[op[p].fresh].waitingToBeFreed
               \/ op[p].pc = "marked" /\ ~anchors[op[p].fresh].waitingToBeFreed
        PROVE  /\ Readable(fileNos[NameByKey[op[p].key]], op[p].key)
               /\ MayLockShared(fileNos[NameByKey[op[p].key]])
      BY DEF UpdateIsSeamless
  <2>1. Owns(p) /\ NamesOf(p)
      BY OwnsFacts DEF NamesInv
  <2>2. PICK f \in {op[p].file, op[p].fresh} :
            /\ f = fileNos[NameByKey[op[p].key]] /\ f \in FileNos
            /\ Shared(p, f) /\ anchors[f].key = op[p].key /\ ~anchors[f].waitingToBeFreed
      BY <2>1 DEF Owns, OwnEntry, NamesOf, Closing, Moved, Updating, FreshShared, Shared
  <2>3. ~Exclusive(p, f)
      BY <2>1, <2>2 DEF Exclusive, Closing
  <2>4. MayLockShared(f)
      BY <2>2, <2>3 DEF MayLockShared, IInv, LocksExclude, Alone, HoldsAny
  <2> QED
      BY <2>2, <2>4 DEF Readable
<1> QED
    BY <1>1, InductiveInvariant, NamesCorrespond, PTL

-----------------------------------------------------------------------------
(* Evictions *)

\* An entry of key k under anchor f that was written, not updated, and is not to be freed
Original(f, k) == Readable(f, k) /\ ~anchors[f].updated

\* The entry under f was marked too late for the first check of closeForUpdating() and
\* awaits the second one.
Excused(f) == \E p \in Kids : /\ op[p].pc = "relocated" /\ op[p].fresh = f
                              /\ anchors[op[p].file].waitingToBeFreed

\* What kid p may rely on: an entry that is being written, or was opened meanwhile, is
\* no copy; a fresh anchor has a copy of the stale one's entry; who closes an update has
\* marked the stale one; and an entry that p has come to evict can be elsewhere only as
\* a copy.
Traces(p) ==
    /\ op[p].saw \in 0 .. made
    /\ op[p].pc \in {"reading", "writing", "appending"} => ~anchors[op[p].file].updated
    /\ op[p].pc \in {"fresh", "prefixed"} \cup FreshShared => anchors[op[p].fresh].updated
    /\ op[p].pc \in {"fresh", "prefixed"} \cup Closing =>
           anchors[op[p].fresh].id = anchors[op[p].file].id
    /\ op[p].pc = "marked" => anchors[op[p].file].waitingToBeFreed
    /\ op[p].pc \in {"evict", "evictUnlocked"} =>
           \A g \in FileNos \ {op[p].file} :
               g = fileNos[NameByKey[op[p].key]] /\ Original(g, op[p].key) =>
                   anchors[g].id \notin 1 .. op[p].saw

\* Entries are numbered, and the key of one that was evicted does not lead to it, unless
\* an update that is being closed has yet to find its mark.
EvictInv ==
    /\ \A f \in FileNos : anchors[f].id \in 0 .. made
    /\ \A f, g \in FileNos : f # g /\ ~Empty(f) /\ ~Empty(g) /\ anchors[f].id = anchors[g].id =>
           anchors[f].updated \/ anchors[g].updated
    /\ \A k \in Keys : evicted[k] \subseteq 0 .. made
    /\ \A p \in Kids : Traces(p)
    /\ \A k \in Keys, f \in FileNos :
           f = fileNos[NameByKey[k]] /\ Readable(f, k) /\ anchors[f].id \in evicted[k] => Excused(f)

\* Anchor f has the entry it had, marked at most.
SameEntry(f) ==
    /\ anchors'[f].key = anchors[f].key /\ anchors'[f].id = anchors[f].id
    /\ anchors'[f].updated = anchors[f].updated
    /\ anchors[f].waitingToBeFreed => anchors'[f].waitingToBeFreed

\* It is emptied, or gets an entry of kid p: a new one, or a copy that has no name yet.
OtherEntry(p, f) ==
    /\ Alone(p, f)
    /\ \/ anchors'[f].key = NoKey /\ anchors'[f].id = 0
       \/ f = op[p].file /\ ~anchors'[f].updated /\ anchors'[f].id = made' /\ made' = made + 1
       \/ /\ anchors'[f].updated /\ anchors'[f].id \in 0 .. made
          /\ anchors'[f].key \in Keys /\ fileNos[NameByKey[anchors'[f].key]] # f

\* Kid p adds S to the evicted entries of its key, but for what was moved away.
Evicts(p, S) ==
    /\ S \subseteq 0 .. made
    /\ \A k \in Keys \ {op[p].key} : evicted'[k] \subseteq evicted[k]
    /\ op[p].key \in Keys => evicted'[op[p].key] \subseteq evicted[op[p].key] \cup (S \ MovedAway(p))
    /\ S # {} => /\ anchors'[op[p].file].waitingToBeFreed \/ anchors'[op[p].file].key # op[p].key
                 /\ \A g \in FileNos \ {op[p].file} :
                        g = fileNos[NameByKey[op[p].key]] /\ Original(g, op[p].key) =>
                            anchors[g].id \notin S

Tracing(p, S) ==
    /\ fileNos' = fileNos /\ made' \in {made, made + 1}
    /\ \A f \in FileNos : SameEntry(f) \/ OtherEntry(p, f)
    /\ Evicts(p, S)
    /\ op[p].pc = "relocated" /\ anchors[op[p].file].waitingToBeFreed =>
           anchors'[op[p].fresh].waitingToBeFreed

\* The anchors that a kid holds have the same entries.
LEMMA HeldEntriesSame ==
    ASSUME IInv, NEW p \in Kids, \A f \in FileNos : SameEntry(f) \/ OtherEntry(p, f),
           NEW q \in Kids \ {p}
    PROVE  /\ op[q].pc \in {"reading", "writing", "appending"} \cup Updating => SameEntry(op[q].file)
           /\ op[q].pc \in {"fresh", "prefixed"} \cup FreshShared => SameEntry(op[q].fresh)
<1>1. op[q].file \in FileNos /\ op[q].fresh \in FileNos
    BY OwnsFacts DEF Owns
<1>2. ASSUME op[q].pc \in {"reading", "writing", "appending"} \cup Updating
      PROVE  ~Alone(p, op[q].file)
    BY <1>2 DEF Alone, HoldsAny, Shared, Exclusive, Appending
<1>3. ASSUME op[q].pc \in {"fresh", "prefixed"} \cup FreshShared
      PROVE  ~Alone(p, op[q].fresh)
    BY <1>3 DEF Alone, HoldsAny, Shared, Exclusive
<1> QED
    BY <1>1, <1>2, <1>3 DEF OtherEntry

\* At most one entry more, with a number of its own
LEMMA TracingNumbers ==
    ASSUME IInv, NEW p \in Kids, NEW S, Tracing(p, S)
    PROVE  /\ 0 .. made \subseteq 0 .. made' /\ made' \in 0 .. made' /\ 0 \in 0 .. made'
           /\ made' = made + 1 => made' \notin 0 .. made
<1>1. made \in Nat
    BY StoreMapAssumption DEF IInv, TypeOK, StoreMapAssumption
<1>2. PICK m \in Nat : m = made' /\ m \in {made, made + 1}
    BY <1>1 DEF Tracing
<1>3. /\ 0 .. made \subseteq 0 .. m /\ m \in 0 .. m /\ 0 \in 0 .. m
      /\ m = made + 1 => m \notin 0 .. made
    BY <1>1, <1>2
<1> QED
    BY <1>2, <1>3

\* Other kids rely on what they did.
LEMMA OthersTrace ==
    ASSUME IInv, EvictInv, NEW p \in Kids, NEW S, Fine(p), Tracing(p, S), NEW q \in Kids \ {p}
    PROVE  Traces(q)'
<1>0. /\ op'[q] = op[q] /\ op[q].file \in FileNos /\ op[q].fresh \in FileNos /\ Traces(q)
      /\ \A f \in FileNos : SameEntry(f) \/ OtherEntry(p, f)
      /\ fileNos' = fileNos
    BY OwnsFacts DEF Owns, Fine, OthersStay, EvictInv, Tracing
<1>1. op[q].saw \in 0 .. made'
    BY <1>0, TracingNumbers DEF Traces
<1>2. /\ op[q].pc \in {"reading", "writing", "appending"} \cup Updating => SameEntry(op[q].file)
      /\ op[q].pc \in {"fresh", "prefixed"} \cup FreshShared => SameEntry(op[q].fresh)
    BY <1>0, HeldEntriesSame
<1>3. op[q].pc \in {"reading", "writing", "appending"} => ~anchors'[op[q].file].updated
    BY <1>0, <1>2 DEF Traces, SameEntry
<1>4. op[q].pc \in {"fresh", "prefixed"} \cup FreshShared => anchors'[op[q].fresh].updated
    BY <1>0, <1>2 DEF Traces, SameEntry
<1>5. op[q].pc \in {"fresh", "prefixed"} \cup Closing =>
          anchors'[op[q].fresh].id = anchors'[op[q].file].id
    BY <1>0, <1>2 DEF Traces, SameEntry, Updating, FreshShared, Closing
<1>6. op[q].pc = "marked" => anchors'[op[q].file].waitingToBeFreed
    BY <1>0, <1>2 DEF Traces, SameEntry, Updating
<1>7. ASSUME op[q].pc \in {"evict", "evictUnlocked"}, NEW g \in FileNos \ {op[q].file},
             g = fileNos[NameByKey[op[q].key]],
             anchors'[g].key = op[q].key, ~anchors'[g].waitingToBeFreed, ~anchors'[g].updated
      PROVE  anchors'[g].id \notin 1 .. op[q].saw
  <2>1. op[q].key # NoKey
      BY <1>7, StoreMapAssumption DEF IInv, TypeOK, StoreMapAssumption
  <2>2. CASE SameEntry(g)
    <3>1. Original(g, op[q].key)
        BY <1>7, <2>2 DEF SameEntry, Original, Readable
    <3> QED
        BY <1>0, <1>7, <2>2, <3>1 DEF Traces, SameEntry
  <2>3. CASE OtherEntry(p, g)
    <3>1. anchors'[g].id = made' /\ made' \notin 0 .. made
        BY <1>7, <2>1, <2>3, TracingNumbers DEF OtherEntry
    <3>2. 1 .. op[q].saw \subseteq 0 .. made
      <4>1. op[q].saw \in 0 .. made /\ made \in Nat
          BY <1>0, StoreMapAssumption DEF Traces, IInv, TypeOK, StoreMapAssumption
      <4> QED
          BY <4>1
    <3> QED
        BY <3>1, <3>2
  <2> QED
      BY <1>0, <2>2, <2>3
<1> QED
    BY <1>0, <1>1, <1>3, <1>4, <1>5, <1>6, <1>7 DEF Traces, Original, Readable, FreshShared, Closing

\* A step like that keeps evicted entries away.
LEMMA TracingStep ==
    ASSUME IInv, EvictInv, NEW p \in Kids, NEW S, Fine(p), Tracing(p, S), Traces(p)'
    PROVE  EvictInv'
<1>0. /\ \A f \in FileNos : SameEntry(f) \/ OtherEntry(p, f)
      /\ fileNos' = fileNos /\ Evicts(p, S)
      /\ op[p].pc = "relocated" /\ anchors[op[p].file].waitingToBeFreed =>
             anchors'[op[p].fresh].waitingToBeFreed
    BY DEF Tracing
<1>1. \A q \in Kids : Traces(q)'
    BY OthersTrace
<1>2. \A f \in FileNos : anchors'[f].id \in 0 .. made'
  <2> SUFFICES ASSUME NEW f \in FileNos PROVE anchors'[f].id \in 0 .. made'
      OBVIOUS
  <2>1. 0 .. made \subseteq 0 .. made' /\ made' \in 0 .. made' /\ 0 \in 0 .. made'
      BY TracingNumbers
  <2>2. anchors[f].id \in 0 .. made
      BY DEF EvictInv
  <2> QED
      BY <1>0, <2>1, <2>2 DEF SameEntry, OtherEntry
<1>3. ASSUME NEW f \in FileNos, NEW g \in FileNos, f # g, anchors'[f].key # NoKey,
             anchors'[g].key # NoKey, anchors'[f].id = anchors'[g].id,
             ~anchors'[f].updated, ~anchors'[g].updated
      PROVE  FALSE
  <2>1. ASSUME NEW h \in FileNos, anchors'[h].key # NoKey, ~anchors'[h].updated, ~SameEntry(h)
        PROVE  h = op[p].file /\ anchors'[h].id \notin 0 .. made
      BY <1>0, <2>1, TracingNumbers DEF OtherEntry
  <2>2. ASSUME NEW h \in FileNos, SameEntry(h)
        PROVE  anchors'[h].id \in 0 .. made
      BY <2>2 DEF EvictInv, SameEntry
  <2>3. CASE SameEntry(f) /\ SameEntry(g)
      BY <1>3, <2>3 DEF SameEntry, EvictInv, Empty
  <2> QED
      BY <1>3, <2>1, <2>2, <2>3
<1>4. \A k \in Keys : evicted'[k] \subseteq 0 .. made'
  <2>1. \A k \in Keys : evicted'[k] \subseteq 0 .. made
      BY <1>0 DEF Evicts, EvictInv
  <2> QED
      BY <2>1, TracingNumbers
<1>5. ASSUME NEW k \in Keys, NEW f \in FileNos, f = fileNos[NameByKey[k]],
             anchors'[f].key = k, ~anchors'[f].waitingToBeFreed, anchors'[f].id \in evicted'[k]
      PROVE  Excused(f)'
  <2>1. k # NoKey
      BY StoreMapAssumption DEF StoreMapAssumption
  <2>2. SameEntry(f)
    <3> SUFFICES ASSUME OtherEntry(p, f) PROVE FALSE
        BY <1>0
    <3>1. anchors'[f].id \notin 0 .. made
        BY <1>5, <2>1, TracingNumbers DEF OtherEntry
    <3>2. evicted'[k] \subseteq 0 .. made
        BY <1>0 DEF Evicts, EvictInv
    <3> QED
        BY <1>5, <3>1, <3>2
  <2>3. Readable(f, k)
      BY <1>5, <2>2 DEF SameEntry, Readable
  <2>4. anchors[f].id \in evicted[k]
    <3> SUFFICES ASSUME anchors[f].id \notin evicted[k] PROVE FALSE
        OBVIOUS
    <3>1. k = op[p].key /\ anchors[f].id \in S \ MovedAway(p)
        BY <1>0, <1>5, <2>2 DEF Evicts, SameEntry
    <3>2. f # op[p].file
        BY <1>0, <1>5, <3>1 DEF Evicts
    <3>3. ~anchors[f].updated
        BY <1>5, <3>1, <3>2 DEF MovedAway
    <3>4. Original(f, k)
        BY <2>3, <3>3 DEF Original
    <3> QED
        BY <1>0, <1>5, <3>1, <3>2, <3>4 DEF Evicts
  <2>5. PICK q \in Kids : /\ op[q].pc = "relocated" /\ op[q].fresh = f
                          /\ anchors[op[q].file].waitingToBeFreed
      BY <1>5, <2>3, <2>4 DEF EvictInv, Excused
  <2>6. q # p /\ op'[q] = op[q]
      BY <1>0, <1>5, <2>5 DEF Fine, OthersStay
  <2>7. SameEntry(op[q].file)
      BY <1>0, <2>5, <2>6, HeldEntriesSame DEF Updating
  <2> QED
      BY <2>5, <2>6, <2>7 DEF SameEntry, Excused
<1> QED
    BY <1>0, <1>1, <1>2, <1>3, <1>4, <1>5 DEF EvictInv, Empty, Readable

\* Where a kid relies on nothing that Traces() states
Untraced == {"idle", "get", "cache", "update", "copying", "stale", "headers", "victim"}

\* A step that changes no entry, after which p relies on nothing
LEMMA QuietStep ==
    ASSUME IInv, EvictInv, NEW p \in Kids, Fine(p), fileNos' = fileNos, made' = made,
           evicted' = evicted, \A f \in FileNos : SameEntry(f) \/ OtherEntry(p, f),
           op[p].pc # "relocated"
    PROVE  /\ Traces(p)' => EvictInv'
           /\ op'[p].pc \in Untraced /\ op'[p].saw \in {0, op[p].saw} => EvictInv'
<1>1. Evicts(p, {})
    BY DEF Evicts
<1>2. Tracing(p, {})
    BY <1>1 DEF Tracing
<1>3. ASSUME op'[p].pc \in Untraced, op'[p].saw \in {0, op[p].saw} PROVE Traces(p)'
  <2>1. 0 \in 0 .. made /\ op[p].saw \in 0 .. made
      BY StoreMapAssumption DEF EvictInv, Traces, IInv, TypeOK, StoreMapAssumption
  <2>2. op'[p].saw \in 0 .. made'
      BY <1>3, <2>1
  <2>3. op'[p].pc \notin {"reading", "writing", "appending", "fresh", "prefixed", "evict", "evictUnlocked"}
                             \cup FreshShared \cup Closing
      BY <1>3 DEF Untraced, FreshShared, Closing
  <2> QED
      BY <2>2, <2>3 DEF Traces, FreshShared, Closing
<1> QED
    BY <1>2, <1>3, TracingStep

\* What the steps of op do to what kid p saw
LEMMA GotoSaw ==
    ASSUME TypeOK, NEW p \in Kids, NEW pc, Goto(p, pc)
    PROVE  op'[p].pc = pc /\ op'[p].saw = op[p].saw
BY DEF Goto, TypeOK, Ops

\* Ending an operation forgets it.
LEMMA FinishSaw ==
    ASSUME TypeOK, NEW p \in Kids, Finish(p)
    PROVE  op'[p].pc \in Untraced /\ op'[p].saw = 0
BY DEF Finish, TypeOK, Idle, Untraced

\* A mark changes no entry.
LEMMA MarkEntries ==
    ASSUME TypeOK, NEW f \in FileNos, anchors' = [anchors EXCEPT ![f] = Mark(@)]
    PROVE  (\A g \in FileNos : SameEntry(g)) /\ anchors'[f].waitingToBeFreed
BY DEF TypeOK, Mark, Anchors, SameEntry

\* freeChain() changes one.
LEMMA FreeEntries ==
    ASSUME TypeOK, NEW f \in FileNos, NEW a, FreeChain(f, a)
    PROVE  anchors'[f] = a /\ \A g \in FileNos \ {f} : SameEntry(g)
BY DEF TypeOK, FreeChain, SameEntry

\* Emptying an anchor that p holds alone, or nobody
LEMMA EmptyEntries ==
    ASSUME TypeOK, NEW p \in Kids, NEW f \in FileNos, FreeChain(f, Rewound), Alone(p, f)
    PROVE  /\ \A g \in FileNos : SameEntry(g) \/ OtherEntry(p, g)
           /\ anchors'[f].key = NoKey
<1>1. anchors'[f] = Rewound /\ \A g \in FileNos \ {f} : SameEntry(g)
    BY FreeEntries
<1>2. Rewound.key = NoKey /\ Rewound.id = 0
    BY DEF Rewound
<1> QED
    BY <1>1, <1>2 DEF OtherEntry

\* reserveSapForWriting() may empty an anchor that nobody holds.
LEMMA ReserveEntries ==
    ASSUME TypeOK, NEW p \in Kids, NEW f \in FileNos, NEW s \in Slices, ReserveSlice(p, f, s)
    PROVE  \A g \in FileNos : SameEntry(g) \/ (MayLockExclusive(g) /\ OtherEntry(p, g))
<1> DEFINE linked == IF anchors[f].start = None THEN [anchors EXCEPT ![f].start = s] ELSE anchors
<1>1. /\ linked \in [FileNos -> Anchors]
      /\ \A g \in FileNos : /\ linked[g].key = anchors[g].key /\ linked[g].id = anchors[g].id
                            /\ linked[g].updated = anchors[g].updated
                            /\ linked[g].waitingToBeFreed = anchors[g].waitingToBeFreed
    BY DEF TypeOK, Anchors
<1>2. CASE anchors' = linked
  <2> HIDE DEF linked
  <2> QED
      BY <1>1, <1>2 DEF SameEntry
<1>3. ASSUME NEW n \in FileNos, MayLockExclusive(fileNos[n]),
             anchors' = [linked EXCEPT ![fileNos[n]] = Rewound]
      PROVE  \A g \in FileNos : SameEntry(g) \/ (MayLockExclusive(g) /\ OtherEntry(p, g))
  <2> HIDE DEF linked
  <2>1. fileNos[n] \in FileNos
      BY DEF TypeOK
  <2>2. Rewound.key = NoKey /\ Rewound.id = 0
      BY DEF Rewound
  <2>3. Alone(p, fileNos[n])
      BY <1>3, MayLockAlone
  <2>4. anchors'[fileNos[n]] = Rewound /\ \A g \in FileNos \ {fileNos[n]} : anchors'[g] = linked[g]
      BY <1>1, <1>3, <2>1
  <2>5. OtherEntry(p, fileNos[n])
      BY <2>2, <2>3, <2>4 DEF OtherEntry
  <2>6. \A g \in FileNos \ {fileNos[n]} : SameEntry(g)
      BY <1>1, <2>4 DEF SameEntry
  <2> QED
      BY <1>3, <2>5, <2>6
<1> QED
    BY <1>2, <1>3 DEF ReserveSlice

\* PropagateMark() changes none.
LEMMA PropagateEntries ==
    ASSUME TypeOK, NEW p \in Kids, NEW g \in FileNos
    PROVE  /\ PropagateMark(anchors, p)[g].key = anchors[g].key
           /\ PropagateMark(anchors, p)[g].id = anchors[g].id
           /\ PropagateMark(anchors, p)[g].updated = anchors[g].updated
           /\ anchors[g].waitingToBeFreed => PropagateMark(anchors, p)[g].waitingToBeFreed
           /\ g = op[p].fresh /\ anchors[op[p].file].waitingToBeFreed =>
                  PropagateMark(anchors, p)[g].waitingToBeFreed
           /\ PropagateMark(anchors, p)[g] \in Anchors
<1>1. /\ anchors \in [FileNos -> Anchors] /\ op[p].fresh \in FileNos
      /\ anchors[op[p].fresh] \in Anchors
    BY DEF TypeOK, Ops
<1> DEFINE h == op[p].fresh
<1>2. /\ Mark(anchors[h]) \in Anchors
      /\ Mark(anchors[h]).key = anchors[h].key
      /\ Mark(anchors[h]).id = anchors[h].id
      /\ Mark(anchors[h]).updated = anchors[h].updated
      /\ Mark(anchors[h]).waitingToBeFreed
    BY <1>1 DEF Mark, Anchors
<1>3. CASE ~anchors[op[p].file].waitingToBeFreed /\ PropagateMark(anchors, p) = anchors
    BY <1>1, <1>3
<1>4. CASE PropagateMark(anchors, p) = [anchors EXCEPT ![h] = Mark(anchors[h])]
    BY <1>1, <1>2, <1>4
<1> QED
    BY <1>3, <1>4 DEF PropagateMark

\* A step that leaves the map alone
LEMMA UnsharedStep ==
    ASSUME IInv, EvictInv, NEW p \in Kids, Fine(p), UNCHANGED <<shared, made, evicted>>,
           op[p].pc # "relocated"
    PROVE  /\ Traces(p)' => EvictInv'
           /\ op'[p].pc \in Untraced /\ op'[p].saw \in {0, op[p].saw} => EvictInv'
<1>1. fileNos' = fileNos /\ made' = made /\ evicted' = evicted /\ \A f \in FileNos : SameEntry(f)
    BY DEF shared, SameEntry
<1> QED
    BY <1>1, QuietStep

\* Looking up an anchor for an eviction: no entry is elsewhere under the key's name.
LEMMA FindAnchorTraces ==
    ASSUME IInv, EvictInv, NEW p \in Kids, Fine(p), NEW k \in Keys,
           NEW pc \in {"get", "cache", "evict", "update"}, FindAnchor(p, k, pc)
    PROVE  EvictInv'
<1>1. UNCHANGED <<shared, made, evicted>> /\ op[p].pc # "relocated"
    BY DEF FindAnchor
<1>2. /\ op'[p].pc = pc /\ op'[p].key = k /\ op'[p].file = fileNos[NameByKey[k]]
      /\ op'[p].saw = IF pc = "evict" THEN made ELSE 0
    BY DEF FindAnchor, IInv, TypeOK, Idle
<1>3. CASE pc # "evict"
    BY <1>1, <1>2, <1>3, UnsharedStep DEF Untraced
<1>4. CASE pc = "evict"
  <2>1. made \in 0 .. made
      BY StoreMapAssumption DEF IInv, TypeOK, StoreMapAssumption
  <2>2. op'[p].saw \in 0 .. made'
      BY <1>1, <1>2, <1>4, <2>1
  <2>3. fileNos' = fileNos
      BY <1>1 DEF shared
  <2>4. Traces(p)'
      BY <1>2, <1>4, <2>2, <2>3 DEF Traces, FreshShared, Closing
  <2> QED
      BY <1>1, <2>4, UnsharedStep
<1> QED
    BY <1>3, <1>4

\* Ending an operation that was not moving an entry
LEMMA FinishTraces ==
    ASSUME IInv, EvictInv, NEW p \in Kids, Fine(p), Finish(p), UNCHANGED <<shared, made, evicted>>,
           op[p].pc # "relocated"
    PROVE  EvictInv'
<1>1. op'[p].pc \in Untraced /\ op'[p].saw = 0
    BY FinishSaw DEF IInv
<1> QED
    BY <1>1, UnsharedStep

\* An entry that is read while it is written is no copy.
LEMMA OpenForReadingTraces ==
    ASSUME IInv, EvictInv, NEW p \in Kids, Fine(p), OpenForReadingAt(p)
    PROVE  EvictInv'
<1> DEFINE f == op[p].file
<1>1. /\ UNCHANGED <<shared, made, evicted>> /\ op[p].pc # "relocated" /\ MayLockShared(f)
      /\ op[p].pc \in {"get", "update"}
    BY DEF OpenForReadingAt
<1>2. PICK pc : /\ Goto(p, pc)
                /\ pc = CASE op[p].pc = "update" -> "stale"
                          [] Writing(f) -> "reading"
                          [] OTHER -> "copying"
    BY DEF OpenForReadingAt
<1>3. op'[p].pc = pc /\ op'[p].saw = op[p].saw
    BY <1>2, GotoSaw DEF IInv
<1>4. op'[p].file = f
    BY <1>2 DEF Goto, IInv, TypeOK, Ops
<1>5. CASE pc \in {"stale", "copying"}
    BY <1>1, <1>3, <1>5, UnsharedStep DEF Untraced
<1>6. CASE pc = "reading" /\ Writing(f)
  <2>1. PICK q \in Kids : Appending(q, f)
      BY <1>1, <1>6 DEF Writing, MayLockShared
  <2>2. ~anchors[f].updated
      BY <2>1 DEF Appending, EvictInv, Traces
  <2>3. op'[p].saw \in 0 .. made'
      BY <1>1, <1>3 DEF EvictInv, Traces
  <2>4. ~anchors'[op'[p].file].updated
      BY <1>1, <1>4, <2>2 DEF shared
  <2>5. Traces(p)'
      BY <1>3, <1>6, <2>3, <2>4 DEF Traces, FreshShared, Closing
  <2> QED
      BY <1>1, <2>5, UnsharedStep
<1> QED
    BY <1>1, <1>2, <1>5, <1>6

\* A writer that lets readers in goes on with its entry.
LEMMA StartAppendingTraces ==
    ASSUME IInv, EvictInv, NEW p \in Kids, Fine(p), StartAppending(p)
    PROVE  EvictInv'
<1>1. /\ UNCHANGED <<shared, made, evicted>> /\ op[p].pc = "writing" /\ Goto(p, "appending")
    BY DEF StartAppending
<1>3. op'[p].pc = "appending" /\ op'[p].saw = op[p].saw
    BY <1>1, GotoSaw DEF IInv
<1>4. op'[p].file = op[p].file
    BY <1>1 DEF Goto, IInv, TypeOK, Ops
<1>5. Traces(p)
    BY DEF EvictInv
<1>6. op'[p].saw \in 0 .. made' /\ ~anchors'[op'[p].file].updated
    BY <1>1, <1>3, <1>4, <1>5 DEF Traces, shared
<1>7. Traces(p)'
    BY <1>3, <1>6 DEF Traces, FreshShared, Closing
<1> QED
    BY <1>1, <1>7, UnsharedStep

\* get() marks an entry that it does not like.
LEMMA LoadFailedTraces ==
    ASSUME IInv, EvictInv, NEW p \in Kids, Fine(p), LoadFailed(p)
    PROVE  EvictInv'
<1>1. op[p].pc # "relocated" /\ fileNos' = fileNos /\ made' = made /\ evicted' = evicted
    BY DEF LoadFailed
<1>2. \A f \in FileNos : SameEntry(f)
    BY MarkEntries, OwnsFacts DEF LoadFailed, IInv, Owns
<1>3. op'[p].pc \in Untraced /\ op'[p].saw = 0
    BY FinishSaw DEF IInv, LoadFailed
<1> QED
    BY <1>1, <1>2, <1>3, QuietStep

\* An aborted writer empties its anchor or marks it.
LEMMA AbortWritingTraces ==
    ASSUME IInv, EvictInv, NEW p \in Kids, Fine(p), AbortWriting(p)
    PROVE  EvictInv'
<1> DEFINE f == op[p].file
<1>0. f \in FileNos /\ Finish(p) /\ TypeOK
    BY OwnsFacts DEF Owns, AbortWriting, IInv
<1>1. op[p].pc # "relocated" /\ fileNos' = fileNos /\ made' = made /\ evicted' = evicted
    BY DEF AbortWriting
<1>2. CASE Halt(f)
  <2>1. \A g \in FileNos : SameEntry(g)
      BY <1>0, <1>2 DEF Halt, TypeOK, Mark, Anchors, SameEntry
  <2> QED
      BY <1>0, <1>1, <2>1, FinishSaw, QuietStep
<1>3. CASE FreeChain(f, Rewound) /\ (op[p].pc = "writing" \/ (op[p].pc = "appending" /\ ~\E q \in Kids : Shared(q, f)))
  <2>1. Alone(p, f)
      BY <1>0, <1>3 DEF IInv, LocksExclude, Alone, HoldsAny, Exclusive, Appending
  <2>2. \A g \in FileNos : SameEntry(g) \/ OtherEntry(p, g)
      BY <1>0, <1>3, <2>1, EmptyEntries
  <2> QED
      BY <1>0, <1>1, <2>2, FinishSaw, QuietStep
<1> QED
    BY <1>2, <1>3 DEF AbortWriting

\* An aborted update empties the fresh anchor.
LEMMA AbortUpdatingTraces ==
    ASSUME IInv, EvictInv, NEW p \in Kids, Fine(p), AbortUpdating(p)
    PROVE  EvictInv'
<1>0. op[p].fresh \in FileNos /\ Finish(p) /\ TypeOK
    BY OwnsFacts DEF Owns, AbortUpdating, IInv
<1>1. op[p].pc # "relocated" /\ fileNos' = fileNos /\ made' = made /\ evicted' = evicted
    BY DEF AbortUpdating, shared
<1>2. CASE UNCHANGED shared
    BY <1>0, <1>1, <1>2, FinishTraces
<1>3. CASE FreeChain(op[p].fresh, Rewound) /\ op[p].pc \in {"fresh", "prefixed"}
  <2>1. Alone(p, op[p].fresh)
      BY <1>0, <1>3 DEF IInv, LocksExclude, Exclusive
  <2>2. \A g \in FileNos : SameEntry(g) \/ OtherEntry(p, g)
      BY <1>0, <1>3, <2>1, EmptyEntries
  <2> QED
      BY <1>0, <1>1, <2>2, FinishSaw, QuietStep
<1> QED
    BY <1>2, <1>3 DEF AbortUpdating

\* Locking the headers
LEMMA LockHeadersTraces ==
    ASSUME IInv, EvictInv, NEW p \in Kids, Fine(p), LockHeaders(p)
    PROVE  EvictInv'
<1>1. /\ UNCHANGED <<shared, made, evicted>> /\ op[p].pc # "relocated"
      /\ Goto(p, "headers") \/ Finish(p)
    BY DEF LockHeaders
<1>2. CASE Goto(p, "headers")
  <2>1. op'[p].pc = "headers" /\ op'[p].saw = op[p].saw
      BY <1>2, GotoSaw DEF IInv
  <2> QED
      BY <1>1, <2>1, UnsharedStep DEF Untraced
<1> QED
    BY <1>1, <1>2, FinishTraces

\* Looking for a fresh anchor
LEMMA FindVictimTraces ==
    ASSUME IInv, EvictInv, NEW p \in Kids, Fine(p), FindVictim(p)
    PROVE  EvictInv'
<1>1. UNCHANGED <<shared, made, evicted>> /\ op[p].pc # "relocated"
    BY DEF FindVictim
<1>2. op'[p].pc = "victim" /\ op'[p].saw = op[p].saw
    BY DEF FindVictim, IInv, TypeOK, Ops
<1> QED
    BY <1>1, <1>2, UnsharedStep DEF Untraced

\* A slice for an entry that is held
LEMMA ReserveKeepsHeld ==
    ASSUME IInv, NEW p \in Kids, NEW f \in FileNos, NEW s \in Slices, ReserveSlice(p, f, s)
    PROVE  /\ \A g \in FileNos : SameEntry(g) \/ OtherEntry(p, g)
           /\ op[p].pc \in {"writing", "appending", "fresh"} => SameEntry(op[p].file)
           /\ op[p].pc = "fresh" => SameEntry(op[p].fresh)
<1>1. \A g \in FileNos : SameEntry(g) \/ (MayLockExclusive(g) /\ OtherEntry(p, g))
    BY ReserveEntries DEF IInv
<1>2. op[p].file \in FileNos /\ op[p].fresh \in FileNos
    BY OwnsFacts DEF Owns
<1>3. op[p].pc \in {"writing", "appending", "fresh"} => ~MayLockExclusive(op[p].file)
    BY DEF MayLockExclusive, Exclusive, Appending, Shared, Updating
<1>4. op[p].pc = "fresh" => ~MayLockExclusive(op[p].fresh)
    BY DEF MayLockExclusive, Exclusive
<1> QED
    BY <1>1, <1>2, <1>3, <1>4

\* A writer fills one more slice.
LEMMA CopyToShmTraces ==
    ASSUME IInv, EvictInv, NEW p \in Kids, Fine(p), CopyToShm(p)
    PROVE  EvictInv'
<1>1. /\ op[p].pc \in {"writing", "appending"}
      /\ fileNos' = fileNos /\ made' = made /\ evicted' = evicted /\ op' = op
    BY DEF CopyToShm
<1>2. PICK s \in Slices : ReserveSlice(p, op[p].file, s)
    BY DEF CopyToShm
<1>3. /\ \A g \in FileNos : SameEntry(g) \/ OtherEntry(p, g)
      /\ SameEntry(op[p].file)
    BY <1>1, <1>2, OwnsFacts, ReserveKeepsHeld DEF Owns
<1>4. Traces(p)
    BY DEF EvictInv
<1>5. op'[p].saw \in 0 .. made' /\ ~anchors'[op'[p].file].updated
    BY <1>1, <1>3, <1>4 DEF Traces, SameEntry
<1>6. Traces(p)'
    BY <1>1, <1>5 DEF Traces, FreshShared, Closing
<1> QED
    BY <1>1, <1>3, <1>6, QuietStep

\* An updater writes part of the fresh headers, ...
LEMMA ExtendPrefixTraces ==
    ASSUME IInv, EvictInv, NEW p \in Kids, Fine(p), ExtendPrefix(p)
    PROVE  EvictInv'
<1>1. op[p].pc = "fresh" /\ fileNos' = fileNos /\ made' = made /\ evicted' = evicted /\ op' = op
    BY DEF ExtendPrefix
<1>2. PICK s \in Slices : ReserveSlice(p, op[p].fresh, s)
    BY DEF ExtendPrefix
<1>3. /\ \A g \in FileNos : SameEntry(g) \/ OtherEntry(p, g)
      /\ SameEntry(op[p].file) /\ SameEntry(op[p].fresh)
    BY <1>1, <1>2, OwnsFacts, ReserveKeepsHeld DEF Owns
<1>4. Traces(p)
    BY DEF EvictInv
<1>5. /\ op'[p].saw \in 0 .. made' /\ anchors'[op'[p].fresh].updated
      /\ anchors'[op'[p].fresh].id = anchors'[op'[p].file].id
    BY <1>1, <1>3, <1>4 DEF Traces, SameEntry
<1>6. Traces(p)'
    BY <1>1, <1>5 DEF Traces, FreshShared, Closing
<1> QED
    BY <1>1, <1>3, <1>6, QuietStep

\* ... and the rest of them.
LEMMA WritePrefixTraces ==
    ASSUME IInv, EvictInv, NEW p \in Kids, Fine(p), WritePrefix(p)
    PROVE  EvictInv'
<1>1. op[p].pc = "fresh" /\ fileNos' = fileNos /\ made' = made /\ evicted' = evicted
    BY DEF WritePrefix
<1>2. PICK s \in Slices : ReserveSlice(p, op[p].fresh, s)
    BY DEF WritePrefix
<1>3. /\ \A g \in FileNos : SameEntry(g) \/ OtherEntry(p, g)
      /\ SameEntry(op[p].file) /\ SameEntry(op[p].fresh)
    BY <1>1, <1>2, OwnsFacts, ReserveKeepsHeld DEF Owns
<1>4. /\ op'[p].pc = "prefixed" /\ op'[p].saw = op[p].saw
      /\ op'[p].file = op[p].file /\ op'[p].fresh = op[p].fresh
    BY DEF WritePrefix, IInv, TypeOK, Ops
<1>5. Traces(p)
    BY DEF EvictInv
<1>6. /\ op'[p].saw \in 0 .. made' /\ anchors'[op'[p].fresh].updated
      /\ anchors'[op'[p].fresh].id = anchors'[op'[p].file].id
    BY <1>1, <1>3, <1>4, <1>5 DEF Traces, SameEntry
<1>7. Traces(p)'
    BY <1>4, <1>6 DEF Traces, FreshShared, Closing
<1> QED
    BY <1>1, <1>3, <1>7, QuietStep

\* Splicing copies the stale anchor's mark.
LEMMA SpliceTraces ==
    ASSUME IInv, EvictInv, NEW p \in Kids, Fine(p), Splice(p)
    PROVE  EvictInv'
<1>1. /\ op[p].pc = "prefixed" /\ fileNos' = fileNos /\ made' = made /\ evicted' = evicted
      /\ anchors' = PropagateMark(anchors, p) /\ Goto(p, "spliced")
    BY DEF Splice
<1>2. \A g \in FileNos : SameEntry(g)
    BY <1>1, PropagateEntries DEF SameEntry, IInv
<1>3. op[p].file \in FileNos /\ op[p].fresh \in FileNos
    BY OwnsFacts DEF Owns
<1>4. /\ op'[p].pc = "spliced" /\ op'[p].saw = op[p].saw
      /\ op'[p].file = op[p].file /\ op'[p].fresh = op[p].fresh
    BY <1>1 DEF Goto, IInv, TypeOK, Ops
<1>5. Traces(p)
    BY DEF EvictInv
<1>6. /\ op'[p].saw \in 0 .. made' /\ anchors'[op'[p].fresh].updated
      /\ anchors'[op'[p].fresh].id = anchors'[op'[p].file].id
    BY <1>1, <1>2, <1>3, <1>4, <1>5 DEF Traces, SameEntry
<1>7. Traces(p)'
    BY <1>4, <1>6 DEF Traces, FreshShared, Closing
<1> QED
    BY <1>1, <1>2, <1>7, QuietStep

\* A new entry has a number of its own.
LEMMA StartCachingTraces ==
    ASSUME IInv, EvictInv, NEW p \in Kids, Fine(p), StartCaching(p)
    PROVE  EvictInv'
<1> DEFINE f == op[p].file
<1>1. /\ op[p].pc = "cache" /\ made' = made + 1 /\ evicted' = evicted /\ Goto(p, "writing")
      /\ f \in FileNos /\ op[p].key \in Keys
    BY OwnsFacts DEF StartCaching, Owns, IInv, TypeOK
<1>2. PICK marked \in BOOLEAN : OpenForWritingAt(f, NewAnchor(op[p].key, made + 1, FALSE, marked))
    BY DEF StartCaching
<1>3. PICK a : /\ OpenForWritingAt(f, a) /\ a = NewAnchor(op[p].key, made + 1, FALSE, marked)
    BY <1>2
<1>4. a.id = made + 1 /\ ~a.updated
    BY <1>3 DEF NewAnchor, Rewound
<1>5. fileNos' = fileNos /\ MayLockExclusive(f) /\ FreeChain(f, a)
    BY <1>3 DEF OpenForWritingAt
<1>6. anchors'[f] = a /\ \A g \in FileNos \ {f} : SameEntry(g)
    BY <1>1, <1>5, FreeEntries DEF IInv
<1>7. OtherEntry(p, f)
    BY <1>1, <1>4, <1>5, <1>6, MayLockAlone DEF OtherEntry
<1>8. Evicts(p, {})
    BY <1>1 DEF Evicts
<1>9. Tracing(p, {})
    BY <1>1, <1>5, <1>6, <1>7, <1>8 DEF Tracing
<1>10. op'[p].pc = "writing" /\ op'[p].saw = op[p].saw /\ op'[p].file = f
    BY <1>1 DEF Goto, IInv, TypeOK, Ops
<1>11. op'[p].saw \in 0 .. made'
    BY <1>9, <1>10, TracingNumbers DEF EvictInv, Traces
<1>12. ~anchors'[op'[p].file].updated
    BY <1>4, <1>6, <1>10
<1>13. Traces(p)'
    BY <1>10, <1>11, <1>12 DEF Traces, FreshShared, Closing
<1> QED
    BY <1>9, <1>13, TracingStep

\* The copy that an updater is to write has no name yet.
LEMMA OpenKeylessTraces ==
    ASSUME IInv, EvictInv, NEW p \in Kids, NamesOf(p), Fine(p), OpenKeyless(p)
    PROVE  EvictInv'
<1> DEFINE f == op[p].fresh
<1>1. /\ op[p].pc = "victim" /\ made' = made /\ evicted' = evicted
      /\ f \in FileNos /\ op[p].file \in FileNos /\ op[p].key \in Keys
    BY OwnsFacts DEF OpenKeyless, Owns, IInv, TypeOK
<1>2. CASE SkipVictim(p) /\ UNCHANGED shared
  <2>1. op'[p].pc = "headers" /\ op'[p].saw = op[p].saw
      BY <1>1, <1>2, SkipVictimEffect DEF IInv
  <2> QED
      BY <1>1, <1>2, <2>1, UnsharedStep DEF Untraced
<1>3. ASSUME NEW marked \in BOOLEAN, Goto(p, "fresh"),
             OpenForWritingAt(f, NewAnchor(op[p].key, anchors[op[p].file].id, TRUE, marked))
      PROVE  EvictInv'
  <2>1. PICK a : OpenForWritingAt(f, a) /\ a = NewAnchor(op[p].key, anchors[op[p].file].id, TRUE, marked)
      BY <1>3
  <2>2. a.id = anchors[op[p].file].id /\ a.updated /\ a.key = op[p].key
      BY <2>1 DEF NewAnchor, Rewound
  <2>3. fileNos' = fileNos /\ MayLockExclusive(f) /\ FreeChain(f, a)
      BY <2>1 DEF OpenForWritingAt
  <2>4. /\ anchors'[f] = a
        /\ \A g \in FileNos \ {f} : SameEntry(g)
      BY <1>1, <2>3, FreeEntries DEF IInv
  <2>5. f # op[p].file /\ fileNos[NameByKey[op[p].key]] # f
    <3>1. Shared(p, op[p].file)
        BY <1>1 DEF Shared, Updating
    <3>2. f # op[p].file
        BY <1>1, <2>3, <3>1 DEF MayLockExclusive
    <3>3. fileNos[NameByKey[op[p].key]] = op[p].file
        BY <1>1 DEF NamesOf, Moved, Updating
    <3> QED
        BY <3>2, <3>3
  <2>6. a.id \in 0 .. made
      BY <1>1, <2>2 DEF EvictInv
  <2>7. OtherEntry(p, f)
      BY <1>1, <2>2, <2>3, <2>4, <2>5, <2>6, MayLockAlone DEF OtherEntry
  <2>8. \A g \in FileNos : SameEntry(g) \/ OtherEntry(p, g)
      BY <2>4, <2>7
  <2>9. /\ op'[p].pc = "fresh" /\ op'[p].saw = op[p].saw
        /\ op'[p].file = op[p].file /\ op'[p].fresh = f
      BY <1>3 DEF Goto, IInv, TypeOK, Ops
  <2>10. /\ op'[p].saw \in 0 .. made' /\ anchors'[op'[p].fresh].updated
         /\ anchors'[op'[p].fresh].id = anchors'[op'[p].file].id
      BY <1>1, <2>2, <2>4, <2>5, <2>9 DEF EvictInv, Traces, SameEntry
  <2>11. Traces(p)'
      BY <2>9, <2>10 DEF Traces, FreshShared, Closing
  <2> QED
      BY <1>1, <2>3, <2>8, <2>11, QuietStep
<1> QED
    BY <1>2, <1>3 DEF OpenKeyless

\* Marking the entry that one has: it is under no other anchor, but for copies.
LEMMA EvictCachedTraces ==
    ASSUME IInv, EvictInv, NEW p \in Kids, Fine(p), EvictCached(p)
    PROVE  EvictInv'
<1> DEFINE f == op[p].file
<1>1. /\ op[p].pc \in {"reading", "writing", "appending"} /\ made' = made /\ op' = op
      /\ fileNos' = fileNos /\ f \in FileNos /\ op[p].key \in Keys
    BY OwnsFacts DEF EvictCached, Owns, IInv, TypeOK
<1>2. (\A g \in FileNos : SameEntry(g)) /\ anchors'[f].waitingToBeFreed
    BY <1>1, MarkEntries DEF EvictCached, IInv
<1>3. /\ \A k \in Keys \ {op[p].key} : evicted'[k] = evicted[k]
      /\ evicted'[op[p].key] = evicted[op[p].key] \cup ({anchors[f].id} \ MovedAway(p))
    BY <1>1 DEF EvictCached, IInv, TypeOK
<1>4. ~anchors[f].updated /\ anchors[f].key = op[p].key /\ op[p].key # NoKey
    BY <1>1, OwnsFacts, StoreMapAssumption DEF EvictInv, Traces, Owns, OwnEntry, StoreMapAssumption
<1>5. ASSUME NEW g \in FileNos \ {f}, Original(g, op[p].key)
      PROVE  anchors[g].id \notin {anchors[f].id}
    BY <1>1, <1>4, <1>5 DEF EvictInv, Original, Readable, Empty
<1>6. {anchors[f].id} \subseteq 0 .. made
    BY <1>1 DEF EvictInv
<1>7. Evicts(p, {anchors[f].id})
    BY <1>2, <1>3, <1>5, <1>6 DEF Evicts
<1>8. Tracing(p, {anchors[f].id})
    BY <1>1, <1>2, <1>7 DEF Tracing
<1>9. Traces(p)
    BY DEF EvictInv
<1>10. op'[p].saw \in 0 .. made' /\ ~anchors'[op'[p].file].updated
    BY <1>1, <1>2, <1>9 DEF Traces, SameEntry
<1>11. Traces(p)'
    BY <1>1, <1>10 DEF Traces, FreshShared, Closing
<1> QED
    BY <1>8, <1>11, TracingStep

\* What evictIfFound() was about is not under the key's name, but for copies.
LEMMA EvictedTraces ==
    ASSUME IInv, EvictInv, NEW p \in Kids, Fine(p), Evicted(p),
           op[p].pc \in {"evict", "evictUnlocked"}, fileNos' = fileNos, made' = made,
           \A f \in FileNos : SameEntry(f) \/ OtherEntry(p, f),
           anchors'[op[p].file].waitingToBeFreed \/ anchors'[op[p].file].key # op[p].key
    PROVE  EvictInv'
<1>1. Finish(p) /\ op[p].key \in Keys /\ Traces(p)
    BY DEF Evicted, IInv, TypeOK, EvictInv
<1>2. /\ \A k \in Keys \ {op[p].key} : evicted'[k] = evicted[k]
      /\ evicted'[op[p].key] = evicted[op[p].key] \cup ((1 .. op[p].saw) \ MovedAway(p))
    BY <1>1 DEF Evicted, IInv, TypeOK
<1>3. 1 .. op[p].saw \subseteq 0 .. made
  <2>1. op[p].saw \in 0 .. made /\ made \in Nat
      BY <1>1, StoreMapAssumption DEF Traces, IInv, TypeOK, StoreMapAssumption
  <2> QED
      BY <2>1
<1>4. Evicts(p, 1 .. op[p].saw)
    BY <1>1, <1>2, <1>3 DEF Evicts, Traces
<1>5. Tracing(p, 1 .. op[p].saw)
    BY <1>4 DEF Tracing
<1>6. op'[p].pc \in Untraced /\ op'[p].saw = 0
    BY <1>1, FinishSaw DEF IInv
<1>7. op'[p].saw \in 0 .. made'
    BY <1>5, <1>6, TracingNumbers
<1>8. op'[p].pc \notin {"reading", "writing", "appending", "fresh", "prefixed", "evict", "evictUnlocked"}
                           \cup FreshShared \cup Closing
    BY <1>6 DEF Untraced, FreshShared, Closing
<1>9. Traces(p)'
    BY <1>7, <1>8 DEF Traces, FreshShared, Closing
<1> QED
    BY <1>5, <1>9, TracingStep

\* freeEntryByKey() empties the anchor, marks it, or finds another key there.
LEMMA FreeEntryByKeyTraces ==
    ASSUME IInv, EvictInv, NEW p \in Kids, Fine(p), FreeEntryByKey(p)
    PROVE  EvictInv'
<1> DEFINE f == op[p].file
<1>1. /\ op[p].pc = "evict" /\ fileNos' = fileNos /\ made' = made /\ f \in FileNos
      /\ op[p].key # NoKey /\ TypeOK
    BY OwnsFacts, StoreMapAssumption DEF FreeEntryByKey, Owns, IInv, TypeOK, StoreMapAssumption
<1>2. CASE MayLockExclusive(f) /\ FreeChain(f, Rewound) /\ Evicted(p)
  <2>1. (\A g \in FileNos : SameEntry(g) \/ OtherEntry(p, g)) /\ anchors'[f].key = NoKey
      BY <1>1, <1>2, MayLockAlone, EmptyEntries
  <2> QED
      BY <1>1, <1>2, <2>1, EvictedTraces
<1>3. CASE anchors' = [anchors EXCEPT ![f] = Mark(@)] /\ Evicted(p)
  <2>1. (\A g \in FileNos : SameEntry(g)) /\ anchors'[f].waitingToBeFreed
      BY <1>1, <1>3, MarkEntries
  <2> QED
      BY <1>1, <1>3, <2>1, EvictedTraces
<1>4. CASE Goto(p, "evictUnlocked") /\ anchors' = anchors /\ evicted' = evicted
  <2>1. \A g \in FileNos : SameEntry(g)
      BY <1>4 DEF SameEntry
  <2>2. /\ op'[p].pc = "evictUnlocked" /\ op'[p].saw = op[p].saw
        /\ op'[p].file = op[p].file /\ op'[p].key = op[p].key
      BY <1>4 DEF Goto, IInv, TypeOK, Ops
  <2>3. Traces(p)
      BY DEF EvictInv
  <2>4. Traces(p)'
      BY <1>1, <1>4, <2>2, <2>3 DEF Traces, FreshShared, Closing, Original, Readable
  <2> QED
      BY <1>1, <1>4, <2>1, <2>4, QuietStep
<1>5. CASE anchors[f].key # op[p].key /\ anchors' = anchors /\ Evicted(p)
  <2>1. \A g \in FileNos : SameEntry(g)
      BY <1>5 DEF SameEntry
  <2> QED
      BY <1>1, <1>5, <2>1, EvictedTraces
<1> QED
    BY <1>2, <1>3, <1>4, <1>5 DEF FreeEntryByKey

\* The mark that is set without a lock
LEMMA MarkUnlockedTraces ==
    ASSUME IInv, EvictInv, NEW p \in Kids, Fine(p), MarkUnlocked(p)
    PROVE  EvictInv'
<1>1. /\ op[p].pc = "evictUnlocked" /\ fileNos' = fileNos /\ made' = made
      /\ op[p].file \in FileNos /\ TypeOK /\ Evicted(p)
    BY OwnsFacts DEF MarkUnlocked, Owns, IInv
<1>2. (\A g \in FileNos : SameEntry(g)) /\ anchors'[op[p].file].waitingToBeFreed
    BY <1>1, MarkEntries DEF MarkUnlocked
<1> QED
    BY <1>1, <1>2, EvictedTraces

\* freeEntry() of the stale anchor: the second check has found its mark, if any.
LEMMA FreeStaleTraces ==
    ASSUME IInv, EvictInv, NEW p \in Kids, Fine(p), FreeStale(p)
    PROVE  EvictInv'
<1> DEFINE as == PropagateMark(anchors, p)
           f == op[p].file
           m == [Mark(as[f]) EXCEPT !.splicingPoint = op[p].splice]
<1>1. /\ op[p].pc = "relocated" /\ fileNos' = fileNos /\ made' = made /\ evicted' = evicted
      /\ anchors' = [as EXCEPT ![f] = m] /\ Goto(p, "marked")
      /\ f \in FileNos /\ op[p].fresh \in FileNos /\ f # op[p].fresh /\ TypeOK
    BY OwnsFacts DEF FreeStale, Owns, TwoAnchors, FreshShared, IInv
<1>2. as \in [FileNos -> Anchors]
    BY <1>1, PropagateMarkEffect DEF TypeOK
<1>3. /\ m.key = as[f].key /\ m.id = as[f].id /\ m.updated = as[f].updated /\ m.waitingToBeFreed
    BY <1>1, <1>2 DEF Mark, Anchors
<1>4. anchors'[f] = m /\ \A g \in FileNos \ {f} : anchors'[g] = as[g]
    BY <1>1, <1>2
<1>5. \A g \in FileNos : SameEntry(g)
    BY <1>1, <1>3, <1>4, PropagateEntries DEF SameEntry
<1>6. anchors[f].waitingToBeFreed => anchors'[op[p].fresh].waitingToBeFreed
    BY <1>1, <1>4, PropagateEntries
<1>7. Tracing(p, {})
    BY <1>1, <1>5, <1>6 DEF Tracing, Evicts
<1>8. /\ op'[p].pc = "marked" /\ op'[p].saw = op[p].saw
      /\ op'[p].file = op[p].file /\ op'[p].fresh = op[p].fresh
    BY <1>1 DEF Goto, TypeOK, Ops
<1>9. Traces(p)
    BY DEF EvictInv
<1>10. op'[p].saw \in 0 .. made' /\ anchors'[op'[p].fresh].updated
    BY <1>1, <1>5, <1>8, <1>9 DEF Traces, SameEntry, FreshShared
<1>11. anchors'[op'[p].file].waitingToBeFreed
    BY <1>3, <1>4, <1>8
<1>12. Traces(p)'
    BY <1>8, <1>10, <1>11 DEF Traces, FreshShared, Closing
<1> QED
    BY <1>7, <1>12, TracingStep

\* A step that moves the name n to an anchor with no original entry
LEMMA NameMoves ==
    ASSUME IInv, EvictInv, NEW p \in Kids, Fine(p), NEW n \in FileNos, NEW g \in FileNos,
           fileNos' = [fileNos EXCEPT ![n] = g], anchors' = anchors, made' = made,
           evicted' = evicted, Traces(p)',
           anchors[g].updated \/ anchors[g].waitingToBeFreed,
           \A k \in Keys : NameByKey[k] = n /\ Readable(g, k) /\ anchors[g].id \in evicted[k] =>
                               Excused(g)',
           \A f \in FileNos : Excused(f) => Excused(f)'
    PROVE  EvictInv'
<1>0. \A k \in Keys : fileNos'[NameByKey[k]] = IF NameByKey[k] = n THEN g ELSE fileNos[NameByKey[k]]
    BY StoreMapAssumption DEF IInv, TypeOK, StoreMapAssumption
<1>1. ASSUME NEW q \in Kids PROVE Traces(q)'
  <2> SUFFICES ASSUME q # p PROVE Traces(q)'
      OBVIOUS
  <2>1. op'[q] = op[q] /\ Traces(q)
      BY DEF Fine, OthersStay, EvictInv
  <2>2. ASSUME op[q].pc \in {"evict", "evictUnlocked"}, NEW h \in FileNos \ {op[q].file},
               h = fileNos'[NameByKey[op[q].key]], Original(h, op[q].key)
        PROVE  anchors[h].id \notin 1 .. op[q].saw
    <3>1. op[q].key \in Keys
        BY <2>2 DEF IInv, TypeOK
    <3>2. h = fileNos[NameByKey[op[q].key]]
        BY <1>0, <2>2, <3>1 DEF Original, Readable
    <3> QED
        BY <2>1, <2>2, <3>2 DEF Traces
  <2> QED
      BY <2>1, <2>2 DEF Traces, Original, Readable
<1>2. ASSUME NEW k \in Keys, NEW f \in FileNos, f = fileNos'[NameByKey[k]], Readable(f, k),
             anchors[f].id \in evicted[k]
      PROVE  Excused(f)'
    BY <1>0, <1>2 DEF EvictInv
<1> QED
    BY <1>1, <1>2 DEF EvictInv, Empty, Readable

\* The key's name moves to a copy.  If the entry was evicted, then its old anchor is marked.
LEMMA RelocateTraces ==
    ASSUME IInv, EvictInv, UpdatesTakeTurns, NEW p \in Kids, NamesOf(p), Fine(p), Relocate(p)
    PROVE  EvictInv'
<1>0. PICK n, g : n = NameByKey[op[p].key] /\ g = op[p].fresh
    OBVIOUS
<1>1. /\ op[p].pc = "spliced" /\ fileNos' = [fileNos EXCEPT ![n] = g] /\ Goto(p, "relocated")
      /\ anchors' = anchors /\ made' = made /\ evicted' = evicted
      /\ op[p].key \in Keys /\ n \in FileNos /\ g \in FileNos /\ op[p].file \in FileNos
    BY <1>0, OwnsFacts, StoreMapAssumption DEF Relocate, Owns, IInv, TypeOK, StoreMapAssumption
<1>2. /\ op'[p].pc = "relocated" /\ op'[p].saw = op[p].saw /\ op'[p].key = op[p].key
      /\ op'[p].file = op[p].file /\ op'[p].fresh = op[p].fresh
    BY <1>1 DEF Goto, IInv, TypeOK, Ops
<1>3. /\ Traces(p) /\ anchors[g].updated /\ anchors[g].id = anchors[op[p].file].id
      /\ op[p].saw \in 0 .. made
    BY <1>0, <1>1 DEF EvictInv, Traces, FreshShared, Closing
<1>4. Traces(p)'
    BY <1>0, <1>1, <1>2, <1>3 DEF Traces, FreshShared, Closing
<1>5. \A f \in FileNos : ~Excused(f)
    BY <1>1 DEF UpdatesTakeTurns, UpdatePcs, Updating, Excused
<1>6. ASSUME NEW k \in Keys, NameByKey[k] = n, Readable(g, k), anchors[g].id \in evicted[k]
      PROVE  Excused(g)'
  <2>1. /\ anchors[g].key = op[p].key /\ anchors[op[p].file].key = op[p].key
        /\ fileNos[n] = op[p].file
      BY <1>0, <1>1, OwnsFacts DEF Owns, OwnEntry, NamesOf, Moved, Updating, FreshShared
  <2>2. k = op[p].key
      BY <1>6, <2>1 DEF Readable
  <2>3. ~Readable(op[p].file, k)
      BY <1>1, <1>3, <1>5, <1>6, <2>1, <2>2 DEF EvictInv
  <2>4. anchors[op[p].file].waitingToBeFreed
      BY <2>1, <2>2, <2>3 DEF Readable
  <2> QED
      BY <1>0, <1>1, <1>2, <2>4 DEF Excused
<1> QED
    BY <1>1, <1>3, <1>4, <1>5, <1>6, NameMoves

\* The other name moves to the marked anchor.
LEMMA CloseForUpdatingTraces ==
    ASSUME IInv, EvictInv, NEW p \in Kids, Fine(p), CloseForUpdating(p)
    PROVE  EvictInv'
<1>1. /\ op[p].pc = "marked" /\ fileNos' = [fileNos EXCEPT ![op[p].name] = op[p].file] /\ Finish(p)
      /\ anchors' = anchors /\ made' = made /\ evicted' = evicted
      /\ op[p].name \in FileNos /\ op[p].file \in FileNos
    BY OwnsFacts DEF CloseForUpdating, Owns, Ops
<1>2. anchors[op[p].file].waitingToBeFreed
    BY <1>1 DEF EvictInv, Traces
<1>3. op'[p].pc \in Untraced /\ op'[p].saw = 0
    BY <1>1, FinishSaw DEF IInv
<1>4. 0 \in 0 .. made
    BY StoreMapAssumption DEF IInv, TypeOK, StoreMapAssumption
<1>5. op'[p].saw \in 0 .. made'
    BY <1>1, <1>3, <1>4
<1>6. op'[p].pc \notin {"reading", "writing", "appending", "fresh", "prefixed", "evict", "evictUnlocked"}
                           \cup FreshShared \cup Closing
    BY <1>3 DEF Untraced, FreshShared, Closing
<1>7. Traces(p)'
    BY <1>5, <1>6 DEF Traces, FreshShared, Closing
<1>8. ASSUME NEW f \in FileNos, Excused(f) PROVE Excused(f)'
  <2>1. PICK q \in Kids : /\ op[q].pc = "relocated" /\ op[q].fresh = f
                          /\ anchors[op[q].file].waitingToBeFreed
      BY <1>8 DEF Excused
  <2>2. op'[q] = op[q]
      BY <1>1, <2>1 DEF Fine, OthersStay
  <2> QED
      BY <1>1, <2>1, <2>2 DEF Excused
<1>9. \A k \in Keys : ~Readable(op[p].file, k)
    BY <1>2 DEF Readable
<1> QED
    BY <1>1, <1>2, <1>7, <1>8, <1>9, NameMoves

\* Nothing is evicted in the empty map.
LEMMA InitEvictInv == Init => EvictInv
<1> SUFFICES ASSUME Init PROVE EvictInv
    OBVIOUS
<1>1. /\ made = 0 /\ \A k \in Keys : evicted[k] = {}
      /\ \A f \in FileNos : anchors[f].id = 0 /\ anchors[f].key = NoKey
      /\ \A p \in Kids : op[p].pc = "idle" /\ op[p].saw = 0
    BY DEF Init, Rewound, Idle
<1>2. \A p \in Kids : op[p].saw \in 0 .. made
    BY <1>1
<1>3. \A p \in Kids : Traces(p)
    BY <1>1, <1>2 DEF Traces, FreshShared, Closing
<1>4. \A f \in FileNos : anchors[f].id \in 0 .. made
    BY <1>1
<1> QED
    BY <1>1, <1>3, <1>4 DEF EvictInv, Empty

\* Every step keeps evicted entries away.
LEMMA NextEvictInv ==
    ASSUME IInv, EvictInv, NamesInv, UpdatesTakeTurns, [Next]_vars
    PROVE  EvictInv'
<1>1. CASE UNCHANGED vars
    BY <1>1 DEF vars, EvictInv, Traces, Original, Readable, Excused, Empty
<1>2. ASSUME NEW p \in Kids, NEW k \in Keys, NEW pc \in Purposes[p], FindAnchor(p, k, pc)
      PROVE  EvictInv'
  <2>1. pc \in {"get", "cache", "evict", "update"}
      BY StoreMapAssumption DEF StoreMapAssumption
  <2> QED
      BY <1>2, <2>1, FindAnchorStep, FindAnchorTraces
<1>3. ASSUME NEW p \in Kids, GiveUp(p) \/ CloseForReading(p) \/ CompleteWriting(p)
      PROVE  EvictInv'
  <2>1. Finish(p) /\ UNCHANGED <<shared, made, evicted>> /\ op[p].pc # "relocated"
      BY <1>3 DEF GiveUp, CloseForReading, CompleteWriting
  <2> QED
      BY <2>1, FinishStep, FinishTraces
<1>4. ASSUME NEW p \in Kids, \/ OpenForReadingAt(p) \/ LoadFailed(p) \/ StartCaching(p)
                             \/ StartAppending(p) \/ CopyToShm(p) \/ AbortWriting(p)
      PROVE  EvictInv'
    BY <1>4, OpenForReadingStep, OpenForReadingTraces, LoadFailedStep, LoadFailedTraces,
       StartCachingStep, StartCachingTraces, StartAppendingStep, StartAppendingTraces,
       CopyToShmStep, CopyToShmTraces, AbortWritingStep, AbortWritingTraces
<1>5. ASSUME NEW p \in Kids, EvictCached(p) \/ FreeEntryByKey(p) \/ MarkUnlocked(p)
      PROVE  EvictInv'
    BY <1>5, EvictCachedStep, EvictCachedTraces, FreeEntryByKeyStep, FreeEntryByKeyTraces,
       MarkUnlockedStep, MarkUnlockedTraces
<1>6. ASSUME NEW p \in Kids, \/ LockHeaders(p) \/ FindVictim(p) \/ OpenKeyless(p)
                             \/ ExtendPrefix(p) \/ WritePrefix(p) \/ AbortUpdating(p)
      PROVE  EvictInv'
    BY <1>6, LockHeadersStep, LockHeadersTraces, FindVictimStep, FindVictimTraces,
       OpenKeylessStep, OpenKeylessTraces, ExtendPrefixStep, ExtendPrefixTraces,
       WritePrefixStep, WritePrefixTraces,
       AbortUpdatingStep, AbortUpdatingTraces DEF NamesInv
<1>7. ASSUME NEW p \in Kids, \/ Splice(p) \/ Relocate(p) \/ FreeStale(p) \/ CloseForUpdating(p)
      PROVE  EvictInv'
    BY <1>7, SpliceStep, SpliceTraces, RelocateStep, RelocateTraces, FreeStaleStep,
       FreeStaleTraces, CloseForUpdatingStep, CloseForUpdatingTraces DEF NamesInv
<1> QED
    BY <1>1, <1>2, <1>3, <1>4, <1>5, <1>6, <1>7 DEF Next

\* While updates take turns, evictions are traced: a copy has its original's number until
\* closeForUpdating() is done, nobody else has it, and an evicted entry that its key still
\* leads to is marked where the second check of closeForUpdating() looks.
THEOREM EvictionsAreTraced == Spec => [](overlap = "none" => EvictInv)
<1>1. /\ IInv /\ TurnsInv /\ (overlap # "stale" => NamesInv)
      /\ (overlap = "none" => EvictInv) /\ [Next]_vars
      => (overlap = "none" => EvictInv)'
    BY NextEvictInv, NoneBefore DEF TurnsInv
<1> QED
    BY <1>1, InitEvictInv, InductiveInvariant, OverlapIsNoticed, NamesCorrespond, PTL DEF Spec

\* While updates take turns, evictCached() and evictIfFound() (MemStore.cc) do what Storage.h
\* says, "new get() calls" do not return the entry, except for entries that an update moved
\* away from the anchor under which the eviction found them; whatever is overwritten, purged,
\* relocated or marked without a lock in the meantime.
THEOREM EvictionsAreLostOnlyToUpdates == Spec => []EvictionLostOnlyToUpdate
<1>1. IInv /\ (overlap = "none" => EvictInv) => EvictionLostOnlyToUpdate
  <2> SUFFICES ASSUME IInv, EvictInv, NEW k \in Keys, FindsEvicted(k) PROVE FALSE
      BY DEF EvictionLostOnlyToUpdate
  <2>1. fileNos[NameByKey[k]] \in FileNos
      BY StoreMapAssumption DEF IInv, TypeOK, StoreMapAssumption
  <2> QED
      BY <2>1 DEF FindsEvicted, EvictInv, Excused
<1> QED
    BY <1>1, EvictionsAreTraced, InductiveInvariant, PTL

-----------------------------------------------------------------------------
(* Chains *)

Links == [Slices -> Slices \cup {None}]

\* Every slice leads to an end.
Acyclic(links) == \A S \in SUBSET Slices : S # {} => \E r \in S : links[r] \notin S

\* A chain consists of slices; it has its first one, if there is any.
LEMMA ChainStart ==
    ASSUME NEW N, NEW x
    PROVE  /\ \A s : ChainBy(N, s, x) \subseteq Slices
           /\ \A s \in Slices : s \in ChainBy(N, s, x)
           /\ ChainBy(N, None, x) = {}
BY StoreMapAssumption DEF ChainBy, StoreMapAssumption

\* It has the slice after each of its slices but the last.
LEMMA ChainClosed ==
    ASSUME NEW N \in Links, NEW s, NEW x
    PROVE  Closed(N, ChainBy(N, s, x), x)
<1> SUFFICES ASSUME NEW r \in ChainBy(N, s, x) \ {x}, N[r] # None
             PROVE  N[r] \in ChainBy(N, s, x)
    BY DEF Closed
<1>1. r \in Slices /\ s # None /\ N[r] \in Slices
    BY DEF ChainBy, Links
<1>2. ASSUME NEW S \in SUBSET Slices, s \in S, Closed(N, S, x) PROVE N[r] \in S
  <2>1. r \in S
      BY <1>2 DEF ChainBy
  <2> QED
      BY <1>2, <2>1 DEF Closed
<1> QED
    BY <1>1, <1>2 DEF ChainBy

\* It has nothing else.
LEMMA ChainLeast ==
    ASSUME NEW N, NEW s, NEW x, NEW S \in SUBSET Slices, s \in S \cup {None}, Closed(N, S, x)
    PROVE  ChainBy(N, s, x) \subseteq S
BY DEF ChainBy

\* Links of slices that are not on a chain do not matter to it.
LEMMA ChainSame ==
    ASSUME NEW N \in Links, NEW M \in Links, NEW s \in Slices \cup {None}, NEW x,
           \A r \in ChainBy(N, s, x) \ {x} : M[r] = N[r]
    PROVE  ChainBy(M, s, x) = ChainBy(N, s, x)
<1>1. CASE s = None
    BY <1>1, ChainStart
<1>2. CASE s \in Slices
  <2>1. /\ ChainBy(N, s, x) \in SUBSET Slices /\ s \in ChainBy(N, s, x)
        /\ ChainBy(M, s, x) \in SUBSET Slices /\ s \in ChainBy(M, s, x)
      BY <1>2, ChainStart
  <2>2. Closed(N, ChainBy(N, s, x), x) /\ Closed(M, ChainBy(M, s, x), x)
      BY ChainClosed
  <2>3. Closed(M, ChainBy(N, s, x), x)
      BY <2>2 DEF Closed
  <2>4. ChainBy(M, s, x) \subseteq ChainBy(N, s, x)
      BY <2>1, <2>3, ChainLeast
  <2>5. Closed(N, ChainBy(M, s, x), x)
      BY <2>2, <2>4 DEF Closed
  <2>6. ChainBy(N, s, x) \subseteq ChainBy(M, s, x)
      BY <2>1, <2>5, ChainLeast
  <2> QED
      BY <2>4, <2>6
<1> QED
    BY <1>1, <1>2

\* A chain without a splicing point has an end.
LEMMA ChainEnds ==
    ASSUME NEW N \in Links, Acyclic(N), NEW s \in Slices
    PROVE  \E e \in ChainBy(N, s, None) : N[e] = None
<1>1. ChainBy(N, s, None) \in SUBSET Slices /\ ChainBy(N, s, None) # {}
    BY ChainStart
<1>2. PICK e \in ChainBy(N, s, None) : N[e] \notin ChainBy(N, s, None)
    BY <1>1 DEF Acyclic
<1>3. e # None
    BY <1>1, StoreMapAssumption DEF StoreMapAssumption
<1>4. N[e] \in ChainBy(N, s, None) \cup {None}
    BY <1>3, ChainClosed DEF Closed
<1> QED
    BY <1>2, <1>4

\* What follows a slice of a chain belongs to the chain.
LEMMA ChainSuffix ==
    ASSUME NEW N \in Links, NEW s, NEW c \in ChainBy(N, s, None)
    PROVE  ChainBy(N, N[c], None) \subseteq ChainBy(N, s, None)
<1>1. ChainBy(N, s, None) \in SUBSET Slices /\ Closed(N, ChainBy(N, s, None), None)
    BY ChainStart, ChainClosed
<1>2. c # None
    BY <1>1, StoreMapAssumption DEF StoreMapAssumption
<1>3. N[c] \in ChainBy(N, s, None) \cup {None}
    BY <1>1, <1>2 DEF Closed
<1> QED
    BY <1>1, <1>3, ChainLeast

\* A splicing point divides a chain into what comes up to it and what comes after it.
LEMMA ChainSplit ==
    ASSUME NEW N \in Links, Acyclic(N), NEW s \in Slices, NEW c \in ChainBy(N, s, None)
    PROVE  /\ ChainBy(N, s, c) \subseteq ChainBy(N, s, None)
           /\ ChainBy(N, s, c) \cap ChainBy(N, N[c], None) = {}
           /\ ChainBy(N, s, None) \subseteq ChainBy(N, s, c) \cup ChainBy(N, N[c], None)
<1> DEFINE W == ChainBy(N, s, None)
           T == ChainBy(N, N[c], None)
           B == ChainBy(N, s, c)
           D == {r \in Slices : c \in ChainBy(N, r, None)}
<1>1. /\ W \in SUBSET Slices /\ s \in W /\ Closed(N, W, None)
      /\ T \in SUBSET Slices /\ Closed(N, T, None)
      /\ B \in SUBSET Slices /\ s \in B /\ Closed(N, B, c)
    BY ChainStart, ChainClosed
<1>2. c \in Slices /\ c # None /\ None \notin Slices
    BY <1>1, StoreMapAssumption DEF StoreMapAssumption
<1>3. B \subseteq W
  <2>1. Closed(N, W, c)
      BY <1>1, <1>2 DEF Closed
  <2> QED
      BY <1>1, <2>1, ChainLeast
<1>4. W \subseteq B \cup T
  <2>1. N[c] \in T \cup {None}
      BY <1>2, ChainStart DEF Links
  <2>2. Closed(N, B \cup T, None)
      BY <1>1, <1>2, <2>1 DEF Closed
  <2>3. s \in B \cup T /\ B \cup T \in SUBSET Slices
      BY <1>1
  <2> QED
      BY <2>2, <2>3, ChainLeast
<1>5. ASSUME NEW r \in D, r # c PROVE N[r] \in D
  <2>1. r \in Slices /\ c \in ChainBy(N, r, None)
      OBVIOUS
  <2>2. N[r] \in Slices \cup {None}
      BY <2>1 DEF Links
  <2> DEFINE R == ChainBy(N, N[r], None) \cup {r}
  <2>3. ChainBy(N, N[r], None) \in SUBSET Slices /\ Closed(N, ChainBy(N, N[r], None), None)
      BY ChainStart, ChainClosed
  <2>4. N[r] \in ChainBy(N, N[r], None) \cup {None}
      BY <2>2, ChainStart
  <2>5. Closed(N, R, None)
      BY <2>3, <2>4 DEF Closed
  <2>6. ChainBy(N, r, None) \subseteq R
      BY <2>1, <2>3, <2>5, ChainLeast
  <2>7. c \in ChainBy(N, N[r], None)
      BY <1>5, <2>1, <2>6
  <2>8. N[r] # None
      BY <2>7, ChainStart
  <2> QED
      BY <2>2, <2>7, <2>8
<1>6. B \subseteq D
  <2>1. s \in D
      OBVIOUS
  <2>2. Closed(N, D, c)
      BY <1>5 DEF Closed
  <2>3. D \in SUBSET Slices
      OBVIOUS
  <2> HIDE DEF D
  <2> QED
      BY <2>1, <2>2, <2>3, ChainLeast
<1>7. c \notin T
  <2> SUFFICES ASSUME c \in T PROVE FALSE
      OBVIOUS
  <2>1. c \in D /\ c \in ChainBy(N, c, None)
      BY <1>2, ChainStart
  <2>2. N[c] \in Slices
    <3>1. N[c] # None
        BY ChainStart
    <3> QED
        BY <1>2, <3>1 DEF Links
  <2>3. N[c] \in D
      BY <2>2
  <2>4. \A r \in D : N[r] \in D
      BY <1>5, <2>3
  <2>5. D \in SUBSET Slices /\ D # {}
      BY <2>1
  <2> HIDE DEF D
  <2> QED
      BY <2>4, <2>5 DEF Acyclic
<1>8. D \cap T = {}
  <2> SUFFICES ASSUME NEW r \in D, r \in T PROVE FALSE
      OBVIOUS
  <2>1. ChainBy(N, r, None) \subseteq T
      BY <1>1, ChainLeast
  <2> QED
      BY <2>1, <1>7
<1> QED
    BY <1>3, <1>4, <1>6, <1>8

\* A chain whose end is linked to another chain has the slices of both.
LEMMA ChainLinked ==
    ASSUME NEW N \in Links, Acyclic(N), NEW e \in Slices, N[e] = None,
           NEW t \in Slices \cup {None}, e \notin ChainBy(N, t, None),
           NEW M \in Links, M[e] = t, \A r \in Slices \ {e} : M[r] = N[r]
    PROVE  /\ Acyclic(M)
           /\ \A s \in Slices : e \in ChainBy(N, s, None) =>
                  ChainBy(M, s, None) = ChainBy(N, s, None) \cup ChainBy(N, t, None)
<1> DEFINE T == ChainBy(N, t, None)
<1>1. /\ M \in Links /\ M[e] = t
      /\ \A r \in Slices \ {e} : M[r] = N[r]
    OBVIOUS
<1>2. T \in SUBSET Slices /\ Closed(N, T, None) /\ t \in T \cup {None}
    BY ChainStart, ChainClosed
<1>3. None \notin Slices
    BY StoreMapAssumption DEF StoreMapAssumption
<1>4. Acyclic(M)
  <2> SUFFICES ASSUME NEW S \in SUBSET Slices, S # {}, \A r \in S : M[r] \in S PROVE FALSE
      BY DEF Acyclic
  <2>1. CASE e \notin S
    <3>1. \A r \in S : N[r] \in S
        BY <1>1, <2>1
    <3> QED
        BY <3>1 DEF Acyclic
  <2>2. CASE e \in S
    <3>1. t \in S /\ t \in T
        BY <1>1, <1>2, <1>3, <2>2
    <3>2. \A r \in S \cap T : N[r] \in S \cap T
        BY <1>1, <1>2, <1>3 DEF Closed
    <3>3. S \cap T \in SUBSET Slices /\ S \cap T # {}
        BY <3>1
    <3> QED
        BY <3>2, <3>3 DEF Acyclic
  <2> QED
      BY <2>1, <2>2
<1>5. ASSUME NEW s \in Slices, e \in ChainBy(N, s, None)
      PROVE  ChainBy(M, s, None) = ChainBy(N, s, None) \cup T
  <2> DEFINE W == ChainBy(N, s, None)
             V == ChainBy(M, s, None)
  <2>1. /\ W \in SUBSET Slices /\ s \in W /\ Closed(N, W, None)
        /\ V \in SUBSET Slices /\ s \in V /\ Closed(M, V, None)
      BY <1>1, ChainStart, ChainClosed
  <2>2. V \subseteq W \cup T
    <3>1. Closed(M, W \cup T, None)
        BY <1>1, <1>2, <2>1 DEF Closed
    <3>2. s \in W \cup T /\ W \cup T \in SUBSET Slices
        BY <1>2, <2>1
    <3> QED
        BY <3>1, <3>2, ChainLeast
  <2>3. Closed(N, V, None)
      BY <1>1, <2>1 DEF Closed
  <2>4. W \subseteq V
      BY <2>1, <2>3, ChainLeast
  <2>5. t \in V \cup {None}
      BY <1>1, <1>3, <1>5, <2>1, <2>4 DEF Closed
  <2>6. T \subseteq V
      BY <2>1, <2>3, <2>5, ChainLeast
  <2> QED
      BY <2>2, <2>4, <2>6
<1> QED
    BY <1>1, <1>4, <1>5

-----------------------------------------------------------------------------
(* Owners of slices.  A stands for anchors, N for next, F for freeSlots, X for the pairs of
   anchors of which one is taking over slices of the other. *)

Own(A, N, f) == ChainBy(N, A[f].start, A[f].splicingPoint)

\* Every slice is free or owned, and none is owned twice but in a pair of X.
Tidy(A, N, F, X) ==
    /\ Acyclic(N)
    /\ \A s \in F : N[s] = None
    /\ \A f \in FileNos : Own(A, N, f) \cap F = {}
    /\ \A f, g \in FileNos : f # g /\ {f, g} \notin X => Own(A, N, f) \cap Own(A, N, g) = {}
    /\ \A s \in Slices : s \in F \/ \E f \in FileNos : s \in Own(A, N, f)
    /\ \A f \in FileNos : A[f].key = NoKey => A[f].start = None

Typed(A, N, F) == A \in [FileNos -> Anchors] /\ N \in Links /\ F \in SUBSET Slices

\* The chain of an anchor stays if its ends and its links do.
LEMMA OwnSame ==
    ASSUME NEW A, NEW B, NEW N \in Links, NEW M \in Links, NEW f,
           A[f].start \in Slices \cup {None},
           B[f].start = A[f].start, B[f].splicingPoint = A[f].splicingPoint,
           \A r \in Own(A, N, f) : M[r] = N[r]
    PROVE  Own(B, M, f) = Own(A, N, f)
<1>2. \A r \in ChainBy(N, A[f].start, A[f].splicingPoint) \ {A[f].splicingPoint} : M[r] = N[r]
    BY DEF Own
<1>3. ChainBy(M, A[f].start, A[f].splicingPoint) = ChainBy(N, A[f].start, A[f].splicingPoint)
    BY <1>2, ChainSame
<1> QED
    BY <1>3 DEF Own

\* An anchor owns slices, and none if it has no start.
LEMMA OwnSlicesOnly ==
    ASSUME NEW A, NEW N, NEW f
    PROVE  Own(A, N, f) \in SUBSET Slices /\ (A[f].start = None => Own(A, N, f) = {})
BY ChainStart DEF Own

\* freeChain() turns A, N and F into B, M and G: the slices of f become free.
Frees(A, N, F, B, M, G, f) ==
    /\ B[f].start = None /\ \A g \in FileNos \ {f} : B[g] = A[g]
    /\ \A s \in Own(A, N, f) : M[s] = None
    /\ \A s \in Slices \ Own(A, N, f) : M[s] = N[s]
    /\ G = F \cup Own(A, N, f)

\* If f shares no slices, other anchors keep theirs.
LEMMA TidyFree ==
    ASSUME NEW A, NEW N, NEW F, Typed(A, N, F), NEW B, NEW M, NEW G, Typed(B, M, G),
           NEW f \in FileNos, Frees(A, N, F, B, M, G, f),
           NEW X, Tidy(A, N, F, X), \A g \in FileNos : {f, g} \notin X
    PROVE  /\ Tidy(B, M, G, X)
           /\ \A g \in FileNos \ {f} : /\ Own(B, M, g) = Own(A, N, g)
                                       /\ \A r \in Own(A, N, g) : M[r] = N[r]
<1>0. M \in Links
    BY DEF Typed
<1>1. /\ B[f].start = None /\ \A g \in FileNos \ {f} : B[g] = A[g]
      /\ \A s \in Own(A, N, f) : M[s] = None
      /\ \A s \in Slices \ Own(A, N, f) : M[s] = N[s]
      /\ G = F \cup Own(A, N, f)
    BY DEF Frees
<1>2. Own(A, N, f) \in SUBSET Slices
    BY OwnSlicesOnly
<1>4. Own(B, M, f) = {}
    BY <1>1, OwnSlicesOnly
<1>5. ASSUME NEW g \in FileNos \ {f}
      PROVE  (\A r \in Own(A, N, g) : M[r] = N[r]) /\ Own(B, M, g) = Own(A, N, g)
  <2>1. Own(A, N, f) \cap Own(A, N, g) = {} /\ Own(A, N, g) \in SUBSET Slices
      BY OwnSlicesOnly DEF Tidy
  <2>2. \A r \in Own(A, N, g) : M[r] = N[r]
      BY <1>1, <2>1
  <2>3. /\ B[g].start = A[g].start /\ B[g].splicingPoint = A[g].splicingPoint
        /\ A[g].start \in Slices \cup {None} /\ N \in Links
      BY <1>1 DEF Typed, Anchors
  <2>4. Own(B, M, g) = Own(A, N, g)
    <3>1. \A r \in ChainBy(N, A[g].start, A[g].splicingPoint) \ {A[g].splicingPoint} : M[r] = N[r]
        BY <2>2 DEF Own
    <3>2. ChainBy(M, A[g].start, A[g].splicingPoint) = ChainBy(N, A[g].start, A[g].splicingPoint)
        BY <1>0, <2>3, <3>1, ChainSame
    <3> QED
        BY <2>3, <3>2 DEF Own
  <2> QED
      BY <2>2, <2>4
<1>6. Acyclic(M)
  <2> SUFFICES ASSUME NEW S \in SUBSET Slices, S # {}, \A r \in S : M[r] \in S PROVE FALSE
      BY DEF Acyclic
  <2>1. \A r \in S : M[r] # None
      BY StoreMapAssumption DEF StoreMapAssumption
  <2>2. \A r \in S : N[r] \in S
      BY <1>1, <2>1
  <2> QED
      BY <2>2 DEF Tidy, Acyclic
<1>7. \A s \in G : M[s] = None
  <2>1. F \in SUBSET Slices /\ \A s \in F : N[s] = None
      BY DEF Typed, Tidy
  <2> QED
      BY <1>1, <1>2, <2>1
<1>8. \A g \in FileNos : Own(B, M, g) \cap G = {}
  <2>1. \A g \in FileNos \ {f} : Own(A, N, g) \cap F = {} /\ Own(A, N, g) \cap Own(A, N, f) = {}
      BY DEF Tidy
  <2> QED
      BY <1>1, <1>4, <1>5, <2>1
<1>9. \A g, h \in FileNos : g # h /\ {g, h} \notin X => Own(B, M, g) \cap Own(B, M, h) = {}
  <2> SUFFICES ASSUME NEW g \in FileNos, NEW h \in FileNos, g # h, {g, h} \notin X
               PROVE  Own(B, M, g) \cap Own(B, M, h) = {}
      OBVIOUS
  <2>1. CASE g = f \/ h = f
      BY <1>4, <2>1
  <2>2. CASE g # f /\ h # f
    <3>1. Own(A, N, g) \cap Own(A, N, h) = {}
        BY DEF Tidy
    <3> QED
        BY <1>5, <2>2, <3>1
  <2> QED
      BY <2>1, <2>2
<1>10. \A s \in Slices : s \in G \/ \E g \in FileNos : s \in Own(B, M, g)
  <2> SUFFICES ASSUME NEW s \in Slices, s \notin G
               PROVE  \E g \in FileNos : s \in Own(B, M, g)
      OBVIOUS
  <2>1. PICK g \in FileNos : s \in Own(A, N, g)
      BY <1>1 DEF Tidy
  <2>2. g # f
      BY <1>1, <2>1
  <2> QED
      BY <1>5, <2>1, <2>2
<1>11. \A g \in FileNos : B[g].key = NoKey => B[g].start = None
    BY <1>1 DEF Tidy
<1> QED
    BY <1>5, <1>6, <1>7, <1>8, <1>9, <1>10, <1>11 DEF Tidy

\* Marks do not matter to chains.
LEMMA TidyMarks ==
    ASSUME NEW A, NEW B, NEW N, NEW F, NEW X, Tidy(A, N, F, X),
           \A f \in FileNos : /\ B[f].key = A[f].key /\ B[f].start = A[f].start
                              /\ B[f].splicingPoint = A[f].splicingPoint
    PROVE  Tidy(B, N, F, X) /\ \A f \in FileNos : Own(B, N, f) = Own(A, N, f)
<1>1. \A f \in FileNos : Own(B, N, f) = Own(A, N, f)
    BY DEF Own
<1> HIDE DEF Own
<1> QED
    BY <1>1 DEF Tidy

\* reserveSapForWriting() turns A, N and F into B, M and G: the free slice s becomes the
\* first one of anchor f, or follows its last one, which is e.
Extends(A, N, F, B, M, G, f, s, e) ==
    /\ s \in F /\ G = F \ {s}
    /\ \A g \in FileNos \ {f} : B[g] = A[g]
    /\ B[f] = IF A[f].start = None THEN [A[f] EXCEPT !.start = s] ELSE A[f]
    /\ A[f].start = None => M = N
    /\ A[f].start # None => /\ e \in Own(A, N, f) /\ N[e] = None
                            /\ M[e] = s /\ \A r \in Slices \ {e} : M[r] = N[r]

\* If f shares no slices, other anchors keep theirs.
LEMMA TidyLink ==
    ASSUME NEW A, NEW N, NEW F, Typed(A, N, F), NEW B, NEW M, NEW G, Typed(B, M, G),
           NEW f \in FileNos, NEW s, NEW e, Extends(A, N, F, B, M, G, f, s, e),
           A[f].key # NoKey, A[f].splicingPoint = None,
           NEW X, Tidy(A, N, F, X), \A g \in FileNos : {f, g} \notin X
    PROVE  /\ Tidy(B, M, G, X)
           /\ B[f].splicingPoint = None /\ B[f].start # None
           /\ \A g \in FileNos \ {f} : /\ Own(B, M, g) = Own(A, N, g)
                                       /\ \A r \in Own(A, N, g) : M[r] = N[r]
<1> USE DEF Extends
<1>0. s \in Slices /\ s # None /\ N[s] = None /\ None \notin Slices
    BY StoreMapAssumption DEF StoreMapAssumption, Typed, Tidy
<1>1. /\ B[f].key = A[f].key /\ B[f].splicingPoint = None
      /\ B[f].start = IF A[f].start = None THEN s ELSE A[f].start
      /\ \A g \in FileNos \ {f} : B[g] = A[g]
      /\ B \in [FileNos -> Anchors]
    BY <1>0 DEF Typed, Anchors
<1>2. ChainBy(N, s, None) = {s}
  <2>1. Closed(N, {s}, None)
      BY <1>0 DEF Closed
  <2>2. ChainBy(N, s, None) \subseteq {s}
      BY <1>0, <2>1, ChainLeast
  <2>3. s \in ChainBy(N, s, None)
      BY <1>0, ChainStart
  <2> QED
      BY <2>2, <2>3
<1>3. /\ M \in Links /\ Acyclic(M)
      /\ Own(B, M, f) = Own(A, N, f) \cup {s}
      /\ \A r \in Slices \ Own(A, N, f) : M[r] = N[r]
  <2>1. CASE A[f].start = None
    <3>1. M = N /\ B[f].start = s
        BY <1>1, <2>1
    <3>2. Own(A, N, f) = {}
        BY <2>1, OwnSlicesOnly
    <3>3. Own(B, M, f) = {s}
        BY <1>1, <1>2, <3>1 DEF Own
    <3> QED
        BY <3>1, <3>2, <3>3 DEF Typed, Tidy
  <2>2. CASE A[f].start # None
    <3>1. e \in Slices /\ N[e] = None /\ e \in Own(A, N, f)
        BY <2>2, OwnSlicesOnly
    <3>2. e # s
        BY <3>1 DEF Tidy
    <3>3. /\ M[e] = s /\ \A r \in Slices \ {e} : M[r] = N[r]
          /\ N \in Links /\ Acyclic(N) /\ M \in Links
        BY <2>2 DEF Typed, Tidy
    <3>4. A[f].start \in Slices /\ Own(A, N, f) = ChainBy(N, A[f].start, None)
        BY <2>2 DEF Typed, Anchors, Own
    <3>5. s \in Slices \cup {None} /\ e \notin ChainBy(N, s, None)
        BY <1>0, <1>2, <3>2
    <3>6. /\ Acyclic(M)
          /\ \A t \in Slices : e \in ChainBy(N, t, None) =>
                 ChainBy(M, t, None) = ChainBy(N, t, None) \cup ChainBy(N, s, None)
        BY <3>1, <3>3, <3>5, ChainLinked
    <3>7. Own(B, M, f) = ChainBy(M, A[f].start, None)
        BY <1>1, <2>2 DEF Own
    <3>8. Own(B, M, f) = Own(A, N, f) \cup {s}
        BY <1>2, <3>1, <3>4, <3>6, <3>7
    <3>9. \A r \in Slices \ Own(A, N, f) : M[r] = N[r]
        BY <3>1, <3>3
    <3> QED
        BY <3>3, <3>6, <3>8, <3>9
  <2> QED
      BY <2>1, <2>2
<1>5. ASSUME NEW g \in FileNos \ {f}
      PROVE  (\A r \in Own(A, N, g) : M[r] = N[r]) /\ Own(B, M, g) = Own(A, N, g)
  <2>1. Own(A, N, f) \cap Own(A, N, g) = {} /\ Own(A, N, g) \in SUBSET Slices
      BY OwnSlicesOnly DEF Tidy
  <2>2. \A r \in Own(A, N, g) : M[r] = N[r]
      BY <1>3, <2>1
  <2>3. /\ B[g].start = A[g].start /\ B[g].splicingPoint = A[g].splicingPoint
        /\ A[g].start \in Slices \cup {None} /\ N \in Links
      BY <1>1 DEF Typed, Anchors
  <2>4. Own(B, M, g) = Own(A, N, g)
      BY <1>3, <2>2, <2>3, OwnSame
  <2> QED
      BY <2>2, <2>4
<1>6. \A r \in G : M[r] = None
  <2>1. F \in SUBSET Slices /\ (\A r \in F : N[r] = None) /\ Own(A, N, f) \cap F = {}
      BY DEF Typed, Tidy
  <2> QED
      BY <1>3, <2>1
<1>7. \A g \in FileNos : Own(B, M, g) \cap G = {}
  <2>1. \A g \in FileNos : Own(A, N, g) \cap F = {}
      BY DEF Tidy
  <2> QED
      BY <1>3, <1>5, <2>1
<1>8. \A g, h \in FileNos : g # h /\ {g, h} \notin X => Own(B, M, g) \cap Own(B, M, h) = {}
  <2> SUFFICES ASSUME NEW g \in FileNos, NEW h \in FileNos, g # h, {g, h} \notin X
               PROVE  Own(B, M, g) \cap Own(B, M, h) = {}
      OBVIOUS
  <2>1. Own(A, N, g) \cap Own(A, N, h) = {} /\ s \notin Own(A, N, g) /\ s \notin Own(A, N, h)
      BY DEF Tidy
  <2>2. Own(B, M, g) = IF g = f THEN Own(A, N, g) \cup {s} ELSE Own(A, N, g)
      BY <1>3, <1>5
  <2>3. Own(B, M, h) = IF h = f THEN Own(A, N, h) \cup {s} ELSE Own(A, N, h)
      BY <1>3, <1>5
  <2> QED
      BY <2>1, <2>2, <2>3
<1>9. \A r \in Slices : r \in G \/ \E g \in FileNos : r \in Own(B, M, g)
  <2> SUFFICES ASSUME NEW r \in Slices, r \notin G
               PROVE  \E g \in FileNos : r \in Own(B, M, g)
      OBVIOUS
  <2>1. CASE r = s
      BY <1>3, <2>1
  <2>2. CASE r # s
    <3>1. PICK g \in FileNos : r \in Own(A, N, g)
        BY <2>2 DEF Tidy
    <3> QED
        BY <1>3, <1>5, <3>1
  <2> QED
      BY <2>1, <2>2
<1>10. \A g \in FileNos : B[g].key = NoKey => B[g].start = None
    BY <1>1 DEF Tidy
<1>11. B[f].start # None
    BY <1>0, <1>1
<1> QED
    BY <1>1, <1>3, <1>5, <1>6, <1>7, <1>8, <1>9, <1>10, <1>11 DEF Tidy

\* Anchor h shares what follows slice c of anchor f, and nothing else.
SharesAfter(A, N, f, h, c) ==
    /\ c \in Own(A, N, f)
    /\ ChainBy(N, N[c], None) \subseteq Own(A, N, h)
    /\ Own(A, N, h) \cap ChainBy(N, A[f].start, c) = {}

\* closeForUpdating() turns N into M: it links the end e of the fresh anchor h to what
\* follows slice c of the stale anchor f.
Splices(A, N, M, f, h, c, e) ==
    /\ A[f].splicingPoint = None /\ A[h].splicingPoint = None
    /\ c \in Own(A, N, f) /\ e \in Own(A, N, h) /\ N[e] = None
    /\ M \in Links /\ M[e] = N[c] /\ \A r \in Slices \ {e} : M[r] = N[r]

\* Then h shares what follows, and other anchors keep their slices.
LEMMA TidySplice ==
    ASSUME NEW A, NEW N, NEW F, Typed(A, N, F), NEW X, Tidy(A, N, F, X),
           NEW f \in FileNos, NEW h \in FileNos, f # h,
           \A g \in FileNos : {f, g} \notin X /\ {h, g} \notin X,
           NEW c, NEW e, NEW M, Splices(A, N, M, f, h, c, e)
    PROVE  /\ Tidy(A, M, F, X \cup {{f, h}}) /\ SharesAfter(A, M, f, h, c)
           /\ \A g \in FileNos \ {h} : Own(A, M, g) = Own(A, N, g)
<1> USE DEF Splices
<1> DEFINE T == ChainBy(N, N[c], None)
           Y == X \cup {{f, h}}
<1>0. /\ None \notin Slices /\ N \in Links /\ Acyclic(N)
      /\ c \in Slices /\ e \in Slices /\ N[c] \in Slices \cup {None}
      /\ A[f].start \in Slices /\ A[h].start \in Slices
      /\ Own(A, N, f) = ChainBy(N, A[f].start, None)
      /\ Own(A, N, h) = ChainBy(N, A[h].start, None)
  <2>1. None \notin Slices /\ N \in Links /\ Acyclic(N)
      BY StoreMapAssumption DEF StoreMapAssumption, Typed, Tidy
  <2>2. c \in Slices /\ e \in Slices
      BY OwnSlicesOnly
  <2>3. A[f].start # None /\ A[h].start # None
      BY OwnSlicesOnly
  <2>4. A[f].start \in Slices /\ A[h].start \in Slices
      BY <2>3 DEF Typed, Anchors
  <2>5. N[c] \in Slices \cup {None}
      BY <2>1, <2>2 DEF Links
  <2> QED
      BY <2>1, <2>2, <2>4, <2>5 DEF Own
<1>1. Own(A, N, f) \cap Own(A, N, h) = {} /\ c # e
    BY DEF Tidy
<1>2. T \subseteq Own(A, N, f)
    BY <1>0, ChainSuffix
<1>3. e \notin T
    BY <1>1, <1>2
<1>4. /\ Acyclic(M)
      /\ Own(A, M, h) = Own(A, N, h) \cup T
  <2>1. /\ Acyclic(M)
        /\ \A t \in Slices : e \in ChainBy(N, t, None) =>
               ChainBy(M, t, None) = ChainBy(N, t, None) \cup ChainBy(N, N[c], None)
      BY <1>0, <1>3, ChainLinked
  <2>2. Own(A, M, h) = ChainBy(M, A[h].start, None)
      BY DEF Own
  <2> QED
      BY <1>0, <2>1, <2>2
<1>5. \A r \in Slices \ Own(A, N, h) : M[r] = N[r]
    OBVIOUS
<1>7. ASSUME NEW g \in FileNos \ {h} PROVE Own(A, M, g) = Own(A, N, g)
  <2>1. Own(A, N, h) \cap Own(A, N, g) = {} /\ Own(A, N, g) \in SUBSET Slices
      BY OwnSlicesOnly DEF Tidy
  <2>2. \A r \in Own(A, N, g) : M[r] = N[r]
      BY <1>5, <2>1
  <2>3. A[g].start \in Slices \cup {None}
      BY DEF Typed, Anchors
  <2> QED
      BY <1>0, <2>2, <2>3, OwnSame
<1>8. \A s \in F : M[s] = None
  <2>1. F \in SUBSET Slices /\ (\A r \in F : N[r] = None) /\ Own(A, N, h) \cap F = {}
      BY DEF Typed, Tidy
  <2> QED
      BY <1>5, <2>1
<1>9. \A g \in FileNos : Own(A, M, g) \cap F = {}
  <2>1. \A g \in FileNos : Own(A, N, g) \cap F = {}
      BY DEF Tidy
  <2> HIDE DEF T
  <2> QED
      BY <1>2, <1>4, <1>7, <2>1
<1>10. \A g, k \in FileNos : g # k /\ {g, k} \notin Y => Own(A, M, g) \cap Own(A, M, k) = {}
  <2>1. ASSUME NEW g \in FileNos \ {h}, {g, h} \notin Y PROVE Own(A, M, g) \cap Own(A, M, h) = {}
    <3>1. g # f
      <4>1. {f, h} \in Y
          OBVIOUS
      <4> QED
          BY <2>1, <4>1
    <3>2. {h, g} \notin X /\ {f, g} \notin X
        OBVIOUS
    <3>3. Own(A, N, g) \cap Own(A, N, h) = {} /\ Own(A, N, g) \cap Own(A, N, f) = {}
        BY <3>1, <3>2 DEF Tidy
    <3> HIDE DEF T
    <3> QED
        BY <1>2, <1>4, <1>7, <3>3
  <2> SUFFICES ASSUME NEW g \in FileNos, NEW k \in FileNos, g # k, {g, k} \notin Y
               PROVE  Own(A, M, g) \cap Own(A, M, k) = {}
      OBVIOUS
  <2>2. CASE g = h
    <3>1. {g, k} = {k, g}
        OBVIOUS
    <3> QED
        BY <2>1, <2>2, <3>1
  <2>3. CASE k = h
      BY <2>1, <2>3
  <2>4. CASE g # h /\ k # h
    <3>1. {g, k} \notin X
        OBVIOUS
    <3>2. Own(A, N, g) \cap Own(A, N, k) = {}
        BY <3>1 DEF Tidy
    <3> QED
        BY <1>7, <2>4, <3>2
  <2> QED
      BY <2>2, <2>3, <2>4
<1>11. \A r \in Slices : r \in F \/ \E g \in FileNos : r \in Own(A, M, g)
  <2> SUFFICES ASSUME NEW r \in Slices, r \notin F
               PROVE  \E g \in FileNos : r \in Own(A, M, g)
      OBVIOUS
  <2>1. PICK g \in FileNos : r \in Own(A, N, g)
      BY DEF Tidy
  <2> QED
      BY <1>4, <1>7, <2>1
<1>12. Tidy(A, M, F, Y)
    BY <1>4, <1>8, <1>9, <1>10, <1>11 DEF Tidy
<1>13. SharesAfter(A, M, f, h, c)
  <2>1. c \in Own(A, M, f)
      BY <1>7
  <2>2. M[c] = N[c]
      BY <1>0, <1>1, <1>5
  <2>3. ChainBy(M, N[c], None) = T
    <3>1. \A r \in T \ {None} : M[r] = N[r]
        BY <1>0, <1>1, <1>2, <1>5, OwnSlicesOnly
    <3> QED
        BY <1>0, <1>4, <3>1, ChainSame
  <2>4. ChainBy(M, M[c], None) \subseteq Own(A, M, h)
      BY <1>4, <2>2, <2>3
  <2> DEFINE P == ChainBy(N, A[f].start, c)
  <2>5. P \subseteq Own(A, N, f) /\ P \cap T = {}
      BY <1>0, ChainSplit
  <2>6. ChainBy(M, A[f].start, c) = P
    <3>1. \A r \in P \ {c} : M[r] = N[r]
        BY <1>0, <1>1, <1>5, <2>5, OwnSlicesOnly
    <3> QED
        BY <1>0, <1>4, <3>1, ChainSame
  <2> HIDE DEF P, T
  <2>7. Own(A, M, h) \cap P = {}
      BY <1>1, <1>4, <2>5
  <2> QED
      BY <2>1, <2>4, <2>6, <2>7 DEF SharesAfter
<1> QED
    BY <1>7, <1>12, <1>13

\* closeForUpdating() turns A into B: the stale anchor f gives away what follows slice c.
Gives(A, B, f, c) ==
    /\ B \in [FileNos -> Anchors] /\ A[f].splicingPoint = None /\ B[f].splicingPoint = c
    /\ \A g \in FileNos : /\ B[g].key = A[g].key /\ B[g].start = A[g].start
                          /\ g # f => B[g].splicingPoint = A[g].splicingPoint

\* The fresh anchor h has it.
LEMMA TidyGive ==
    ASSUME NEW A, NEW N, NEW F, Typed(A, N, F), NEW f \in FileNos, NEW h \in FileNos, f # h,
           Tidy(A, N, F, {{f, h}}), NEW c, SharesAfter(A, N, f, h, c), NEW B, Gives(A, B, f, c)
    PROVE  Tidy(B, N, F, {})
<1> USE DEF Gives
<1>0. /\ N \in Links /\ Acyclic(N) /\ A[f].start \in Slices
      /\ Own(A, N, f) = ChainBy(N, A[f].start, None) /\ c \in Own(A, N, f)
  <2>1. N \in Links /\ Acyclic(N) /\ c \in Own(A, N, f)
      BY DEF Typed, Tidy, SharesAfter
  <2>2. A[f].start # None
      BY <2>1, OwnSlicesOnly
  <2>3. A[f].start \in Slices
      BY <2>2 DEF Typed, Anchors
  <2> QED
      BY <2>1, <2>3 DEF Own
<1>1. \A g \in FileNos \ {f} : Own(B, N, g) = Own(A, N, g)
    BY DEF Own
<1>2. /\ Own(B, N, f) = ChainBy(N, A[f].start, c)
      /\ Own(B, N, f) \subseteq Own(A, N, f)
      /\ Own(A, N, f) \subseteq Own(B, N, f) \cup ChainBy(N, N[c], None)
  <2>1. Own(B, N, f) = ChainBy(N, A[f].start, c)
      BY DEF Own
  <2> QED
      BY <1>0, <2>1, ChainSplit
<1>3. Own(A, N, h) \cap Own(B, N, f) = {} /\ Own(A, N, f) \subseteq Own(B, N, f) \cup Own(A, N, h)
    BY <1>2 DEF SharesAfter
<1>4. \A g \in FileNos : Own(B, N, g) \cap F = {}
    BY <1>1, <1>2 DEF Tidy
<1>5. \A g, k \in FileNos : g # k => Own(B, N, g) \cap Own(B, N, k) = {}
  <2> SUFFICES ASSUME NEW g \in FileNos, NEW k \in FileNos, g # k
               PROVE  Own(B, N, g) \cap Own(B, N, k) = {}
      OBVIOUS
  <2>1. CASE {g, k} = {f, h}
      BY <1>1, <1>3, <2>1
  <2>2. CASE {g, k} # {f, h}
    <3>1. Own(A, N, g) \cap Own(A, N, k) = {}
        BY <2>2 DEF Tidy
    <3> QED
        BY <1>1, <1>2, <3>1
  <2> QED
      BY <2>1, <2>2
<1>6. \A r \in Slices : r \in F \/ \E g \in FileNos : r \in Own(B, N, g)
  <2> SUFFICES ASSUME NEW r \in Slices, r \notin F
               PROVE  \E g \in FileNos : r \in Own(B, N, g)
      OBVIOUS
  <2>1. PICK g \in FileNos : r \in Own(A, N, g)
      BY DEF Tidy
  <2> QED
      BY <1>1, <1>3, <2>1
<1>7. \A g \in FileNos : B[g].key = NoKey => B[g].start = None
    BY DEF Tidy
<1> QED
    BY <1>0, <1>4, <1>5, <1>6, <1>7 DEF Tidy, Typed

-----------------------------------------------------------------------------
(* The invariant *)

\* The anchors of an update that is being closed
Exempt == {{op[p].file, op[p].fresh} : p \in {q \in Kids : op[q].pc \in Closing}}

\* What kid p may rely on: who writes, and who updates, has an anchor that gave no slices
\* away; the slice to splice to is in the stale chain, and once it is done the
\* fresh anchor shares what follows that slice.
Keeps(p) ==
    /\ op[p].pc \in {"writing", "appending", "stale"} \cup (Updating \ {"marked"}) =>
           anchors[op[p].file].splicingPoint = None
    /\ op[p].pc \in {"fresh", "prefixed"} \cup FreshShared =>
           anchors[op[p].fresh].splicingPoint = None
    /\ op[p].pc = "prefixed" => /\ anchors[op[p].fresh].start # None
                                /\ op[p].splice \in Own(anchors, next, op[p].file)
    /\ op[p].pc \in Closing =>
           SharesAfter(anchors, next, op[p].file, op[p].fresh, op[p].splice)

\* Nobody appends to an entry that is being updated.
Undisturbed ==
    \A p, q \in Kids, f \in FileNos : Appending(q, f) =>
        /\ ~HoldsHeaders(p, f)
        /\ ~(op[p].pc \in FreshShared /\ op[p].fresh = f)

\* Who gave slices away is to be freed.
SplicedAreMarked ==
    \A f \in FileNos : anchors[f].splicingPoint # None => anchors[f].waitingToBeFreed

ChainInv ==
    /\ Tidy(anchors, next, freeSlots, Exempt) /\ ~doubleFree
    /\ \A p \in Kids : Keeps(p)
    /\ Undisturbed /\ SplicedAreMarked

-----------------------------------------------------------------------------
(* What steps do to chains *)

\* The chain of f stays as it is.
Steady(f) ==
    /\ anchors'[f].start = anchors[f].start /\ anchors'[f].splicingPoint = anchors[f].splicingPoint
    /\ \A r \in Own(anchors, next, f) : next'[r] = next[r]

\* A step of p that changes chains only where p may, and lets nobody give slices away
Calm(p) ==
    /\ Tidy(anchors', next', freeSlots', Exempt) /\ ~doubleFree' /\ SplicedAreMarked'
    /\ \A g \in FileNos :
          /\ anchors[g].splicingPoint = None => anchors'[g].splicingPoint = None
          /\ Steady(g) \/ MayLockExclusive(g) \/ Exclusive(p, g) \/ Appending(p, g)

\* The state is typed.
LEMMA TypedState == TypeOK => Typed(anchors, next, freeSlots)
BY DEF TypeOK, Typed, Links

\* (the next one)
LEMMA TypedNext == TypeOK' => Typed(anchors', next', freeSlots')
BY DEF TypeOK, Typed, Links

\* A steady anchor keeps its chain.
LEMMA SteadyOwn ==
    ASSUME TypeOK, TypeOK', NEW f \in FileNos, Steady(f)
    PROVE  Own(anchors', next', f) = Own(anchors, next, f)
<1>1. anchors[f].start \in Slices \cup {None} /\ next \in Links /\ next' \in Links
    BY DEF TypeOK, Links, Anchors
<1> QED
    BY <1>1, OwnSame DEF Steady

\* Marks are calm.
LEMMA MarksCalm ==
    ASSUME IInv, ChainInv, TypeOK', NEW p \in Kids,
           next' = next, freeSlots' = freeSlots, doubleFree' = doubleFree,
           \A f \in FileNos : /\ anchors'[f].key = anchors[f].key
                              /\ anchors'[f].start = anchors[f].start
                              /\ anchors'[f].splicingPoint = anchors[f].splicingPoint
                              /\ anchors[f].waitingToBeFreed => anchors'[f].waitingToBeFreed
    PROVE  Calm(p) /\ \A f \in FileNos : Steady(f)
<1>1. \A f \in FileNos : Steady(f)
    BY DEF Steady
<1>2. Tidy(anchors', next', freeSlots', Exempt)
    BY TidyMarks DEF ChainInv
<1>3. ~doubleFree' /\ SplicedAreMarked'
    BY DEF ChainInv, SplicedAreMarked
<1> QED
    BY <1>1, <1>2, <1>3 DEF Calm

\* An anchor that nobody reads is not part of an update that is being closed.
LEMMA NotExempt ==
    ASSUME TypeOK, NEW f \in FileNos, \A q \in Kids : ~Shared(q, f)
    PROVE  \A g \in FileNos : {f, g} \notin Exempt
<1> SUFFICES ASSUME NEW g \in FileNos, NEW q \in Kids, op[q].pc \in Closing,
                    {f, g} = {op[q].file, op[q].fresh}
             PROVE  FALSE
    BY DEF Exempt
<1>1. f = op[q].file \/ f = op[q].fresh
    OBVIOUS
<1>2. Shared(q, f)
    BY <1>1 DEF Shared, Closing, Updating, FreshShared
<1> QED
    BY <1>2

\* So is freeing the chain of an anchor that nobody reads.
LEMMA FreeCalm ==
    ASSUME IInv, ChainInv, TypeOK', NEW p \in Kids, NEW f \in FileNos,
           NEW a \in Anchors, a.start = None, a.splicingPoint = None,
           FreeChain(f, a), \A q \in Kids : ~Shared(q, f),
           MayLockExclusive(f) \/ Exclusive(p, f) \/ Appending(p, f)
    PROVE  Calm(p) /\ \A g \in FileNos \ {f} : Steady(g)
<1>1. Typed(anchors, next, freeSlots) /\ Typed(anchors', next', freeSlots') /\ TypeOK
    BY TypedState, TypedNext DEF IInv
<1>2. Tidy(anchors, next, freeSlots, Exempt) /\ ~doubleFree
    BY DEF ChainInv
<1>3. \A g \in FileNos : {f, g} \notin Exempt
    BY <1>1, NotExempt
<1> DEFINE O == Own(anchors, next, f)
<1>4. O = OwnSlices(f) /\ O \in SUBSET Slices
    BY OwnSlicesOnly DEF Own, OwnSlices, Chain
<1>5. Empty(f) => O = {}
  <2>1. Empty(f) => anchors[f].start = None
      BY <1>2 DEF Tidy, Empty
  <2> QED
      BY <2>1, OwnSlicesOnly
<1>6. (IF Empty(f) THEN {} ELSE OwnSlices(f)) = O
    BY <1>4, <1>5
<1>7. /\ anchors' = [anchors EXCEPT ![f] = a]
      /\ next' = [s \in Slices |-> IF s \in O THEN None ELSE next[s]]
      /\ freeSlots' = freeSlots \cup O
      /\ doubleFree' = (doubleFree \/ O \cap freeSlots # {})
    BY <1>6 DEF FreeChain
<1>8. /\ anchors' \in [FileNos -> Anchors] /\ anchors'[f] = a
      /\ \A g \in FileNos \ {f} : anchors'[g] = anchors[g]
      /\ next' \in Links /\ (\A s \in O : next'[s] = None)
      /\ \A s \in Slices \ O : next'[s] = next[s]
    BY <1>1, <1>4, <1>7 DEF Typed
<1>9. /\ Tidy(anchors', next', freeSlots', Exempt)
      /\ \A g \in FileNos \ {f} : \A r \in Own(anchors, next, g) : next'[r] = next[r]
  <2> HIDE DEF O
  <2>1. \A s \in Own(anchors, next, f) : next'[s] = None
      BY <1>8 DEF O
  <2>2. \A s \in Slices \ Own(anchors, next, f) : next'[s] = next[s]
      BY <1>8 DEF O
  <2>3. freeSlots' = freeSlots \cup Own(anchors, next, f)
      BY <1>7 DEF O
  <2>4. Frees(anchors, next, freeSlots, anchors', next', freeSlots', f)
      BY <1>8, <2>1, <2>2, <2>3 DEF Frees
  <2> QED
      BY <1>1, <1>2, <1>3, <2>4, TidyFree
<1>10. ~doubleFree'
    BY <1>2, <1>7 DEF Tidy
<1>11. \A g \in FileNos \ {f} : Steady(g)
    BY <1>8, <1>9 DEF Steady
<1>12. SplicedAreMarked'
    BY <1>8 DEF ChainInv, SplicedAreMarked
<1>13. \A g \in FileNos : anchors[g].splicingPoint = None => anchors'[g].splicingPoint = None
    BY <1>8
<1> QED
    BY <1>9, <1>10, <1>11, <1>12, <1>13 DEF Calm

\* A kid that writes has an anchor of its own.
LEMMA WriterNotExempt ==
    ASSUME IInv, ChainInv, NEW p \in Kids, NEW f \in FileNos, Exclusive(p, f) \/ Appending(p, f)
    PROVE  \A g \in FileNos : {f, g} \notin Exempt
<1>0. TypeOK /\ LocksExclude
    BY DEF IInv
<1>1. CASE Exclusive(p, f)
  <2>1. \A q \in Kids \ {p} : ~Shared(q, f)
      BY <1>0, <1>1 DEF LocksExclude, Alone, HoldsAny
  <2>2. ~Shared(p, f)
      BY <1>0, <1>1 DEF LocksExclude, Exclusive, Shared, Updating, FreshShared
  <2> QED
      BY <1>0, <2>1, <2>2, NotExempt
<1>2. CASE Appending(p, f)
  <2> SUFFICES ASSUME NEW g \in FileNos, NEW q \in Kids, op[q].pc \in Closing,
                      {f, g} = {op[q].file, op[q].fresh}
               PROVE  FALSE
      BY DEF Exempt
  <2>1. f = op[q].file \/ f = op[q].fresh
      OBVIOUS
  <2>2. HoldsHeaders(q, f) \/ (op[q].pc \in FreshShared /\ op[q].fresh = f)
      BY <2>1 DEF HoldsHeaders, Closing, Updating, FreshShared
  <2> QED
      BY <1>2, <2>2 DEF ChainInv, Undisturbed
<1> QED
    BY <1>1, <1>2

\* The last slice of an entry that gave nothing away
LEMMA LastSliceFacts ==
    ASSUME TypeOK, Acyclic(next), NEW f \in FileNos, anchors[f].start # None,
           anchors[f].splicingPoint = None
    PROVE  /\ LastSlice(f) \in Own(anchors, next, f) /\ next[LastSlice(f)] = None
           /\ WholeChain(f) = Own(anchors, next, f)
<1>1. next \in Links /\ anchors[f].start \in Slices
    BY DEF TypeOK, Links, Anchors
<1>2. WholeChain(f) = ChainBy(next, anchors[f].start, None)
    BY DEF WholeChain, Chain
<1>3. \E e \in WholeChain(f) : next[e] = None
    BY <1>1, <1>2, ChainEnds
<1>4. LastSlice(f) \in WholeChain(f) /\ next[LastSlice(f)] = None
    BY <1>3 DEF LastSlice
<1> QED
    BY <1>2, <1>4 DEF Own

\* So is linking a slice to the chain of an anchor that p writes to, whether the slice is
\* free or comes from a purged entry.
LEMMA ReserveCalm ==
    ASSUME IInv, ChainInv, TypeOK', NEW p \in Kids, NEW f \in FileNos, NEW s \in Slices,
           ReserveSlice(p, f, s), Exclusive(p, f) \/ Appending(p, f),
           anchors[f].splicingPoint = None, anchors[f].key # NoKey
    PROVE  /\ Calm(p) /\ anchors'[f].start # None
           /\ \A g \in FileNos \ {f} : Steady(g) \/ MayLockExclusive(g)
<1>1. Typed(anchors, next, freeSlots) /\ Typed(anchors', next', freeSlots') /\ TypeOK
    BY TypedState, TypedNext DEF IInv
<1>2. Tidy(anchors, next, freeSlots, Exempt) /\ ~doubleFree /\ Acyclic(next)
    BY DEF ChainInv, Tidy
<1>3. \A g \in FileNos : {f, g} \notin Exempt
    BY WriterNotExempt
<1> DEFINE e == LastSlice(f)
           linked == IF anchors[f].start = None THEN [anchors EXCEPT ![f].start = s] ELSE anchors
           Link(nexts) == IF anchors[f].start = None THEN nexts ELSE [nexts EXCEPT ![e] = s]
<1>4. anchors[f].start # None => e \in Own(anchors, next, f) /\ next[e] = None /\ e \in Slices
    BY <1>1, <1>2, LastSliceFacts, OwnSlicesOnly
<1>5. /\ linked \in [FileNos -> Anchors]
      /\ linked[f] = IF anchors[f].start = None THEN [anchors[f] EXCEPT !.start = s] ELSE anchors[f]
      /\ \A g \in FileNos \ {f} : linked[g] = anchors[g]
    BY <1>1 DEF Typed, Anchors
<1>6. CASE /\ s \in freeSlots
           /\ freeSlots' = freeSlots \ {s}
           /\ anchors' = linked /\ next' = Link(next)
           /\ UNCHANGED <<count, doubleFree>>
  <2>1. Extends(anchors, next, freeSlots, anchors', next', freeSlots', f, s, e)
    <3>1. anchors[f].start = None => next' = next
        BY <1>6
    <3>2. anchors[f].start # None => next'[e] = s /\ \A r \in Slices \ {e} : next'[r] = next[r]
        BY <1>1, <1>4, <1>6 DEF Typed, Links
    <3> HIDE DEF e, linked, Link
    <3> QED
        BY <1>4, <1>5, <1>6, <3>1, <3>2 DEF Extends
  <2> HIDE DEF e, linked, Link
  <2>2. /\ Tidy(anchors', next', freeSlots', Exempt)
        /\ anchors'[f].splicingPoint = None /\ anchors'[f].start # None
        /\ \A g \in FileNos \ {f} : \A r \in Own(anchors, next, g) : next'[r] = next[r]
      BY <1>1, <1>2, <1>3, <2>1, TidyLink
  <2>3. \A g \in FileNos \ {f} : anchors'[g] = anchors[g]
      BY <1>5, <1>6
  <2>4. \A g \in FileNos \ {f} : Steady(g)
      BY <2>2, <2>3 DEF Steady
  <2>5. SplicedAreMarked' /\ ~doubleFree'
      BY <1>2, <1>6, <2>2, <2>3 DEF SplicedAreMarked, ChainInv
  <2>6. \A g \in FileNos : anchors[g].splicingPoint = None => anchors'[g].splicingPoint = None
      BY <2>2, <2>3
  <2> QED
      BY <2>2, <2>4, <2>5, <2>6 DEF Calm
<1>7. ASSUME NEW g \in FileNos, MayLockExclusive(g), anchors[g].key # NoKey,
             s = anchors[g].start,
             anchors' = [linked EXCEPT ![g] = Rewound],
             next' = Link([r \in Slices |-> IF r \in OwnSlices(g) THEN None ELSE next[r]]),
             freeSlots' = (freeSlots \cup OwnSlices(g)) \ {s},
             doubleFree' = (doubleFree \/ OwnSlices(g) \cap freeSlots # {})
      PROVE  /\ Calm(p) /\ anchors'[f].start # None
             /\ \A h \in FileNos \ {f} : Steady(h) \/ MayLockExclusive(h)
  <2>1. f # g
      BY <1>7 DEF MayLockExclusive
  <2>2. \A h \in FileNos : {g, h} \notin Exempt
      BY <1>1, <1>7, NotExempt DEF MayLockExclusive
  <2>3. OwnSlices(g) = Own(anchors, next, g) /\ Own(anchors, next, g) \in SUBSET Slices
      BY OwnSlicesOnly DEF Own, OwnSlices, Chain
  <2>4. s \in Own(anchors, next, g)
      BY <1>7, ChainStart DEF Own
  <2> DEFINE B == [anchors EXCEPT ![g] = Rewound]
             M == [r \in Slices |-> IF r \in Own(anchors, next, g) THEN None ELSE next[r]]
             G == freeSlots \cup Own(anchors, next, g)
  <2>5. Rewound \in Anchors /\ Rewound.start = None /\ Rewound.splicingPoint = None
      BY StoreMapAssumption, RewoundType DEF Rewound
  <2>6. /\ B \in [FileNos -> Anchors] /\ B[g] = Rewound
        /\ \A h \in FileNos \ {g} : B[h] = anchors[h]
        /\ M \in Links /\ (\A r \in Own(anchors, next, g) : M[r] = None)
        /\ \A r \in Slices \ Own(anchors, next, g) : M[r] = next[r]
    <3>1. anchors \in [FileNos -> Anchors] /\ next \in Links
        BY <1>1 DEF Typed
    <3>2. M \in Links
        BY <3>1 DEF Links
    <3> QED
        BY <2>3, <2>5, <3>1, <3>2
  <2>7. G \in SUBSET Slices
      BY <1>1, <2>3 DEF Typed
  <2>8. Typed(B, M, G) /\ Frees(anchors, next, freeSlots, B, M, G, g)
      BY <2>5, <2>6, <2>7 DEF Typed, Frees
  <2> HIDE DEF B, M, G
  <2>9. /\ Tidy(B, M, G, Exempt)
        /\ \A h \in FileNos \ {g} : /\ Own(B, M, h) = Own(anchors, next, h)
                                    /\ \A r \in Own(anchors, next, h) : M[r] = next[r]
      BY <1>1, <1>2, <2>2, <2>8, TidyFree
  <2>10. Extends(B, M, G, anchors', next', freeSlots', f, s, e)
    <3>1. /\ anchors'[g] = Rewound
          /\ \A h \in FileNos \ {g} : anchors'[h] = linked[h]
        BY <1>5, <1>7
    <3>2. next' = Link(M)
        BY <1>7, <2>3 DEF M
    <3>3. anchors[f].start = None => next' = M
        BY <3>2
    <3>4. anchors[f].start # None => next'[e] = s /\ \A r \in Slices \ {e} : next'[r] = M[r]
        BY <1>4, <2>6, <3>2 DEF Links
    <3>5. anchors[f].start # None => M[e] = None
        BY <1>4, <2>1, <2>9
    <3> HIDE DEF e, linked, Link
    <3>6. B[f] = anchors[f] /\ \A h \in FileNos \ {f} : anchors'[h] = B[h]
        BY <1>5, <2>1, <2>6, <3>1
    <3>7. anchors[f].start # None => e \in Own(B, M, f)
        BY <1>4, <2>1, <2>9
    <3>8. anchors'[f] = IF B[f].start = None THEN [B[f] EXCEPT !.start = s] ELSE B[f]
        BY <1>5, <2>1, <3>1, <3>6
    <3>9. s \in G /\ freeSlots' = G \ {s}
        BY <1>7, <2>3, <2>4 DEF G
    <3> QED
        BY <3>3, <3>4, <3>5, <3>6, <3>7, <3>8, <3>9 DEF Extends
  <2> HIDE DEF e, linked, Link
  <2>11. B[f] = anchors[f]
      BY <2>1, <2>6
  <2>12. /\ Tidy(anchors', next', freeSlots', Exempt)
         /\ anchors'[f].splicingPoint = None /\ anchors'[f].start # None
         /\ \A h \in FileNos \ {f} : \A r \in Own(B, M, h) : next'[r] = M[r]
      BY <1>1, <1>3, <2>8, <2>9, <2>10, <2>11, TidyLink
  <2>13. /\ anchors'[g] = Rewound
         /\ \A h \in FileNos \ {f, g} : anchors'[h] = anchors[h]
    <3>1. \A h \in FileNos \ {f} : anchors'[h] = B[h]
        BY <2>10 DEF Extends
    <3> QED
        BY <2>1, <2>6, <3>1
  <2>14. \A h \in FileNos \ {f, g} : Steady(h)
    <3>1. \A h \in FileNos \ {f, g} : \A r \in Own(anchors, next, h) : next'[r] = next[r]
        BY <2>9, <2>12
    <3> QED
        BY <2>13, <3>1 DEF Steady
  <2>15. SplicedAreMarked' /\ ~doubleFree'
    <3>1. OwnSlices(g) \cap freeSlots = {}
        BY <1>2, <2>3 DEF Tidy
    <3>2. ~doubleFree'
        BY <1>2, <1>7, <2>5, <2>12, <2>13, <3>1 DEF ChainInv
    <3>3. SplicedAreMarked'
        BY <1>2, <2>5, <2>12, <2>13 DEF SplicedAreMarked, ChainInv
    <3> QED
        BY <3>2, <3>3
  <2>16. \A h \in FileNos : anchors[h].splicingPoint = None => anchors'[h].splicingPoint = None
      BY <2>5, <2>12, <2>13
  <2>17. \A h \in FileNos \ {f} : Steady(h) \/ MayLockExclusive(h)
      BY <1>7, <2>14
  <2>18. Calm(p)
      BY <2>12, <2>15, <2>16, <2>17 DEF Calm
  <2> QED
      BY <2>12, <2>17, <2>18
<1>8. CASE \E n \in FileNos :
             /\ MayLockExclusive(fileNos[n]) /\ ~Empty(fileNos[n])
             /\ s = anchors[fileNos[n]].start
             /\ anchors' = [linked EXCEPT ![fileNos[n]] = Rewound]
             /\ next' = Link([r \in Slices |-> IF r \in OwnSlices(fileNos[n]) THEN None ELSE next[r]])
             /\ freeSlots' = (freeSlots \cup OwnSlices(fileNos[n])) \ {s}
             /\ doubleFree' = (doubleFree \/ OwnSlices(fileNos[n]) \cap freeSlots # {})
  <2>1. \A n \in FileNos : fileNos[n] \in FileNos
      BY <1>1 DEF TypeOK
  <2> HIDE DEF e, linked, Link
  <2> QED
      BY <1>7, <1>8, <2>1 DEF Empty
<1> QED
    BY <1>6, <1>8 DEF ReserveSlice

\* The anchors of an update, and of a writer, stay as they are while others are calm.
LEMMA HeldIsSteady ==
    ASSUME IInv, ChainInv, NEW p \in Kids, Calm(p), NEW q \in Kids \ {p}, NEW f \in FileNos,
           \/ HoldsHeaders(q, f) \/ Exclusive(q, f)
           \/ op[q].pc \in FreshShared /\ op[q].fresh = f
    PROVE  Steady(f)
<1>1. ~MayLockExclusive(f)
    BY DEF MayLockExclusive, HoldsHeaders, Shared
<1>2. ~Exclusive(p, f)
    BY DEF IInv, LocksExclude, Alone, HoldsAny, HoldsHeaders, Shared
<1>3. ~Appending(p, f)
    BY DEF IInv, LocksExclude, ChainInv, Undisturbed
<1> QED
    BY <1>1, <1>2, <1>3 DEF Calm

\* Steady anchors go on sharing.
LEMMA SharesSame ==
    ASSUME TypeOK, TypeOK', Acyclic(next), NEW f \in FileNos, NEW h \in FileNos, NEW c,
           Steady(f), Steady(h), anchors[f].splicingPoint = None,
           SharesAfter(anchors, next, f, h, c)
    PROVE  SharesAfter(anchors', next', f, h, c)
<1>1. next \in Links /\ next' \in Links /\ anchors[f].start \in Slices \cup {None}
    BY DEF TypeOK, Links, Anchors
<1>2. /\ Own(anchors', next', f) = Own(anchors, next, f)
      /\ Own(anchors', next', h) = Own(anchors, next, h)
    BY SteadyOwn
<1>3. /\ c \in Own(anchors, next, f) /\ ChainBy(next, next[c], None) \subseteq Own(anchors, next, h)
      /\ Own(anchors, next, h) \cap ChainBy(next, anchors[f].start, c) = {}
    BY DEF SharesAfter
<1>4. anchors[f].start # None /\ c \in Slices
    BY <1>3, OwnSlicesOnly
<1>5. next'[c] = next[c] /\ next[c] \in Slices \cup {None} /\ anchors'[f].start = anchors[f].start
    BY <1>1, <1>3, <1>4 DEF Steady, Links
<1>6. ChainBy(next', next[c], None) = ChainBy(next, next[c], None)
  <2>1. \A r \in ChainBy(next, next[c], None) \ {None} : next'[r] = next[r]
      BY <1>3 DEF Steady
  <2> QED
      BY <1>1, <1>5, <2>1, ChainSame
<1>7. ChainBy(next', anchors[f].start, c) = ChainBy(next, anchors[f].start, c)
  <2>1. c \in ChainBy(next, anchors[f].start, None)
      BY <1>3 DEF Own
  <2>2. ChainBy(next, anchors[f].start, c) \subseteq ChainBy(next, anchors[f].start, None)
      BY <1>1, <1>4, <2>1, ChainSplit
  <2>3. \A r \in ChainBy(next, anchors[f].start, c) \ {c} : next'[r] = next[r]
      BY <2>2 DEF Steady, Own
  <2> QED
      BY <1>1, <2>3, ChainSame
<1> QED
    BY <1>2, <1>3, <1>5, <1>6, <1>7 DEF SharesAfter

\* A calm step takes nothing from the other kids that they rely on.
LEMMA OthersKeep ==
    ASSUME IInv, ChainInv, TypeOK', NEW p \in Kids, Calm(p), OthersStay(p), NEW q \in Kids \ {p}
    PROVE  Keeps(q)'
<1>1. op'[q] = op[q] /\ op[q].file \in FileNos /\ op[q].fresh \in FileNos /\ TypeOK
    BY DEF OthersStay, IInv, TypeOK, Ops
<1>2. Keeps(q) /\ Acyclic(next)
    BY DEF ChainInv, Tidy
<1>3. op[q].pc \in {"writing", "appending", "stale"} \cup (Updating \ {"marked"}) =>
          anchors'[op[q].file].splicingPoint = None
    BY <1>1, <1>2 DEF Keeps, Calm
<1>4. op[q].pc \in {"fresh", "prefixed"} \cup FreshShared =>
          anchors'[op[q].fresh].splicingPoint = None
    BY <1>1, <1>2 DEF Keeps, Calm
<1>5. ASSUME op[q].pc \in {"prefixed"} \cup Closing
      PROVE  Steady(op[q].file) /\ Steady(op[q].fresh)
  <2>1. HoldsHeaders(q, op[q].file)
      BY <1>5 DEF HoldsHeaders, Closing, Updating
  <2>2. Exclusive(q, op[q].fresh) \/ op[q].pc \in FreshShared
      BY <1>5 DEF Exclusive, Closing, FreshShared
  <2> QED
      BY <1>1, <2>1, <2>2, HeldIsSteady
<1>6. ASSUME op[q].pc = "prefixed"
      PROVE  /\ anchors'[op[q].fresh].start # None
             /\ op[q].splice \in Own(anchors', next', op[q].file)
  <2>1. Own(anchors', next', op[q].file) = Own(anchors, next, op[q].file)
      BY <1>1, <1>5, <1>6, SteadyOwn
  <2>2. anchors'[op[q].fresh].start = anchors[op[q].fresh].start
      BY <1>5, <1>6 DEF Steady
  <2> QED
      BY <1>2, <1>6, <2>1, <2>2 DEF Keeps
<1>7. ASSUME op[q].pc \in Closing
      PROVE  SharesAfter(anchors', next', op[q].file, op[q].fresh, op[q].splice)
  <2>1. SharesAfter(anchors, next, op[q].file, op[q].fresh, op[q].splice)
      BY <1>2, <1>7 DEF Keeps
  <2>2. anchors[op[q].file].splicingPoint = None
      BY <1>2, <1>7 DEF Keeps, Closing, Updating
  <2> QED
      BY <1>1, <1>2, <1>5, <1>7, <2>1, <2>2, SharesSame
<1> QED
    BY <1>1, <1>3, <1>4, <1>6, <1>7 DEF Keeps, Updating, FreshShared, Closing

\* What p may newly take from others: nobody appends where p begins to update.
Settles(p) ==
    /\ \A f \in FileNos : Appending(p, f)' => Appending(p, f) \/ Exclusive(p, f)
    /\ \A f \in FileNos : HoldsHeaders(p, f)' => HoldsHeaders(p, f) \/ ~Writing(f)
    /\ op'[p].pc \in FreshShared => \/ Exclusive(p, op'[p].fresh)
                                    \/ op[p].pc \in FreshShared /\ op'[p].fresh = op[p].fresh

\* Then updates are not disturbed.
LEMMA StepUndisturbed ==
    ASSUME IInv, ChainInv, NEW p \in Kids, OthersStay(p), Settles(p)
    PROVE  Undisturbed'
<1> SUFFICES ASSUME NEW r \in Kids, NEW q \in Kids, NEW f \in FileNos, Appending(q, f)'
             PROVE  ~HoldsHeaders(r, f)' /\ ~(op'[r].pc \in FreshShared /\ op'[r].fresh = f)
    BY DEF Undisturbed, FreshShared
<1>0. \A x \in Kids \ {p} : op'[x] = op[x]
    BY DEF OthersStay
<1>1. CASE q = r
    BY <1>1 DEF Appending, HoldsHeaders, Updating, FreshShared
<1>2. CASE q # r /\ q = p
  <2>1. Appending(p, f) \/ Exclusive(p, f)
      BY <1>2 DEF Settles
  <2>2. ~HoldsHeaders(r, f) /\ ~(op[r].pc \in FreshShared /\ op[r].fresh = f)
    <3>1. CASE Appending(p, f)
        BY <3>1 DEF ChainInv, Undisturbed
    <3>2. CASE Exclusive(p, f)
        BY <1>2, <3>2 DEF IInv, LocksExclude, Alone, HoldsAny, Shared, HoldsHeaders
    <3> QED
        BY <2>1, <3>1, <3>2
  <2> QED
      BY <1>0, <1>2, <2>2 DEF HoldsHeaders
<1>3. CASE q # r /\ r = p
  <2>1. Appending(q, f)
      BY <1>0, <1>3 DEF Appending
  <2>2. ~HoldsHeaders(p, f) /\ ~(op[p].pc \in FreshShared /\ op[p].fresh = f)
      BY <2>1 DEF ChainInv, Undisturbed
  <2>3. Writing(f) /\ ~Exclusive(p, f)
      BY <1>3, <2>1 DEF Writing, IInv, LocksExclude
  <2> QED
      BY <1>3, <2>2, <2>3 DEF Settles
<1>4. CASE q # p /\ r # p
  <2>1. Appending(q, f)
      BY <1>0, <1>4 DEF Appending
  <2> QED
      BY <1>0, <1>4, <2>1 DEF ChainInv, Undisturbed, HoldsHeaders
<1> QED
    BY <1>1, <1>2, <1>3, <1>4

\* A calm step of p that begins and ends no closing of an update keeps the invariant.
LEMMA CalmStep ==
    ASSUME IInv, ChainInv, TypeOK', NEW p \in Kids, Calm(p), OthersStay(p), Settles(p), Keeps(p)',
           \/ op[p].pc \notin Closing /\ op'[p].pc \notin Closing
           \/ /\ op[p].pc \in Closing /\ op'[p].pc \in Closing
              /\ op'[p].file = op[p].file /\ op'[p].fresh = op[p].fresh
    PROVE  ChainInv'
<1>1. Exempt' = Exempt
  <2>1. \A q \in Kids : op'[q].pc \in Closing <=> op[q].pc \in Closing
      BY DEF OthersStay
  <2>2. \A q \in Kids : op[q].pc \in Closing =>
            {op'[q].file, op'[q].fresh} = {op[q].file, op[q].fresh}
      BY DEF OthersStay
  <2>3. {q \in Kids : op'[q].pc \in Closing} = {q \in Kids : op[q].pc \in Closing}
      BY <2>1
  <2>4. Exempt' = {{op'[q].file, op'[q].fresh} : q \in {r \in Kids : op'[r].pc \in Closing}}
      BY DEF Exempt, Closing
  <2> QED
      BY <2>2, <2>3, <2>4 DEF Exempt
<1>2. Tidy(anchors', next', freeSlots', Exempt')
    BY <1>1 DEF Calm
<1>3. ~doubleFree' /\ SplicedAreMarked'
    BY DEF Calm
<1>4. \A q \in Kids : Keeps(q)'
    BY OthersKeep
<1>5. Undisturbed'
    BY StepUndisturbed
<1> QED
    BY <1>2, <1>3, <1>4, <1>5 DEF ChainInv

-----------------------------------------------------------------------------
(* The actions *)

Plain == {"idle", "get", "cache", "update", "evict", "evictUnlocked", "reading", "copying"}

\* A calm step after which p relies on nothing
LEMMA PlainStep ==
    ASSUME IInv, ChainInv, NEW p \in Kids, Fine(p), Calm(p), op[p].pc \notin Closing,
           op'[p].pc \in Plain
    PROVE  ChainInv'
<1>1. op'[p].pc \notin Closing \cup {"writing", "appending", "stale"} \cup Updating
    BY DEF Plain, Closing, Updating
<1>2. Keeps(p)'
    BY <1>1 DEF Keeps, Closing, Updating, FreshShared
<1>3. Settles(p)
    BY <1>1 DEF Settles, Fine, LocksGranted, HoldsHeaders, Updating, FreshShared
<1> QED
    BY <1>1, <1>2, <1>3, CalmStep DEF Fine

\* A calm step after which p is done
LEMMA FinishCalm ==
    ASSUME IInv, ChainInv, NEW p \in Kids, Fine(p), Calm(p), op[p].pc \notin Closing, Finish(p)
    PROVE  ChainInv'
<1>1. op'[p].pc \in Plain
    BY DEF Finish, Idle, Plain, IInv, TypeOK
<1> QED
    BY <1>1, PlainStep

\* A step that leaves the memory alone is calm.
LEMMA SameCalm ==
    ASSUME IInv, ChainInv, NEW p \in Kids, Fine(p), UNCHANGED <<anchors, next, freeSlots, doubleFree>>
    PROVE  Calm(p) /\ \A f \in FileNos : Steady(f)
BY MarksCalm DEF Fine

\* So is one that marks an anchor.
LEMMA MarkCalm ==
    ASSUME IInv, ChainInv, NEW p \in Kids, Fine(p), NEW f \in FileNos,
           anchors' = [anchors EXCEPT ![f] = Mark(@)], UNCHANGED <<next, freeSlots, doubleFree>>
    PROVE  Calm(p) /\ \A g \in FileNos : Steady(g)
<1>1. anchors \in [FileNos -> Anchors]
    BY DEF IInv, TypeOK
<1>2. \A g \in FileNos : /\ anchors'[g].key = anchors[g].key
                         /\ anchors'[g].start = anchors[g].start
                         /\ anchors'[g].splicingPoint = anchors[g].splicingPoint
                         /\ anchors[g].waitingToBeFreed => anchors'[g].waitingToBeFreed
    BY <1>1 DEF Mark, Anchors
<1> QED
    BY <1>2, MarksCalm DEF Fine

\* Steps that only look something up or let go
LEMMA LookingChains ==
    ASSUME IInv, ChainInv, NEW p \in Kids, Fine(p),
           \/ \E k \in Keys, pc \in Purposes[p] : FindAnchor(p, k, pc)
           \/ GiveUp(p) \/ CloseForReading(p) \/ CompleteWriting(p) \/ CloseForUpdating(p)
    PROVE  ChainInv'
<1>1. Calm(p)
    BY SameCalm DEF FindAnchor, GiveUp, CloseForReading, CompleteWriting, CloseForUpdating, shared
<1>2. op[p].pc \notin Closing
    BY DEF FindAnchor, GiveUp, CloseForReading, CompleteWriting, CloseForUpdating, Closing
<1>3. CASE GiveUp(p) \/ CloseForReading(p) \/ CompleteWriting(p) \/ CloseForUpdating(p)
    BY <1>1, <1>2, <1>3, FinishCalm DEF GiveUp, CloseForReading, CompleteWriting, CloseForUpdating
<1>4. ASSUME NEW k \in Keys, NEW pc \in Purposes[p], FindAnchor(p, k, pc) PROVE ChainInv'
  <2>1. op'[p].pc = pc
      BY <1>4 DEF FindAnchor, IInv, TypeOK, Idle
  <2>2. pc \in Plain
      BY StoreMapAssumption DEF StoreMapAssumption, Plain
  <2> QED
      BY <1>1, <1>2, <2>1, <2>2, PlainStep
<1> QED
    BY <1>3, <1>4

\* An entry that is opened gave no slices away: it would be marked.
LEMMA OpenForReadingChains ==
    ASSUME IInv, ChainInv, NEW p \in Kids, Fine(p), OpenForReadingAt(p)
    PROVE  ChainInv'
<1>0. /\ op[p].file \in FileNos /\ op[p].pc \in {"get", "update"}
      /\ UNCHANGED <<anchors, next, freeSlots, doubleFree>>
    BY OwnsFacts DEF Owns, OpenForReadingAt, shared
<1>1. Calm(p) /\ op[p].pc \notin Closing
    BY <1>0, SameCalm DEF Closing
<1>2. PICK pc \in {"stale", "reading", "copying"} : Goto(p, pc)
    BY DEF OpenForReadingAt
<1>3. op'[p].pc = pc /\ op'[p].file = op[p].file
    BY <1>2, GotoKeeps DEF Pcs, IInv
<1>4. CASE pc # "stale"
    BY <1>1, <1>3, <1>4, PlainStep DEF Plain
<1>5. CASE pc = "stale"
  <2>1. anchors'[op[p].file].splicingPoint = None
      BY <1>0 DEF OpenForReadingAt, Readable, ChainInv, SplicedAreMarked
  <2>2. Keeps(p)'
      BY <1>3, <1>5, <2>1 DEF Keeps, Closing, Updating, FreshShared
  <2>3. Settles(p)
      BY <1>3, <1>5 DEF Settles, Fine, LocksGranted, HoldsHeaders, Updating, FreshShared
  <2> QED
      BY <1>1, <1>3, <1>5, <2>2, <2>3, CalmStep DEF Fine, Closing
<1> QED
    BY <1>4, <1>5

\* Marks do no harm to chains.
LEMMA MarkingChains ==
    ASSUME IInv, ChainInv, NEW p \in Kids, Fine(p), LoadFailed(p) \/ MarkUnlocked(p) \/ EvictCached(p)
    PROVE  ChainInv'
<1>0. op[p].file \in FileNos
    BY OwnsFacts DEF Owns
<1>1. Calm(p) /\ \A f \in FileNos : Steady(f)
    BY <1>0, MarkCalm DEF LoadFailed, MarkUnlocked, EvictCached
<1>2. op[p].pc \notin Closing
    BY DEF LoadFailed, MarkUnlocked, EvictCached, Closing
<1>3. CASE LoadFailed(p) \/ MarkUnlocked(p)
    BY <1>1, <1>2, <1>3, FinishCalm DEF LoadFailed, MarkUnlocked, Evicted
<1>4. CASE EvictCached(p)
  <2>1. op' = op /\ op[p].pc \in {"reading", "writing", "appending"}
      BY <1>4 DEF EvictCached
  <2>2. Keeps(p)
      BY DEF ChainInv
  <2>3. op[p].pc \in {"writing", "appending"} => anchors'[op[p].file].splicingPoint = None
      BY <1>0, <1>1, <2>2 DEF Keeps, Steady
  <2>4. Keeps(p)'
      BY <2>1, <2>3 DEF Keeps, Closing, Updating, FreshShared
  <2>5. Settles(p)
      BY <2>1 DEF Settles, Appending, HoldsHeaders, FreshShared
  <2> QED
      BY <1>1, <1>2, <2>1, <2>4, <2>5, CalmStep DEF Fine
<1> QED
    BY <1>3, <1>4

\* A new anchor has no slices.
LEMMA NewAnchorFacts ==
    ASSUME NEW k, NEW id, NEW updated, NEW marked
    PROVE  /\ NewAnchor(k, id, updated, marked).start = None
           /\ NewAnchor(k, id, updated, marked).splicingPoint = None
BY DEF NewAnchor, Rewound

\* The anchor that takes the place of a freed one is one.
LEMMA FreedFacts ==
    ASSUME IInv, NEW f \in FileNos, NEW a, FreeChain(f, a), TypeOK'
    PROVE  a \in Anchors /\ anchors'[f] = a
<1>1. anchors' = [anchors EXCEPT ![f] = a] /\ anchors \in [FileNos -> Anchors]
    BY DEF FreeChain, IInv, TypeOK
<1>2. anchors'[f] = a /\ anchors'[f] \in Anchors
    BY <1>1 DEF TypeOK
<1> QED
    BY <1>2

\* A new entry replaces one that nobody uses.
LEMMA StartCachingChains ==
    ASSUME IInv, ChainInv, NEW p \in Kids, Fine(p), StartCaching(p)
    PROVE  ChainInv'
<1>0. op[p].file \in FileNos /\ op[p].pc = "cache" /\ Goto(p, "writing")
    BY OwnsFacts DEF Owns, StartCaching
<1>1. PICK a : a.start = None /\ a.splicingPoint = None /\ OpenForWritingAt(op[p].file, a)
  <2>1. PICK marked \in BOOLEAN :
            OpenForWritingAt(op[p].file, NewAnchor(op[p].key, made + 1, FALSE, marked))
      BY DEF StartCaching
  <2> QED
      BY <2>1, NewAnchorFacts
<1>2. FreeChain(op[p].file, a) /\ MayLockExclusive(op[p].file)
    BY <1>1 DEF OpenForWritingAt
<1>3. a \in Anchors /\ anchors'[op[p].file] = a
    BY <1>0, <1>2, FreedFacts DEF Fine
<1>4. Calm(p)
    BY <1>0, <1>1, <1>2, <1>3, FreeCalm DEF Fine, MayLockExclusive
<1>5. op'[p].pc = "writing" /\ op'[p].file = op[p].file
    BY <1>0, GotoKeeps DEF Pcs, IInv
<1>6. Keeps(p)'
    BY <1>1, <1>3, <1>5 DEF Keeps, Closing, Updating, FreshShared
<1>7. Settles(p)
    BY <1>5 DEF Settles, Fine, LocksGranted, HoldsHeaders, Updating, FreshShared
<1> QED
    BY <1>0, <1>4, <1>5, <1>6, <1>7, CalmStep DEF Fine, Closing

\* A writer lets readers in.
LEMMA StartAppendingChains ==
    ASSUME IInv, ChainInv, NEW p \in Kids, Fine(p), StartAppending(p)
    PROVE  ChainInv'
<1>0. /\ op[p].file \in FileNos /\ op[p].pc = "writing" /\ Goto(p, "appending")
      /\ UNCHANGED <<anchors, next, freeSlots, doubleFree>>
    BY OwnsFacts DEF Owns, StartAppending, shared
<1>1. Calm(p)
    BY <1>0, SameCalm
<1>2. op'[p].pc = "appending" /\ op'[p].file = op[p].file
    BY <1>0, GotoKeeps DEF Pcs, IInv
<1>3. anchors[op[p].file].splicingPoint = None
    BY <1>0 DEF ChainInv, Keeps
<1>4. Keeps(p)'
    BY <1>0, <1>2, <1>3 DEF Keeps, Closing, Updating, FreshShared
<1>5. Settles(p)
    BY <1>2 DEF Settles, Fine, LocksGranted, HoldsHeaders, Updating, FreshShared
<1> QED
    BY <1>0, <1>1, <1>2, <1>4, <1>5, CalmStep DEF Fine, Closing

\* A writer adds a slice to its entry.
LEMMA CopyToShmChains ==
    ASSUME IInv, ChainInv, NEW p \in Kids, Fine(p), CopyToShm(p)
    PROVE  ChainInv'
<1>0. /\ op[p].file \in FileNos /\ op[p].pc \in {"writing", "appending"} /\ op' = op
      /\ anchors[op[p].file].key = op[p].key /\ op[p].key \in Keys
    BY OwnsFacts DEF Owns, OwnEntry, CopyToShm, IInv, TypeOK
<1>1. PICK s \in Slices : ReserveSlice(p, op[p].file, s)
    BY DEF CopyToShm
<1>2. anchors[op[p].file].splicingPoint = None
    BY <1>0 DEF ChainInv, Keeps
<1>3. Exclusive(p, op[p].file) \/ Appending(p, op[p].file)
    BY <1>0 DEF Exclusive, Appending
<1>4. anchors[op[p].file].key # NoKey
    BY <1>0, StoreMapAssumption DEF StoreMapAssumption
<1>5. Calm(p)
    BY <1>0, <1>1, <1>2, <1>3, <1>4, ReserveCalm DEF Fine
<1>6. anchors'[op[p].file].splicingPoint = None
    BY <1>0, <1>2, <1>5 DEF Calm
<1>7. Keeps(p)'
    BY <1>0, <1>6 DEF Keeps, Closing, Updating, FreshShared
<1>8. Settles(p)
    BY <1>0 DEF Settles, Appending, HoldsHeaders, FreshShared
<1> QED
    BY <1>0, <1>5, <1>7, <1>8, CalmStep DEF Fine, Closing

\* Who holds an anchor exclusively may free it.
LEMMA FreeOwnCalm ==
    ASSUME IInv, ChainInv, NEW p \in Kids, Fine(p), NEW f \in FileNos,
           Exclusive(p, f) \/ MayLockExclusive(f), FreeChain(f, Rewound)
    PROVE  Calm(p)
<1>1. Rewound \in Anchors /\ Rewound.start = None /\ Rewound.splicingPoint = None
    BY StoreMapAssumption, RewoundType DEF Rewound
<1>2. \A q \in Kids : ~Shared(q, f)
  <2>1. CASE MayLockExclusive(f)
      BY <2>1 DEF MayLockExclusive
  <2>2. CASE Exclusive(p, f)
    <3>1. \A q \in Kids \ {p} : ~Shared(q, f)
        BY <2>2 DEF IInv, LocksExclude, Alone, HoldsAny
    <3>2. ~Shared(p, f)
        BY <2>2 DEF IInv, LocksExclude, Exclusive, Shared, Updating, FreshShared
    <3> QED
        BY <3>1, <3>2
  <2> QED
      BY <2>1, <2>2
<1> QED
    BY <1>1, <1>2, FreeCalm DEF Fine

\* An aborted entry is freed, or marked if somebody reads it.
LEMMA AbortWritingChains ==
    ASSUME IInv, ChainInv, NEW p \in Kids, Fine(p), AbortWriting(p)
    PROVE  ChainInv'
<1> DEFINE f == op[p].file
<1>0. /\ f \in FileNos /\ op[p].pc \in {"writing", "appending"} /\ Finish(p)
    BY OwnsFacts DEF Owns, AbortWriting
<1>1. CASE op[p].pc = "writing" /\ FreeChain(f, Rewound)
  <2>1. Exclusive(p, f)
      BY <1>1 DEF Exclusive
  <2> QED
      BY <1>0, <1>1, <2>1, FreeOwnCalm, FinishCalm DEF Closing
<1>2. CASE op[p].pc = "appending" /\ (\A q \in Kids : ~Shared(q, f)) /\ FreeChain(f, Rewound)
  <2>1. Rewound \in Anchors /\ Rewound.start = None /\ Rewound.splicingPoint = None
      BY StoreMapAssumption, RewoundType DEF Rewound
  <2>2. Appending(p, f)
      BY <1>2 DEF Appending
  <2>3. Calm(p)
      BY <1>0, <1>2, <2>1, <2>2, FreeCalm DEF Fine
  <2> QED
      BY <1>0, <2>3, FinishCalm DEF Closing
<1>3. CASE Halt(f) /\ UNCHANGED <<next, freeSlots, doubleFree>>
  <2>1. anchors \in [FileNos -> Anchors]
      BY DEF IInv, TypeOK
  <2>2. \A g \in FileNos : /\ anchors'[g].key = anchors[g].key
                           /\ anchors'[g].start = anchors[g].start
                           /\ anchors'[g].splicingPoint = anchors[g].splicingPoint
                           /\ anchors[g].waitingToBeFreed => anchors'[g].waitingToBeFreed
      BY <1>0, <1>3, <2>1 DEF Halt, Mark, Anchors
  <2>3. Calm(p)
      BY <1>3, <2>2, MarksCalm DEF Fine
  <2> QED
      BY <1>0, <2>3, FinishCalm DEF Closing
<1> QED
    BY <1>1, <1>2, <1>3 DEF AbortWriting

\* An evicted entry is freed, or marked if somebody uses it.
LEMMA FreeEntryChains ==
    ASSUME IInv, ChainInv, NEW p \in Kids, Fine(p), FreeEntryByKey(p)
    PROVE  ChainInv'
<1> DEFINE f == op[p].file
<1>0. f \in FileNos /\ op[p].pc = "evict" /\ op[p].pc \notin Closing
    BY OwnsFacts DEF Owns, FreeEntryByKey, Closing
<1>1. CASE MayLockExclusive(f) /\ FreeChain(f, Rewound) /\ Evicted(p)
    BY <1>0, <1>1, FreeOwnCalm, FinishCalm DEF Evicted
<1>2. CASE anchors' = [anchors EXCEPT ![f] = Mark(@)] /\ Evicted(p) /\ UNCHANGED <<next, freeSlots, doubleFree>>
    BY <1>0, <1>2, MarkCalm, FinishCalm DEF Evicted
<1>3. CASE Goto(p, "evictUnlocked") /\ UNCHANGED <<anchors, next, freeSlots, doubleFree>>
  <2>1. op'[p].pc = "evictUnlocked"
      BY <1>3, GotoKeeps DEF Pcs, IInv
  <2> QED
      BY <1>0, <1>3, <2>1, SameCalm, PlainStep DEF Plain
<1>4. CASE Evicted(p) /\ UNCHANGED <<anchors, next, freeSlots, doubleFree>>
    BY <1>0, <1>4, SameCalm, FinishCalm DEF Evicted
<1> QED
    BY <1>1, <1>2, <1>3, <1>4 DEF FreeEntryByKey

\* An updater locks the headers of an entry that nobody writes to.
LEMMA LockHeadersChains ==
    ASSUME IInv, ChainInv, NEW p \in Kids, Fine(p), LockHeaders(p)
    PROVE  ChainInv'
<1>0. /\ op[p].file \in FileNos /\ op[p].pc = "stale"
      /\ UNCHANGED <<anchors, next, freeSlots, doubleFree>>
    BY OwnsFacts DEF Owns, LockHeaders, shared
<1>1. Calm(p) /\ op[p].pc \notin Closing
    BY <1>0, SameCalm DEF Closing
<1>2. CASE Finish(p)
    BY <1>1, <1>2, FinishCalm
<1>3. CASE ~Writing(op[p].file) /\ Goto(p, "headers")
  <2>1. op'[p].pc = "headers" /\ op'[p].file = op[p].file
      BY <1>3, GotoKeeps DEF Pcs, Updating, IInv
  <2>2. anchors[op[p].file].splicingPoint = None
      BY <1>0 DEF ChainInv, Keeps
  <2>3. Keeps(p)'
      BY <1>0, <2>1, <2>2 DEF Keeps, Closing, Updating, FreshShared
  <2>4. Settles(p)
      BY <1>3, <2>1 DEF Settles, Fine, LocksGranted, HoldsHeaders, FreshShared
  <2> QED
      BY <1>1, <2>1, <2>3, <2>4, CalmStep DEF Fine, Closing
<1> QED
    BY <1>2, <1>3 DEF LockHeaders

\* It looks for an anchor to write to.
LEMMA FindVictimChains ==
    ASSUME IInv, ChainInv, NEW p \in Kids, Fine(p), FindVictim(p)
    PROVE  ChainInv'
<1>0. /\ op[p] \in Ops /\ op[p].file \in FileNos /\ op[p].pc = "headers"
      /\ UNCHANGED <<anchors, next, freeSlots, doubleFree>>
    BY OwnsFacts DEF Owns, FindVictim, shared
<1>1. Calm(p) /\ op[p].pc \notin Closing
    BY <1>0, SameCalm DEF Closing
<1>2. PICK n \in FileNos :
          op' = [op EXCEPT ![p].pc = "victim", ![p].name = n, ![p].fresh = fileNos[n]]
    BY DEF FindVictim
<1>3. op'[p].pc = "victim" /\ op'[p].file = op[p].file
    BY <1>0, <1>2 DEF IInv, TypeOK, Ops
<1>4. anchors[op[p].file].splicingPoint = None
    BY <1>0 DEF ChainInv, Keeps, Updating
<1>5. Keeps(p)'
    BY <1>0, <1>3, <1>4 DEF Keeps, Closing, Updating, FreshShared
<1>6. Settles(p)
    BY <1>0, <1>3 DEF Settles, Fine, LocksGranted, HoldsHeaders, FreshShared, Updating
<1> QED
    BY <1>1, <1>3, <1>5, <1>6, CalmStep DEF Fine, Closing

\* It takes one that nobody uses.
LEMMA OpenKeylessChains ==
    ASSUME IInv, ChainInv, NEW p \in Kids, Fine(p), OpenKeyless(p)
    PROVE  ChainInv'
<1>0. /\ op[p].file \in FileNos /\ op[p].fresh \in FileNos /\ op[p].pc = "victim"
      /\ op[p].pc \notin Closing
    BY OwnsFacts DEF Owns, OpenKeyless, Closing
<1>1. anchors[op[p].file].splicingPoint = None
    BY <1>0 DEF ChainInv, Keeps, Updating
<1>2. CASE SkipVictim(p) /\ UNCHANGED shared
  <2>1. op'[p].pc = "headers" /\ op'[p].file = op[p].file
      BY <1>0, <1>2, SkipVictimEffect DEF IInv
  <2>2. Calm(p)
      BY <1>2, SameCalm DEF shared
  <2>3. Keeps(p)'
      BY <1>1, <1>2, <2>1 DEF Keeps, Closing, Updating, FreshShared, shared
  <2>4. Settles(p)
      BY <1>0, <2>1 DEF Settles, Fine, LocksGranted, HoldsHeaders, FreshShared, Updating
  <2> QED
      BY <1>0, <2>1, <2>2, <2>3, <2>4, CalmStep DEF Fine, Closing
<1>3. ASSUME Goto(p, "fresh"), NEW a, a.start = None, a.splicingPoint = None,
             OpenForWritingAt(op[p].fresh, a)
      PROVE  ChainInv'
  <2>1. FreeChain(op[p].fresh, a) /\ MayLockExclusive(op[p].fresh)
      BY <1>3 DEF OpenForWritingAt
  <2>2. a \in Anchors /\ anchors'[op[p].fresh] = a
      BY <1>0, <2>1, FreedFacts DEF Fine
  <2>3. Calm(p)
      BY <1>0, <1>3, <2>1, <2>2, FreeCalm DEF Fine, MayLockExclusive
  <2>4. op'[p].pc = "fresh" /\ op'[p].file = op[p].file /\ op'[p].fresh = op[p].fresh
      BY <1>3, GotoKeeps DEF Pcs, Updating, IInv
  <2>5. anchors'[op[p].file].splicingPoint = None
      BY <1>0, <1>1, <2>3 DEF Calm
  <2>6. Keeps(p)'
      BY <1>3, <2>2, <2>4, <2>5 DEF Keeps, Closing, Updating, FreshShared
  <2>7. Settles(p)
      BY <1>0, <2>4 DEF Settles, Fine, LocksGranted, HoldsHeaders, FreshShared, Updating
  <2> QED
      BY <1>0, <2>3, <2>4, <2>6, <2>7, CalmStep DEF Fine, Closing
<1>4. CASE /\ Goto(p, "fresh")
           /\ \E marked \in BOOLEAN :
                  OpenForWritingAt(op[p].fresh,
                                   NewAnchor(op[p].key, anchors[op[p].file].id, TRUE, marked))
  <2>1. PICK marked \in BOOLEAN :
            OpenForWritingAt(op[p].fresh,
                             NewAnchor(op[p].key, anchors[op[p].file].id, TRUE, marked))
      BY <1>4
  <2> DEFINE N == NewAnchor(op[p].key, anchors[op[p].file].id, TRUE, marked)
  <2>2. N.start = None /\ N.splicingPoint = None
      BY NewAnchorFacts
  <2>3. OpenForWritingAt(op[p].fresh, N)
      BY <2>1
  <2> HIDE DEF N
  <2> QED
      BY <1>3, <1>4, <2>2, <2>3, Zenon
<1> QED
    BY <1>2, <1>4 DEF OpenKeyless

\* It writes part of the prefix.
LEMMA ExtendPrefixChains ==
    ASSUME IInv, ChainInv, NEW p \in Kids, Fine(p), ExtendPrefix(p)
    PROVE  ChainInv'
<1> DEFINE f == op[p].file
           h == op[p].fresh
<1>0. /\ f \in FileNos /\ h \in FileNos /\ op[p].pc = "fresh" /\ op' = op
      /\ anchors[h].key = op[p].key /\ op[p].key \in Keys
    BY OwnsFacts DEF Owns, OwnEntry, ExtendPrefix, IInv, TypeOK
<1>1. PICK s \in Slices : ReserveSlice(p, h, s)
    BY DEF ExtendPrefix
<1>2. anchors[f].splicingPoint = None /\ anchors[h].splicingPoint = None
    BY <1>0 DEF ChainInv, Keeps, Updating
<1>3. Exclusive(p, h) /\ anchors[h].key # NoKey
    BY <1>0, StoreMapAssumption DEF Exclusive, StoreMapAssumption
<1>4. Calm(p)
    BY <1>0, <1>1, <1>2, <1>3, ReserveCalm DEF Fine
<1>5. anchors'[f].splicingPoint = None /\ anchors'[h].splicingPoint = None
    BY <1>0, <1>2, <1>4 DEF Calm
<1>6. Keeps(p)'
    BY <1>0, <1>5 DEF Keeps, Closing, Updating, FreshShared
<1>7. Settles(p)
    BY <1>0 DEF Settles, Appending, HoldsHeaders, FreshShared
<1> QED
    BY <1>0, <1>4, <1>6, <1>7, CalmStep DEF Fine, Closing

\* It writes the rest; the slice to splice it to is in the stale chain.
LEMMA WritePrefixChains ==
    ASSUME IInv, ChainInv, NEW p \in Kids, Fine(p), WritePrefix(p)
    PROVE  ChainInv'
<1> DEFINE f == op[p].file
           h == op[p].fresh
<1>0. /\ f \in FileNos /\ h \in FileNos /\ f # h /\ op[p].pc = "fresh"
      /\ anchors[h].key = op[p].key /\ op[p].key \in Keys /\ op[p] \in Ops
    BY OwnsFacts DEF Owns, OwnEntry, TwoAnchors, WritePrefix, IInv, TypeOK
<1>1. PICK s \in Slices : ReserveSlice(p, h, s)
    BY DEF WritePrefix
<1>2. PICK x \in WholeChain(f) : op' = [op EXCEPT ![p].pc = "prefixed", ![p].splice = x]
    BY DEF WritePrefix
<1>3. /\ op'[p].pc = "prefixed" /\ op'[p].file = f /\ op'[p].fresh = h /\ op'[p].splice = x
    BY <1>0, <1>2 DEF IInv, TypeOK, Ops
<1>4. anchors[f].splicingPoint = None /\ anchors[h].splicingPoint = None
    BY <1>0 DEF ChainInv, Keeps, Updating
<1>5. Exclusive(p, h) /\ anchors[h].key # NoKey
    BY <1>0, StoreMapAssumption DEF Exclusive, StoreMapAssumption
<1>6. /\ Calm(p) /\ anchors'[h].start # None
      /\ \A g \in FileNos \ {h} : Steady(g) \/ MayLockExclusive(g)
    BY <1>0, <1>1, <1>4, <1>5, ReserveCalm DEF Fine
<1>7. ~MayLockExclusive(f)
    BY <1>0 DEF MayLockExclusive, Shared, Updating
<1>8. Steady(f)
    BY <1>0, <1>6, <1>7
<1>9. x \in Own(anchors', next', f)
  <2>1. Own(anchors', next', f) = Own(anchors, next, f)
      BY <1>0, <1>8, SteadyOwn DEF Fine, IInv
  <2>2. Own(anchors, next, f) = WholeChain(f)
      BY <1>4 DEF Own, WholeChain, Chain
  <2> QED
      BY <2>1, <2>2
<1>10. anchors'[f].splicingPoint = None /\ anchors'[h].splicingPoint = None
    BY <1>0, <1>4, <1>6 DEF Calm
<1>11. Keeps(p)'
    BY <1>3, <1>6, <1>9, <1>10 DEF Keeps, Closing, Updating, FreshShared
<1>12. Settles(p)
    BY <1>0, <1>3 DEF Settles, Fine, LocksGranted, HoldsHeaders, FreshShared, Updating
<1> QED
    BY <1>0, <1>3, <1>6, <1>11, <1>12, CalmStep DEF Fine, Closing

\* It gives up what it wrote.
LEMMA AbortUpdatingChains ==
    ASSUME IInv, ChainInv, NEW p \in Kids, Fine(p), AbortUpdating(p)
    PROVE  ChainInv'
<1>0. op[p].fresh \in FileNos /\ Finish(p) /\ op[p].pc \notin Closing
    BY OwnsFacts DEF Owns, AbortUpdating, Closing
<1>1. CASE UNCHANGED shared
    BY <1>0, <1>1, SameCalm, FinishCalm DEF shared
<1>2. CASE op[p].pc \in {"fresh", "prefixed"} /\ FreeChain(op[p].fresh, Rewound)
  <2>1. Exclusive(p, op[p].fresh)
      BY <1>2 DEF Exclusive
  <2> QED
      BY <1>0, <1>2, <2>1, FreeOwnCalm, FinishCalm
<1> QED
    BY <1>1, <1>2 DEF AbortUpdating

\* The name moves from the stale to the fresh anchor.
LEMMA RelocateChains ==
    ASSUME IInv, ChainInv, NEW p \in Kids, Fine(p), Relocate(p)
    PROVE  ChainInv'
<1>0. /\ op[p] \in Ops /\ op[p].file \in FileNos /\ op[p].fresh \in FileNos
      /\ op[p].pc = "spliced" /\ Goto(p, "relocated")
      /\ UNCHANGED <<anchors, next, freeSlots, doubleFree>>
    BY OwnsFacts DEF Owns, Relocate
<1>1. Calm(p)
    BY <1>0, SameCalm
<1>2. /\ op'[p].pc = "relocated" /\ op'[p].file = op[p].file /\ op'[p].fresh = op[p].fresh
      /\ op'[p].splice = op[p].splice
    BY <1>0 DEF Goto, IInv, TypeOK, Ops
<1>3. Keeps(p)'
    BY <1>0, <1>2 DEF ChainInv, Keeps, Closing, Updating, FreshShared
<1>4. Settles(p)
    BY <1>0, <1>2 DEF Settles, Fine, LocksGranted, HoldsHeaders, FreshShared, Updating
<1> QED
    BY <1>0, <1>1, <1>2, <1>3, <1>4, CalmStep DEF Fine, Closing

\* PropagateMark() changes marks only.
LEMMA PropagateMarkOnly ==
    ASSUME TypeOK, NEW p \in Kids, NEW g \in FileNos
    PROVE  /\ PropagateMark(anchors, p)[g].key = anchors[g].key
           /\ PropagateMark(anchors, p)[g].start = anchors[g].start
           /\ PropagateMark(anchors, p)[g].splicingPoint = anchors[g].splicingPoint
           /\ anchors[g].waitingToBeFreed => PropagateMark(anchors, p)[g].waitingToBeFreed
           /\ PropagateMark(anchors, p)[g] \in Anchors
<1>1. /\ anchors \in [FileNos -> Anchors] /\ op[p].fresh \in FileNos
      /\ anchors[op[p].fresh] \in Anchors
    BY DEF TypeOK, Ops
<1>2. /\ Mark(anchors[op[p].fresh]) \in Anchors
      /\ Mark(anchors[op[p].fresh]).key = anchors[op[p].fresh].key
      /\ Mark(anchors[op[p].fresh]).start = anchors[op[p].fresh].start
      /\ Mark(anchors[op[p].fresh]).splicingPoint = anchors[op[p].fresh].splicingPoint
      /\ Mark(anchors[op[p].fresh]).waitingToBeFreed
    BY <1>1 DEF Mark, Anchors
<1>3. CASE PropagateMark(anchors, p) = anchors
    BY <1>1, <1>3
<1>4. CASE PropagateMark(anchors, p) = [anchors EXCEPT ![op[p].fresh] = Mark(anchors[op[p].fresh])]
    BY <1>1, <1>2, <1>4
<1> QED
    BY <1>3, <1>4 DEF PropagateMark

\* Others neither update nor write where p updates.
LEMMA OthersElsewhere ==
    ASSUME IInv, ChainInv, UpdatesTakeTurns, NEW p \in Kids, op[p].pc \in Updating,
           NEW q \in Kids \ {p}, OthersStay(p), op[q].file \in FileNos,
           op[q].file # op[p].file => anchors'[op[q].file].splicingPoint = anchors[op[q].file].splicingPoint
    PROVE  Keeps(q)'
<1>1. op[q].pc \notin UpdatePcs
    BY DEF UpdatesTakeTurns, UpdatePcs
<1>2. op'[q] = op[q] /\ Keeps(q)
    BY DEF OthersStay, ChainInv
<1>3. op[q].pc \in {"writing", "appending"} => op[q].file # op[p].file
  <2> SUFFICES ASSUME op[q].pc \in {"writing", "appending"}, op[q].file = op[p].file PROVE FALSE
      OBVIOUS
  <2>1. HoldsHeaders(p, op[q].file) /\ Shared(p, op[q].file)
      BY DEF HoldsHeaders, Shared
  <2>2. Exclusive(q, op[q].file) \/ Appending(q, op[q].file)
      BY DEF Exclusive, Appending
  <2> QED
      BY <2>1, <2>2 DEF IInv, LocksExclude, Alone, HoldsAny, ChainInv, Undisturbed
<1>4. op[q].pc \in {"writing", "appending"} => anchors'[op[q].file].splicingPoint = None
    BY <1>2, <1>3 DEF Keeps
<1> QED
    BY <1>1, <1>2, <1>4 DEF Keeps, UpdatePcs, Updating, FreshShared, Closing

\* Only p closes an update.
LEMMA OnlyExempt ==
    ASSUME UpdatesTakeTurns, NEW p \in Kids, op[p].pc \in UpdatePcs
    PROVE  Exempt = IF op[p].pc \in Closing THEN {{op[p].file, op[p].fresh}} ELSE {}
<1>1. \A q \in Kids : op[q].pc \in Closing => q = p
    BY DEF UpdatesTakeTurns, UpdatePcs, Updating, Closing
<1>2. {q \in Kids : op[q].pc \in Closing} = IF op[p].pc \in Closing THEN {p} ELSE {}
    BY <1>1
<1> QED
    BY <1>2 DEF Exempt

\* (after a step, too)
LEMMA OnlyExemptNext ==
    ASSUME UpdatesTakeTurns, NEW p \in Kids, op[p].pc \in UpdatePcs, OthersStay(p)
    PROVE  Exempt' = IF op'[p].pc \in Closing THEN {{op'[p].file, op'[p].fresh}} ELSE {}
<1>1. \A q \in Kids : op'[q].pc \in Closing => q = p
    BY DEF UpdatesTakeTurns, UpdatePcs, Updating, Closing, OthersStay
<1>2. {q \in Kids : op'[q].pc \in Closing} = IF op'[p].pc \in Closing THEN {p} ELSE {}
    BY <1>1
<1>3. Exempt' = {{op'[q].file, op'[q].fresh} : q \in {r \in Kids : op'[r].pc \in Closing}}
    BY DEF Exempt, Closing
<1> QED
    BY <1>2, <1>3

\* The fresh prefix is spliced to the stale suffix.
LEMMA SpliceChains ==
    ASSUME IInv, ChainInv, UpdatesTakeTurns, NEW p \in Kids, Fine(p), Splice(p)
    PROVE  ChainInv'
<1> DEFINE f == op[p].file
           h == op[p].fresh
           c == op[p].splice
           e == LastSlice(h)
<1>0. /\ f \in FileNos /\ h \in FileNos /\ f # h /\ op[p].pc = "prefixed" /\ op[p] \in Ops
      /\ Goto(p, "spliced") /\ anchors' = PropagateMark(anchors, p)
      /\ UNCHANGED <<freeSlots, doubleFree>> /\ TypeOK /\ TypeOK' /\ OthersStay(p)
    BY OwnsFacts DEF Owns, TwoAnchors, Splice, IInv, Fine
<1>1. /\ op'[p].pc = "spliced" /\ op'[p].file = f /\ op'[p].fresh = h /\ op'[p].splice = c
    BY <1>0 DEF Goto, TypeOK, Ops
<1>2. /\ anchors[f].splicingPoint = None /\ anchors[h].splicingPoint = None
      /\ anchors[h].start # None /\ c \in Own(anchors, next, f)
    BY <1>0 DEF ChainInv, Keeps, Updating
<1>3. Typed(anchors, next, freeSlots) /\ Tidy(anchors, next, freeSlots, Exempt) /\ Acyclic(next)
    BY <1>0, TypedState DEF ChainInv, Tidy
<1>4. e \in Own(anchors, next, h) /\ next[e] = None /\ e \in Slices
    BY <1>0, <1>2, <1>3, LastSliceFacts, OwnSlicesOnly
<1>5. /\ next' \in Links /\ next'[e] = next[c] /\ \A r \in Slices \ {e} : next'[r] = next[r]
    BY <1>0, <1>4 DEF Splice, TypeOK, Links
<1>6. op[p].pc \in UpdatePcs /\ op[p].pc \in Updating
    BY <1>0 DEF UpdatePcs, Updating
<1>7. Exempt = {} /\ Exempt' = {{f, h}}
    BY <1>0, <1>1, <1>6, OnlyExempt, OnlyExemptNext DEF Closing
<1> HIDE DEF e, f, h, c
<1>8. /\ Tidy(anchors, next', freeSlots, {{f, h}})
      /\ SharesAfter(anchors, next', f, h, c)
  <2>1. Splices(anchors, next, next', f, h, c, e)
      BY <1>2, <1>4, <1>5 DEF Splices
  <2>2. \A g \in FileNos : {f, g} \notin Exempt /\ {h, g} \notin Exempt
      BY <1>7
  <2>3. /\ Tidy(anchors, next', freeSlots, Exempt \cup {{f, h}})
        /\ SharesAfter(anchors, next', f, h, c)
      BY <1>0, <1>3, <2>1, <2>2, TidySplice
  <2> QED
      BY <1>7, <2>3
<1>9. \A g \in FileNos : /\ anchors'[g].key = anchors[g].key
                         /\ anchors'[g].start = anchors[g].start
                         /\ anchors'[g].splicingPoint = anchors[g].splicingPoint
                         /\ anchors[g].waitingToBeFreed => anchors'[g].waitingToBeFreed
    BY <1>0, PropagateMarkOnly
<1>10. /\ Tidy(anchors', next', freeSlots', Exempt')
       /\ \A g \in FileNos : Own(anchors', next', g) = Own(anchors, next', g)
    BY <1>0, <1>7, <1>8, <1>9, TidyMarks
<1>11. SharesAfter(anchors', next', f, h, c)
    BY <1>0, <1>8, <1>9, <1>10 DEF SharesAfter
<1>12. Keeps(p)'
    BY <1>0, <1>1, <1>2, <1>9, <1>11 DEF Keeps, Updating, FreshShared, Closing
<1>13. ASSUME NEW q \in Kids \ {p} PROVE Keeps(q)'
  <2>1. op[q].file \in FileNos
      BY <1>0 DEF TypeOK, Ops
  <2> QED
      BY <1>0, <1>6, <1>9, <2>1, OthersElsewhere
<1>14. Settles(p)
  <2>1. Exclusive(p, h)
      BY <1>0 DEF Exclusive, h
  <2> QED
      BY <1>0, <1>1, <2>1 DEF Settles, Fine, LocksGranted, HoldsHeaders, FreshShared, Updating, f
<1>15. SplicedAreMarked' /\ ~doubleFree'
    BY <1>0, <1>9 DEF ChainInv, SplicedAreMarked
<1> QED
    BY <1>0, <1>10, <1>12, <1>13, <1>14, <1>15, StepUndisturbed DEF ChainInv

\* The stale anchor gives the suffix away.
LEMMA FreeStaleChains ==
    ASSUME IInv, ChainInv, UpdatesTakeTurns, NEW p \in Kids, Fine(p), FreeStale(p)
    PROVE  ChainInv'
<1> DEFINE f == op[p].file
           h == op[p].fresh
           c == op[p].splice
           as == PropagateMark(anchors, p)
<1>0. /\ f \in FileNos /\ h \in FileNos /\ f # h /\ op[p].pc = "relocated" /\ op[p] \in Ops
      /\ Goto(p, "marked")
      /\ anchors' = [as EXCEPT ![f] = [Mark(@) EXCEPT !.splicingPoint = c]]
      /\ UNCHANGED <<next, freeSlots, doubleFree>> /\ TypeOK /\ TypeOK' /\ OthersStay(p)
    BY OwnsFacts DEF Owns, TwoAnchors, FreeStale, FreshShared, IInv, Fine
<1>1. /\ op'[p].pc = "marked" /\ op'[p].file = f /\ op'[p].fresh = h /\ op'[p].splice = c
    BY <1>0 DEF Goto, TypeOK, Ops
<1>2. /\ anchors[f].splicingPoint = None /\ anchors[h].splicingPoint = None
      /\ SharesAfter(anchors, next, f, h, c)
    BY <1>0 DEF ChainInv, Keeps, Updating, FreshShared, Closing
<1>3. Typed(anchors, next, freeSlots) /\ Tidy(anchors, next, freeSlots, Exempt)
    BY <1>0, TypedState DEF ChainInv
<1>4. op[p].pc \in UpdatePcs /\ op[p].pc \in Updating
    BY <1>0 DEF UpdatePcs, Updating
<1>5. Exempt = {{f, h}} /\ Exempt' = {}
    BY <1>0, <1>1, <1>4, OnlyExempt, OnlyExemptNext DEF Closing
<1>6. /\ anchors'[f] = [Mark(as[f]) EXCEPT !.splicingPoint = c]
      /\ \A g \in FileNos \ {f} : anchors'[g] = as[g]
      /\ anchors' \in [FileNos -> Anchors]
  <2>1. as \in [FileNos -> Anchors]
      BY <1>0, PropagateMarkEffect DEF TypeOK
  <2> HIDE DEF as, f, c
  <2> QED
      BY <1>0, <2>1 DEF TypeOK
<1>7. \A g \in FileNos : /\ as[g].key = anchors[g].key
                         /\ as[g].start = anchors[g].start
                         /\ as[g].splicingPoint = anchors[g].splicingPoint
                         /\ anchors[g].waitingToBeFreed => as[g].waitingToBeFreed
                         /\ as[g] \in Anchors
    BY <1>0, PropagateMarkOnly
<1> HIDE DEF f, h, c, as
<1>8. /\ anchors'[f].key = anchors[f].key /\ anchors'[f].start = anchors[f].start
      /\ anchors'[f].splicingPoint = c /\ anchors'[f].waitingToBeFreed
  <2>1. as[f] \in Anchors
      BY <1>0, <1>7
  <2>2. /\ anchors'[f].key = as[f].key /\ anchors'[f].start = as[f].start
        /\ anchors'[f].splicingPoint = c /\ anchors'[f].waitingToBeFreed
      BY <1>6, <2>1 DEF Mark, Anchors
  <2> QED
      BY <1>0, <1>7, <2>2
<1>9. \A g \in FileNos : /\ anchors'[g].key = anchors[g].key
                         /\ anchors'[g].start = anchors[g].start
                         /\ g # f => anchors'[g].splicingPoint = anchors[g].splicingPoint
    BY <1>6, <1>7, <1>8
<1>10. Tidy(anchors', next', freeSlots', Exempt')
  <2>1. Tidy(anchors', next, freeSlots, {})
    <3>1. Gives(anchors, anchors', f, c)
        BY <1>2, <1>6, <1>8, <1>9 DEF Gives
    <3> QED
        BY <1>0, <1>2, <1>3, <1>5, <3>1, TidyGive
  <2> QED
      BY <1>0, <1>5, <2>1
<1>11. Keeps(p)'
    BY <1>0, <1>1, <1>2, <1>9 DEF Keeps, Updating, FreshShared, Closing
<1>12. ASSUME NEW q \in Kids \ {p} PROVE Keeps(q)'
  <2>1. op[q].file \in FileNos
      BY <1>0 DEF TypeOK, Ops
  <2>2. op[q].file # op[p].file =>
            anchors'[op[q].file].splicingPoint = anchors[op[q].file].splicingPoint
      BY <1>9, <2>1 DEF f
  <2> QED
      BY <1>0, <1>4, <2>1, <2>2, OthersElsewhere
<1>13. Settles(p)
    BY <1>0, <1>1 DEF Settles, Fine, LocksGranted, HoldsHeaders, FreshShared, Updating, f, h
<1>14. SplicedAreMarked' /\ ~doubleFree'
    BY <1>0, <1>6, <1>7, <1>8 DEF ChainInv, SplicedAreMarked
<1> QED
    BY <1>0, <1>10, <1>11, <1>12, <1>13, <1>14, StepUndisturbed DEF ChainInv

-----------------------------------------------------------------------------
(* The theorems *)

\* At first all slices are free.
LEMMA InitChains == Init => ChainInv
<1> SUFFICES ASSUME Init PROVE ChainInv
    OBVIOUS
<1>1. \A f \in FileNos : anchors[f].start = None /\ anchors[f].splicingPoint = None
    BY DEF Init, Rewound
<1>2. \A f \in FileNos : Own(anchors, next, f) = {}
    BY <1>1, OwnSlicesOnly
<1>3. Acyclic(next)
    BY StoreMapAssumption DEF Init, Acyclic, StoreMapAssumption
<1>4. Tidy(anchors, next, freeSlots, Exempt)
  <2>1. freeSlots = Slices /\ \A s \in Slices : next[s] = None
      BY DEF Init
  <2> QED
      BY <1>1, <1>2, <1>3, <2>1 DEF Tidy
<1>5. \A p \in Kids : op[p].pc = "idle"
    BY DEF Init, Idle
<1>6. \A p \in Kids : Keeps(p)
    BY <1>5 DEF Keeps, Updating, FreshShared, Closing
<1>7. Undisturbed /\ SplicedAreMarked
    BY <1>1, <1>5 DEF Undisturbed, SplicedAreMarked, Appending
<1> QED
    BY <1>4, <1>6, <1>7 DEF ChainInv, Init

\* Every step of a kid, by action
LEMMA NextChains == ASSUME IInv, ChainInv, UpdatesTakeTurns, Next PROVE ChainInv'
<1>1. ASSUME NEW p \in Kids, NEW k \in Keys, NEW pc \in Purposes[p], FindAnchor(p, k, pc)
      PROVE  ChainInv'
  <2>1. Fine(p)
      BY <1>1, FindAnchorStep, StoreMapAssumption DEF StoreMapAssumption
  <2> QED
      BY <1>1, <2>1, LookingChains
<1>2. ASSUME NEW p \in Kids,
             GiveUp(p) \/ CloseForReading(p) \/ CompleteWriting(p) \/ CloseForUpdating(p)
      PROVE  ChainInv'
    BY <1>2, FinishStep, CloseForUpdatingStep, LookingChains
       DEF GiveUp, CloseForReading, CompleteWriting
<1>3. ASSUME NEW p \in Kids,
             \/ OpenForReadingAt(p) \/ LoadFailed(p) \/ EvictCached(p) \/ MarkUnlocked(p)
             \/ FreeEntryByKey(p)
      PROVE  ChainInv'
    BY <1>3, OpenForReadingStep, LoadFailedStep, EvictCachedStep, MarkUnlockedStep,
       FreeEntryByKeyStep, OpenForReadingChains, MarkingChains, FreeEntryChains
<1>4. ASSUME NEW p \in Kids,
             StartCaching(p) \/ StartAppending(p) \/ CopyToShm(p) \/ AbortWriting(p)
      PROVE  ChainInv'
    BY <1>4, StartCachingStep, StartAppendingStep, CopyToShmStep, AbortWritingStep,
       StartCachingChains, StartAppendingChains, CopyToShmChains, AbortWritingChains
<1>5. ASSUME NEW p \in Kids,
             \/ LockHeaders(p) \/ FindVictim(p) \/ OpenKeyless(p) \/ ExtendPrefix(p)
             \/ WritePrefix(p) \/ AbortUpdating(p)
      PROVE  ChainInv'
    BY <1>5, LockHeadersStep, FindVictimStep, OpenKeylessStep, ExtendPrefixStep, WritePrefixStep,
       AbortUpdatingStep, LockHeadersChains, FindVictimChains, OpenKeylessChains,
       ExtendPrefixChains, WritePrefixChains, AbortUpdatingChains
<1>6. ASSUME NEW p \in Kids, Splice(p) \/ Relocate(p) \/ FreeStale(p)
      PROVE  ChainInv'
    BY <1>6, SpliceStep, RelocateStep, FreeStaleStep, SpliceChains, RelocateChains, FreeStaleChains
<1> QED
    BY <1>1, <1>2, <1>3, <1>4, <1>5, <1>6 DEF Next

\* While updates take turns, every slice of the memory cache is free or in the chain of
\* one anchor, which ends; only between the splice and setting the stale splicingPoint is
\* a suffix in two chains.
THEOREM ChainsStayTidy == Spec => [](overlap = "none" => ChainInv)
<1>1. /\ IInv /\ TurnsInv /\ (overlap = "none" => ChainInv) /\ [Next]_vars
      => (overlap = "none" => ChainInv)'
  <2>1. ASSUME ChainInv, UNCHANGED vars PROVE ChainInv'
    <3>1. /\ anchors' = anchors /\ next' = next /\ freeSlots' = freeSlots /\ op' = op
          /\ doubleFree' = doubleFree
        BY <2>1 DEF vars
    <3>2. Exempt' = Exempt
        BY <3>1 DEF Exempt
    <3>3. Tidy(anchors', next', freeSlots', Exempt')
        BY <2>1, <3>1, <3>2 DEF ChainInv
    <3>4. \A p \in Kids : Keeps(p)'
        BY <2>1, <3>1 DEF ChainInv, Keeps
    <3>5. Undisturbed'
        BY <2>1, <3>1 DEF ChainInv, Undisturbed, Appending, HoldsHeaders
    <3>6. SplicedAreMarked' /\ ~doubleFree'
        BY <2>1, <3>1 DEF ChainInv, SplicedAreMarked
    <3> QED
        BY <3>3, <3>4, <3>5, <3>6 DEF ChainInv
  <2> QED
      BY <2>1, NextChains, NoneBefore DEF TurnsInv
<1> QED
    BY <1>1, InitChains, InductiveInvariant, OverlapIsNoticed, PTL DEF Spec

\* freeChain() of an entry never frees a slice that is free or that another entry would
\* free, but for the moment in closeForUpdating() when two anchors share the suffix.
THEOREM ChainsAreApart == Spec => []ChainsStayApart
<1>1. ChainInv => OwnChainsAreApart
  <2> SUFFICES ASSUME ChainInv PROVE OwnChainsAreApart
      OBVIOUS
  <2>1. Tidy(anchors, next, freeSlots, Exempt) /\ ~doubleFree
      BY DEF ChainInv
  <2>2. \A f \in FileNos : OwnSlices(f) = Own(anchors, next, f)
      BY DEF OwnSlices, Chain, Own
  <2>3. \A f \in FileNos : OwnSlices(f) \cap freeSlots = {}
      BY <2>1, <2>2 DEF Tidy
  <2>4. ASSUME NEW f \in FileNos, NEW g \in FileNos, f # g, OwnSlices(f) \cap OwnSlices(g) # {}
        PROVE  \E p \in Kids : op[p].pc \in Closing /\ {op[p].file, op[p].fresh} = {f, g}
    <3>1. {f, g} \in Exempt
        BY <2>1, <2>2, <2>4 DEF Tidy
    <3> QED
        BY <3>1 DEF Exempt
  <2> QED
      BY <2>1, <2>3, <2>4 DEF OwnChainsAreApart
<1>2. (overlap = "none" => ChainInv) => ChainsStayApart
    BY <1>1 DEF ChainsStayApart
<1> QED
    BY <1>2, ChainsStayTidy, PTL

\* No abort, overwrite, purge or update loses a slice of the shared memory cache.
THEOREM NoSliceGetsLost == Spec => []NoSliceIsLost
<1>1. IInv /\ (overlap = "none" => ChainInv) => NoSliceIsLost
  <2> SUFFICES ASSUME IInv, ChainInv PROVE NoSliceIsLost
      BY DEF NoSliceIsLost
  <2>1. Tidy(anchors, next, freeSlots, Exempt) /\ freeSlots \subseteq Slices
      BY DEF ChainInv, IInv, TypeOK
  <2>2. \A f \in FileNos : /\ OwnSlices(f) = Own(anchors, next, f)
                           /\ OwnSlices(f) \in SUBSET Slices
      BY OwnSlicesOnly DEF OwnSlices, Chain, Own
  <2>3. \A f \in FileNos : Empty(f) => OwnSlices(f) = {}
      BY <2>1, <2>2, OwnSlicesOnly DEF Tidy, Empty
  <2>4. \A s \in Slices : s \in freeSlots \/ \E f \in FileNos : ~Empty(f) /\ s \in OwnSlices(f)
      BY <2>1, <2>2, <2>3 DEF Tidy
  <2>5. Slices \subseteq freeSlots \cup UNION {OwnSlices(f) : f \in {g \in FileNos : ~Empty(g)}}
      BY <2>4
  <2>6. freeSlots \cup UNION {OwnSlices(f) : f \in {g \in FileNos : ~Empty(g)}} \subseteq Slices
      BY <2>1, <2>2
  <2> QED
      BY <2>5, <2>6 DEF NoSliceIsLost
<1> QED
    BY <1>1, ChainsStayTidy, InductiveInvariant, PTL

=============================================================================
