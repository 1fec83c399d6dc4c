---------------------------- MODULE ReadWriteLock ----------------------------
(***************************************************************************)
(* Ipc::ReadWriteLock (ipc/ReadWriteLock.h, ipc/ReadWriteLock.cc): the     *)
(* non-blocking shared/exclusive lock that Squid's SMP kids keep in shared *)
(* memory to protect every map entry.                                      *)
(*                                                                         *)
(* All lock fields are std::atomic with sequentially consistent accesses,  *)
(* so one action is one atomic access; methods of different users          *)
(* interleave between accesses.  pc[u] is the next access of user u (or    *)
(* what u holds while it is outside the lock's methods) and ret[u] is      *)
(* where u goes when the method it is in returns.                          *)
(***************************************************************************)
EXTENDS Integers, FiniteSets

CONSTANTS Users,      \* lock users: an entry (StoreEntry) of some kid process
          CounterMax  \* the largest value of a lock counter (2^32-1 in C++)

ASSUME UsersAssumption == IsFiniteSet(Users)
ASSUME CounterAssumption == CounterMax \in Nat /\ Cardinality(Users) <= CounterMax

VARIABLES readers,    \* number of reading users
          writing,    \* there is a writing user
          appending,  \* the writer has promised to only append
          updating,   \* a reader is updating metadata/headers
          readLevel,  \* number of users reading (or trying to)
          writeLevel, \* number of users writing (or trying to write)
          pc, ret

lock == <<readers, writing, appending, updating, readLevel, writeLevel>>
vars == <<lock, pc, ret>>

\* What a user may hold between two calls.  A "halted" writer failed to
\* restore its exclusive access: it only may unlock.
Holdings == {"idle", "shared", "headers", "exclusive", "appending", "halted"}

Accesses == {"ls_readLevel", "ls_writeLevel", "ls_appending", "ls_readers", "ls_fail",
             "us_readers", "us_readLevel", "lh_updating", "uh_updating",
             "lx_writeLevel", "fx_readLevel", "fx_writing", "wl_drop",
             "ux_appending", "ux_writing", "sx_readLevel", "sx_readers",
             "ss_writeLevel", "sa_appending", "st_appending", "st_readLevel"}

\* uint32_t arithmetic
Inc(n) == IF n = CounterMax THEN 0 ELSE n + 1
\* Mutant of Dec: a counter released twice, which wraps it around below zero.
DecTwice(n) == IF n < 2 THEN n + CounterMax - 1 ELSE n - 2

Dec(n) == IF n = 0 THEN CounterMax ELSE n - 1

Init == /\ readers = 0 /\ readLevel = 0 /\ writeLevel = 0
        /\ writing = FALSE /\ appending = FALSE /\ updating = FALSE
        /\ pc = [u \in Users |-> "idle"]
        /\ ret = [u \in Users |-> "idle"]

-----------------------------------------------------------------------------
(* Control flow of a user *)

Goto(u, l) == pc' = [pc EXCEPT ![u] = l] /\ UNCHANGED ret

Jump(u, l, r) == pc' = [pc EXCEPT ![u] = l] /\ ret' = [ret EXCEPT ![u] = r]

Return(u) == Jump(u, ret[u], "idle")

\* u, holding h, calls the method that starts with access l.
Call(u, h, l, r) == pc[u] = h /\ Jump(u, l, r) /\ UNCHANGED lock

-----------------------------------------------------------------------------
(* The methods, as their callers may call them *)

lockShared(u) == Call(u, "idle", "ls_readLevel", "shared")

lockHeaders(u) == Call(u, "idle", "ls_readLevel", "lh_updating")

lockExclusive(u) == Call(u, "idle", "lx_writeLevel", "idle")

unlockShared(u) == Call(u, "shared", "us_readers", "idle")

unlockHeaders(u) == Call(u, "headers", "uh_updating", "idle")

unlockExclusive(u) ==
    \E h \in {"exclusive", "appending", "halted"} : Call(u, h, "ux_appending", "idle")

switchExclusiveToShared(u) ==
    \E h \in {"exclusive", "appending"} : Call(u, h, "sx_readLevel", "idle")

unlockSharedAndSwitchToExclusive(u) == Call(u, "shared", "ss_writeLevel", "idle")

startAppending(u) == Call(u, "exclusive", "sa_appending", "idle")

stopAppendingAndRestoreExclusive(u) == Call(u, "appending", "st_appending", "idle")

-----------------------------------------------------------------------------
(* lockShared(), also as the first half of lockHeaders() *)

RaiseReadLevel(u) ==
    /\ pc[u] = "ls_readLevel"
    /\ readLevel' = Inc(readLevel)
    /\ Goto(u, "ls_writeLevel")
    /\ UNCHANGED <<readers, writing, appending, updating, writeLevel>>

CheckWriteLevel(u) ==
    /\ pc[u] = "ls_writeLevel"
    /\ Goto(u, IF writeLevel = 0 THEN "ls_readers" ELSE "ls_appending")
    /\ UNCHANGED lock

CheckAppending(u) ==
    /\ pc[u] = "ls_appending"
    /\ Goto(u, IF appending THEN "ls_readers" ELSE "ls_fail")
    /\ UNCHANGED lock

AddReader(u) ==
    /\ pc[u] = "ls_readers"
    /\ readers' = Inc(readers)
    /\ Return(u)
    /\ UNCHANGED <<writing, appending, updating, readLevel, writeLevel>>

\* Mutant of FailShared: a refused reader leaves its readLevel behind.
FailSharedLeak(u) ==
    /\ pc[u] = "ls_fail"
    /\ Jump(u, "idle", "idle")
    /\ UNCHANGED lock

FailShared(u) ==
    /\ pc[u] = "ls_fail"
    /\ readLevel' = Dec(readLevel)
    /\ Jump(u, "idle", "idle")
    /\ UNCHANGED <<readers, writing, appending, updating, writeLevel>>

(* unlockShared(), called directly and by three other methods *)

DropReader(u) ==
    /\ pc[u] = "us_readers"
    /\ readers' = Dec(readers)
    /\ Goto(u, "us_readLevel")
    /\ UNCHANGED <<writing, appending, updating, readLevel, writeLevel>>

DropReadLevel(u) ==
    /\ pc[u] = "us_readLevel"
    /\ readLevel' = Dec(readLevel)
    /\ Return(u)
    /\ UNCHANGED <<readers, writing, appending, updating, writeLevel>>

(* second half of lockHeaders(): test_and_set, backing off if already set *)

\* Mutant of TestAndSetUpdating: the previous flag value is ignored.
SetUpdating(u) ==
    /\ pc[u] = "lh_updating"
    /\ updating' = TRUE
    /\ Goto(u, "headers")
    /\ UNCHANGED <<readers, writing, appending, readLevel, writeLevel>>

TestAndSetUpdating(u) ==
    /\ pc[u] = "lh_updating"
    /\ updating' = TRUE
    /\ Goto(u, IF updating THEN "us_readers" ELSE "headers")
    /\ UNCHANGED <<readers, writing, appending, readLevel, writeLevel>>

(* unlockHeaders() *)

ClearUpdating(u) ==
    /\ pc[u] = "uh_updating"
    /\ updating' = FALSE
    /\ Goto(u, "us_readers")
    /\ UNCHANGED <<readers, writing, appending, readLevel, writeLevel>>

(* lockExclusive() *)

RaiseWriteLevel(u) ==
    /\ pc[u] = "lx_writeLevel"
    /\ writeLevel' = Inc(writeLevel)
    /\ Goto(u, IF writeLevel = 0 THEN "fx_readLevel" ELSE "wl_drop")
    /\ UNCHANGED <<readers, writing, appending, updating, readLevel>>

(* finalizeExclusive() *)

\* Mutant of CheckReadLevel: a user that is becoming a reader is not seen.
CheckReaders(u) ==
    /\ pc[u] = "fx_readLevel"
    /\ Goto(u, IF readers = 0 THEN "fx_writing" ELSE "wl_drop")
    /\ UNCHANGED lock

CheckReadLevel(u) ==
    /\ pc[u] = "fx_readLevel"
    /\ Goto(u, IF readLevel = 0 THEN "fx_writing" ELSE "wl_drop")
    /\ UNCHANGED lock

SetWriting(u) ==
    /\ pc[u] = "fx_writing"
    /\ writing' = TRUE
    /\ Goto(u, "exclusive")
    /\ UNCHANGED <<readers, appending, updating, readLevel, writeLevel>>

\* The --writeLevel that ends every failed write attempt and unlockExclusive()
DropWriteLevel(u) ==
    /\ pc[u] = "wl_drop"
    /\ writeLevel' = Dec(writeLevel)
    /\ Return(u)
    /\ UNCHANGED <<readers, writing, appending, updating, readLevel>>

(* unlockExclusive(), also as the last part of switchExclusiveToShared() *)

\* Mutant of ClearAppending: the next writer inherits the flag.
KeepAppending(u) ==
    /\ pc[u] = "ux_appending"
    /\ Goto(u, "ux_writing")
    /\ UNCHANGED lock

ClearAppending(u) ==
    /\ pc[u] = "ux_appending"
    /\ appending' = FALSE
    /\ Goto(u, "ux_writing")
    /\ UNCHANGED <<readers, writing, updating, readLevel, writeLevel>>

ClearWriting(u) ==
    /\ pc[u] = "ux_writing"
    /\ writing' = FALSE
    /\ Goto(u, "wl_drop")
    /\ UNCHANGED <<readers, appending, updating, readLevel, writeLevel>>

(* switchExclusiveToShared() *)

SwitchRaiseReadLevel(u) ==
    /\ pc[u] = "sx_readLevel"
    /\ readLevel' = Inc(readLevel)
    /\ Goto(u, "sx_readers")
    /\ UNCHANGED <<readers, writing, appending, updating, writeLevel>>

SwitchAddReader(u) ==
    /\ pc[u] = "sx_readers"
    /\ readers' = Inc(readers)
    /\ Jump(u, "ux_appending", "shared")
    /\ UNCHANGED <<writing, appending, updating, readLevel, writeLevel>>

(* unlockSharedAndSwitchToExclusive(): unlockShared() either way, then      *)
(* finalizeExclusive() for the first writer and --writeLevel for the others *)

\* Mutant of SwitchRaiseWriteLevel: the loser does not take its ++ back.
SwitchLeakWriteLevel(u) ==
    /\ pc[u] = "ss_writeLevel"
    /\ writeLevel' = Inc(writeLevel)
    /\ Jump(u, "us_readers", IF writeLevel = 0 THEN "fx_readLevel" ELSE "idle")
    /\ UNCHANGED <<readers, writing, appending, updating, readLevel>>

SwitchRaiseWriteLevel(u) ==
    /\ pc[u] = "ss_writeLevel"
    /\ writeLevel' = Inc(writeLevel)
    /\ Jump(u, "us_readers", IF writeLevel = 0 THEN "fx_readLevel" ELSE "wl_drop")
    /\ UNCHANGED <<readers, writing, appending, updating, readLevel>>

(* startAppending() and stopAppendingAndRestoreExclusive() *)

SetAppending(u) ==
    /\ pc[u] = "sa_appending"
    /\ appending' = TRUE
    /\ Goto(u, "appending")
    /\ UNCHANGED <<readers, writing, updating, readLevel, writeLevel>>

StopAppending(u) ==
    /\ pc[u] = "st_appending"
    /\ appending' = FALSE
    /\ Goto(u, "st_readLevel")
    /\ UNCHANGED <<readers, writing, updating, readLevel, writeLevel>>

\* Mutant of RestoreExclusive: the check that ReadWriteLock.cc:138 warns about.
RestoreIfNoReaders(u) ==
    /\ pc[u] = "st_readLevel"
    /\ Goto(u, IF readers = 0 THEN "exclusive" ELSE "halted")
    /\ UNCHANGED lock

RestoreExclusive(u) ==
    /\ pc[u] = "st_readLevel"
    /\ Goto(u, IF readLevel = 0 THEN "exclusive" ELSE "halted")
    /\ UNCHANGED lock

-----------------------------------------------------------------------------

Caller(u) == \/ lockShared(u) \/ lockHeaders(u) \/ lockExclusive(u)
             \/ unlockShared(u) \/ unlockHeaders(u) \/ unlockExclusive(u)
             \/ switchExclusiveToShared(u) \/ unlockSharedAndSwitchToExclusive(u)
             \/ startAppending(u) \/ stopAppendingAndRestoreExclusive(u)

Method(u) == \/ RaiseReadLevel(u) \/ CheckWriteLevel(u) \/ CheckAppending(u)
             \/ AddReader(u) \/ FailShared(u) \/ DropReader(u) \/ DropReadLevel(u)
             \/ TestAndSetUpdating(u) \/ ClearUpdating(u)
             \/ RaiseWriteLevel(u) \/ CheckReadLevel(u) \/ SetWriting(u)
             \/ DropWriteLevel(u) \/ ClearAppending(u) \/ ClearWriting(u)
             \/ SwitchRaiseReadLevel(u) \/ SwitchAddReader(u) \/ SwitchRaiseWriteLevel(u)
             \/ SetAppending(u) \/ StopAppending(u) \/ RestoreExclusive(u)

Next == \E u \in Users : Caller(u) \/ Method(u)

Spec == Init /\ [][Next]_vars

-----------------------------------------------------------------------------
(* Properties *)

\* The fields have the types of their declarations: what the proofs start from.
TypeOK ==
    /\ readers \in 0..CounterMax
    /\ readLevel \in 0..CounterMax
    /\ writeLevel \in 0..CounterMax
    /\ writing \in BOOLEAN /\ appending \in BOOLEAN /\ updating \in BOOLEAN
    /\ pc \in [Users -> Holdings \cup Accesses]
    /\ ret \in [Users -> {"idle", "shared", "lh_updating", "fx_readLevel", "wl_drop"}]

Readers == {"shared", "headers"}
Writers == {"exclusive", "appending", "halted"}

\* An exclusive lock is exclusive: while a user holds one no other user holds
\* any lock, and a user appending (or halted) shares the entry with readers
\* only.  This is what lets a StoreMap writer modify its entry in place.
MutualExclusion ==
    \A u, v \in Users : u # v /\ pc[u] \in Writers =>
        /\ pc[v] \notin Writers
        /\ pc[u] = "exclusive" => pc[v] \notin Readers

\* At most one reader at a time holds the permission to update the headers.
OneHeadersUpdater ==
    \A u, v \in Users : pc[u] = "headers" /\ pc[v] = "headers" => u = v

\* No assert() of the lock's methods fails, whenever between its call and its
\* next write of the lock the user evaluates it.
AssertionsHold ==
    \A u \in Users :
        /\ pc[u] \in {"us_readers", "ss_writeLevel"} => readers > 0
        /\ pc[u] = "fx_readLevel" => writeLevel > 0 /\ ~appending
        /\ pc[u] \in {"ux_appending", "sx_readLevel", "sa_appending", "st_appending"} => writing
        /\ pc[u] = "st_appending" => appending
        /\ pc[u] = "uh_updating" => updating

\* The counters stay in step with the users at every moment, in the middle of
\* the methods too: whoever holds a lock is counted, `readers` never exceeds
\* readLevel, and no count exceeds the number of users that hold the lock or are
\* in one of its methods.  A count taken back twice wraps around to a huge one
\* and one never taken back outnumbers the users.
CountersInStep ==
    LET busy == {u \in Users : pc[u] # "idle"}
    IN  /\ Cardinality({u \in Users : pc[u] \in Readers}) <= readers
        /\ readers <= readLevel /\ readLevel <= Cardinality(busy)
        /\ Cardinality({u \in Users : pc[u] \in Writers}) <= writeLevel
        /\ writeLevel <= Cardinality(busy)

\* Nothing leaks: once every user gave its lock up or failed to get one, the
\* lock is in its constructed state, whatever methods ran concurrently before.
IdleLockIsPristine ==
    (\A u \in Users : pc[u] = "idle") =>
        /\ readers = 0 /\ readLevel = 0 /\ writeLevel = 0
        /\ ~writing /\ ~appending /\ ~updating

\* An attempt to lock meets an obstacle only because of another user that holds
\* or tries to get the lock; a user alone is never refused.
RefusalIsJustified ==
    [][\A u \in Users :
         \/ pc[u] = "ls_writeLevel" /\ pc'[u] = "ls_appending"
         \/ pc[u] = "lh_updating" /\ pc'[u] = "us_readers"
         \/ pc[u] \in {"lx_writeLevel", "fx_readLevel"} /\ pc'[u] = "wl_drop"
         \/ pc[u] = "st_readLevel" /\ pc'[u] = "halted"
         => \E v \in Users \ {u} : pc[v] # "idle"]_vars

-----------------------------------------------------------------------------
(* The lock implements the abstract LockPromise: the point where an attempt  *)
(* can no longer fail is the point where the lock is granted, and a user     *)
(* gives a lock up when it calls the unlocking method.                       *)

Granted(u) ==
    CASE pc[u] \in Holdings -> pc[u]
      [] pc[u] \in {"ls_readers", "lh_updating", "sx_readLevel", "sx_readers"} -> "shared"
      [] pc[u] \in {"fx_writing", "sa_appending"} -> "exclusive"
      [] pc[u] = "st_appending" -> "appending"
      [] pc[u] = "st_readLevel" -> "halted"
      [] pc[u] \in {"ux_appending", "ux_writing", "wl_drop"} -> ret[u]
      [] OTHER -> "idle"

Promise == INSTANCE LockPromise WITH held <- [u \in Users |-> Granted(u)]

\* Every step of the lock's methods is a grant, a change or a release that the
\* abstract lock allows, or invisible to it.
ImplementsPromise == Promise!Spec
=============================================================================
