------------------------------- MODULE PagePool -------------------------------
(***************************************************************************)
(* Shared memory pages for two purposes from one pool (ipc/mem/Pages,       *)
(* ipc/mem/PagePool): GetPage() tests the limit of its purpose, pops a free *)
(* page and then counts it; PutPage() uncounts it and then pushes it.       *)
(* The stack of free pages is taken at its word (modules FreePages and      *)
(* PageStack): pages are counted, not named.                                *)
(***************************************************************************)
EXTENDS Integers, FiniteSets

CONSTANTS
    Procs,
    cachePage, ioPage,
    PageLimit,      \* PageLimit[purpose]: TheLimits
    Width           \* size_t has 2^Width values

\* PageId::Purpose
Purposes == {cachePage, ioPage}

Capacity == PageLimit[cachePage] + PageLimit[ioPage]

ASSUME PoolAssumption ==
    /\ cachePage # ioPage /\ IsFiniteSet(Procs)
    /\ PageLimit \in [Purposes -> Nat]
    /\ Width \in Nat /\ Capacity < 2^Width

VARIABLES
    free,       \* pages in the stack
    level,      \* theLevels
    inUse,      \* pages in use for a purpose
    loc, purpose, \* where each process is, and for what purpose
    raced       \* whether a GetPage() ever began while another had not counted its page
vars == <<free, level, inUse, loc, purpose, raced>>

Init ==
    /\ free = Capacity
    /\ level = [u \in Purposes |-> 0]
    /\ inUse = [u \in Purposes |-> 0]
    /\ loc = [p \in Procs |-> "idle"]
    /\ purpose \in [Procs -> Purposes]
    /\ raced = FALSE

Goto(p, l) == loc' = [loc EXCEPT ![p] = l]

\* Mutant: one page too many.
AvailableOneMore(u) == (PageLimit[u] + 1 - level[u]) % 2^Width

\* size_t arithmetic
PagesAvailable(u) == (PageLimit[u] - level[u]) % 2^Width

\* GetPage(), the test: nothing happens if it fails
GetPage(p, u) ==
    /\ loc[p] = "idle" /\ PagesAvailable(u) > 0
    /\ purpose' = [purpose EXCEPT ![p] = u]
    /\ raced' = (raced \/ \E q \in Procs : loc[q] \in {"pop", "count"} /\ purpose[q] = u)
    /\ Goto(p, "pop")
    /\ UNCHANGED <<free, level, inUse>>

\* PagePool::get()
Pop(p) ==
    /\ loc[p] = "pop"
    /\ IF free = 0
       THEN Goto(p, "idle") /\ UNCHANGED <<free, inUse>>
       ELSE /\ free' = free - 1
            /\ inUse' = [inUse EXCEPT ![purpose[p]] = @ + 1]
            /\ Goto(p, "count")
    /\ UNCHANGED <<level, purpose, raced>>

Count(p) ==
    /\ loc[p] = "count"
    /\ level' = [level EXCEPT ![purpose[p]] = (@ + 1) % 2^Width]
    /\ Goto(p, "idle")
    /\ UNCHANGED <<free, inUse, purpose, raced>>

Counting(u) == {q \in Procs : loc[q] = "count" /\ purpose[q] = u}

\* Mutant: PutPage() pushes a page that it does not uncount.
PutPageUncounted(p, u) ==
    /\ loc[p] = "idle" /\ inUse[u] > Cardinality(Counting(u))
    /\ inUse' = [inUse EXCEPT ![u] = @ - 1]
    /\ Goto(p, "push")
    /\ UNCHANGED <<free, level, purpose, raced>>

\* PutPage() of a page that some GetPage() returned
PutPage(p, u) ==
    /\ loc[p] = "idle" /\ inUse[u] > Cardinality(Counting(u))
    /\ inUse' = [inUse EXCEPT ![u] = @ - 1]
    /\ level' = [level EXCEPT ![u] = (@ - 1) % 2^Width]
    /\ Goto(p, "push")
    /\ UNCHANGED <<free, purpose, raced>>

\* Mutant: the page does not go back to the stack.
PushNothing(p) ==
    /\ loc[p] = "push"
    /\ Goto(p, "idle")
    /\ UNCHANGED <<free, level, inUse, purpose, raced>>

Push(p) ==
    /\ loc[p] = "push"
    /\ free' = free + 1
    /\ Goto(p, "idle")
    /\ UNCHANGED <<level, inUse, purpose, raced>>

Next == \E p \in Procs :
    \/ Pop(p) \/ Count(p) \/ Push(p)
    \/ \E u \in Purposes : GetPage(p, u) \/ PutPage(p, u)

Spec == Init /\ [][Next]_vars

-----------------------------------------------------------------------------
(* Properties *)

\* A level counts the pages in use for its purpose but for those that GetPage() is
\* about to count: it never wraps below zero, nor above (get(), put()).
LevelIsAccurate ==
    \A u \in Purposes : level[u] = inUse[u] - Cardinality(Counting(u)) /\ level[u] >= 0

\* A purpose exceeds its limit only if two GetPage() calls for it overlapped (GetPage()).
OverrunNeedsRace ==
    (\E u \in Purposes : inUse[u] > PageLimit[u]) => raced

\* Limits reserve pages: a GetPage() that passed the test finds a page, or one that is
\* being pushed, unless there was such an overlap (GetPage(), get()).
LimitsReserve ==
    \A p \in Procs : loc[p] = "pop" /\ free = 0 => raced \/ \E q \in Procs : loc[q] = "push"

=============================================================================
