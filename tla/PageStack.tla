------------------------------- MODULE PageStack -------------------------------
(***************************************************************************)
(* The shared stack of free pages (ipc/mem/PageStack), a binary tree of     *)
(* atomic words: an inner node counts the free ids below its left and right *)
(* child, a leaf is a bitset of free ids.  pop() claims an id by            *)
(* decrementing counters from the root to a leaf and then takes a bit of    *)
(* the leaf; push() sets the bit and then increments the counters from the  *)
(* leaf to the root.  Nothing but single words is atomic: a step below is   *)
(* one atomic access (a compare-and-exchange loop is the exchange that      *)
(* succeeds), and a process may be killed between any two.                  *)
(*                                                                          *)
(* A position is the path from the root: <<>> is the root, Append(n, 0) and *)
(* Append(n, 1) are the children of n.                                      *)
(***************************************************************************)
EXTENDS Integers, Sequences, FiniteSets, PowersOfTwo

CONSTANTS
    Procs,          \* processes that share the stack
    Capacity,       \* number of pages
    BitsPerLeaf,    \* 64 in C++
    InnerLevels,    \* innerLevelCount
    KillLimit       \* bound: processes killed

ASSUME StackAssumption ==
    /\ IsFiniteSet(Procs)
    /\ Capacity \in Nat \ {0} /\ BitsPerLeaf \in Nat \ {0} /\ InnerLevels \in Nat \ {0}
    /\ KillLimit \in Nat

Ids == 0..(Capacity - 1)
Dirs == {0, 1}      \* dirLeft, dirRight
Inner == UNION {[1..l -> Dirs] : l \in 0..(InnerLevels - 1)}
Leaves == [1..InnerLevels -> Dirs]
Nodes == Inner \cup Leaves
Root == <<>>
Ascend(n) == SubSeq(n, 1, Len(n) - 1)
AscendDirection(n) == n[Len(n)]

\* The leaf of id: the binary digits of id / BitsPerLeaf, an even offset is to the left
LeafOf(id) ==
    [l \in 1..InnerLevels |->
        IF ((id \div BitsPerLeaf) \div PowerOfTwo[InnerLevels - l]) % 2 = 0 THEN 0 ELSE 1]

IdsBelow(n) == {id \in Ids : \A l \in DOMAIN n : n[l] = LeafOf(id)[l]}

\* The tree has a leaf for every id (IdSetMeasurements).
ASSUME MeasurementsAssumption == Capacity <= BitsPerLeaf * PowerOfTwo[InnerLevels]

VARIABLES
    count,      \* inner nodes: free ids to the left and to the right
    leaf,       \* leaf nodes: free ids
    size,       \* size_
    used,       \* pages each process popped that nobody pushed back
    loc,        \* what each process is about to do
    pos,        \* its position in the tree
    hand,       \* the id it moves
    kills

nodes == <<count, leaf>>
vars == <<count, leaf, size, used, loc, pos, hand, kills>>

\* makeFullBeforeSharing(): module IdSetTree checks how it builds this tree.
Init ==
    /\ count = [n \in Inner |-> [d \in Dirs |-> Cardinality(IdsBelow(Append(n, d)))]]
    /\ leaf = [n \in Leaves |-> IdsBelow(n)]
    /\ size = Capacity
    /\ used = [p \in Procs |-> {}]
    /\ loc = [p \in Procs |-> "idle"]
    /\ pos = [p \in Procs |-> Root]
    /\ hand = [p \in Procs |-> 0]
    /\ kills = 0

Goto(p, l) == loc' = [loc EXCEPT ![p] = l]

\* The local variables of an operation that ended
Forget(p) == pos' = [pos EXCEPT ![p] = Root] /\ hand' = [hand EXCEPT ![p] = 0]

\* An assert() that fails stops the process.
Check(p, condition, l) == Goto(p, IF condition THEN l ELSE "assert")

-----------------------------------------------------------------------------
(* pop() *)

\* Mutant: never looks to the right.
PopLeft(n) == 0

\* Direction chosen by innerPop(): left if there is anything
PopDirection(n) == IF count[n][0] > 0 THEN 0 ELSE 1

InnerPop(p, n) ==
    /\ count' = [count EXCEPT ![n][PopDirection(n)] = @ - 1]
    /\ pos' = [pos EXCEPT ![p] = Append(n, PopDirection(n))]
    /\ Goto(p, IF Len(n) + 1 = InnerLevels THEN "leafPop" ELSE "innerPop")
    /\ UNCHANGED <<leaf, size, used, hand, kills>>

HasIds(n) == count[n][0] > 0 \/ count[n][1] > 0

\* Mutant: forgets the ids to the right.
RootHasNoLeft == count[Root][0] = 0

RootIsEmpty == ~HasIds(Root)

StartPop(p) == loc[p] = "idle" /\ ~RootIsEmpty /\ InnerPop(p, Root)

\* pop() finds an empty tree.
PopFails(p) == loc[p] = "idle" /\ RootIsEmpty /\ UNCHANGED vars

\* Below the root, a counter that promised an id that is not there makes descend() assert.
DescendPop(p) ==
    /\ loc[p] = "innerPop"
    /\ IF HasIds(pos[p])
       THEN InnerPop(p, pos[p])
       ELSE Goto(p, "assert") /\ UNCHANGED <<nodes, size, used, pos, hand, kills>>

LowestBit(S) == CHOOSE i \in S : \A j \in S : i <= j

\* Mutant: two processes may take the same bit.
LeafPopShared(p) ==
    /\ loc[p] = "leafPop"
    /\ IF leaf[pos[p]] = {}
       THEN Goto(p, "assert") /\ UNCHANGED <<leaf, hand>>
       ELSE /\ hand' = [hand EXCEPT ![p] = LowestBit(leaf[pos[p]])]
            /\ leaf' = [leaf EXCEPT ![pos[p]] =
                           IF \E q \in Procs \ {p} : pos[q] = pos[p] THEN @ ELSE @ \ {hand'[p]}]
            /\ Goto(p, "shrink")
    /\ UNCHANGED <<count, size, used, pos, kills>>

LeafPop(p) ==
    /\ loc[p] = "leafPop"
    /\ IF leaf[pos[p]] = {}
       THEN Goto(p, "assert") /\ UNCHANGED <<leaf, hand>>
       ELSE /\ hand' = [hand EXCEPT ![p] = LowestBit(leaf[pos[p]])]
            /\ leaf' = [leaf EXCEPT ![pos[p]] = @ \ {LowestBit(leaf[pos[p]])}]
            /\ Goto(p, "shrink")
    /\ UNCHANGED <<count, size, used, pos, kills>>

\* --size_; an unsigned zero would wrap to a value beyond the capacity
FinishPop(p) ==
    /\ loc[p] = "shrink"
    /\ size' = size - 1
    /\ used' = [used EXCEPT ![p] = @ \cup {hand[p]}]
    /\ Check(p, 0 <= size - 1 /\ size - 1 < Capacity /\ hand[p] \in Ids, "idle")
    /\ Forget(p)
    /\ UNCHANGED <<nodes, kills>>

-----------------------------------------------------------------------------
(* push(): a page that q popped may be pushed by another process *)

\* Mutant: size_ is not incremented.
StartPushUncounted(p, q, id) ==
    /\ loc[p] = "idle" /\ id \in used[q]
    /\ used' = [used EXCEPT ![q] = @ \ {id}]
    /\ hand' = [hand EXCEPT ![p] = id]
    /\ Goto(p, "leafPush")
    /\ UNCHANGED <<nodes, size, pos, kills>>

StartPush(p, q, id) ==
    /\ loc[p] = "idle" /\ id \in used[q]
    /\ used' = [used EXCEPT ![q] = @ \ {id}]
    /\ hand' = [hand EXCEPT ![p] = id]
    /\ size' = size + 1
    /\ Check(p, size + 1 <= Capacity, "leafPush")
    /\ UNCHANGED <<nodes, pos, kills>>

LeafPush(p) ==
    /\ loc[p] = "leafPush"
    /\ pos' = [pos EXCEPT ![p] = LeafOf(hand[p])]
    /\ leaf' = [leaf EXCEPT ![LeafOf(hand[p])] = @ \cup {hand[p]}]
    /\ Check(p, hand[p] \notin leaf[LeafOf(hand[p])], "innerPush")
    /\ UNCHANGED <<count, size, used, hand, kills>>

\* Mutant: counts the id on both sides.
InnerPushBoth(p) ==
    /\ loc[p] = "innerPush"
    /\ LET parent == Ascend(pos[p])
       IN  /\ count' = [count EXCEPT ![parent] = [d \in Dirs |-> @[d] + 1]]
           /\ pos' = [pos EXCEPT ![p] = parent]
           /\ hand' = [hand EXCEPT ![p] = IF parent = Root THEN 0 ELSE @]
           /\ Goto(p, IF parent = Root THEN "idle" ELSE "innerPush")
    /\ UNCHANGED <<leaf, size, used, kills>>

\* Mutant: the loop ends before the root.
InnerPushOnce(p) ==
    /\ loc[p] = "innerPush"
    /\ LET parent == Ascend(pos[p])
       IN  count' = [count EXCEPT ![parent][AscendDirection(pos[p])] = @ + 1]
    /\ Goto(p, "idle")
    /\ Forget(p)
    /\ UNCHANGED <<leaf, size, used, kills>>

\* The assertion fails only if a 32-bit half of the word overflows.  Counters are
\* unbounded here; CountsAreBacked bounds them by the ids below, which fit.
InnerPush(p) ==
    /\ loc[p] = "innerPush"
    /\ LET parent == Ascend(pos[p])
       IN  /\ count' = [count EXCEPT ![parent][AscendDirection(pos[p])] = @ + 1]
           /\ pos' = [pos EXCEPT ![p] = parent]
           /\ hand' = [hand EXCEPT ![p] = IF parent = Root THEN 0 ELSE @]
           /\ Goto(p, IF parent = Root THEN "idle" ELSE "innerPush")
    /\ UNCHANGED <<leaf, size, used, kills>>

-----------------------------------------------------------------------------

\* A killed process leaves its operation where it is; another one replaces it.
Kill(p) ==
    /\ kills < KillLimit /\ kills' = kills + 1
    /\ loc[p] # "idle"
    /\ Goto(p, "idle")
    /\ Forget(p)
    /\ UNCHANGED <<nodes, size, used>>

Next == \E p \in Procs :
    \/ StartPop(p) \/ PopFails(p) \/ DescendPop(p) \/ LeafPop(p) \/ FinishPop(p)
    \/ \E q \in Procs : \E id \in used[q] : StartPush(p, q, id)
    \/ LeafPush(p) \/ InnerPush(p)
    \/ Kill(p)

Spec == Init /\ [][Next]_vars
-----------------------------------------------------------------------------
(* Properties *)

Locations == {"idle", "innerPop", "leafPop", "shrink", "leafPush", "innerPush", "assert"}

TypeOK ==
    /\ count \in [Inner -> [Dirs -> Nat]]
    /\ leaf \in [Leaves -> SUBSET Ids]
    /\ size \in Int
    /\ used \in [Procs -> SUBSET Ids]
    /\ loc \in [Procs -> Locations]
    /\ pos \in [Procs -> Nodes]
    /\ hand \in [Procs -> Ids]
    /\ kills \in Nat

Total(n) == IF Len(n) = InnerLevels THEN Cardinality(leaf[n]) ELSE count[n][0] + count[n][1]

\* Processes that claimed an id below n, or freed one there that n's parent does not count
ClaimsAt(n) == {p \in Procs : loc[p] \in {"innerPop", "leafPop", "innerPush"} /\ pos[p] = n}

\* No counter promises an id that is not there: what the parent of a node counts and
\* what passing processes claimed or freed is below the node, however pops and
\* pushes overlap and processes are killed (innerPop(), innerPush()).
CountsAreBacked ==
    \A n \in Nodes \ {Root} :
        count[Ascend(n)][AscendDirection(n)] + Cardinality(ClaimsAt(n)) <= Total(n)

\* No assertion fails: a pop() that passed the root finds its id, a pushed id is not
\* free already, size_ stays within bounds (descend(), leafPop(), leafPush(), pop(), push()).
AssertionsHold == \A p \in Procs : loc[p] # "assert"

Used == UNION {used[p] : p \in Procs}

\* When all operations have ended, the root counts exactly the pages that are not in
\* use: a pushed page "is never truly lost" unless a process is killed (push()).
NoneLost ==
    kills = 0 /\ (\A p \in Procs : loc[p] = "idle") => Total(Root) = Cardinality(Ids \ Used)

\* pop() fails only if every page is in use or in the hands of a process that is
\* popping or pushing it (pop()).
FailsOnlyIfNoneLeft ==
    kills = 0 /\ RootIsEmpty =>
        Cardinality(Ids \ Used) <= Cardinality({p \in Procs : loc[p] # "idle"})

\* The stack hands out free pages only (pop(), push()).
Promise == INSTANCE FreePages
ImplementsFreePages == Promise!Spec
=============================================================================
