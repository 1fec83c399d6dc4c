------------------------------- MODULE IdSetTree -------------------------------
(***************************************************************************)
(* How the tree of a PageStack is measured and filled before it is shared   *)
(* (IdSetMeasurements, IdSet::makeFullBeforeSharing()), for every capacity. *)
(* Nodes are addressed by level and offset as in the code.                  *)
(***************************************************************************)
EXTENDS Integers, FiniteSets, PowersOfTwo

CONSTANTS BitsPerLeaf,   \* 64 in C++
          MaxCapacity    \* bound: capacities 0..MaxCapacity

ASSUME TreeAssumption == BitsPerLeaf \in Nat \ {0} /\ MaxCapacity \in Nat

VARIABLES
    pc,
    capacity, leafNodeCount, innerLevelCount, \* the measurements
    inner,      \* inner[level][offset]: ids counted to the left and to the right
    leaf,       \* leaf[offset]: bits that are set
    level, offset, \* position of truncateExtras()
    toSubtract
vars == <<pc, capacity, leafNodeCount, innerLevelCount, inner, leaf, level, offset, toSubtract>>
measurements == <<capacity, leafNodeCount, innerLevelCount>>

Bits == 0..(BitsPerLeaf - 1)
requestedLeafNodeCount == (capacity + (BitsPerLeaf - 1)) \div BitsPerLeaf

Init ==
    /\ pc = "measure"
    /\ capacity \in 0..MaxCapacity /\ leafNodeCount = 2 /\ innerLevelCount = 1
    /\ inner = <<>> /\ leaf = <<>> /\ level = 0 /\ offset = 0 /\ toSubtract = 0

\* The loop that doubles the leaves until they suffice
Measure ==
    /\ pc = "measure"
    /\ IF leafNodeCount < requestedLeafNodeCount
       THEN /\ leafNodeCount' = leafNodeCount * 2 /\ innerLevelCount' = innerLevelCount + 1
            /\ UNCHANGED pc
       ELSE pc' = "fill" /\ UNCHANGED <<leafNodeCount, innerLevelCount>>
    /\ UNCHANGED <<capacity, inner, leaf, level, offset, toSubtract>>

\* Ids below a child of a node at level l of the full tree
PagesBelow(l) == BitsPerLeaf * PowerOfTwo[innerLevelCount - 1 - l]

fillAllNodes ==
    /\ pc = "fill"
    /\ leaf' = [o \in 0..(leafNodeCount - 1) |-> Bits]
    /\ inner' = [l \in 0..(innerLevelCount - 1) |->
                    [o \in 0..(PowerOfTwo[l] - 1) |-> [left |-> PagesBelow(l), right |-> PagesBelow(l)]]]
    /\ pc' = IF capacity # leafNodeCount * BitsPerLeaf THEN "leafTruncate" ELSE "done"
    /\ UNCHANGED <<measurements, level, offset, toSubtract>>

\* node >>= BitsPerLeaf - idsToKeep.  Shifting out all bits is undefined: x86 shifts by
\* BitsPerLeaf % BitsPerLeaf, a compiler may also clear the word.
LeafTruncated(idsToKeep) ==
    IF idsToKeep = 0 THEN {Bits, {}} ELSE {0..(idsToKeep - 1)}

\* The first part of truncateExtras(): leafTruncate() and clearing leaves to the right
TruncateLeaves ==
    /\ pc = "leafTruncate"
    /\ level' = innerLevelCount /\ offset' = capacity \div BitsPerLeaf
    /\ \E bits \in LeafTruncated(capacity % BitsPerLeaf) :
          leaf' = [o \in DOMAIN leaf |->
                      IF o = offset' THEN bits
                      ELSE IF o \in (offset' + 1)..(offset' + leafNodeCount - requestedLeafNodeCount - 1)
                           THEN {}
                           ELSE leaf[o]]
    /\ toSubtract' = BitsPerLeaf - (capacity % BitsPerLeaf)
    /\ pc' = "innerTruncate"
    /\ UNCHANGED <<measurements, inner>>

\* Mutant: keeps what the left branch leaves to the right.
TruncatedOneSide(node, left) ==
    IF left THEN [node EXCEPT !.left = @ - toSubtract] ELSE [node EXCEPT !.right = @ - toSubtract]

Truncated(node, left) ==
    IF left THEN [left |-> node.left - toSubtract, right |-> 0]
            ELSE [node EXCEPT !.right = @ - toSubtract]

SubtractNext(node, left) == toSubtract + IF left THEN node.right ELSE 0

\* One turn of the loop: ascend and innerTruncate()
innerTruncate ==
    /\ pc = "innerTruncate"
    /\ LET left == offset % 2 = 0
           l == level - 1
           o == offset \div 2
           node == inner[l][o]
       IN  /\ inner' = [inner EXCEPT ![l][o] = Truncated(node, left)]
           /\ toSubtract' = SubtractNext(node, left)
           /\ level' = l /\ offset' = o
           /\ pc' = IF l = 0 THEN "done" ELSE "innerTruncate"
    /\ UNCHANGED <<measurements, leaf>>

Next == Measure \/ fillAllNodes \/ TruncateLeaves \/ innerTruncate

Spec == Init /\ [][Next]_vars

-----------------------------------------------------------------------------
(* Properties *)

\* Ids a node at level l and offset o stands for
Width(l) == BitsPerLeaf * PowerOfTwo[innerLevelCount - l]
Span(l, o) == (o * Width(l))..(o * Width(l) + Width(l) - 1)
Wanted(l, o) == Cardinality(Span(l, o) \cap 0..(capacity - 1))

\* The tree pop() walks holds the ids below the capacity and no others: the root and
\* every node that stands for such an id has the counts a full tree of that capacity
\* must have, and its leaves the bits; module PageStack starts from that tree
\* (makeFullBeforeSharing(), truncateExtras(), innerTruncate()).
TreeHoldsCapacity ==
    pc = "done" =>
        /\ \A l \in DOMAIN inner : \A o \in DOMAIN inner[l] :
              l = 0 \/ Wanted(l, o) > 0 =>
                  inner[l][o] = [left |-> Wanted(l + 1, 2 * o), right |-> Wanted(l + 1, 2 * o + 1)]
        /\ \A o \in DOMAIN leaf :
              Wanted(innerLevelCount, o) > 0 =>
                  leaf[o] = {b \in Bits : o * BitsPerLeaf + b < capacity}
=============================================================================
