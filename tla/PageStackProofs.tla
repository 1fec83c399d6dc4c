---------------------------- MODULE PageStackProofs ----------------------------
(***************************************************************************)
(* PageStack is correct for any number of processes, any capacity and any   *)
(* height of the tree, with processes killed anywhere: no counter promises  *)
(* an id that is not there, no assertion fails, and no page is handed out   *)
(* twice.  As long as nobody was killed, no page is lost either.            *)
(***************************************************************************)
EXTENDS PageStack, FiniteSetTheorems, SequenceTheorems, WellFoundedInduction, TLAPS

-----------------------------------------------------------------------------
(* The tree *)

\* Inner nodes and leaves are sequences of directions, told apart by their length.
LEMMA InnerNode == \A n : n \in Inner <=> n \in Seq(Dirs) /\ Len(n) < InnerLevels
<1>1. ASSUME NEW n \in Inner PROVE n \in Seq(Dirs) /\ Len(n) < InnerLevels
  <2>1. PICK l \in 0..(InnerLevels - 1) : n \in [1..l -> Dirs]
    BY DEF Inner
  <2> QED BY <2>1, StackAssumption
<1>2. ASSUME NEW n \in Seq(Dirs), Len(n) < InnerLevels PROVE n \in Inner
  <2>1. n \in [1..Len(n) -> Dirs] /\ Len(n) \in Nat
    BY LenProperties
  <2>2. Len(n) \in 0..(InnerLevels - 1)
    BY <2>1, <1>2, StackAssumption
  <2> QED BY <2>1, <2>2 DEF Inner
<1> QED BY <1>1, <1>2

\* (the leaves)
LEMMA LeafNode == \A n : n \in Leaves <=> n \in Seq(Dirs) /\ Len(n) = InnerLevels
<1>1. ASSUME NEW n \in Leaves PROVE n \in Seq(Dirs) /\ Len(n) = InnerLevels
  BY StackAssumption DEF Leaves
<1>2. ASSUME NEW n \in Seq(Dirs), Len(n) = InnerLevels PROVE n \in Leaves
  BY <1>2, LenProperties DEF Leaves
<1> QED BY <1>1, <1>2

\* The root is an inner node.
LEMMA RootIsInner == Root \in Inner /\ Root \in Nodes
<1>1. Root \in Seq(Dirs) /\ Len(Root) = 0
  BY EmptySeq DEF Root
<1>2. Len(Root) < InnerLevels
  BY <1>1, StackAssumption
<1> QED BY <1>1, <1>2, InnerNode DEF Nodes

\* A child of an inner node is a node below it.
LEMMA Child ==
    ASSUME NEW n \in Inner, NEW d \in Dirs
    PROVE  /\ Append(n, d) \in Nodes \ {Root}
           /\ Ascend(Append(n, d)) = n
           /\ AscendDirection(Append(n, d)) = d
           /\ Append(n, d) # n
           /\ Len(n) + 1 = InnerLevels => Append(n, d) \in Leaves
           /\ Len(n) + 1 # InnerLevels => Append(n, d) \in Inner
<1> DEFINE c == Append(n, d)
<1>1. n \in Seq(Dirs) /\ Len(n) < InnerLevels /\ Len(n) \in Nat
  BY InnerNode, LenProperties
<1>2. /\ c \in Seq(Dirs) /\ c # Root /\ Len(c) = Len(n) + 1
      /\ \A i \in 1..Len(n) : c[i] = n[i]
      /\ c[Len(n) + 1] = d
  BY <1>1, AppendProperties DEF Root
<1>3. Ascend(c) = n
  <2> DEFINE a == SubSeq(c, 1, Len(n))
  <2>0. \A i \in 1..Len(n) : c[i] \in Dirs
    BY <1>1, <1>2, ElementOfSeq
  <2>1. /\ a \in Seq(Dirs) /\ Len(a) = Len(n)
        /\ \A i \in 1..Len(n) : a[i] = c[i]
    BY <2>0, <1>1, SubSeqProperties
  <2>2. a = n
    BY <2>1, <1>1, <1>2, SeqEqual
  <2> HIDE DEF c
  <2>3. Len(c) - 1 = Len(n)
    BY <1>1, <1>2
  <2> QED BY <2>2, <2>3 DEF Ascend
<1> HIDE DEF c
<1>4. AscendDirection(c) = d
  BY <1>2 DEF AscendDirection
<1>5. Len(n) + 1 = InnerLevels => c \in Leaves
  BY <1>2, LeafNode
<1>6. Len(n) + 1 # InnerLevels => c \in Inner
  BY <1>1, <1>2, InnerNode, StackAssumption
<1>7. c # n
  BY <1>1, <1>2
<1> QED BY <1>2, <1>3, <1>4, <1>5, <1>6, <1>7 DEF Nodes, c

\* Every node but the root is a child of an inner node.
LEMMA Parent ==
    ASSUME NEW n \in Nodes, n # Root
    PROVE  /\ Ascend(n) \in Inner /\ AscendDirection(n) \in Dirs
           /\ n = Append(Ascend(n), AscendDirection(n))
           /\ Ascend(n) # n
<1>1. n \in Seq(Dirs) /\ Len(n) <= InnerLevels
  BY InnerNode, LeafNode, StackAssumption, LenProperties DEF Nodes
<1>2. PICK m \in Seq(Dirs), d \in Dirs : n = Append(m, d)
  BY <1>1, SequenceEmptyOrAppend DEF Root
<1>3. Len(n) = Len(m) + 1 /\ Len(m) \in Nat
  BY <1>2, AppendProperties, LenProperties
<1>4. m \in Inner
  BY <1>1, <1>3, InnerNode, StackAssumption
<1>5. Ascend(n) = m /\ AscendDirection(n) = d /\ m # n
  BY <1>2, <1>4, Child
<1> QED BY <1>2, <1>4, <1>5

\* Leaves are nodes, but not inner ones.
LEMMA LeafIsNotInner == \A n \in Leaves : n \in Nodes /\ n \notin Inner /\ n # Root
BY InnerNode, LeafNode, RootIsInner DEF Nodes

-----------------------------------------------------------------------------
(* The inductive invariant *)

\* Where an operation is in the tree
Places ==
    \A p \in Procs :
        /\ loc[p] = "innerPop" => pos[p] \in Inner \ {Root}
        /\ loc[p] = "leafPop" => pos[p] \in Leaves
        /\ loc[p] = "innerPush" => pos[p] \in Nodes \ {Root}

\* A process that took an id out of a leaf, or is about to set its bit
InHand(p) == loc[p] \in {"shrink", "leafPush"}

\* An id has one owner: a leaf, the user of the page, or a process that moves it.
Owned ==
    /\ \A n \in Leaves : \A i \in leaf[n] : LeafOf(i) = n
    /\ \A n \in Leaves : \A q \in Procs : \A i \in leaf[n] : i \notin used[q]
    /\ \A p \in Procs : InHand(p) =>
          hand[p] \notin leaf[LeafOf(hand[p])] /\ \A q \in Procs : hand[p] \notin used[q]
    /\ \A p, q \in Procs : InHand(p) /\ InHand(q) /\ p # q => hand[p] # hand[q]
    /\ \A p, q \in Procs : p # q => \A i \in used[p] : i \notin used[q]

SizeCounts == size = Capacity - Cardinality(Used)

IInv == TypeOK /\ Places /\ AssertionsHold /\ Owned /\ SizeCounts /\ CountsAreBacked

\* A step of process p
Act(p) ==
    \/ StartPop(p) \/ PopFails(p) \/ DescendPop(p) \/ LeafPop(p) \/ FinishPop(p)
    \/ \E q \in Procs : \E id \in used[q] : StartPush(p, q, id)
    \/ LeafPush(p) \/ InnerPush(p)
    \/ Kill(p)

\* Ids are finitely many.
LEMMA IdsAreFinite ==
    /\ IsFiniteSet(Ids) /\ Cardinality(Ids) = Capacity /\ 0 \in Ids
    /\ \A S \in SUBSET Ids : IsFiniteSet(S) /\ Cardinality(S) \in 0..Capacity
    /\ \A id \in Ids : LeafOf(id) \in Leaves
<1>1. IsFiniteSet(Ids) /\ Cardinality(Ids) = Capacity /\ 0 \in Ids
  BY FS_Interval, StackAssumption DEF Ids
<1>2. \A S \in SUBSET Ids : IsFiniteSet(S) /\ Cardinality(S) \in 0..Capacity
  BY <1>1, FS_Subset, FS_CardinalityType, StackAssumption
<1>3. \A id \in Ids : LeafOf(id) \in Leaves
  BY DEF LeafOf, Leaves, Dirs
<1> QED BY <1>1, <1>2, <1>3

\* What adding or removing an id does to a set of ids
LEMMA IdSetChange ==
    ASSUME NEW S \in SUBSET Ids, NEW i \in Ids
    PROVE  /\ Cardinality(S) \in Nat
           /\ i \notin S => Cardinality(S \cup {i}) = Cardinality(S) + 1 /\ Cardinality(S) + 1 <= Capacity
           /\ i \in S => Cardinality(S \ {i}) = Cardinality(S) - 1 /\ Cardinality(S) >= 1
<1>1. IsFiniteSet(S) /\ Cardinality(S) \in Nat /\ S \cup {i} \in SUBSET Ids /\ S \ {i} \in SUBSET Ids
  BY IdsAreFinite
<1>2. i \notin S => Cardinality(S \cup {i}) = Cardinality(S) + 1
  BY <1>1, FS_AddElement
<1>3. i \in S => Cardinality(S \ {i}) = Cardinality(S) - 1
  BY <1>1, FS_RemoveElement
<1>4. Cardinality(S \cup {i}) <= Capacity /\ Cardinality(S \ {i}) \in Nat
  BY <1>1, IdsAreFinite
<1> QED BY <1>1, <1>2, <1>3, <1>4, StackAssumption

\* What the step of one process does to a set of processes
LEMMA ProcSetChange ==
    ASSUME NEW S \in SUBSET Procs, NEW T \in SUBSET Procs, NEW p \in Procs,
           \A q \in Procs \ {p} : q \in S <=> q \in T
    PROVE  /\ Cardinality(S) \in Nat /\ Cardinality(T) \in Nat
           /\ (p \in S <=> p \in T) => Cardinality(T) = Cardinality(S)
           /\ p \notin S /\ p \in T => Cardinality(T) = Cardinality(S) + 1
           /\ p \in S /\ p \notin T => Cardinality(T) = Cardinality(S) - 1
           /\ p \in S => Cardinality(S) >= 1
<1>1. IsFiniteSet(S) /\ Cardinality(S) \in Nat /\ IsFiniteSet(T) /\ Cardinality(T) \in Nat
  BY StackAssumption, FS_Subset, FS_CardinalityType
<1>2. CASE p \in S <=> p \in T
  <2>1. S = T
    BY <1>2
  <2>2. p \in S => Cardinality(S) # 0
    BY <1>1, FS_EmptySet
  <2> QED BY <1>1, <1>2, <2>1, <2>2
<1>3. CASE p \notin S /\ p \in T
  <2>1. T = S \cup {p}
    BY <1>3
  <2> QED BY <1>1, <1>3, <2>1, FS_AddElement
<1>4. CASE p \in S /\ p \notin T
  <2>1. T = S \ {p}
    BY <1>4
  <2>2. Cardinality(T) = Cardinality(S) - 1
    BY <1>1, <1>4, <2>1, FS_RemoveElement
  <2> QED BY <1>1, <1>4, <2>2
<1> QED BY <1>2, <1>3, <1>4

\* A process that claimed an id on its way down finds it.
LEMMA ClaimIsHonoured ==
    ASSUME TypeOK, Places, CountsAreBacked, NEW p \in Procs
    PROVE  /\ loc[p] = "innerPop" => HasIds(pos[p]) /\ pos[p] \in Inner
           /\ loc[p] = "leafPop" => leaf[pos[p]] # {} /\ pos[p] \in Leaves
<1>1. SUFFICES ASSUME loc[p] \in {"innerPop", "leafPop"}
               PROVE  /\ loc[p] = "innerPop" => HasIds(pos[p]) /\ pos[p] \in Inner
                      /\ loc[p] = "leafPop" => leaf[pos[p]] # {} /\ pos[p] \in Leaves
  OBVIOUS
<1> DEFINE n == pos[p]
<1>2. n \in Nodes \ {Root}
  BY <1>1, LeafIsNotInner DEF Places, Nodes
<1>3. Cardinality(ClaimsAt(n)) \in Nat /\ Cardinality(ClaimsAt(n)) >= 1
  <2>1. ClaimsAt(n) \in SUBSET Procs /\ p \in ClaimsAt(n)
    BY <1>1 DEF ClaimsAt
  <2> QED BY <2>1, ProcSetChange
<1>4. count[Ascend(n)][AscendDirection(n)] \in Nat
  BY <1>2, Parent DEF TypeOK
<1>5. count[Ascend(n)][AscendDirection(n)] + Cardinality(ClaimsAt(n)) <= Total(n)
  BY <1>2 DEF CountsAreBacked
<1>6. CASE loc[p] = "innerPop"
  <2>1. n \in Inner /\ Len(n) # InnerLevels
    BY <1>6, InnerNode DEF Places
  <2>2. count[n][0] \in Nat /\ count[n][1] \in Nat
    BY <2>1 DEF TypeOK, Dirs
  <2>3. Total(n) = count[n][0] + count[n][1]
    BY <2>1 DEF Total
  <2> HIDE DEF n
  <2>4. count[n][0] > 0 \/ count[n][1] > 0
    BY <1>3, <1>4, <1>5, <2>2, <2>3
  <2> QED BY <1>6, <2>1, <2>4 DEF HasIds, n
<1>7. CASE loc[p] = "leafPop"
  <2>1. n \in Leaves /\ Len(n) = InnerLevels
    BY <1>7, LeafNode DEF Places
  <2>2. Total(n) = Cardinality(leaf[n])
    BY <2>1 DEF Total
  <2>3. Cardinality(leaf[n]) # 0
    <3> HIDE DEF n
    <3>1. leaf[n] \in SUBSET Ids
      BY <2>1 DEF TypeOK
    <3> QED BY <3>1, IdsAreFinite, <1>3, <1>4, <1>5, <2>2
  <2>4. leaf[n] # {}
    BY <2>3, FS_EmptySet
  <2> QED BY <1>7, <2>1, <2>4
<1> QED BY <1>1, <1>6, <1>7

\* So descending never meets an empty node, and a step down is an InnerPop().
LEMMA DescendIsPop ==
    ASSUME TypeOK, Places, CountsAreBacked, NEW p \in Procs, StartPop(p) \/ DescendPop(p)
    PROVE  \E n \in Inner : /\ InnerPop(p, n) /\ HasIds(n)
                            /\ \/ loc[p] = "idle" /\ n = Root
                               \/ loc[p] = "innerPop" /\ n = pos[p] /\ n # Root
<1>1. CASE StartPop(p)
  BY <1>1, RootIsInner DEF StartPop, RootIsEmpty
<1>2. CASE DescendPop(p)
  BY <1>2, ClaimIsHonoured DEF DescendPop, Places
<1> QED BY <1>1, <1>2

\* The bit leafPop() takes is in the leaf.
LEMMA LowestBitIsThere ==
    ASSUME NEW S \in SUBSET Ids, S # {}
    PROVE  LowestBit(S) \in S
<1>1. S \subseteq Nat
  BY StackAssumption DEF Ids
<1> DEFINE R == OpToRel(<, Nat)
<1>2. IsWellFoundedOn(R, Nat)
  BY NatLessThanWellFounded
<1>3. \A x, y \in Nat : x < y => <<x, y>> \in R
  BY DEF OpToRel
<1> HIDE DEF R
<1>4. PICK x \in S : \A y \in S : ~(<<y, x>> \in R)
  BY <1>1, <1>2, WFMin, Zenon
<1>5. \A y \in S : x <= y
  <2>1. SUFFICES ASSUME NEW y \in S PROVE x <= y
    OBVIOUS
  <2>2. x \in Nat /\ y \in Nat
    BY <1>1
  <2>3. ~(y < x)
    BY <2>2, <1>3, <1>4, Zenon
  <2> QED BY <2>2, <2>3
<1> QED BY <1>5 DEF LowestBit

-----------------------------------------------------------------------------
(* The full tree *)

\* An id below an inner node is below exactly one of its children.
LEMMA IdsSplit ==
    ASSUME NEW n \in Inner
    PROVE  Cardinality(IdsBelow(n)) =
               Cardinality(IdsBelow(Append(n, 0))) + Cardinality(IdsBelow(Append(n, 1)))
<1> DEFINE L == IdsBelow(Append(n, 0))
           R == IdsBelow(Append(n, 1))
<1>1. n \in Seq(Dirs) /\ Len(n) < InnerLevels /\ Len(n) \in Nat /\ DOMAIN n = 1..Len(n)
  BY InnerNode, LenProperties
<1>2. ASSUME NEW d \in Dirs
      PROVE  \A id \in Ids : id \in IdsBelow(Append(n, d)) <=>
                 id \in IdsBelow(n) /\ LeafOf(id)[Len(n) + 1] = d
  <2> DEFINE c == Append(n, d)
  <2>1. /\ c \in Seq(Dirs) /\ Len(c) = Len(n) + 1 /\ DOMAIN c = 1..(Len(n) + 1)
        /\ \A i \in 1..Len(n) : c[i] = n[i]
        /\ c[Len(n) + 1] = d
    BY <1>1, AppendProperties, LenProperties
  <2> HIDE DEF c
  <2>2. 1..(Len(n) + 1) = (1..Len(n)) \cup {Len(n) + 1}
    BY <1>1
  <2>3. ASSUME NEW id \in Ids
        PROVE  (\A l \in DOMAIN c : c[l] = LeafOf(id)[l]) <=>
                   (\A l \in DOMAIN n : n[l] = LeafOf(id)[l]) /\ LeafOf(id)[Len(n) + 1] = d
    <3> DEFINE f == LeafOf(id)
    <3> HIDE DEF f
    <3>1. (\A l \in DOMAIN c : c[l] = f[l]) <=>
              (\A l \in DOMAIN n : n[l] = f[l]) /\ f[Len(n) + 1] = d
      BY <1>1, <2>1, <2>2
    <3> QED BY <3>1 DEF f
  <2> QED BY <2>3 DEF IdsBelow, c
<1>3. \A id \in Ids : LeafOf(id)[Len(n) + 1] \in {0, 1}
  <2>1. Len(n) + 1 \in 1..InnerLevels
    BY <1>1, StackAssumption
  <2>2. SUFFICES ASSUME NEW id \in Ids PROVE LeafOf(id)[Len(n) + 1] \in Dirs
    BY DEF Dirs
  <2>3. LeafOf(id) \in [1..InnerLevels -> Dirs]
    BY IdsAreFinite DEF Leaves
  <2> DEFINE f == LeafOf(id)
  <2> HIDE DEF f
  <2>4. f[Len(n) + 1] \in Dirs
    BY <2>1, <2>3 DEF f
  <2> QED BY <2>4 DEF f
<1>4. L \in SUBSET Ids /\ R \in SUBSET Ids /\ IdsBelow(n) \in SUBSET Ids
  BY DEF IdsBelow
<1>5. /\ \A id \in Ids : id \in L <=> id \in IdsBelow(n) /\ LeafOf(id)[Len(n) + 1] = 0
      /\ \A id \in Ids : id \in R <=> id \in IdsBelow(n) /\ LeafOf(id)[Len(n) + 1] = 1
  <2>1. 0 \in Dirs /\ 1 \in Dirs
    BY DEF Dirs
  <2> QED BY <1>2, <2>1
<1> HIDE DEF L, R
<1>6. IdsBelow(n) = L \cup R
  BY <1>3, <1>4, <1>5
<1>7. L \cap R = {}
  BY <1>4, <1>5
<1>8. Cardinality(L \cup R) = Cardinality(L) + Cardinality(R) - Cardinality(L \cap R)
  BY <1>4, IdsAreFinite, FS_Union
<1>9. Cardinality(L \cap R) = 0 /\ Cardinality(L) \in Nat /\ Cardinality(R) \in Nat
  BY <1>4, <1>7, FS_EmptySet, IdsAreFinite
<1> QED BY <1>6, <1>8, <1>9 DEF L, R

\* The stack starts with every id in its leaf and every counter exact.
LEMMA InitInv == Init => IInv
<1> SUFFICES ASSUME Init PROVE IInv
  OBVIOUS
<1>1. TypeOK
  <2>1. \A n \in Inner : \A d \in Dirs : Cardinality(IdsBelow(Append(n, d))) \in Nat
    <3>1. \A n : IdsBelow(n) \in SUBSET Ids
      BY DEF IdsBelow
    <3> QED BY <3>1, IdsAreFinite
  <2>2. count \in [Inner -> [Dirs -> Nat]]
    BY <2>1 DEF Init
  <2>3. leaf \in [Leaves -> SUBSET Ids]
    BY DEF Init, IdsBelow
  <2> QED BY <2>2, <2>3, RootIsInner, IdsAreFinite, StackAssumption
          DEF Init, TypeOK, Locations
<1>2. Places /\ AssertionsHold
  BY DEF Init, Places, AssertionsHold
<1>3. Owned
  <2>1. \A n \in Leaves : \A i \in leaf[n] : LeafOf(i) = n
    <3>1. SUFFICES ASSUME NEW n \in Leaves, NEW i \in IdsBelow(n) PROVE LeafOf(i) = n
      BY DEF Init
    <3>2. i \in Ids /\ LeafOf(i) \in [1..InnerLevels -> Dirs] /\ n \in [1..InnerLevels -> Dirs]
      BY IdsAreFinite DEF IdsBelow, Leaves
    <3>3. \A l \in DOMAIN n : n[l] = LeafOf(i)[l]
      BY DEF IdsBelow
    <3> DEFINE f == LeafOf(i)
    <3>4. /\ f \in [1..InnerLevels -> Dirs] /\ n \in [1..InnerLevels -> Dirs]
          /\ \A l \in 1..InnerLevels : n[l] = f[l]
      BY <3>2, <3>3, Zenon
    <3> HIDE DEF f
    <3>5. f = [l \in 1..InnerLevels |-> f[l]] /\ n = [l \in 1..InnerLevels |-> n[l]]
      BY <3>4, Zenon
    <3>6. [l \in 1..InnerLevels |-> f[l]] = [l \in 1..InnerLevels |-> n[l]]
      BY <3>4, Zenon
    <3>7. f = n
      BY <3>5, <3>6, Zenon
    <3> QED BY <3>7 DEF f
  <2> QED BY <2>1 DEF Init, Owned, InHand
<1>4. SizeCounts
  <2>1. Used = {}
    BY DEF Init, Used
  <2> QED BY <2>1, FS_EmptySet, StackAssumption DEF Init, SizeCounts
<1>5. CountsAreBacked
  <2>1. SUFFICES ASSUME NEW n \in Nodes \ {Root}
                 PROVE  count[Ascend(n)][AscendDirection(n)] + Cardinality(ClaimsAt(n)) <= Total(n)
    BY DEF CountsAreBacked
  <2>2. ClaimsAt(n) = {}
    BY DEF Init, ClaimsAt
  <2>3. count[Ascend(n)][AscendDirection(n)] = Cardinality(IdsBelow(n))
    BY Parent DEF Init
  <2>4. IdsBelow(n) \in SUBSET Ids
    BY DEF IdsBelow
  <2>5. Total(n) = Cardinality(IdsBelow(n))
    <3>1. CASE n \in Leaves
      BY <3>1, LeafNode DEF Total, Init
    <3>2. CASE n \in Inner
      <4>1. Len(n) # InnerLevels
        BY <3>2, InnerNode
      <4>2. /\ count[n][0] = Cardinality(IdsBelow(Append(n, 0)))
            /\ count[n][1] = Cardinality(IdsBelow(Append(n, 1)))
        BY <3>2 DEF Init, Dirs
      <4> QED BY <3>2, <4>1, <4>2, IdsSplit DEF Total
    <3> QED BY <3>1, <3>2 DEF Nodes
  <2> QED BY <2>2, <2>3, <2>4, <2>5, FS_EmptySet, IdsAreFinite
<1> QED BY <1>1, <1>2, <1>3, <1>4, <1>5 DEF IInv

-----------------------------------------------------------------------------
(* Types, places and assertions *)

\* innerPop() decrements a counter that is not zero.
LEMMA PopIsBacked ==
    ASSUME TypeOK, NEW n \in Inner, HasIds(n)
    PROVE  PopDirection(n) \in Dirs /\ count[n][PopDirection(n)] \in Nat \ {0}
BY DEF TypeOK, HasIds, PopDirection, Dirs

\* A push goes on from a leaf or an inner node to its parent.
LEMMA PushIsBacked ==
    ASSUME TypeOK, Places, NEW p \in Procs, loc[p] = "innerPush"
    PROVE  /\ Ascend(pos[p]) \in Inner /\ AscendDirection(pos[p]) \in Dirs
           /\ Ascend(pos[p]) \in Nodes
           /\ count[Ascend(pos[p])][AscendDirection(pos[p])] \in Nat
<1>1. pos[p] \in Nodes \ {Root}
  BY DEF Places
<1>2. Ascend(pos[p]) \in Inner /\ AscendDirection(pos[p]) \in Dirs
  BY <1>1, Parent
<1> QED BY <1>2 DEF TypeOK, Nodes

\* Types are kept.
LEMMA TypeStep == ASSUME IInv, NEW p \in Procs, Act(p) PROVE TypeOK'
<1> USE DEF IInv, TypeOK, Goto, Check, Forget, Locations
<1>0. 0 \in Ids /\ Root \in Nodes
  BY IdsAreFinite, RootIsInner
<1>1. CASE StartPop(p) \/ DescendPop(p)
  <2>1. PICK n \in Inner : InnerPop(p, n) /\ HasIds(n)
    BY <1>1, DescendIsPop
  <2>2. PopDirection(n) \in Dirs /\ count[n][PopDirection(n)] \in Nat \ {0}
    BY <2>1, PopIsBacked
  <2>3. Append(n, PopDirection(n)) \in Nodes
    BY <2>2, Child
  <2>4. count[n][PopDirection(n)] - 1 \in Nat
    BY <2>2
  <2> QED BY <2>1, <2>2, <2>3, <2>4 DEF InnerPop
<1>2. CASE PopFails(p)
  BY <1>2 DEF PopFails, vars
<1>3. CASE LeafPop(p)
  <2>1. leaf[pos[p]] # {} /\ pos[p] \in Leaves
    BY <1>3, ClaimIsHonoured DEF LeafPop
  <2>2. LowestBit(leaf[pos[p]]) \in Ids
    BY <2>1, LowestBitIsThere
  <2> QED BY <1>3, <2>1, <2>2 DEF LeafPop
<1>4. CASE FinishPop(p)
  BY <1>0, <1>4 DEF FinishPop, nodes
<1>5. ASSUME NEW q \in Procs, NEW id \in used[q], StartPush(p, q, id) PROVE TypeOK'
  BY <1>5 DEF StartPush, nodes
<1>6. CASE LeafPush(p)
  <2>1. LeafOf(hand[p]) \in Leaves /\ LeafOf(hand[p]) \in Nodes
    BY IdsAreFinite, LeafIsNotInner
  <2> QED BY <1>6, <2>1 DEF LeafPush
<1>7. CASE InnerPush(p)
  <2>1. /\ Ascend(pos[p]) \in Inner /\ AscendDirection(pos[p]) \in Dirs
        /\ Ascend(pos[p]) \in Nodes
        /\ count[Ascend(pos[p])][AscendDirection(pos[p])] \in Nat
    BY <1>7, PushIsBacked DEF InnerPush
  <2> QED BY <1>0, <1>7, <2>1 DEF InnerPush
<1>8. CASE Kill(p)
  BY <1>0, <1>8 DEF Kill, nodes
<1> QED BY <1>1, <1>2, <1>3, <1>4, <1>5, <1>6, <1>7, <1>8 DEF Act

\* Operations stay on their level of the tree.
LEMMA PlacesStep == ASSUME IInv, NEW p \in Procs, Act(p) PROVE Places'
<1> USE DEF IInv, TypeOK, Places, Goto, Check, Forget
<1>1. CASE StartPop(p) \/ DescendPop(p)
  <2>1. PICK n \in Inner : InnerPop(p, n) /\ HasIds(n)
    BY <1>1, DescendIsPop
  <2>2. PopDirection(n) \in Dirs
    BY <2>1, PopIsBacked
  <2>3. /\ Append(n, PopDirection(n)) # Root
        /\ Len(n) + 1 = InnerLevels => Append(n, PopDirection(n)) \in Leaves
        /\ Len(n) + 1 # InnerLevels => Append(n, PopDirection(n)) \in Inner
    BY <2>2, Child
  <2> QED BY <2>1, <2>3 DEF InnerPop
<1>2. CASE PopFails(p)
  BY <1>2 DEF PopFails, vars
<1>3. CASE LeafPop(p)
  BY <1>3 DEF LeafPop
<1>4. CASE FinishPop(p)
  BY <1>4 DEF FinishPop
<1>5. ASSUME NEW q \in Procs, NEW id \in used[q], StartPush(p, q, id) PROVE Places'
  BY <1>5 DEF StartPush
<1>6. CASE LeafPush(p)
  <2>1. LeafOf(hand[p]) \in Nodes \ {Root}
    BY IdsAreFinite, LeafIsNotInner
  <2> QED BY <1>6, <2>1 DEF LeafPush
<1>7. CASE InnerPush(p)
  <2>1. Ascend(pos[p]) \in Nodes
    BY <1>7, PushIsBacked DEF InnerPush
  <2> QED BY <1>7, <2>1 DEF InnerPush
<1>8. CASE Kill(p)
  BY <1>8 DEF Kill
<1> QED BY <1>1, <1>2, <1>3, <1>4, <1>5, <1>6, <1>7, <1>8 DEF Act

\* What is in use is a set of ids, and size_ is its complement's size.
LEMMA UsedIds == ASSUME TypeOK PROVE Used \in SUBSET Ids
BY DEF TypeOK, Used

\* No assertion fails.
LEMMA AssertionsStep == ASSUME IInv, NEW p \in Procs, Act(p) PROVE AssertionsHold'
<1> USE DEF IInv, TypeOK, AssertionsHold, Goto, Check, Forget
<1>1. CASE StartPop(p) \/ DescendPop(p)
  BY <1>1, DescendIsPop DEF InnerPop
<1>2. CASE PopFails(p)
  BY <1>2 DEF PopFails, vars
<1>3. CASE LeafPop(p)
  BY <1>3, ClaimIsHonoured DEF LeafPop
<1>4. CASE FinishPop(p)
  <2>1. hand[p] \notin Used /\ hand[p] \in Ids
    BY <1>4 DEF FinishPop, Owned, InHand, Used
  <2>2. Cardinality(Used) \in Nat /\ Cardinality(Used) + 1 <= Capacity
    BY <2>1, UsedIds, IdSetChange
  <2>3. 0 <= size - 1 /\ size - 1 < Capacity
    BY <2>2, StackAssumption DEF SizeCounts
  <2> QED BY <1>4, <2>1, <2>3 DEF FinishPop
<1>5. ASSUME NEW q \in Procs, NEW id \in used[q], StartPush(p, q, id) PROVE AssertionsHold'
  <2>1. id \in Used /\ id \in Ids
    BY DEF Used
  <2>2. Cardinality(Used) \in Nat /\ Cardinality(Used) >= 1
    BY <2>1, UsedIds, IdSetChange
  <2>3. size + 1 <= Capacity
    BY <2>2, StackAssumption DEF SizeCounts
  <2> QED BY <1>5, <2>3 DEF StartPush
<1>6. CASE LeafPush(p)
  <2>1. hand[p] \notin leaf[LeafOf(hand[p])]
    BY <1>6 DEF LeafPush, Owned, InHand
  <2> QED BY <1>6, <2>1 DEF LeafPush
<1>7. CASE InnerPush(p)
  BY <1>7 DEF InnerPush
<1>8. CASE Kill(p)
  BY <1>8 DEF Kill
<1> QED BY <1>1, <1>2, <1>3, <1>4, <1>5, <1>6, <1>7, <1>8 DEF Act

-----------------------------------------------------------------------------
(* Owners of ids, and size_ *)

\* An id that moves has one owner before the step and one after it.
LEMMA OwnedStep == ASSUME IInv, NEW p \in Procs, Act(p) PROVE Owned'
<1> USE DEF IInv, TypeOK, Goto, Check, Forget
<1>1. CASE StartPop(p) \/ DescendPop(p)
  <2>1. PICK n \in Inner : InnerPop(p, n)
    BY <1>1, DescendIsPop
  <2>2. /\ leaf' = leaf /\ used' = used /\ hand' = hand
        /\ loc'[p] \in {"innerPop", "leafPop"} /\ \A q \in Procs \ {p} : loc'[q] = loc[q]
    BY <2>1 DEF InnerPop
  <2> QED BY <2>2 DEF Owned, InHand
<1>2. CASE PopFails(p)
  BY <1>2 DEF PopFails, vars, Owned, InHand
<1>3. CASE LeafPop(p)
  <2> DEFINE i == LowestBit(leaf[pos[p]])
  <2>1. leaf[pos[p]] # {} /\ pos[p] \in Leaves
    BY <1>3, ClaimIsHonoured DEF LeafPop
  <2>2. i \in leaf[pos[p]] /\ i \in Ids
    BY <2>1, LowestBitIsThere
  <2>3. LeafOf(i) = pos[p] /\ \A q \in Procs : i \notin used[q]
    BY <2>1, <2>2 DEF Owned
  <2> HIDE DEF i
  <2>4. /\ leaf' = [leaf EXCEPT ![pos[p]] = @ \ {i}] /\ hand' = [hand EXCEPT ![p] = i]
        /\ loc' = [loc EXCEPT ![p] = "shrink"] /\ used' = used
    BY <1>3, <2>1 DEF LeafPop, i
  <2>5. \A n \in Leaves : leaf'[n] \subseteq leaf[n]
    BY <2>1, <2>4
  <2>6. hand'[p] = i /\ \A q \in Procs \ {p} : hand'[q] = hand[q] /\ loc'[q] = loc[q]
    BY <2>2, <2>4
  <2>7. i \notin leaf'[pos[p]]
    BY <2>1, <2>4
  <2>8. \A q \in Procs \ {p} : InHand(q) => hand[q] # i
    BY <2>2, <2>3 DEF Owned
  <2>9. \A q \in Procs : LeafOf(hand[q]) \in Leaves
    BY IdsAreFinite
  <2>10. \A q \in Procs \ {p} : InHand(q)' <=> InHand(q)
    BY <2>6 DEF InHand
  <2>11. \A q \in Procs : InHand(q)' => hand'[q] \notin leaf'[LeafOf(hand'[q])]
    <3>1. SUFFICES ASSUME NEW q \in Procs, InHand(q)'
                   PROVE  hand'[q] \notin leaf'[LeafOf(hand'[q])]
      OBVIOUS
    <3>2. CASE q = p
      BY <3>2, <2>3, <2>6, <2>7
    <3>3. CASE q # p
      <4>1. hand[q] \notin leaf[LeafOf(hand[q])] /\ hand'[q] = hand[q]
        BY <3>1, <3>3, <2>6, <2>10 DEF Owned
      <4> QED BY <4>1, <2>5, <2>9
    <3> QED BY <3>2, <3>3
  <2>12. \A q \in Procs : InHand(q)' => \A r \in Procs : hand'[q] \notin used'[r]
    BY <2>3, <2>4, <2>6, <2>10 DEF Owned
  <2>13. \A q, r \in Procs : InHand(q)' /\ InHand(r)' /\ q # r => hand'[q] # hand'[r]
    BY <2>6, <2>8, <2>10 DEF Owned
  <2> QED BY <2>4, <2>5, <2>11, <2>12, <2>13 DEF Owned
<1>4. CASE FinishPop(p)
  <2> DEFINE i == hand[p]
  <2>1. /\ InHand(p) /\ leaf' = leaf /\ used' = [used EXCEPT ![p] = @ \cup {i}]
        /\ loc'[p] \notin {"shrink", "leafPush"}
        /\ \A q \in Procs \ {p} : loc'[q] = loc[q] /\ hand'[q] = hand[q]
    BY <1>4 DEF FinishPop, InHand, nodes
  <2>2. ~InHand(p)' /\ \A q \in Procs \ {p} : InHand(q)' <=> InHand(q)
    BY <2>1 DEF InHand
  <2>3. LeafOf(i) \in Leaves /\ i \in Ids
    BY IdsAreFinite
  <2>4. /\ i \notin leaf[LeafOf(i)] /\ \A q \in Procs : i \notin used[q]
        /\ \A q \in Procs \ {p} : InHand(q) => hand[q] # i
    BY <2>1 DEF Owned
  <2>5. \A n \in Leaves : i \notin leaf[n]
    BY <2>4 DEF Owned
  <2> HIDE DEF i
  <2>6. \A q \in Procs : used'[q] = IF q = p THEN used[q] \cup {i} ELSE used[q]
    BY <2>1
  <2> QED BY <2>1, <2>2, <2>4, <2>5, <2>6 DEF Owned
<1>5. ASSUME NEW r \in Procs, NEW i \in used[r], StartPush(p, r, i) PROVE Owned'
  <2>1. /\ leaf' = leaf /\ used' = [used EXCEPT ![r] = @ \ {i}]
        /\ loc'[p] \in {"leafPush", "assert"} /\ ~InHand(p) /\ hand'[p] = i
        /\ \A q \in Procs \ {p} : loc'[q] = loc[q] /\ hand'[q] = hand[q]
    BY <1>5 DEF StartPush, InHand, nodes
  <2>2. \A q \in Procs \ {p} : InHand(q)' <=> InHand(q)
    BY <2>1 DEF InHand
  <2>3. LeafOf(i) \in Leaves
    BY IdsAreFinite
  <2>4. /\ i \notin leaf[LeafOf(i)] /\ \A q \in Procs \ {r} : i \notin used[q]
        /\ \A q \in Procs : InHand(q) => hand[q] # i
    BY <2>3 DEF Owned
  <2>5. \A q \in Procs : used'[q] = IF q = r THEN used[q] \ {i} ELSE used[q]
    BY <2>1
  <2>6. \A q \in Procs : i \notin used'[q]
    BY <2>4, <2>5
  <2> QED BY <2>1, <2>2, <2>4, <2>5, <2>6 DEF Owned
<1>6. CASE LeafPush(p)
  <2> DEFINE i == hand[p]
             n == LeafOf(hand[p])
  <2>1. /\ InHand(p) /\ leaf' = [leaf EXCEPT ![n] = @ \cup {i}] /\ used' = used /\ hand' = hand
        /\ loc'[p] \notin {"shrink", "leafPush"}
        /\ \A q \in Procs \ {p} : loc'[q] = loc[q]
    BY <1>6 DEF LeafPush, InHand
  <2>2. ~InHand(p)' /\ \A q \in Procs \ {p} : InHand(q)' <=> InHand(q)
    BY <2>1 DEF InHand
  <2>3. n \in Leaves /\ LeafOf(i) = n
    BY IdsAreFinite
  <2>4. /\ \A q \in Procs : i \notin used[q]
        /\ \A q \in Procs \ {p} : InHand(q) => hand[q] # i
    BY <2>1 DEF Owned
  <2> HIDE DEF i, n
  <2>5. \A m \in Leaves : leaf'[m] = IF m = n THEN leaf[m] \cup {i} ELSE leaf[m]
    BY <2>1
  <2>6. \A q \in Procs : LeafOf(hand[q]) \in Leaves
    BY IdsAreFinite
  <2> QED BY <2>1, <2>2, <2>3, <2>4, <2>5, <2>6 DEF Owned
<1>7. CASE InnerPush(p)
  <2>1. /\ leaf' = leaf /\ used' = used /\ ~InHand(p) /\ ~InHand(p)'
        /\ \A q \in Procs \ {p} : loc'[q] = loc[q] /\ hand'[q] = hand[q]
    BY <1>7 DEF InnerPush, InHand
  <2> QED BY <2>1 DEF Owned, InHand
<1>8. CASE Kill(p)
  <2>1. /\ leaf' = leaf /\ used' = used /\ ~InHand(p)'
        /\ \A q \in Procs \ {p} : loc'[q] = loc[q] /\ hand'[q] = hand[q]
    BY <1>8 DEF Kill, InHand, nodes
  <2> QED BY <2>1 DEF Owned, InHand
<1> QED BY <1>1, <1>2, <1>3, <1>4, <1>5, <1>6, <1>7, <1>8 DEF Act

\* size_ counts the pages that are not in use.
LEMMA SizeStep == ASSUME IInv, NEW p \in Procs, Act(p) PROVE SizeCounts'
<1> USE DEF IInv, TypeOK
<1>1. CASE StartPop(p) \/ DescendPop(p)
  <2>1. PICK n \in Inner : InnerPop(p, n)
    BY <1>1, DescendIsPop
  <2> QED BY <2>1 DEF InnerPop, SizeCounts, Used
<1>2. CASE PopFails(p)
  BY <1>2 DEF PopFails, vars, SizeCounts, Used
<1>3. CASE LeafPop(p)
  BY <1>3 DEF LeafPop, SizeCounts, Used
<1>4. CASE FinishPop(p)
  <2>1. hand[p] \notin Used /\ hand[p] \in Ids
    BY <1>4 DEF FinishPop, Owned, InHand, Used
  <2>2. Used' = Used \cup {hand[p]}
    BY <1>4 DEF FinishPop, Used
  <2>3. Cardinality(Used') = Cardinality(Used) + 1 /\ Cardinality(Used) \in Nat
    BY <2>1, <2>2, UsedIds, IdSetChange
  <2>4. size' = size - 1
    BY <1>4 DEF FinishPop
  <2> QED BY <2>3, <2>4, StackAssumption DEF SizeCounts
<1>5. ASSUME NEW q \in Procs, NEW id \in used[q], StartPush(p, q, id) PROVE SizeCounts'
  <2>1. id \in Used /\ id \in Ids /\ \A r \in Procs \ {q} : id \notin used[r]
    BY DEF Used, Owned
  <2>2. used' = [used EXCEPT ![q] = @ \ {id}]
    BY <1>5 DEF StartPush
  <2>3. Used' = Used \ {id}
    BY <2>1, <2>2 DEF Used
  <2>4. Cardinality(Used') = Cardinality(Used) - 1 /\ Cardinality(Used) \in Nat
    BY <2>1, <2>3, UsedIds, IdSetChange
  <2>5. size' = size + 1
    BY <1>5 DEF StartPush
  <2> QED BY <2>4, <2>5, StackAssumption DEF SizeCounts
<1>6. CASE LeafPush(p)
  BY <1>6 DEF LeafPush, SizeCounts, Used
<1>7. CASE InnerPush(p)
  BY <1>7 DEF InnerPush, SizeCounts, Used
<1>8. CASE Kill(p)
  BY <1>8 DEF Kill, SizeCounts, Used
<1> QED BY <1>1, <1>2, <1>3, <1>4, <1>5, <1>6, <1>7, <1>8 DEF Act

-----------------------------------------------------------------------------
(* Counters *)

\* What the parent of n counts, and what n has
Promised(n) == count[Ascend(n)][AscendDirection(n)]

\* The invariant at node n
BackedAt(n) == Promised(n) + Cardinality(ClaimsAt(n)) <= Total(n)

\* What is counted are numbers.
LEMMA CountTypes ==
    ASSUME TypeOK, NEW n \in Nodes \ {Root}
    PROVE  Promised(n) \in Nat /\ Total(n) \in Nat /\ Cardinality(ClaimsAt(n)) \in Nat
<1>1. Promised(n) \in Nat
  BY Parent DEF TypeOK, Promised
<1>2. Total(n) \in Nat
  <2>1. CASE n \in Leaves
    <3>1. leaf[n] \in SUBSET Ids
      BY <2>1 DEF TypeOK
    <3> QED BY <2>1, <3>1, LeafNode, IdsAreFinite DEF Total
  <2>2. CASE n \in Inner
    <3>1. count[n][0] \in Nat /\ count[n][1] \in Nat
      BY <2>2 DEF TypeOK, Dirs
    <3> QED BY <2>2, <3>1, InnerNode DEF Total
  <2> QED BY <2>1, <2>2 DEF Nodes
<1>3. Cardinality(ClaimsAt(n)) \in Nat
  BY StackAssumption, FS_Subset, FS_CardinalityType DEF ClaimsAt
<1> QED BY <1>1, <1>2, <1>3

\* Only the process that makes the step joins or leaves a node.
LEMMA ClaimsChange ==
    ASSUME NEW n, NEW p \in Procs,
           \A q \in Procs \ {p} : loc'[q] = loc[q] /\ pos'[q] = pos[q]
    PROVE  /\ Cardinality(ClaimsAt(n)) \in Nat /\ Cardinality(ClaimsAt(n)') \in Nat
           /\ (p \in ClaimsAt(n) <=> p \in ClaimsAt(n)') =>
                  Cardinality(ClaimsAt(n)') = Cardinality(ClaimsAt(n))
           /\ p \notin ClaimsAt(n) /\ p \in ClaimsAt(n)' =>
                  Cardinality(ClaimsAt(n)') = Cardinality(ClaimsAt(n)) + 1
           /\ p \in ClaimsAt(n) /\ p \notin ClaimsAt(n)' =>
                  Cardinality(ClaimsAt(n)') = Cardinality(ClaimsAt(n)) - 1
<1> DEFINE S == ClaimsAt(n)
           T == ClaimsAt(n)'
<1>1. S \in SUBSET Procs /\ T \in SUBSET Procs
  BY DEF ClaimsAt
<1>2. \A q \in Procs \ {p} : q \in S <=> q \in T
  BY DEF ClaimsAt
<1> HIDE DEF S, T
<1>3. /\ Cardinality(S) \in Nat /\ Cardinality(T) \in Nat
      /\ (p \in S <=> p \in T) => Cardinality(T) = Cardinality(S)
      /\ p \notin S /\ p \in T => Cardinality(T) = Cardinality(S) + 1
      /\ p \in S /\ p \notin T => Cardinality(T) = Cardinality(S) - 1
  BY <1>1, <1>2, ProcSetChange
<1> QED BY <1>3 DEF S, T

\* A counter of m with the direction d is what is promised to that child of m, and
\* part of the total of m.
LEMMA CounterChange ==
    ASSUME TypeOK, NEW m \in Inner, NEW d \in Dirs, NEW v \in Nat, leaf' = leaf,
           count' = [count EXCEPT ![m][d] = v],
           NEW n \in Nodes \ {Root}
    PROVE  /\ n = Append(m, d) => Promised(n)' = v /\ Promised(n) = count[m][d]
           /\ n # Append(m, d) => Promised(n)' = Promised(n)
           /\ n = m => Total(n)' = Total(n) + v - count[m][d]
           /\ n # m => Total(n)' = Total(n)
<1>1. /\ \A a \in Inner : \A e \in Dirs :
             count'[a][e] = IF a = m /\ e = d THEN v ELSE count[a][e]
  BY DEF TypeOK
<1>2. Ascend(n) \in Inner /\ AscendDirection(n) \in Dirs /\ n = Append(Ascend(n), AscendDirection(n))
  BY Parent
<1>3. Ascend(Append(m, d)) = m /\ AscendDirection(Append(m, d)) = d
  BY Child
<1>4. Promised(n)' = count'[Ascend(n)][AscendDirection(n)]
  BY DEF Promised, Ascend, AscendDirection
<1>5. n = Append(m, d) => Promised(n)' = v /\ Promised(n) = count[m][d]
  BY <1>1, <1>3, <1>4 DEF Promised
<1>6. n # Append(m, d) => Promised(n)' = Promised(n)
  BY <1>1, <1>2, <1>4 DEF Promised
<1>7. CASE n \in Leaves
  <2>1. Total(n)' = Total(n) /\ n # m
    BY <1>7, LeafNode, LeafIsNotInner DEF Total
  <2> QED BY <2>1, <1>5, <1>6
<1>8. CASE n \in Inner
  <2>1. Len(n) # InnerLevels
    BY <1>8, InnerNode
  <2>2. Total(n) = count[n][0] + count[n][1] /\ Total(n)' = count'[n][0] + count'[n][1]
    BY <2>1 DEF Total
  <2>3. count[n][0] \in Nat /\ count[n][1] \in Nat
    BY <1>8 DEF TypeOK, Dirs
  <2>4. n # m => count'[n][0] = count[n][0] /\ count'[n][1] = count[n][1]
    BY <1>1, <1>8 DEF Dirs
  <2>5. n = m /\ d = 0 => count'[n][0] = v /\ count'[n][1] = count[n][1]
    BY <1>1, <1>8 DEF Dirs
  <2>6. n = m /\ d = 1 => count'[n][0] = count[n][0] /\ count'[n][1] = v
    BY <1>1, <1>8 DEF Dirs
  <2>7. d = 0 \/ d = 1
    BY DEF Dirs
  <2>8. n # m => Total(n)' = Total(n)
    BY <2>2, <2>4
  <2>9. n = m => Total(n)' = Total(n) + v - count[m][d]
    BY <2>2, <2>3, <2>5, <2>6, <2>7
  <2> QED BY <1>5, <1>6, <2>8, <2>9
<1> QED BY <1>7, <1>8 DEF Nodes

\* A change of a leaf changes the total of the leaf.
LEMMA LeafChange ==
    ASSUME TypeOK, NEW m \in Leaves, NEW S \in SUBSET Ids, count' = count,
           leaf' = [leaf EXCEPT ![m] = S],
           NEW n \in Nodes \ {Root}
    PROVE  /\ Promised(n)' = Promised(n)
           /\ n # m => Total(n)' = Total(n)
           /\ n = m => Total(n) = Cardinality(leaf[m]) /\ Total(n)' = Cardinality(S)
<1>1. Promised(n)' = Promised(n)
  BY DEF Promised, Ascend, AscendDirection
<1>2. CASE n \in Leaves
  <2>1. Len(n) = InnerLevels
    BY <1>2, LeafNode
  <2>2. leaf'[n] = IF n = m THEN S ELSE leaf[n]
    BY <1>2 DEF TypeOK
  <2> QED BY <1>1, <2>1, <2>2 DEF Total
<1>3. CASE n \in Inner
  <2>1. Len(n) # InnerLevels /\ n # m
    BY <1>3, InnerNode, LeafIsNotInner
  <2> QED BY <1>1, <2>1 DEF Total
<1> QED BY <1>2, <1>3 DEF Nodes

\* No step makes a counter promise more than there is.
LEMMA BackedStep == ASSUME IInv, NEW p \in Procs, Act(p) PROVE CountsAreBacked'
<1>0. SUFFICES ASSUME NEW n \in Nodes \ {Root} PROVE BackedAt(n)'
  BY DEF CountsAreBacked, BackedAt, Promised, Ascend, AscendDirection, Root
<1>a. BackedAt(n) /\ TypeOK /\ Places
  BY DEF IInv, CountsAreBacked, BackedAt, Promised
<1>b. Promised(n) \in Nat /\ Total(n) \in Nat /\ Cardinality(ClaimsAt(n)) \in Nat
  BY <1>a, CountTypes
<1>c. BackedAt(n)' <=> Promised(n)' + Cardinality(ClaimsAt(n)') <= Total(n)'
  BY DEF BackedAt
<1>d. BackedAt(n) <=> Promised(n) + Cardinality(ClaimsAt(n)) <= Total(n)
  BY DEF BackedAt
<1>e. ASSUME count' = count, leaf' = leaf PROVE Promised(n)' = Promised(n) /\ Total(n)' = Total(n)
  BY <1>e DEF Promised, Total, Ascend, AscendDirection
<1> USE DEF TypeOK, Goto, Check, Forget
<1>1. CASE StartPop(p) \/ DescendPop(p)
  <2>1. PICK m \in Inner : /\ InnerPop(p, m) /\ HasIds(m)
                           /\ \/ loc[p] = "idle" /\ m = Root
                              \/ loc[p] = "innerPop" /\ m = pos[p] /\ m # Root
    BY <1>1, <1>a, DescendIsPop DEF IInv
  <2> DEFINE d == PopDirection(m)
             c == Append(m, d)
  <2>2. d \in Dirs /\ count[m][d] \in Nat \ {0}
    BY <2>1, <1>a, PopIsBacked
  <2>3. c \in Nodes \ {Root} /\ c # m
    BY <2>2, Child
  <2>4. count' = [count EXCEPT ![m][d] = count[m][d] - 1] /\ leaf' = leaf
    BY <2>1 DEF InnerPop
  <2>5. count[m][d] - 1 \in Nat
    BY <2>2
  <2> HIDE DEF d
  <2>9. /\ n = c => Promised(n)' = count[m][d] - 1 /\ Promised(n) = count[m][d]
        /\ n # c => Promised(n)' = Promised(n)
        /\ n = m => Total(n)' = Total(n) + (count[m][d] - 1) - count[m][d]
        /\ n # m => Total(n)' = Total(n)
    <3> HIDE DEF TypeOK
    <3> QED BY <2>2, <2>4, <2>5, <1>a, CounterChange
  <2>6. /\ \A q \in Procs \ {p} : loc'[q] = loc[q] /\ pos'[q] = pos[q]
        /\ loc'[p] \in {"innerPop", "leafPop"} /\ pos'[p] = c
    BY <2>1, <1>a DEF InnerPop, d
  <2> HIDE DEF c
  <2>7. /\ p \in ClaimsAt(n)' <=> n = c
        /\ p \in ClaimsAt(n) <=> n = m
    BY <2>1, <2>6 DEF ClaimsAt
  <2>8. /\ n = c => Cardinality(ClaimsAt(n)') = Cardinality(ClaimsAt(n)) + 1
        /\ n = m => Cardinality(ClaimsAt(n)') = Cardinality(ClaimsAt(n)) - 1
        /\ n # c /\ n # m => Cardinality(ClaimsAt(n)') = Cardinality(ClaimsAt(n))
    BY <2>3, <2>6, <2>7, ClaimsChange
  <2> QED BY <2>2, <2>3, <2>9, <2>8, <1>a, <1>b, <1>c, <1>d
<1>2. CASE PopFails(p)
  BY <1>2, <1>a DEF PopFails, vars, BackedAt, Promised, Total, ClaimsAt, Ascend, AscendDirection
<1>3. CASE LeafPop(p)
  <2> DEFINE m == pos[p]
             i == LowestBit(leaf[m])
  <2>1. leaf[m] # {} /\ m \in Leaves /\ leaf[m] \in SUBSET Ids
    BY <1>3, <1>a, ClaimIsHonoured DEF LeafPop, IInv
  <2>2. i \in leaf[m]
    BY <2>1, LowestBitIsThere
  <2>3. /\ leaf' = [leaf EXCEPT ![m] = leaf[m] \ {i}] /\ count' = count
        /\ loc' = [loc EXCEPT ![p] = "shrink"] /\ pos' = pos
    BY <1>3, <2>1 DEF LeafPop
  <2>4. /\ \A q \in Procs \ {p} : loc'[q] = loc[q] /\ pos'[q] = pos[q]
        /\ p \notin ClaimsAt(n)'
        /\ p \in ClaimsAt(n) <=> n = m
    BY <1>3, <2>3, <1>a DEF ClaimsAt, LeafPop
  <2>5. Cardinality(leaf[m] \ {i}) = Cardinality(leaf[m]) - 1 /\ Cardinality(leaf[m]) \in Nat
    BY <2>1, <2>2, IdSetChange
  <2> HIDE DEF i, m
  <2>6. leaf[m] \ {i} \in SUBSET Ids
    BY <2>1
  <2>7. /\ Promised(n)' = Promised(n)
        /\ n # m => Total(n)' = Total(n)
        /\ n = m => Total(n) = Cardinality(leaf[m]) /\ Total(n)' = Cardinality(leaf[m] \ {i})
    BY <2>1, <2>3, <2>6, <1>a, LeafChange
  <2>8. /\ n = m => Cardinality(ClaimsAt(n)') = Cardinality(ClaimsAt(n)) - 1
        /\ n # m => Cardinality(ClaimsAt(n)') = Cardinality(ClaimsAt(n))
    BY <2>4, ClaimsChange
  <2> QED BY <2>5, <2>7, <2>8, <1>a, <1>b, <1>c, <1>d
<1>4. CASE FinishPop(p)
  <2>1. /\ \A q \in Procs \ {p} : loc'[q] = loc[q] /\ pos'[q] = pos[q]
        /\ p \notin ClaimsAt(n) /\ p \notin ClaimsAt(n)'
        /\ count' = count /\ leaf' = leaf
    BY <1>4, <1>a DEF FinishPop, nodes, ClaimsAt
  <2>2. Cardinality(ClaimsAt(n)') = Cardinality(ClaimsAt(n))
    BY <2>1, ClaimsChange
  <2> QED BY <2>1, <2>2, <1>a, <1>b, <1>c, <1>d, <1>e
<1>5. ASSUME NEW q \in Procs, NEW id \in used[q], StartPush(p, q, id) PROVE BackedAt(n)'
  <2>1. /\ \A r \in Procs \ {p} : loc'[r] = loc[r] /\ pos'[r] = pos[r]
        /\ p \notin ClaimsAt(n) /\ p \notin ClaimsAt(n)'
        /\ count' = count /\ leaf' = leaf
    BY <1>5, <1>a DEF StartPush, nodes, ClaimsAt
  <2>2. Cardinality(ClaimsAt(n)') = Cardinality(ClaimsAt(n))
    BY <2>1, ClaimsChange
  <2> QED BY <2>1, <2>2, <1>a, <1>b, <1>c, <1>d, <1>e
<1>6. CASE LeafPush(p)
  <2> DEFINE i == hand[p]
             m == LeafOf(i)
  <2>1. i \in Ids /\ m \in Leaves /\ leaf[m] \in SUBSET Ids
    BY <1>a, IdsAreFinite
  <2>2. i \notin leaf[m]
    BY <1>6 DEF IInv, Owned, InHand, LeafPush
  <2>3. leaf' = [leaf EXCEPT ![m] = leaf[m] \cup {i}] /\ count' = count
    BY <1>6 DEF LeafPush
  <2>4. /\ \A q \in Procs \ {p} : loc'[q] = loc[q] /\ pos'[q] = pos[q]
        /\ p \notin ClaimsAt(n)
        /\ loc'[p] = "innerPush" /\ pos'[p] = m
    BY <1>6, <1>a, <2>2 DEF ClaimsAt, LeafPush
  <2>5. Cardinality(leaf[m] \cup {i}) = Cardinality(leaf[m]) + 1 /\ Cardinality(leaf[m]) \in Nat
    BY <2>1, <2>2, IdSetChange
  <2> HIDE DEF m
  <2>6. leaf[m] \cup {i} \in SUBSET Ids
    BY <2>1
  <2> HIDE DEF i
  <2>7. /\ Promised(n)' = Promised(n)
        /\ n # m => Total(n)' = Total(n)
        /\ n = m => Total(n) = Cardinality(leaf[m]) /\ Total(n)' = Cardinality(leaf[m] \cup {i})
    BY <2>1, <2>3, <2>6, <1>a, LeafChange
  <2>8. p \in ClaimsAt(n)' <=> n = m
    BY <2>4 DEF ClaimsAt
  <2>9. /\ n = m => Cardinality(ClaimsAt(n)') = Cardinality(ClaimsAt(n)) + 1
        /\ n # m => Cardinality(ClaimsAt(n)') = Cardinality(ClaimsAt(n))
    BY <2>4, <2>8, ClaimsChange
  <2> QED BY <2>5, <2>7, <2>9, <1>a, <1>b, <1>c, <1>d
<1>7. CASE InnerPush(p)
  <2> DEFINE c == pos[p]
             m == Ascend(c)
             d == AscendDirection(c)
  <2>1. loc[p] = "innerPush" /\ c \in Nodes \ {Root}
    BY <1>7, <1>a DEF InnerPush, Places
  <2>2. m \in Inner /\ d \in Dirs /\ c = Append(m, d) /\ m # c
    BY <2>1, Parent
  <2>3. count[m][d] \in Nat /\ count[m][d] + 1 \in Nat
    BY <2>2, <1>a
  <2>4. count' = [count EXCEPT ![m][d] = count[m][d] + 1] /\ leaf' = leaf
    BY <1>7 DEF InnerPush
  <2>5. /\ \A q \in Procs \ {p} : loc'[q] = loc[q] /\ pos'[q] = pos[q]
        /\ loc'[p] = IF m = Root THEN "idle" ELSE "innerPush"
        /\ pos'[p] = m
    BY <1>7, <1>a DEF InnerPush
  <2>6. p \in ClaimsAt(n) <=> n = c
    BY <2>1 DEF ClaimsAt
  <2> HIDE DEF c, m, d
  <2>7. p \in ClaimsAt(n)' <=> n = m
    BY <2>5 DEF ClaimsAt
  <2>8. /\ n = c => Promised(n)' = count[m][d] + 1 /\ Promised(n) = count[m][d]
        /\ n # c => Promised(n)' = Promised(n)
        /\ n = m => Total(n)' = Total(n) + (count[m][d] + 1) - count[m][d]
        /\ n # m => Total(n)' = Total(n)
    <3> HIDE DEF TypeOK
    <3>1. m \in Inner /\ d \in Dirs
      BY <2>2
    <3>2. /\ n = Append(m, d) => Promised(n)' = count[m][d] + 1 /\ Promised(n) = count[m][d]
          /\ n # Append(m, d) => Promised(n)' = Promised(n)
          /\ n = m => Total(n)' = Total(n) + (count[m][d] + 1) - count[m][d]
          /\ n # m => Total(n)' = Total(n)
      BY <3>1, <2>3, <2>4, <1>a, CounterChange
    <3> QED BY <2>2, <3>2
  <2>9. /\ n = c => Cardinality(ClaimsAt(n)') = Cardinality(ClaimsAt(n)) - 1
        /\ n = m => Cardinality(ClaimsAt(n)') = Cardinality(ClaimsAt(n)) + 1
        /\ n # c /\ n # m => Cardinality(ClaimsAt(n)') = Cardinality(ClaimsAt(n))
    BY <2>2, <2>5, <2>6, <2>7, ClaimsChange
  <2> QED BY <2>2, <2>3, <2>8, <2>9, <1>a, <1>b, <1>c, <1>d
<1>8. CASE Kill(p)
  <2>1. /\ \A q \in Procs \ {p} : loc'[q] = loc[q] /\ pos'[q] = pos[q]
        /\ p \notin ClaimsAt(n)'
        /\ count' = count /\ leaf' = leaf
    BY <1>8, <1>a DEF Kill, nodes, ClaimsAt
  <2>2. \/ Cardinality(ClaimsAt(n)') = Cardinality(ClaimsAt(n))
        \/ Cardinality(ClaimsAt(n)') = Cardinality(ClaimsAt(n)) - 1
    BY <2>1, ClaimsChange
  <2> QED BY <2>1, <2>2, <1>a, <1>b, <1>c, <1>d, <1>e
<1> QED BY <1>1, <1>2, <1>3, <1>4, <1>5, <1>6, <1>7, <1>8 DEF Act

-----------------------------------------------------------------------------
(* Theorems *)

\* Stuttering changes nothing.
LEMMA StutterInv == IInv /\ UNCHANGED vars => IInv'
BY DEF IInv, vars, TypeOK, Places, AssertionsHold, Owned, InHand, SizeCounts, Used,
       CountsAreBacked, ClaimsAt, Total, Ascend, AscendDirection, Root

\* The invariant is inductive.
THEOREM Invariance == Spec => []IInv
<1>1. IInv /\ [Next]_vars => IInv'
  <2>1. ASSUME IInv, NEW p \in Procs, Act(p) PROVE IInv'
    BY <2>1, TypeStep, PlacesStep, AssertionsStep, OwnedStep, SizeStep, BackedStep DEF IInv
  <2>2. Next => \E p \in Procs : Act(p)
    BY DEF Next, Act
  <2> QED BY <2>1, <2>2, StutterInv
<1> QED BY <1>1, InitInv, PTL DEF Spec

\* Counters never go below zero and processes stay within the tree.
THEOREM TypeCorrectness == Spec => []TypeOK
BY Invariance, PTL DEF IInv

\* No counter promises an id that is not there, whatever pops and pushes overlap and
\* whoever is killed.
THEOREM CountsBacked == Spec => []CountsAreBacked
BY Invariance, PTL DEF IInv

\* No assertion of pop() and push() fails.
THEOREM NoAssertionFails == Spec => []AssertionsHold
BY Invariance, PTL DEF IInv

\* pop() hands out free pages only: FinishPop() takes a page, StartPush() puts it back.
THEOREM Refinement == Spec => ImplementsFreePages
<1>1. Init => Promise!Init
  BY DEF Init, Promise!Init
<1>2. IInv /\ [Next]_vars => [Promise!Next]_used
  <2>1. ASSUME IInv, NEW p \in Procs, Act(p) PROVE Promise!Next \/ used' = used
    <3>1. CASE FinishPop(p)
      <4>1. hand[p] \in Ids /\ \A q \in Procs : hand[p] \notin used[q]
        BY <2>1, <3>1 DEF IInv, TypeOK, Owned, InHand, FinishPop
      <4>2. Promise!Take(p, hand[p])
        BY <3>1, <4>1 DEF FinishPop, Promise!Take
      <4> QED BY <4>1, <4>2 DEF Promise!Next
    <3>2. ASSUME NEW q \in Procs, NEW id \in used[q], StartPush(p, q, id) PROVE Promise!Next
      <4>1. id \in Ids
        BY <2>1 DEF IInv, TypeOK
      <4>2. Promise!PutBack(q, id)
        BY <3>2 DEF StartPush, Promise!PutBack
      <4> QED BY <4>1, <4>2 DEF Promise!Next
    <3>3. CASE StartPop(p) \/ DescendPop(p) \/ PopFails(p)
      BY <3>3 DEF StartPop, DescendPop, InnerPop, PopFails, vars
    <3>4. CASE LeafPop(p) \/ LeafPush(p) \/ InnerPush(p) \/ Kill(p)
      BY <3>4 DEF LeafPop, LeafPush, InnerPush, Kill
    <3> QED BY <2>1, <3>1, <3>2, <3>3, <3>4 DEF Act
  <2>2. Next => \E p \in Procs : Act(p)
    BY DEF Next, Act
  <2>3. UNCHANGED vars => used' = used
    BY DEF vars
  <2> QED BY <2>1, <2>2, <2>3
<1> QED BY <1>1, <1>2, Invariance, PTL DEF Spec, ImplementsFreePages, Promise!Spec

-----------------------------------------------------------------------------
(* Pages are not lost *)

\* Processes in the middle of a pop() or a push()
Busy == {p \in Procs : loc[p] # "idle"}

\* While nobody was killed, a page that size_ counts is counted by the root, or is
\* claimed by a pop() that did not decrement size_ yet, or is carried by a push() that
\* did not reach the root yet.
RootCounts == kills = 0 => Total(Root) + Cardinality(Busy) = size

\* The total of the root is the sum of its counters.
LEMMA RootTotal ==
    ASSUME TypeOK
    PROVE  /\ Total(Root) = count[Root][0] + count[Root][1]
           /\ count[Root][0] \in Nat /\ count[Root][1] \in Nat
<1>1. Root \in Inner /\ Len(Root) # InnerLevels
  BY RootIsInner, InnerNode
<1>2. count[Root][0] \in Nat /\ count[Root][1] \in Nat
  BY <1>1 DEF TypeOK, Dirs
<1> QED BY <1>1, <1>2 DEF Total

\* A counter below the root is not part of it.
LEMMA RootChange ==
    ASSUME TypeOK, TypeOK', NEW m \in Inner, NEW d \in Dirs, NEW v \in Nat,
           count' = [count EXCEPT ![m][d] = v]
    PROVE  /\ m = Root => Total(Root)' = Total(Root) + v - count[m][d]
           /\ m # Root => Total(Root)' = Total(Root)
<1>1. \A e \in Dirs : count'[Root][e] = IF m = Root /\ e = d THEN v ELSE count[Root][e]
  BY RootIsInner DEF TypeOK
<1>2. Total(Root)' = count'[Root][0] + count'[Root][1]
  <2>1. Len(Root) # InnerLevels
    BY RootIsInner, InnerNode
  <2> QED BY <2>1 DEF Total, Root
<1>3. /\ Total(Root) = count[Root][0] + count[Root][1]
      /\ count[Root][0] \in Nat /\ count[Root][1] \in Nat
  BY RootTotal
<1>4. m # Root => count'[Root][0] = count[Root][0] /\ count'[Root][1] = count[Root][1]
  BY <1>1 DEF Dirs
<1>5. m = Root /\ d = 0 => count'[Root][0] = v /\ count'[Root][1] = count[Root][1]
  BY <1>1 DEF Dirs
<1>6. m = Root /\ d = 1 => count'[Root][0] = count[Root][0] /\ count'[Root][1] = v
  BY <1>1 DEF Dirs
<1>7. d = 0 \/ d = 1
  BY DEF Dirs
<1>8. m # Root => Total(Root)' = Total(Root)
  BY <1>2, <1>3, <1>4
<1>9. m = Root => Total(Root)' = Total(Root) + v - count[m][d]
  BY <1>2, <1>3, <1>5, <1>6, <1>7
<1> QED BY <1>8, <1>9

\* Only the process that makes the step starts or ends an operation.
LEMMA BusyChange ==
    ASSUME NEW p \in Procs, \A q \in Procs \ {p} : loc'[q] = loc[q]
    PROVE  /\ Cardinality(Busy) \in Nat
           /\ (loc[p] = "idle" <=> loc'[p] = "idle") => Cardinality(Busy)' = Cardinality(Busy)
           /\ loc[p] = "idle" /\ loc'[p] # "idle" => Cardinality(Busy)' = Cardinality(Busy) + 1
           /\ loc[p] # "idle" /\ loc'[p] = "idle" => Cardinality(Busy)' = Cardinality(Busy) - 1
<1>1. Busy \in SUBSET Procs /\ Busy' \in SUBSET Procs
  BY DEF Busy
<1>2. \A q \in Procs \ {p} : q \in Busy <=> q \in Busy'
  BY DEF Busy
<1>3. /\ Cardinality(Busy) \in Nat /\ Cardinality(Busy') \in Nat
      /\ (p \in Busy <=> p \in Busy') => Cardinality(Busy') = Cardinality(Busy)
      /\ p \notin Busy /\ p \in Busy' => Cardinality(Busy') = Cardinality(Busy) + 1
      /\ p \in Busy /\ p \notin Busy' => Cardinality(Busy') = Cardinality(Busy) - 1
  <2> DEFINE S == Busy
             T == Busy'
  <2> HIDE DEF S, T
  <2>1. S \in SUBSET Procs /\ T \in SUBSET Procs /\ \A q \in Procs \ {p} : q \in S <=> q \in T
    BY <1>1, <1>2 DEF S, T
  <2>2. /\ Cardinality(S) \in Nat /\ Cardinality(T) \in Nat
        /\ (p \in S <=> p \in T) => Cardinality(T) = Cardinality(S)
        /\ p \notin S /\ p \in T => Cardinality(T) = Cardinality(S) + 1
        /\ p \in S /\ p \notin T => Cardinality(T) = Cardinality(S) - 1
    BY <2>1, ProcSetChange
  <2> QED BY <2>2 DEF S, T
<1>4. (p \in Busy <=> loc[p] # "idle") /\ (p \in Busy' <=> loc'[p] # "idle")
  BY DEF Busy
<1> QED BY <1>3, <1>4

\* The full stack has every page at the root.
LEMMA RootInit == Init => RootCounts
<1> SUFFICES ASSUME Init PROVE RootCounts
  OBVIOUS
<1>1. Busy = {}
  BY DEF Init, Busy
<1>2. Total(Root) = Cardinality(IdsBelow(Root))
  <2>1. /\ count[Root][0] = Cardinality(IdsBelow(Append(Root, 0)))
        /\ count[Root][1] = Cardinality(IdsBelow(Append(Root, 1)))
    BY RootIsInner DEF Init, Dirs
  <2>2. Len(Root) # InnerLevels
    BY RootIsInner, InnerNode
  <2> QED BY <2>1, <2>2, RootIsInner, IdsSplit DEF Total
<1>3. IdsBelow(Root) = Ids
  <2>1. DOMAIN Root = {}
    <3>1. Root \in Seq(Dirs) /\ Len(Root) = 0
      BY EmptySeq DEF Root
    <3>2. DOMAIN Root = 1..0
      BY <3>1, LenProperties
    <3> QED BY <3>2
  <2> QED BY <2>1 DEF IdsBelow
<1>4. size = Capacity
  BY DEF Init
<1> QED BY <1>1, <1>2, <1>3, <1>4, IdsAreFinite, FS_EmptySet, StackAssumption DEF RootCounts

\* No step loses a page, unless it kills a process.
LEMMA RootStep == ASSUME IInv, RootCounts, IInv', NEW p \in Procs, Act(p) PROVE RootCounts'
<1>0. SUFFICES ASSUME kills' = 0 PROVE Total(Root)' + Cardinality(Busy)' = size'
  BY DEF RootCounts
<1>a. TypeOK /\ TypeOK' /\ Places /\ AssertionsHold /\ AssertionsHold' /\ CountsAreBacked
  BY DEF IInv
<1>b. Total(Root) \in Nat /\ size \in Int
  <2>1. size \in Int
    BY <1>a DEF TypeOK
  <2> QED BY <2>1, <1>a, RootTotal
<1>c. Cardinality(Busy) \in Nat
  BY StackAssumption, FS_Subset, FS_CardinalityType DEF Busy
<1>d. kills = 0 => Total(Root) + Cardinality(Busy) = size
  BY DEF RootCounts
<1>e. count' = count => Total(Root)' = Total(Root)
  <2>1. Len(Root) # InnerLevels
    BY RootIsInner, InnerNode
  <2> QED BY <2>1 DEF Total, Root
<1>t. loc \in [Procs -> Locations]
  BY <1>a DEF TypeOK
<1>1. CASE StartPop(p) \/ DescendPop(p)
  <2>1. PICK m \in Inner : /\ InnerPop(p, m) /\ HasIds(m)
                           /\ \/ loc[p] = "idle" /\ m = Root
                              \/ loc[p] = "innerPop" /\ m = pos[p] /\ m # Root
    BY <1>1, <1>a, DescendIsPop
  <2>2. PICK d \in Dirs : d = PopDirection(m) /\ count[m][d] \in Nat \ {0}
    BY <2>1, <1>a, PopIsBacked
  <2>3. count' = [count EXCEPT ![m][d] = count[m][d] - 1] /\ size' = size /\ kills' = kills
    BY <2>1, <2>2 DEF InnerPop
  <2>4. /\ \A q \in Procs \ {p} : loc'[q] = loc[q]
        /\ loc'[p] # "idle"
    BY <2>1, <1>t DEF InnerPop, Goto
  <2>5. PICK v \in Nat : v = count[m][d] - 1
    BY <2>2
  <2>6. count' = [count EXCEPT ![m][d] = v]
    BY <2>3, <2>5
  <2>7. /\ m = Root => Total(Root)' = Total(Root) + v - count[m][d]
        /\ m # Root => Total(Root)' = Total(Root)
    BY <2>6, <1>a, RootChange
  <2>8. CASE m = Root
    <3>1. Total(Root)' = Total(Root) - 1
      BY <2>7, <2>8, <2>5, <2>2, <1>b
    <3>2. Cardinality(Busy)' = Cardinality(Busy) + 1
      BY <2>1, <2>4, <2>8, BusyChange
    <3> QED BY <3>1, <3>2, <2>3, <1>0, <1>b, <1>c, <1>d
  <2>9. CASE m # Root
    <3>1. loc[p] # "idle"
      BY <2>1, <2>9
    <3>2. Cardinality(Busy)' = Cardinality(Busy)
      BY <3>1, <2>4, BusyChange
    <3> QED BY <3>2, <2>7, <2>9, <2>3, <1>0, <1>b, <1>c, <1>d
  <2> QED BY <2>8, <2>9
<1>2. CASE PopFails(p)
  <2>1. count' = count /\ size' = size /\ kills' = kills /\ loc' = loc
    BY <1>2 DEF PopFails, vars
  <2>2. Busy' = Busy
    BY <2>1 DEF Busy
  <2> QED BY <2>1, <2>2, <1>0, <1>d, <1>e
<1>3. CASE LeafPop(p)
  <2>1. count' = count /\ size' = size /\ kills' = kills /\ loc[p] # "idle"
    BY <1>3 DEF LeafPop
  <2>2. (\A q \in Procs \ {p} : loc'[q] = loc[q]) /\ loc'[p] # "idle"
    BY <1>3, <1>t DEF LeafPop, Goto
  <2>3. Cardinality(Busy)' = Cardinality(Busy)
    BY <2>1, <2>2, BusyChange
  <2> QED BY <2>1, <2>3, <1>0, <1>d, <1>e
<1>4. CASE FinishPop(p)
  <2>1. count' = count /\ size' = size - 1 /\ kills' = kills /\ loc[p] # "idle"
    BY <1>4 DEF FinishPop, nodes
  <2>2. /\ \A q \in Procs \ {p} : loc'[q] = loc[q]
        /\ loc'[p] \in {"idle", "assert"}
    BY <1>4, <1>t DEF FinishPop, Check, Goto
  <2>3. loc'[p] # "assert"
    BY <1>a DEF AssertionsHold
  <2>4. Cardinality(Busy)' = Cardinality(Busy) - 1
    BY <2>1, <2>2, <2>3, BusyChange
  <2> QED BY <2>1, <2>4, <1>0, <1>b, <1>c, <1>d, <1>e
<1>5. ASSUME NEW q \in Procs, NEW id \in used[q], StartPush(p, q, id)
      PROVE  Total(Root)' + Cardinality(Busy)' = size'
  <2>1. count' = count /\ size' = size + 1 /\ kills' = kills /\ loc[p] = "idle"
    BY <1>5 DEF StartPush, nodes
  <2>2. (\A r \in Procs \ {p} : loc'[r] = loc[r]) /\ loc'[p] # "idle"
    BY <1>5, <1>t DEF StartPush, Check, Goto
  <2>3. Cardinality(Busy)' = Cardinality(Busy) + 1
    BY <2>1, <2>2, BusyChange
  <2> QED BY <2>1, <2>3, <1>0, <1>b, <1>c, <1>d, <1>e
<1>6. CASE LeafPush(p)
  <2>1. count' = count /\ size' = size /\ kills' = kills /\ loc[p] # "idle"
    BY <1>6 DEF LeafPush
  <2>2. (\A q \in Procs \ {p} : loc'[q] = loc[q]) /\ loc'[p] # "idle"
    BY <1>6, <1>t DEF LeafPush, Check, Goto
  <2>3. Cardinality(Busy)' = Cardinality(Busy)
    BY <2>1, <2>2, BusyChange
  <2> QED BY <2>1, <2>3, <1>0, <1>d, <1>e
<1>7. CASE InnerPush(p)
  <2>1. /\ loc[p] = "innerPush" /\ size' = size /\ kills' = kills
        /\ count' = [count EXCEPT ![Ascend(pos[p])][AscendDirection(pos[p])] =
                        count[Ascend(pos[p])][AscendDirection(pos[p])] + 1]
    BY <1>7 DEF InnerPush
  <2>2. PICK m \in Inner, d \in Dirs : /\ m = Ascend(pos[p]) /\ d = AscendDirection(pos[p])
                                       /\ count[m][d] \in Nat
    BY <2>1, <1>a, PushIsBacked
  <2>3. PICK v \in Nat : v = count[m][d] + 1
    BY <2>2
  <2>4. count' = [count EXCEPT ![m][d] = v]
    BY <2>1, <2>2, <2>3
  <2>5. /\ m = Root => Total(Root)' = Total(Root) + v - count[m][d]
        /\ m # Root => Total(Root)' = Total(Root)
    BY <2>4, <1>a, RootChange
  <2>6. /\ \A q \in Procs \ {p} : loc'[q] = loc[q]
        /\ loc'[p] = IF m = Root THEN "idle" ELSE "innerPush"
    BY <1>7, <1>t, <2>2 DEF InnerPush, Goto
  <2>7. CASE m = Root
    <3>1. Total(Root)' = Total(Root) + 1
      BY <2>5, <2>7, <2>3, <2>2, <1>b
    <3>2. Cardinality(Busy)' = Cardinality(Busy) - 1
      BY <2>1, <2>6, <2>7, BusyChange
    <3> QED BY <3>1, <3>2, <2>1, <1>0, <1>b, <1>c, <1>d
  <2>8. CASE m # Root
    <3>1. Cardinality(Busy)' = Cardinality(Busy)
      BY <2>1, <2>6, <2>8, BusyChange
    <3> QED BY <3>1, <2>5, <2>8, <2>1, <1>0, <1>d
  <2> QED BY <2>7, <2>8
<1>8. CASE Kill(p)
  <2>1. kills \in Nat /\ kills' = kills + 1
    BY <1>8, <1>a DEF Kill, TypeOK
  <2> QED BY <2>1, <1>0
<1> QED BY <1>1, <1>2, <1>3, <1>4, <1>5, <1>6, <1>7, <1>8 DEF Act

\* Pages are accounted for at the root as long as no process is killed.
THEOREM RootCountsAll == Spec => [](IInv /\ RootCounts)
<1>1. IInv /\ IInv' /\ RootCounts /\ [Next]_vars => RootCounts'
  <2>1. Next => \E p \in Procs : Act(p)
    BY DEF Next, Act
  <2>2. RootCounts /\ UNCHANGED vars => RootCounts'
    BY DEF RootCounts, vars, Total, Busy, Root
  <2> QED BY <2>1, <2>2, RootStep
<1> QED BY <1>1, RootInit, Invariance, PTL DEF Spec

\* size_ is the number of pages that are not in use.
LEMMA FreePagesCounted ==
    ASSUME IInv
    PROVE  Cardinality(Ids \ Used) = size /\ size \in Nat
<1>1. Used \in SUBSET Ids
  BY UsedIds DEF IInv
<1>2. Cardinality(Ids \ Used) = Cardinality(Ids) - Cardinality(Ids \cap Used)
  BY <1>1, IdsAreFinite, FS_Difference
<1>3. Ids \cap Used = Used
  BY <1>1
<1>4. Cardinality(Used) \in 0..Capacity /\ Cardinality(Ids) = Capacity
  BY <1>1, IdsAreFinite
<1>5. size = Capacity - Cardinality(Used)
  BY DEF IInv, SizeCounts
<1>6. Cardinality(Ids \ Used) = Capacity - Cardinality(Used)
  BY <1>2, <1>3, <1>4
<1>7. Capacity - Cardinality(Used) \in Nat
  BY <1>4, StackAssumption
<1> QED BY <1>5, <1>6, <1>7

\* When all operations have ended and nobody was killed, the root counts exactly the
\* pages that are not in use: pop() and push() lose none, however they overlapped.
THEOREM NoPageIsLost == Spec => []NoneLost
<1>1. IInv /\ RootCounts => NoneLost
  <2> SUFFICES ASSUME IInv, RootCounts, kills = 0, \A p \in Procs : loc[p] = "idle"
               PROVE  Total(Root) = Cardinality(Ids \ Used)
    BY DEF NoneLost
  <2>1. Cardinality(Busy) = 0
    <3>1. Busy = {}
      BY DEF Busy
    <3> QED BY <3>1, FS_EmptySet
  <2>2. Total(Root) \in Nat
    BY RootTotal DEF IInv
  <2> QED BY <2>1, <2>2, FreePagesCounted DEF RootCounts
<1> QED BY <1>1, RootCountsAll, PTL

\* A pop() that finds the root empty while nobody was killed is right up to the pages
\* that other operations are moving at that moment.
THEOREM PopFailsHonestly == Spec => []FailsOnlyIfNoneLeft
<1>1. IInv /\ RootCounts => FailsOnlyIfNoneLeft
  <2> SUFFICES ASSUME IInv, RootCounts, kills = 0, RootIsEmpty
               PROVE  Cardinality(Ids \ Used) <= Cardinality(Busy)
    BY DEF FailsOnlyIfNoneLeft, Busy
  <2>1. Total(Root) = 0
    <3>1. /\ Total(Root) = count[Root][0] + count[Root][1]
          /\ count[Root][0] \in Nat /\ count[Root][1] \in Nat
      BY RootTotal DEF IInv
    <3>2. ~(count[Root][0] > 0) /\ ~(count[Root][1] > 0)
      BY DEF RootIsEmpty, HasIds
    <3> QED BY <3>1, <3>2
  <2>2. Cardinality(Busy) \in Nat
    BY StackAssumption, FS_Subset, FS_CardinalityType DEF Busy
  <2> QED BY <2>1, <2>2, FreePagesCounted DEF RootCounts
<1> QED BY <1>1, RootCountsAll, PTL

-----------------------------------------------------------------------------
(* Operations end *)

\* Accesses to shared words that an operation at location l and position n has ahead of it
Ahead(l, n) ==
    CASE l = "innerPop"  -> InnerLevels - Len(n) + 2
      [] l = "leafPop"   -> 2
      [] l = "shrink"    -> 1
      [] l = "leafPush"  -> InnerLevels + 1
      [] l = "innerPush" -> Len(n)
      [] OTHER           -> 0

AccessesLeft(p) == Ahead(loc[p], pos[p])

\* The accesses that are left are a natural number; nobody else's step changes it.
AccessesBounded == \A p \in Procs : AccessesLeft(p) \in 0..(InnerLevels + 1)
AccessesDecrease ==
    [][\A p \in Procs : loc[p] # "idle" =>
          \/ loc'[p] = loc[p] /\ pos'[p] = pos[p] /\ hand'[p] = hand[p]
          \/ AccessesLeft(p)' < AccessesLeft(p)]_vars

\* Within the tree, what is ahead of an operation is bounded by the height of the tree.
LEMMA AheadIsBounded ==
    ASSUME TypeOK, Places, NEW p \in Procs
    PROVE  AccessesLeft(p) \in 0..(InnerLevels + 1)
<1>1. pos[p] \in Nodes /\ loc[p] \in Locations
  BY DEF TypeOK
<1>2. Len(pos[p]) \in 0..InnerLevels
  BY <1>1, InnerNode, LeafNode, LenProperties, StackAssumption DEF Nodes
<1>3. loc[p] = "innerPop" => Len(pos[p]) \in 1..InnerLevels
  <2>1. ASSUME loc[p] = "innerPop" PROVE Len(pos[p]) # 0
    <3>1. pos[p] \in Inner /\ pos[p] # Root
      BY <2>1 DEF Places
    <3> QED BY <3>1, InnerNode, EmptySeq DEF Root
  <2> QED BY <1>2, <2>1
<1> DEFINE k == Len(pos[p])
<1> HIDE DEF k
<1>4. k \in 0..InnerLevels /\ (loc[p] = "innerPop" => k \in 1..InnerLevels)
  BY <1>2, <1>3 DEF k
<1>5. AccessesLeft(p) = CASE loc[p] = "innerPop"  -> InnerLevels - k + 2
                          [] loc[p] = "leafPop"   -> 2
                          [] loc[p] = "shrink"    -> 1
                          [] loc[p] = "leafPush"  -> InnerLevels + 1
                          [] loc[p] = "innerPush" -> k
                          [] OTHER                -> 0
  BY DEF AccessesLeft, Ahead, k
<1> QED BY <1>1, <1>4, <1>5, StackAssumption DEF Locations

\* A step of an operation uses up an access.
LEMMA AccessStep ==
    ASSUME IInv, IInv', NEW p \in Procs, Act(p), loc[p] # "idle"
    PROVE  AccessesLeft(p)' < AccessesLeft(p)
<1> USE DEF Goto, Check, Forget
<1>0. /\ loc \in [Procs -> Locations] /\ pos \in [Procs -> Nodes] /\ hand \in [Procs -> Ids]
      /\ loc'[p] # "assert"
  BY DEF IInv, TypeOK, AssertionsHold
<1>1. CASE DescendPop(p)
  <2>1. PICK n \in Inner : InnerPop(p, n) /\ n = pos[p] /\ loc[p] = "innerPop"
    BY <1>1, DescendIsPop DEF IInv
  <2>2. HasIds(n)
    BY <2>1, ClaimIsHonoured DEF IInv
  <2>3. PICK d \in Dirs : d = PopDirection(n)
    BY DEF PopDirection, Dirs
  <2>4. /\ loc'[p] = IF Len(n) + 1 = InnerLevels THEN "leafPop" ELSE "innerPop"
        /\ pos'[p] = Append(n, d)
    BY <2>1, <2>3, <1>0 DEF InnerPop
  <2>5. Len(n) \in Nat /\ Len(n) < InnerLevels /\ Len(Append(n, d)) = Len(n) + 1
    BY InnerNode, LenProperties, AppendProperties
  <2>6. AccessesLeft(p) = InnerLevels - Len(n) + 2
    BY <2>1 DEF AccessesLeft, Ahead
  <2>7. AccessesLeft(p)' = IF Len(n) + 1 = InnerLevels THEN 2 ELSE InnerLevels - (Len(n) + 1) + 2
    BY <2>4, <2>5 DEF AccessesLeft, Ahead
  <2> QED BY <2>5, <2>6, <2>7, StackAssumption
<1>2. CASE LeafPop(p)
  <2>1. loc[p] = "leafPop" /\ loc'[p] = "shrink"
    BY <1>0, <1>2 DEF LeafPop
  <2>2. AccessesLeft(p) = 2 /\ AccessesLeft(p)' = 1
    BY <2>1 DEF AccessesLeft, Ahead
  <2> QED BY <2>2
<1>3. CASE FinishPop(p)
  <2>1. loc[p] = "shrink" /\ loc'[p] = "idle"
    BY <1>0, <1>3 DEF FinishPop
  <2>2. AccessesLeft(p) = 1 /\ AccessesLeft(p)' = 0
    BY <2>1 DEF AccessesLeft, Ahead
  <2> QED BY <2>2
<1>4. CASE LeafPush(p)
  <2>1. loc[p] = "leafPush" /\ loc'[p] = "innerPush" /\ pos'[p] = LeafOf(hand[p])
    BY <1>0, <1>4 DEF LeafPush
  <2>2. Len(LeafOf(hand[p])) = InnerLevels
    BY <1>0, IdsAreFinite, LeafNode
  <2>3. AccessesLeft(p) = InnerLevels + 1 /\ AccessesLeft(p)' = InnerLevels
    BY <2>1, <2>2 DEF AccessesLeft, Ahead
  <2> QED BY <2>3, StackAssumption
<1>5. CASE InnerPush(p)
  <2>1. /\ loc[p] = "innerPush" /\ pos'[p] = Ascend(pos[p])
        /\ loc'[p] = IF Ascend(pos[p]) = Root THEN "idle" ELSE "innerPush"
    BY <1>0, <1>5 DEF InnerPush
  <2>2. PICK m, d : m \in Inner /\ d \in Dirs /\ pos[p] = Append(m, d) /\ Ascend(pos[p]) = m
    BY <2>1, Parent DEF IInv, Places
  <2>3. Len(m) \in Nat /\ Len(pos[p]) = Len(m) + 1
    BY <2>2, InnerNode, LenProperties, AppendProperties
  <2>4. AccessesLeft(p) = Len(m) + 1
    BY <2>1, <2>3 DEF AccessesLeft, Ahead
  <2>5. AccessesLeft(p)' = IF m = Root THEN 0 ELSE Len(m)
    BY <2>1, <2>2 DEF AccessesLeft, Ahead
  <2> QED BY <2>3, <2>4, <2>5
<1>6. CASE Kill(p)
  <2>1. loc'[p] = "idle"
    BY <1>0, <1>6 DEF Kill
  <2>2. AccessesLeft(p)' = 0
    BY <2>1 DEF AccessesLeft, Ahead
  <2>3. AccessesLeft(p) # 0
    <3>1. pos[p] \in Nodes /\ loc[p] \in Locations \ {"idle", "assert"}
      BY <1>0 DEF IInv, AssertionsHold
    <3>2. /\ loc[p] = "innerPush" => pos[p] \in Nodes \ {Root}
          /\ loc[p] = "innerPop" => pos[p] \in Inner
      BY DEF IInv, Places
    <3>3. loc[p] = "innerPush" => Len(pos[p]) # 0
      BY <3>2, InnerNode, LeafNode, EmptySeq DEF Nodes, Root
    <3>4. loc[p] = "innerPop" => Len(pos[p]) \in Nat /\ Len(pos[p]) < InnerLevels
      BY <3>2, InnerNode, LenProperties
    <3> DEFINE k == Len(pos[p])
    <3> HIDE DEF k
    <3>5. AccessesLeft(p) = CASE loc[p] = "innerPop"  -> InnerLevels - k + 2
                              [] loc[p] = "leafPop"   -> 2
                              [] loc[p] = "shrink"    -> 1
                              [] loc[p] = "leafPush"  -> InnerLevels + 1
                              [] loc[p] = "innerPush" -> k
                              [] OTHER                -> 0
      BY DEF AccessesLeft, Ahead, k
    <3>6. /\ loc[p] = "innerPush" => k # 0
          /\ loc[p] = "innerPop" => k \in Nat /\ k < InnerLevels
      BY <3>3, <3>4 DEF k
    <3> QED BY <3>1, <3>5, <3>6, StackAssumption DEF Locations
  <2>4. AccessesLeft(p) \in Nat
    BY AheadIsBounded DEF IInv
  <2> QED BY <2>2, <2>3, <2>4
<1>7. CASE StartPop(p) \/ PopFails(p) \/ \E q \in Procs : \E id \in used[q] : StartPush(p, q, id)
  BY <1>7 DEF StartPop, PopFails, StartPush
<1> QED BY <1>1, <1>2, <1>3, <1>4, <1>5, <1>6, <1>7 DEF Act

\* Steps of others leave an operation where it is.
LEMMA OthersStay ==
    ASSUME TypeOK, NEW p \in Procs, Act(p), NEW q \in Procs, q # p
    PROVE  loc'[q] = loc[q] /\ pos'[q] = pos[q] /\ hand'[q] = hand[q]
<1> USE DEF TypeOK, Goto, Check, Forget
<1>1. CASE StartPop(p) \/ DescendPop(p)
  BY <1>1 DEF StartPop, DescendPop, InnerPop
<1>2. CASE PopFails(p)
  BY <1>2 DEF PopFails, vars
<1>3. CASE LeafPop(p)
  BY <1>3 DEF LeafPop
<1>4. CASE FinishPop(p)
  BY <1>4 DEF FinishPop
<1>5. ASSUME NEW o \in Procs, NEW id \in used[o], StartPush(p, o, id)
      PROVE  loc'[q] = loc[q] /\ pos'[q] = pos[q] /\ hand'[q] = hand[q]
  BY <1>5 DEF StartPush
<1>6. CASE LeafPush(p)
  BY <1>6 DEF LeafPush
<1>7. CASE InnerPush(p)
  BY <1>7 DEF InnerPush
<1>8. CASE Kill(p)
  BY <1>8 DEF Kill
<1> QED BY <1>1, <1>2, <1>3, <1>4, <1>5, <1>6, <1>7, <1>8 DEF Act

\* pop() and push() end after at most InnerLevels + 2 accesses that take effect, whatever
\* others do meanwhile: what is left is at most InnerLevels + 1 and decreases with every
\* step of the operation.  (A compare-and-exchange that is lost to another process is
\* repeated; that does not count.)
THEOREM OperationsEnd == Spec => []AccessesBounded /\ AccessesDecrease
<1>1. IInv => AccessesBounded
  BY AheadIsBounded DEF IInv, AccessesBounded
<1>2. IInv /\ IInv' /\ [Next]_vars =>
          [\A p \in Procs : loc[p] # "idle" =>
              \/ loc'[p] = loc[p] /\ pos'[p] = pos[p] /\ hand'[p] = hand[p]
              \/ AccessesLeft(p)' < AccessesLeft(p)]_vars
  <2>1. ASSUME IInv, IInv', NEW q \in Procs, Act(q), NEW p \in Procs, loc[p] # "idle"
        PROVE  \/ loc'[p] = loc[p] /\ pos'[p] = pos[p] /\ hand'[p] = hand[p]
               \/ AccessesLeft(p)' < AccessesLeft(p)
    BY <2>1, AccessStep, OthersStay DEF IInv
  <2>2. Next => \E q \in Procs : Act(q)
    BY DEF Next, Act
  <2> QED BY <2>1, <2>2
<1> QED BY <1>1, <1>2, Invariance, PTL DEF Spec, AccessesDecrease

-----------------------------------------------------------------------------
(* Nodes that stand for no id below the capacity are never used *)

\* Every word that an operation is about to access, and every node it descended to, has
\* an id of the stack below it.
OnlyUsedNodes ==
    \A p \in Procs :
        /\ loc[p] \in {"innerPop", "leafPop", "innerPush"} => IdsBelow(pos[p]) # {}
        /\ loc[p] = "innerPush" => IdsBelow(Ascend(pos[p])) # {}
        /\ loc[p] = "leafPush" => IdsBelow(LeafOf(hand[p])) # {}

\* What is below a child is below its parent.
LEMMA BelowChild ==
    ASSUME NEW n \in Inner, NEW d \in Dirs
    PROVE  IdsBelow(Append(n, d)) \subseteq IdsBelow(n)
<1> DEFINE c == Append(n, d)
<1>1. n \in Seq(Dirs) /\ Len(n) \in Nat /\ DOMAIN n = 1..Len(n)
  BY InnerNode, LenProperties
<1>2. DOMAIN c = 1..(Len(n) + 1) /\ \A i \in 1..Len(n) : c[i] = n[i]
  BY <1>1, AppendProperties, LenProperties
<1> HIDE DEF c
<1>3. ASSUME NEW id \in Ids, NEW f, \A l \in DOMAIN c : c[l] = f[l], NEW l \in DOMAIN n
      PROVE  n[l] = f[l]
  <2>1. l \in DOMAIN c /\ c[l] = n[l]
    BY <1>1, <1>2
  <2> QED BY <1>3, <2>1
<1>4. IdsBelow(c) \subseteq IdsBelow(n)
  BY <1>3 DEF IdsBelow
<1> QED BY <1>4 DEF c

\* A node without ids below it has none to give.  Otherwise there would be a lowest such
\* node; what it counts is backed by its children, which have nothing.
LEMMA NothingBelow ==
    ASSUME IInv, NEW n \in Nodes, IdsBelow(n) = {}
    PROVE  Total(n) = 0
<1> DEFINE B == {m \in Nodes : IdsBelow(m) = {} /\ Total(m) # 0}
           D == {InnerLevels - Len(m) : m \in B}
<1> SUFFICES ASSUME B # {} PROVE FALSE
  OBVIOUS
<1>1. \A m \in Nodes : Len(m) \in Nat /\ Len(m) <= InnerLevels
  BY InnerNode, LeafNode, LenProperties, StackAssumption DEF Nodes
<1>2. D \subseteq Nat /\ D # {}
  BY <1>1, StackAssumption
<1>3. PICK x \in D : \A y \in D : x <= y
  <2> DEFINE R == OpToRel(<, Nat)
  <2>1. IsWellFoundedOn(R, Nat)
    BY NatLessThanWellFounded
  <2>2. \A x, y \in Nat : x < y => <<x, y>> \in R
    BY DEF OpToRel
  <2> HIDE DEF R, D
  <2>3. PICK x \in D : \A y \in D : ~(<<y, x>> \in R)
    BY <1>2, <2>1, WFMin, Zenon
  <2>4. ASSUME NEW y \in D PROVE x <= y
    <3>1. x \in Nat /\ y \in Nat
      BY <1>2
    <3>2. ~(y < x)
      BY <3>1, <2>2, <2>3, Zenon
    <3> QED BY <3>1, <3>2
  <2> QED BY <2>4
<1>4. PICK m \in B : x = InnerLevels - Len(m)
  BY <1>3
<1>5. m \in Nodes /\ IdsBelow(m) = {} /\ Total(m) # 0
  BY <1>4
<1>6. ASSUME NEW c \in Nodes, Len(c) = Len(m) + 1, IdsBelow(c) = {} PROVE Total(c) = 0
  <2> SUFFICES ASSUME Total(c) # 0 PROVE FALSE
    OBVIOUS
  <2>1. c \in B
    BY <1>6
  <2>2. InnerLevels - Len(c) \in D
    BY <2>1
  <2>3. x <= InnerLevels - Len(c)
    BY <1>3, <2>2
  <2>4. Len(m) \in Nat
    BY <1>1, <1>5
  <2> QED BY <1>4, <1>6, <2>3, <2>4, StackAssumption
<1> HIDE DEF B, D
<1>7. CASE m \in Leaves
  <2>1. Total(m) = Cardinality(leaf[m])
    BY <1>7, LeafNode DEF Total
  <2>2. leaf[m] = {}
    <3> SUFFICES ASSUME NEW i \in leaf[m] PROVE FALSE
      OBVIOUS
    <3>1. i \in Ids /\ LeafOf(i) = m
      BY <1>7 DEF IInv, TypeOK, Owned
    <3> QED BY <1>5, <3>1 DEF IdsBelow
  <2> QED BY <1>5, <2>1, <2>2, FS_EmptySet
<1>8. CASE m \in Inner
  <2>1. ASSUME NEW d \in Dirs PROVE count[m][d] = 0
    <3> DEFINE c == Append(m, d)
    <3>1. c \in Nodes \ {Root} /\ Ascend(c) = m /\ AscendDirection(c) = d
      BY <1>8, Child
    <3>2. Len(c) = Len(m) + 1
      BY <1>8, InnerNode, AppendProperties
    <3>3. IdsBelow(c) = {}
      BY <1>5, <1>8, BelowChild
    <3>4. Total(c) = 0
      BY <1>6, <3>1, <3>2, <3>3
    <3> HIDE DEF c
    <3>5. count[m][d] + Cardinality(ClaimsAt(c)) <= Total(c)
      BY <3>1 DEF IInv, CountsAreBacked
    <3>6. Cardinality(ClaimsAt(c)) \in Nat
      BY StackAssumption, FS_Subset, FS_CardinalityType DEF ClaimsAt
    <3>7. count[m][d] \in Nat
      BY <1>8 DEF IInv, TypeOK
    <3> QED BY <3>4, <3>5, <3>6, <3>7
  <2>2. Total(m) = count[m][0] + count[m][1]
    BY <1>8, InnerNode DEF Total
  <2>3. count[m][0] = 0 /\ count[m][1] = 0
    BY <2>1 DEF Dirs
  <2> QED BY <1>5, <2>2, <2>3
<1> QED BY <1>5, <1>7, <1>8 DEF Nodes

\* However pops and pushes overlap and whoever is killed, no operation gets to a node that
\* stands for no id below the capacity: what truncateExtras() leaves there does not matter.
THEOREM UnusedNodesAreLeftAlone == Spec => []OnlyUsedNodes
<1>1. IInv => OnlyUsedNodes
  <2> SUFFICES ASSUME IInv, NEW p \in Procs
               PROVE  /\ loc[p] \in {"innerPop", "leafPop", "innerPush"} => IdsBelow(pos[p]) # {}
                      /\ loc[p] = "innerPush" => IdsBelow(Ascend(pos[p])) # {}
                      /\ loc[p] = "leafPush" => IdsBelow(LeafOf(hand[p])) # {}
    BY DEF OnlyUsedNodes
  <2>1. ASSUME loc[p] \in {"innerPop", "leafPop", "innerPush"} PROVE IdsBelow(pos[p]) # {}
    <3> SUFFICES ASSUME IdsBelow(pos[p]) = {} PROVE FALSE
      OBVIOUS
    <3> DEFINE n == pos[p]
    <3>1. n \in Nodes \ {Root}
      BY <2>1, LeafIsNotInner DEF IInv, Places, Nodes
    <3>2. Total(n) = 0
      BY <3>1, NothingBelow
    <3>3. Cardinality(ClaimsAt(n)) \in Nat /\ Cardinality(ClaimsAt(n)) >= 1
      <4>1. ClaimsAt(n) \in SUBSET Procs /\ p \in ClaimsAt(n)
        BY <2>1 DEF ClaimsAt
      <4> QED BY <4>1, ProcSetChange
    <3>4. count[Ascend(n)][AscendDirection(n)] \in Nat
      BY <3>1, Parent DEF IInv, TypeOK
    <3>5. count[Ascend(n)][AscendDirection(n)] + Cardinality(ClaimsAt(n)) <= Total(n)
      BY <3>1 DEF IInv, CountsAreBacked
    <3> HIDE DEF n
    <3> QED BY <3>2, <3>3, <3>4, <3>5
  <2>2. ASSUME loc[p] = "innerPush" PROVE IdsBelow(Ascend(pos[p])) # {}
    <3>1. pos[p] \in Nodes /\ pos[p] # Root
      BY <2>2 DEF IInv, Places
    <3>2. PICK m \in Inner, d \in Dirs : pos[p] = Append(m, d) /\ Ascend(pos[p]) = m
      BY <3>1, Parent
    <3> QED BY <2>1, <2>2, <3>2, BelowChild
  <2>3. ASSUME loc[p] = "leafPush" PROVE IdsBelow(LeafOf(hand[p])) # {}
    <3>1. hand[p] \in Ids
      BY DEF IInv, TypeOK
    <3>2. hand[p] \in IdsBelow(LeafOf(hand[p]))
      BY <3>1 DEF IdsBelow
    <3> QED BY <3>2
  <2> QED BY <2>1, <2>2, <2>3
<1> QED BY <1>1, Invariance, PTL

=============================================================================
