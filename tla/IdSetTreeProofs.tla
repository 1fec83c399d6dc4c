-------------------------- MODULE IdSetTreeProofs --------------------------
(***************************************************************************)
(* Theorems about IdSetTree, for every capacity and any size of a leaf.     *)
(***************************************************************************)
EXTENDS IdSetTree, Sequences, FiniteSetTheorems, SequenceTheorems, WellFoundedInduction, TLAPS

-----------------------------------------------------------------------------
(* The inductive invariant *)

\* The measurements belong to a perfect tree; until they suffice, half the leaves are too few.
Measured ==
    /\ capacity \in 0..MaxCapacity
    /\ innerLevelCount \in Nat \ {0} /\ leafNodeCount = PowerOfTwo[innerLevelCount]
    /\ leafNodeCount = 2 \/ leafNodeCount < 2 * requestedLeafNodeCount

Shaped ==
    /\ DOMAIN leaf = 0..(leafNodeCount - 1)
    /\ DOMAIN inner = 0..(innerLevelCount - 1)
    /\ \A l \in 0..(innerLevelCount - 1) : DOMAIN inner[l] = 0..(PowerOfTwo[l] - 1)

\* The node fillAllNodes() makes
Full(l) == [left |-> Width(l + 1), right |-> Width(l + 1)]

\* The nodes above level k are as fillAllNodes() left them.
FullAbove(k) ==
    \A l \in 0..(innerLevelCount - 1) : l < k =>
        \A o \in 0..(PowerOfTwo[l] - 1) : inner[l][o] = Full(l)

\* The node counts the ids below the capacity.
Exact(l, o) == inner[l][o] = [left |-> Wanted(l + 1, 2 * o), right |-> Wanted(l + 1, 2 * o + 1)]

\* The nodes from level k on that stand for an id below the capacity do.
ExactFrom(k) ==
    \A l \in 0..(innerLevelCount - 1) : k <= l =>
        \A o \in 0..(PowerOfTwo[l] - 1) : l = 0 \/ Wanted(l, o) > 0 => Exact(l, o)

ExactLeaves ==
    \A o \in 0..(leafNodeCount - 1) :
        Wanted(innerLevelCount, o) > 0 => leaf[o] = {b \in Bits : o * BitsPerLeaf + b < capacity}

\* truncateExtras() is at the node with the first id to remove, and is about to
\* subtract the ids from there to the end of the node.
AtFirstExtra ==
    /\ level \in 1..innerLevelCount
    /\ offset \in 0..(PowerOfTwo[level] - 1)
    /\ offset * Width(level) <= capacity /\ capacity < offset * Width(level) + Width(level)
    /\ toSubtract = offset * Width(level) + Width(level) - capacity

IInv ==
    /\ pc \in {"measure", "fill", "leafTruncate", "innerTruncate", "done"}
    /\ Measured
    /\ pc # "measure" => capacity <= BitsPerLeaf * leafNodeCount
    /\ pc \in {"leafTruncate", "innerTruncate", "done"} => Shaped
    /\ pc = "leafTruncate" =>
          /\ capacity # BitsPerLeaf * leafNodeCount
          /\ FullAbove(innerLevelCount)
          /\ \A o \in 0..(leafNodeCount - 1) : leaf[o] = Bits
    /\ pc = "innerTruncate" =>
          /\ AtFirstExtra /\ FullAbove(level) /\ ExactFrom(level) /\ ExactLeaves
    /\ pc = "done" => ExactFrom(0) /\ ExactLeaves

-----------------------------------------------------------------------------
(* Powers of two *)

\* A set of naturals that is not empty has a least element.
LEMMA LeastElement ==
    ASSUME NEW T, T \subseteq Nat, T # {}
    PROVE  \E m \in T : \A x \in T : ~(x < m)
<1>1. IsWellFoundedOn(OpToRel(<, Nat), Nat)
  BY NatLessThanWellFounded, Zenon
<1>2. PICK m \in T : \A y \in T : ~(<<y, m>> \in OpToRel(<, Nat))
  BY <1>1, WFMin, Zenon
<1>3. \A y \in T : ~(y < m)
  <2>1. SUFFICES ASSUME NEW y \in T, y < m PROVE FALSE
    OBVIOUS
  <2>2. y \in Nat /\ m \in Nat
    OBVIOUS
  <2>3. <<y, m>> \in OpToRel(<, Nat)
    BY <2>1, <2>2, Zenon DEF OpToRel
  <2> QED BY <1>2, <2>3
<1> QED BY <1>2, <1>3

\* Induction, for a set: the loops of the code are followed with it.
LEMMA Induction ==
    ASSUME NEW S, 0 \in S, \A n \in Nat : n \in S => n + 1 \in S
    PROVE  Nat \subseteq S
<1>1. SUFFICES ASSUME Nat \ S # {} PROVE FALSE
  OBVIOUS
<1>2. PICK m \in Nat \ S : \A x \in Nat \ S : ~(x < m)
  BY <1>1, LeastElement
<1>3. m # 0 /\ m - 1 \in Nat
  OBVIOUS
<1>4. m - 1 \in S
  BY <1>2, <1>3
<1>5. (m - 1) + 1 \in S
  BY <1>3, <1>4
<1> QED BY <1>5

\* g is the function of powers as far as n
Powers(g, n) == g \in [0..n -> Nat \ {0}] /\ \A i \in 0..n : g[i] = IF i = 0 THEN 1 ELSE 2 * g[i - 1]

\* There are powers of two as far as one likes.
LEMMA PowersExist == \A n \in Nat : \E g : Powers(g, n)
<1> DEFINE S == {n \in Nat : \E g : Powers(g, n)}
<1>1. 0 \in S
  <2>1. Powers([i \in 0..0 |-> 1], 0)
    BY DEF Powers
  <2> QED BY <2>1
<1>2. ASSUME NEW n \in Nat, n \in S PROVE n + 1 \in S
  <2>1. PICK g : Powers(g, n)
    BY <1>2
  <2> DEFINE h == [i \in 0..(n + 1) |-> IF i = n + 1 THEN 2 * g[n] ELSE g[i]]
  <2>2. \A i \in 0..n : g[i] \in Nat \ {0} /\ g[i] = IF i = 0 THEN 1 ELSE 2 * g[i - 1]
    BY <2>1 DEF Powers
  <2>3. h \in [0..(n + 1) -> Nat \ {0}]
    BY <2>2
  <2>4. ASSUME NEW i \in 0..(n + 1) PROVE h[i] = IF i = 0 THEN 1 ELSE 2 * h[i - 1]
    BY <2>2
  <2>5. Powers(h, n + 1)
    BY <2>3, <2>4 DEF Powers
  <2> QED BY <2>5
<1>3. Nat \subseteq S
  <2> HIDE DEF S
  <2> QED BY <1>1, <1>2, Induction
<1> QED BY <1>3

\* They are determined by their equation.
LEMMA PowersAgree ==
    ASSUME NEW n \in Nat, NEW m \in Nat, NEW g, NEW h, Powers(g, n), Powers(h, m),
           NEW i \in Nat, i <= n, i <= m
    PROVE  g[i] = h[i]
<1> DEFINE T == {j \in Nat : j <= n /\ j <= m /\ g[j] # h[j]}
<1>1. SUFFICES ASSUME T # {} PROVE FALSE
  OBVIOUS
<1>2. PICK j \in T : \A x \in T : ~(x < j)
  BY <1>1, LeastElement
<1>3. /\ g[j] = IF j = 0 THEN 1 ELSE 2 * g[j - 1]
      /\ h[j] = IF j = 0 THEN 1 ELSE 2 * h[j - 1]
  BY DEF Powers
<1>4. CASE j = 0
  BY <1>3, <1>4
<1>5. CASE j # 0
  <2>1. j - 1 \in Nat /\ j - 1 \notin T
    BY <1>2, <1>5
  <2>2. g[j - 1] = h[j - 1]
    BY <2>1
  <2> QED BY <1>3, <1>5, <2>2
<1> QED BY <1>4, <1>5

\* PowerOfTwo satisfies the equation that defines it (pagesBelow *= 2 in fillAllNodes()).
LEMMA PowerOfTwoDef ==
    PowerOfTwo = [n \in Nat |-> IF n = 0 THEN 1 ELSE 2 * PowerOfTwo[n - 1]]
<1> DEFINE G(n) == CHOOSE g : Powers(g, n)
           F == [n \in Nat |-> G(n)[n]]
<1>1. \A n \in Nat : Powers(G(n), n)
  BY PowersExist, Zenon
<1> HIDE DEF G
<1>2. ASSUME NEW n \in Nat PROVE F[n] = IF n = 0 THEN 1 ELSE 2 * F[n - 1]
  <2>1. Powers(G(n), n)
    BY <1>1
  <2>2. G(n)[n] = IF n = 0 THEN 1 ELSE 2 * G(n)[n - 1]
    BY <2>1 DEF Powers
  <2>3. CASE n = 0
    BY <2>2, <2>3
  <2>4. CASE n # 0
    <3>1. n - 1 \in Nat /\ n - 1 <= n
      BY <2>4
    <3>2. Powers(G(n - 1), n - 1)
      BY <1>1, <3>1
    <3>3. G(n)[n - 1] = G(n - 1)[n - 1]
      BY <2>1, <3>1, <3>2, PowersAgree
    <3> QED BY <2>2, <2>4, <3>1, <3>3
  <2> QED BY <2>3, <2>4
<1>3. F = [n \in Nat |-> IF n = 0 THEN 1 ELSE 2 * F[n - 1]]
  BY <1>2
<1> HIDE DEF F
<1> QED BY <1>3 DEF PowerOfTwo

\* No level of the tree is empty.
LEMMA PowerOfTwoPositive == PowerOfTwo \in [Nat -> Nat \ {0}]
<1> DEFINE S == {n \in Nat : PowerOfTwo[n] \in Nat \ {0}}
<1>1. 0 \in S
  BY PowerOfTwoDef
<1>2. ASSUME NEW n \in Nat, n \in S PROVE n + 1 \in S
  <2>1. PowerOfTwo[n + 1] = 2 * PowerOfTwo[n]
    BY PowerOfTwoDef
  <2> QED BY <1>2, <2>1
<1>3. Nat \subseteq S
  <2> HIDE DEF S
  <2> QED BY <1>1, <1>2, Induction
<1> QED BY <1>3, PowerOfTwoDef

-----------------------------------------------------------------------------
(* Numbers of ids *)

\* Products, for the offsets of the tree: a node and its two children
LEMMA Products ==
    ASSUME NEW o \in Int, NEW w \in Int
    PROVE  /\ o * (2 * w) = (2 * o) * w
           /\ (2 * o + 1) * w = (2 * o) * w + w
           /\ (o + 1) * w = o * w + w
           /\ o * w \in Int
OBVIOUS

\* A factor that is not smaller gives a product that is not smaller.
LEMMA ProductsGrow ==
    ASSUME NEW a \in Int, NEW b \in Int, NEW w \in Nat, a <= b
    PROVE  a * w <= b * w
<1>1. PICK d \in Nat : b = a + d
  <2>1. b - a \in Nat
    OBVIOUS
  <2> QED BY <2>1
<1>2. b * w = a * w + d * w /\ d * w \in Nat
  BY <1>1
<1> QED BY <1>1, <1>2

\* How many of the first c ids are among the w ids from a on
LEMMA CountInSpan ==
    ASSUME NEW a \in Nat, NEW w \in Nat \ {0}, NEW c \in Nat
    PROVE  Cardinality((a..(a + w - 1)) \cap 0..(c - 1)) =
               IF c <= a THEN 0 ELSE IF a + w <= c THEN w ELSE c - a
<1>1. CASE c <= a
  <2>1. (a..(a + w - 1)) \cap 0..(c - 1) = {}
    BY <1>1
  <2> QED BY <1>1, <2>1, FS_EmptySet
<1>2. CASE a < c /\ a + w <= c
  <2>1. (a..(a + w - 1)) \cap 0..(c - 1) = a..(a + w - 1)
    BY <1>2
  <2>2. Cardinality(a..(a + w - 1)) = w
    BY FS_Interval
  <2>3. Cardinality((a..(a + w - 1)) \cap 0..(c - 1)) = w
    BY <2>1, <2>2, Zenon
  <2>4. ~(c <= a)
    BY <1>2
  <2> QED BY <1>2, <2>3, <2>4, Zenon
<1>3. CASE a < c /\ c < a + w
  <2>1. (a..(a + w - 1)) \cap 0..(c - 1) = a..(c - 1)
    BY <1>3
  <2>2. Cardinality(a..(c - 1)) = c - a
    BY <1>3, FS_Interval
  <2>3. Cardinality((a..(a + w - 1)) \cap 0..(c - 1)) = c - a
    BY <2>1, <2>2, Zenon
  <2>4. ~(c <= a) /\ ~(a + w <= c)
    BY <1>3
  <2> QED BY <2>3, <2>4, Zenon
<1> QED BY <1>1, <1>2, <1>3

\* Every level has nodes of half the width of those above it; the root spans all leaves.
LEMMA Widths ==
    ASSUME Measured
    PROVE  /\ \A l \in 0..innerLevelCount : Width(l) \in Nat \ {0}
           /\ \A l \in 0..(innerLevelCount - 1) : Width(l) = 2 * Width(l + 1)
           /\ Width(innerLevelCount) = BitsPerLeaf
           /\ Width(0) = BitsPerLeaf * leafNodeCount
<1> USE TreeAssumption
<1>1. ASSUME NEW l \in 0..innerLevelCount PROVE Width(l) \in Nat \ {0}
  <2>1. innerLevelCount - l \in Nat
    BY DEF Measured
  <2>2. PICK p \in Nat \ {0} : p = PowerOfTwo[innerLevelCount - l]
    BY <2>1, PowerOfTwoPositive
  <2>3. BitsPerLeaf * p \in Nat \ {0}
    OBVIOUS
  <2> QED BY <2>2, <2>3 DEF Width
<1>2. ASSUME NEW l \in 0..(innerLevelCount - 1) PROVE Width(l) = 2 * Width(l + 1)
  <2>1. innerLevelCount - l \in Nat \ {0} /\ (innerLevelCount - l) - 1 = innerLevelCount - (l + 1)
    BY DEF Measured
  <2>2. PICK p \in Nat \ {0} : p = PowerOfTwo[innerLevelCount - (l + 1)]
    BY <2>1, PowerOfTwoPositive
  <2>3. PowerOfTwo[innerLevelCount - l] = 2 * p
    BY <2>1, <2>2, PowerOfTwoDef
  <2>4. BitsPerLeaf * (2 * p) = 2 * (BitsPerLeaf * p)
    OBVIOUS
  <2> QED BY <2>2, <2>3, <2>4 DEF Width
<1>3. Width(innerLevelCount) = BitsPerLeaf
  <2>1. innerLevelCount - innerLevelCount = 0
    BY DEF Measured
  <2>2. PowerOfTwo[0] = 1
    BY PowerOfTwoDef
  <2> QED BY <2>1, <2>2 DEF Width
<1>4. Width(0) = BitsPerLeaf * leafNodeCount
  BY DEF Measured, Width
<1> QED BY <1>1, <1>2, <1>3, <1>4

\* A level spans what the root spans.
LEMMA LevelSpansAll ==
    ASSUME Measured
    PROVE  \A l \in 0..innerLevelCount : PowerOfTwo[l] * Width(l) = Width(0)
<1> DEFINE S == {l \in Nat : l <= innerLevelCount => PowerOfTwo[l] * Width(l) = Width(0)}
<1>0. innerLevelCount \in Nat
  BY DEF Measured
<1>1. 0 \in S
  <2>1. PowerOfTwo[0] = 1 /\ Width(0) \in Nat
    BY <1>0, PowerOfTwoDef, Widths
  <2> QED BY <2>1
<1>2. ASSUME NEW l \in Nat, l \in S PROVE l + 1 \in S
  <2>1. SUFFICES ASSUME l + 1 <= innerLevelCount PROVE PowerOfTwo[l + 1] * Width(l + 1) = Width(0)
    OBVIOUS
  <2>2. l \in 0..(innerLevelCount - 1) /\ l + 1 \in 0..innerLevelCount
    BY <1>0, <2>1
  <2>3. PICK w \in Nat : w = Width(l + 1)
    BY <2>2, Widths
  <2>4. Width(l) = 2 * w
    BY <2>2, <2>3, Widths
  <2>5. PICK p \in Nat : p = PowerOfTwo[l]
    BY PowerOfTwoPositive
  <2>6. PowerOfTwo[l + 1] = 2 * p
    BY <2>5, PowerOfTwoDef
  <2>7. p * (2 * w) = Width(0)
    <3>1. l <= innerLevelCount
      BY <1>0, <2>1
    <3>2. PowerOfTwo[l] * Width(l) = Width(0)
      BY <1>2, <3>1
    <3> QED BY <2>4, <2>5, <3>2, Zenon
  <2>8. (2 * p) * w = p * (2 * w)
    OBVIOUS
  <2> QED BY <2>3, <2>6, <2>7, <2>8
<1>3. Nat \subseteq S
  <2> HIDE DEF S
  <2> QED BY <1>1, <1>2, Induction
<1> QED BY <1>0, <1>3

\* How many ids below the capacity a node stands for
LEMMA WantedValue ==
    ASSUME Measured, NEW l \in 0..innerLevelCount, NEW o \in Nat
    PROVE  Wanted(l, o) =
               IF capacity <= o * Width(l) THEN 0
               ELSE IF o * Width(l) + Width(l) <= capacity THEN Width(l)
                    ELSE capacity - o * Width(l)
<1>1. PICK w \in Nat \ {0} : w = Width(l)
  BY Widths
<1>2. PICK a \in Nat : a = o * w
  OBVIOUS
<1>3. capacity \in Nat
  BY TreeAssumption DEF Measured
<1> QED BY <1>1, <1>2, <1>3, CountInSpan DEF Wanted, Span

\* Counts depend on the measurements only.
LEMMA SameMeasurements ==
    ASSUME UNCHANGED measurements
    PROVE  /\ \A l : Width(l)' = Width(l) /\ Full(l)' = Full(l)
           /\ \A l, o : Wanted(l, o)' = Wanted(l, o)
           /\ requestedLeafNodeCount' = requestedLeafNodeCount
           /\ Measured => Measured'
BY DEF measurements, Width, Full, Wanted, Span, requestedLeafNodeCount, Measured

\* A node of a level stays within the tree.
LEMMA NodeEnd ==
    ASSUME Measured, NEW l \in 0..innerLevelCount, NEW o \in 0..(PowerOfTwo[l] - 1)
    PROVE  o * Width(l) + Width(l) <= Width(0)
<1>1. PICK w \in Nat \ {0} : w = Width(l)
  BY Widths
<1>2. PICK p \in Nat \ {0} : p = PowerOfTwo[l]
  BY PowerOfTwoPositive
<1>3. o \in Int /\ o + 1 <= p
  BY <1>2
<1>4. (o + 1) * w <= p * w
  BY <1>3, ProductsGrow
<1>5. (o + 1) * w = o * w + w
  BY <1>3, Products
<1>6. p * w = Width(0)
  BY <1>1, <1>2, LevelSpansAll
<1> QED BY <1>1, <1>4, <1>5, <1>6

\* A node whose last id is below the capacity is full, and so are its children.
LEMMA WantedFull ==
    ASSUME Measured, NEW l \in 0..(innerLevelCount - 1), NEW o \in Nat,
           o * Width(l) + Width(l) <= capacity
    PROVE  Wanted(l + 1, 2 * o) = Width(l + 1) /\ Wanted(l + 1, 2 * o + 1) = Width(l + 1)
<1>0. l + 1 \in 0..innerLevelCount /\ l \in 0..innerLevelCount
  BY DEF Measured
<1>1. PICK w \in Nat \ {0} : w = Width(l + 1)
  BY <1>0, Widths
<1>2. Width(l) = 2 * w
  BY <1>1, Widths
<1>3. PICK a \in Nat : a = (2 * o) * w
  OBVIOUS
<1>4. o * Width(l) = a /\ (2 * o + 1) * w = a + w
  BY <1>2, <1>3, Products
<1>5. a + w + w <= capacity /\ capacity \in Nat
  BY <1>2, <1>4, TreeAssumption DEF Measured
<1>6. Wanted(l + 1, 2 * o) = w
  BY <1>0, <1>1, <1>3, <1>5, WantedValue
<1>7. Wanted(l + 1, 2 * o + 1) = w
  BY <1>0, <1>1, <1>4, <1>5, WantedValue
<1> QED BY <1>1, <1>6, <1>7

-----------------------------------------------------------------------------
(* The steps *)

\* The loop of IdSetMeasurements() ends with leaves for all ids, and never has more
\* than twice as many as needed.
LEMMA MeasureStep ==
    ASSUME IInv, Measure
    PROVE  IInv'
<1> USE TreeAssumption
<1>1. /\ pc = "measure" /\ Measured
      /\ capacity' = capacity /\ requestedLeafNodeCount' = requestedLeafNodeCount
  BY DEF IInv, Measure, requestedLeafNodeCount
<1>2. /\ innerLevelCount \in Nat \ {0} /\ leafNodeCount \in Nat \ {0}
      /\ leafNodeCount = PowerOfTwo[innerLevelCount] /\ capacity \in Nat
  BY <1>1, PowerOfTwoPositive DEF Measured
<1>3. PICK r \in Nat : r = requestedLeafNodeCount
  <2>1. PICK x \in Nat : x = capacity + (BitsPerLeaf - 1)
    BY <1>2
  <2>2. x \div BitsPerLeaf \in Nat
    OBVIOUS
  <2> QED BY <2>1, <2>2 DEF requestedLeafNodeCount
<1>4. CASE leafNodeCount < requestedLeafNodeCount
  <2>1. leafNodeCount' = leafNodeCount * 2 /\ innerLevelCount' = innerLevelCount + 1 /\ pc' = "measure"
    BY <1>1, <1>4 DEF Measure
  <2>2. PowerOfTwo[innerLevelCount + 1] = leafNodeCount * 2
    BY <1>2, PowerOfTwoDef
  <2>3. leafNodeCount * 2 < 2 * r
    BY <1>2, <1>3, <1>4
  <2>4. Measured'
    BY <1>1, <1>2, <1>3, <2>1, <2>2, <2>3 DEF Measured
  <2> QED BY <2>1, <2>4 DEF IInv
<1>5. CASE ~(leafNodeCount < requestedLeafNodeCount)
  <2>1. UNCHANGED measurements /\ pc' = "fill"
    BY <1>1, <1>5 DEF Measure, measurements
  <2>2. Measured'
    BY <1>1, <2>1, SameMeasurements
  <2>3. r <= leafNodeCount
    BY <1>2, <1>3, <1>5
  <2>4. r * BitsPerLeaf <= leafNodeCount * BitsPerLeaf
    BY <1>2, <2>3, ProductsGrow
  <2>5. capacity <= r * BitsPerLeaf
    <3>1. PICK x \in Nat : x = capacity + (BitsPerLeaf - 1)
      BY <1>2
    <3>2. r = x \div BitsPerLeaf
      BY <1>3, <3>1 DEF requestedLeafNodeCount
    <3>3. x < r * BitsPerLeaf + BitsPerLeaf
      BY <3>2
    <3> QED BY <1>2, <3>1, <3>3
  <2>6. capacity <= BitsPerLeaf * leafNodeCount
    BY <1>2, <2>4, <2>5
  <2> QED BY <2>1, <2>2, <2>6 DEF IInv, measurements
<1> QED BY <1>4, <1>5

\* fillAllNodes() makes the tree of all leaves, which is the one wanted if the capacity
\* uses all of them.
LEMMA FillStep ==
    ASSUME IInv, fillAllNodes
    PROVE  IInv'
<1> USE TreeAssumption
<1>1. pc = "fill" /\ Measured /\ capacity <= BitsPerLeaf * leafNodeCount /\ UNCHANGED measurements
  BY DEF IInv, fillAllNodes
<1>2. Measured'
  BY <1>1, SameMeasurements
<1>3. /\ innerLevelCount \in Nat \ {0} /\ leafNodeCount \in Nat \ {0}
      /\ leafNodeCount = PowerOfTwo[innerLevelCount] /\ capacity \in Nat
  BY <1>1, PowerOfTwoPositive DEF Measured
<1>4. Shaped'
  BY <1>1 DEF fillAllNodes, Shaped, measurements
<1>5. ASSUME NEW l \in 0..(innerLevelCount - 1), NEW o \in 0..(PowerOfTwo[l] - 1)
      PROVE  inner'[l][o] = Full(l)
  <2>1. innerLevelCount - 1 - l = innerLevelCount - (l + 1)
    BY <1>3
  <2>2. PagesBelow(l) = Width(l + 1)
    BY <2>1 DEF PagesBelow, Width
  <2> QED BY <2>2 DEF fillAllNodes, Full
<1>6. \A o \in 0..(leafNodeCount - 1) : leaf'[o] = Bits
  BY DEF fillAllNodes
<1>7. CASE capacity # leafNodeCount * BitsPerLeaf
  <2>1. pc' = "leafTruncate"
    BY <1>7 DEF fillAllNodes
  <2>2. FullAbove(innerLevelCount)'
    BY <1>1, <1>5, SameMeasurements DEF FullAbove, measurements
  <2>3. capacity # BitsPerLeaf * leafNodeCount
    BY <1>3, <1>7
  <2> QED BY <1>1, <1>2, <1>4, <1>6, <2>1, <2>2, <2>3 DEF IInv, measurements
<1>8. CASE capacity = leafNodeCount * BitsPerLeaf
  <2>1. pc' = "done"
    BY <1>8 DEF fillAllNodes
  <2>2. capacity = Width(0)
    BY <1>1, <1>3, <1>8, Widths
  <2>3. ASSUME NEW l \in 0..(innerLevelCount - 1), NEW o \in 0..(PowerOfTwo[l] - 1)
        PROVE  inner'[l][o] = [left |-> Wanted(l + 1, 2 * o), right |-> Wanted(l + 1, 2 * o + 1)]
    <3>1. l \in 0..innerLevelCount /\ o \in Nat
      BY <1>3
    <3>2. o * Width(l) + Width(l) <= capacity
      BY <1>1, <2>2, <3>1, NodeEnd
    <3> QED BY <1>1, <1>5, <3>1, <3>2, WantedFull DEF Full
  <2>4. ExactFrom(0)'
    BY <1>1, <2>3, SameMeasurements DEF ExactFrom, Exact, measurements
  <2>5. ASSUME NEW o \in 0..(leafNodeCount - 1)
        PROVE  Bits = {b \in Bits : o * BitsPerLeaf + b < capacity}
    <3>1. innerLevelCount \in 0..innerLevelCount /\ o \in 0..(PowerOfTwo[innerLevelCount] - 1)
      BY <1>3
    <3>2. o * BitsPerLeaf + BitsPerLeaf <= capacity
      BY <1>1, <2>2, <3>1, NodeEnd, Widths
    <3>3. PICK a \in Nat : a = o * BitsPerLeaf
      OBVIOUS
    <3> QED BY <1>3, <3>2, <3>3 DEF Bits
  <2>6. ExactLeaves'
    BY <1>1, <1>6, <2>5 DEF ExactLeaves, measurements
  <2> QED BY <1>1, <1>2, <1>4, <2>1, <2>4, <2>6 DEF IInv, measurements
<1> QED BY <1>7, <1>8

\* leafTruncate() keeps the ids below the capacity in the leaf where it ends, and
\* whatever the shift by a whole word yields is in a leaf that stands for none of them.
LEMMA TruncateLeavesStep ==
    ASSUME IInv, TruncateLeaves
    PROVE  IInv'
<1> USE TreeAssumption
<1>1. /\ pc = "leafTruncate" /\ pc' = "innerTruncate" /\ UNCHANGED <<measurements, inner>>
      /\ Measured /\ Shaped /\ FullAbove(innerLevelCount)
      /\ capacity <= BitsPerLeaf * leafNodeCount /\ capacity # BitsPerLeaf * leafNodeCount
      /\ \A o \in 0..(leafNodeCount - 1) : leaf[o] = Bits
  BY DEF IInv, TruncateLeaves
<1>2. Measured'
  BY <1>1, SameMeasurements
<1>3. /\ innerLevelCount \in Nat \ {0} /\ leafNodeCount \in Nat \ {0}
      /\ leafNodeCount = PowerOfTwo[innerLevelCount] /\ capacity \in Nat
  BY <1>1, PowerOfTwoPositive DEF Measured
<1>4. PICK k \in Nat, r \in 0..(BitsPerLeaf - 1) :
          k = capacity \div BitsPerLeaf /\ r = capacity % BitsPerLeaf
  <2>1. capacity \div BitsPerLeaf \in Nat
    BY <1>3
  <2>2. capacity % BitsPerLeaf \in 0..(BitsPerLeaf - 1)
    BY <1>3
  <2> QED BY <2>1, <2>2, Zenon
<1>5. capacity = k * BitsPerLeaf + r
  BY <1>3, <1>4
<1>6. k < leafNodeCount
  <2>1. SUFFICES ASSUME leafNodeCount <= k PROVE FALSE
    BY <1>3
  <2>2. leafNodeCount * BitsPerLeaf <= k * BitsPerLeaf
    BY <1>3, <2>1, ProductsGrow
  <2> QED BY <1>1, <1>3, <1>5, <2>2
<1>7. level' = innerLevelCount /\ offset' = k /\ toSubtract' = BitsPerLeaf - r
  BY <1>4 DEF TruncateLeaves
<1>8. PICK bits \in LeafTruncated(r) :
          leaf' = [o \in DOMAIN leaf |->
                      IF o = k THEN bits
                      ELSE IF o \in (k + 1)..(k + leafNodeCount - requestedLeafNodeCount - 1)
                           THEN {}
                           ELSE leaf[o]]
  BY <1>4, <1>7 DEF TruncateLeaves
<1>9. Shaped'
  BY <1>1, <1>8 DEF Shaped, measurements
<1>10. AtFirstExtra'
  <2>1. Width(innerLevelCount) = BitsPerLeaf
    BY <1>1, Widths
  <2>2. k \in 0..(PowerOfTwo[innerLevelCount] - 1) /\ innerLevelCount \in 1..innerLevelCount
    BY <1>3, <1>6
  <2>3. /\ k * BitsPerLeaf <= capacity /\ capacity < k * BitsPerLeaf + BitsPerLeaf
        /\ BitsPerLeaf - r = k * BitsPerLeaf + BitsPerLeaf - capacity
    <3>1. PICK a \in Nat : a = k * BitsPerLeaf
      OBVIOUS
    <3> QED BY <1>5, <3>1
  <2>4. Width(level)' = BitsPerLeaf
    BY <1>1, <1>7, <2>1 DEF Width, measurements
  <2> QED BY <1>1, <1>7, <2>2, <2>3, <2>4 DEF AtFirstExtra, measurements
<1>11. FullAbove(level)'
  BY <1>1, <1>7, SameMeasurements DEF FullAbove, measurements
<1>12. ExactFrom(level)'
  BY <1>1, <1>3, <1>7 DEF ExactFrom, measurements
<1>13. ASSUME NEW o \in 0..(leafNodeCount - 1), Wanted(innerLevelCount, o) > 0
       PROVE  leaf'[o] = {b \in Bits : o * BitsPerLeaf + b < capacity}
  <2>1. PICK a \in Nat : a = o * BitsPerLeaf
    OBVIOUS
  <2>2. a < capacity
    <3>1. innerLevelCount \in 0..innerLevelCount /\ o \in Nat
      BY <1>3
    <3>2. ~(capacity <= a)
      BY <1>1, <1>13, <2>1, <3>1, WantedValue, Widths
    <3> QED BY <1>3, <3>2
  <2>3. o <= k
    <3>1. SUFFICES ASSUME k + 1 <= o PROVE FALSE
      BY <1>3
    <3>2. (k + 1) * BitsPerLeaf <= o * BitsPerLeaf
      BY <3>1, ProductsGrow
    <3>3. (k + 1) * BitsPerLeaf = k * BitsPerLeaf + BitsPerLeaf
      BY Products
    <3> QED BY <1>3, <1>5, <2>1, <2>2, <3>2, <3>3
  <2>4. o \in DOMAIN leaf
    BY <1>1 DEF Shaped
  <2>5. CASE o = k
    <3>1. r > 0
      BY <1>5, <2>1, <2>2, <2>5
    <3>2. bits = 0..(r - 1)
      BY <3>1 DEF LeafTruncated
    <3>3. leaf'[o] = 0..(r - 1)
      BY <1>8, <2>4, <2>5, <3>2
    <3>4. capacity = a + r
      BY <1>5, <2>1, <2>5
    <3> QED BY <1>3, <2>1, <3>3, <3>4 DEF Bits
  <2>6. CASE o # k
    <3>1. o + 1 <= k /\ o \notin (k + 1)..(k + leafNodeCount - requestedLeafNodeCount - 1)
      BY <2>3, <2>6
    <3>2. leaf'[o] = Bits
      BY <1>1, <1>8, <2>4, <2>6, <3>1
    <3>3. (o + 1) * BitsPerLeaf <= k * BitsPerLeaf
      BY <3>1, ProductsGrow
    <3>4. (o + 1) * BitsPerLeaf = a + BitsPerLeaf
      BY <2>1, Products
    <3>5. a + BitsPerLeaf <= capacity
      BY <1>3, <1>5, <3>3, <3>4
    <3> QED BY <1>3, <2>1, <3>2, <3>5 DEF Bits
  <2> QED BY <2>5, <2>6
<1>14. ExactLeaves'
  BY <1>1, <1>13, SameMeasurements DEF ExactLeaves, measurements
<1> QED BY <1>1, <1>2, <1>9, <1>10, <1>11, <1>12, <1>14 DEF IInv, measurements

\* What innerTruncate() finds: a full node, which has as many ids on either side as are
\* to be subtracted, or more.
LEMMA NodeToTruncate ==
    ASSUME IInv, pc = "innerTruncate"
    PROVE  /\ level - 1 \in 0..(innerLevelCount - 1)
           /\ offset \div 2 \in 0..(PowerOfTwo[level - 1] - 1)
           /\ inner[level - 1][offset \div 2] = [left |-> Width(level), right |-> Width(level)]
           /\ toSubtract \in 1..Width(level)
<1>1. Measured /\ Shaped /\ AtFirstExtra /\ FullAbove(level)
  BY DEF IInv
<1>2. level - 1 \in 0..(innerLevelCount - 1) /\ innerLevelCount \in Nat /\ (level - 1) + 1 = level
  BY <1>1 DEF AtFirstExtra, Measured
<1>3. offset \div 2 \in 0..(PowerOfTwo[level - 1] - 1)
  <2>1. PICK p \in Nat \ {0} : p = PowerOfTwo[level - 1]
    BY <1>2, PowerOfTwoPositive
  <2>2. PowerOfTwo[level] = 2 * p
    BY <1>2, <2>1, PowerOfTwoDef
  <2>3. offset \in 0..(2 * p - 1)
    BY <1>1, <2>2 DEF AtFirstExtra
  <2>4. offset \div 2 \in 0..(p - 1)
    BY <2>3
  <2> QED BY <2>1, <2>4
<1>4. inner[level - 1][offset \div 2] = Full(level - 1)
  BY <1>1, <1>2, <1>3 DEF FullAbove
<1>5. toSubtract \in 1..Width(level)
  <2>1. level \in 0..innerLevelCount
    BY <1>2
  <2>2. PICK w \in Nat \ {0} : w = Width(level)
    BY <1>1, <2>1, Widths
  <2>3. PICK a \in Int : a = offset * w
    BY <1>1, <2>1 DEF AtFirstExtra
  <2>4. a <= capacity /\ capacity < a + w /\ toSubtract = a + w - capacity /\ capacity \in Nat
    BY <1>1, <2>2, <2>3, TreeAssumption DEF AtFirstExtra, Measured
  <2> QED BY <2>2, <2>4
<1> QED BY <1>2, <1>3, <1>4, <1>5 DEF Full

\* innerTruncate() makes a node exact and finds out how many ids the levels above must
\* subtract, which is what they count too much.
LEMMA InnerTruncateStep ==
    ASSUME IInv, innerTruncate
    PROVE  IInv'
<1> USE TreeAssumption
<1>1. /\ pc = "innerTruncate" /\ UNCHANGED <<measurements, leaf>>
      /\ Measured /\ Shaped /\ AtFirstExtra /\ FullAbove(level) /\ ExactFrom(level) /\ ExactLeaves
      /\ capacity <= BitsPerLeaf * leafNodeCount
  BY DEF IInv, innerTruncate
<1>2. Measured' /\ innerLevelCount \in Nat \ {0} /\ capacity \in Nat
  BY <1>1, SameMeasurements DEF Measured
<1>3. PICK l \in 0..(innerLevelCount - 1) : l = level - 1
  BY <1>1, NodeToTruncate
<1>4. PICK o \in 0..(PowerOfTwo[l] - 1) : o = offset \div 2
  BY <1>1, <1>3, NodeToTruncate
<1>5. level = l + 1 /\ l + 1 \in 0..innerLevelCount /\ l \in 0..innerLevelCount /\ o \in Nat
  <2>1. level \in Int
    BY <1>1 DEF AtFirstExtra
  <2> QED BY <1>2, <1>3, <2>1
<1>6. PICK w \in Nat \ {0} : w = Width(l + 1)
  BY <1>1, <1>5, Widths
<1>7. Width(l) = 2 * w
  BY <1>1, <1>6, Widths
<1>8. PICK a \in Nat : a = (2 * o) * w
  BY <1>5
<1>9. (2 * o + 1) * w = a + w /\ o * Width(l) = a
  BY <1>5, <1>7, <1>8, Products
<1>10. PICK d \in 1..w : d = toSubtract
  BY <1>1, <1>5, <1>6, NodeToTruncate
<1>11. inner[l][o] = [left |-> w, right |-> w]
  BY <1>1, <1>3, <1>4, <1>5, <1>6, NodeToTruncate
<1>12. \/ offset % 2 = 0 /\ offset = 2 * o
       \/ offset % 2 # 0 /\ offset = 2 * o + 1
  <2>1. offset \in Nat
    BY <1>1 DEF AtFirstExtra
  <2> QED BY <1>4, <2>1
<1>13. \/ offset % 2 = 0 /\ a <= capacity /\ capacity < a + w /\ d = a + w - capacity
       \/ offset % 2 # 0 /\ a + w <= capacity /\ capacity < a + w + w /\ d = a + w + w - capacity
  BY <1>1, <1>5, <1>6, <1>8, <1>9, <1>10, <1>12 DEF AtFirstExtra
<1>14. a <= capacity /\ capacity < a + 2 * w
  BY <1>2, <1>13
<1> DEFINE t == Truncated(inner[l][o], offset % 2 = 0)
<1>15. /\ inner' = [inner EXCEPT ![l][o] = t]
       /\ toSubtract' = SubtractNext(inner[l][o], offset % 2 = 0)
       /\ level' = l /\ offset' = o
       /\ pc' = IF l = 0 THEN "done" ELSE "innerTruncate"
  BY <1>3, <1>4 DEF innerTruncate
<1>16. t = [left |-> Wanted(l + 1, 2 * o), right |-> Wanted(l + 1, 2 * o + 1)]
  <2>1. CASE offset % 2 = 0
    <3>1. a <= capacity /\ capacity < a + w /\ d = a + w - capacity
      BY <1>13, <2>1
    <3>2. t = [left |-> w - d, right |-> 0]
      BY <1>10, <1>11, <2>1 DEF Truncated
    <3>3. Wanted(l + 1, 2 * o) = w - d
      <4>1. Wanted(l + 1, 2 * o) =
                IF capacity <= a THEN 0 ELSE IF a + w <= capacity THEN w ELSE capacity - a
        BY <1>1, <1>5, <1>6, <1>8, WantedValue
      <4> QED BY <1>2, <3>1, <4>1
    <3>4. Wanted(l + 1, 2 * o + 1) = 0
      <4>1. Wanted(l + 1, 2 * o + 1) =
                IF capacity <= a + w THEN 0
                ELSE IF a + w + w <= capacity THEN w ELSE capacity - (a + w)
        BY <1>1, <1>5, <1>6, <1>9, WantedValue
      <4> QED BY <1>2, <3>1, <4>1
    <3> QED BY <3>2, <3>3, <3>4
  <2>2. CASE offset % 2 # 0
    <3>1. a + w <= capacity /\ capacity < a + w + w /\ d = a + w + w - capacity
      BY <1>13, <2>2
    <3>2. t = [left |-> w, right |-> w - d]
      BY <1>10, <1>11, <2>2 DEF Truncated
    <3>3. Wanted(l + 1, 2 * o) = w
      <4>1. Wanted(l + 1, 2 * o) =
                IF capacity <= a THEN 0 ELSE IF a + w <= capacity THEN w ELSE capacity - a
        BY <1>1, <1>5, <1>6, <1>8, WantedValue
      <4> QED BY <1>2, <3>1, <4>1
    <3>4. Wanted(l + 1, 2 * o + 1) = w - d
      <4>1. Wanted(l + 1, 2 * o + 1) =
                IF capacity <= a + w THEN 0
                ELSE IF a + w + w <= capacity THEN w ELSE capacity - (a + w)
        BY <1>1, <1>5, <1>6, <1>9, WantedValue
      <4> QED BY <1>2, <3>1, <4>1
    <3> QED BY <3>2, <3>3, <3>4
  <2> QED BY <2>1, <2>2
<1>17. toSubtract' = a + 2 * w - capacity
  <2>1. CASE offset % 2 = 0
    <3>1. toSubtract' = d + w
      BY <1>10, <1>11, <1>15, <2>1 DEF SubtractNext
    <3>2. d = a + w - capacity
      BY <1>13, <2>1
    <3>3. d + w = a + 2 * w - capacity
      BY <1>2, <3>2
    <3> QED BY <3>1, <3>3
  <2>2. CASE offset % 2 # 0
    <3>1. toSubtract' = d + 0
      BY <1>10, <1>15, <2>2 DEF SubtractNext
    <3>2. d = a + w + w - capacity
      BY <1>13, <2>2
    <3>3. d + 0 = a + 2 * w - capacity
      BY <1>2, <3>2
    <3> QED BY <3>1, <3>3
  <2> QED BY <2>1, <2>2
<1> HIDE DEF t
<1>18. Shaped'
  BY <1>1, <1>15 DEF Shaped, measurements
<1>19. /\ inner'[l][o] = t
       /\ \A m \in 0..(innerLevelCount - 1) : \A x \in 0..(PowerOfTwo[m] - 1) :
             m # l \/ x # o => inner'[m][x] = inner[m][x]
  BY <1>1, <1>15 DEF Shaped
<1>20. FullAbove(l)'
  BY <1>1, <1>5, <1>19, SameMeasurements DEF FullAbove, measurements
<1>21. ASSUME NEW x \in 0..(PowerOfTwo[l] - 1), l = 0 \/ Wanted(l, x) > 0
       PROVE  inner'[l][x] = [left |-> Wanted(l + 1, 2 * x), right |-> Wanted(l + 1, 2 * x + 1)]
  <2>0. x \in Nat /\ x * (2 * w) \in Nat
    OBVIOUS
  <2>1. CASE x = o
    BY <1>16, <1>19, <2>1
  <2>2. CASE x < o
    <3>1. x + 1 <= o
      BY <1>5, <2>0, <2>2
    <3>2. (x + 1) * (2 * w) <= o * (2 * w)
      BY <1>5, <2>0, <3>1, ProductsGrow
    <3>3. (x + 1) * (2 * w) = x * (2 * w) + 2 * w
      BY <2>0, Products
    <3>4. x * Width(l) + Width(l) <= capacity
      BY <1>2, <1>7, <1>9, <1>14, <2>0, <3>2, <3>3
    <3>5. inner[l][x] = Full(l)
      BY <1>1, <1>5 DEF FullAbove
    <3>6. Wanted(l + 1, 2 * x) = Width(l + 1) /\ Wanted(l + 1, 2 * x + 1) = Width(l + 1)
      BY <1>1, <2>0, <3>4, WantedFull
    <3>7. inner'[l][x] = inner[l][x]
      BY <1>5, <1>19, <2>0, <2>2
    <3> QED BY <3>5, <3>6, <3>7 DEF Full
  <2>3. CASE o < x
    <3>1. o + 1 <= x
      BY <1>5, <2>0, <2>3
    <3>2. (o + 1) * (2 * w) <= x * (2 * w)
      BY <1>5, <2>0, <3>1, ProductsGrow
    <3>3. (o + 1) * (2 * w) = o * (2 * w) + 2 * w
      BY <1>5, Products
    <3>4. capacity <= x * Width(l)
      BY <1>2, <1>7, <1>9, <1>14, <2>0, <3>2, <3>3
    <3>5. Wanted(l, x) = 0
      BY <1>1, <1>5, <2>0, <3>4, WantedValue
    <3>6. l # 0
      BY <1>5, <2>0, <2>3, PowerOfTwoDef
    <3> QED BY <1>21, <3>5, <3>6
  <2> QED BY <1>5, <2>0, <2>1, <2>2, <2>3
<1>22. ExactFrom(l)'
  <2>1. SUFFICES ASSUME NEW m \in 0..(innerLevelCount - 1), l <= m,
                        NEW x \in 0..(PowerOfTwo[m] - 1), m = 0 \/ Wanted(m, x) > 0
                 PROVE  inner'[m][x] = [left |-> Wanted(m + 1, 2 * x), right |-> Wanted(m + 1, 2 * x + 1)]
    BY <1>1, SameMeasurements DEF ExactFrom, Exact, measurements
  <2>2. CASE m = l
    BY <1>21, <2>1, <2>2
  <2>3. CASE m # l
    <3>1. level <= m
      BY <1>5, <2>1, <2>3
    <3>2. Exact(m, x)
      BY <1>1, <2>1, <3>1 DEF ExactFrom
    <3> QED BY <1>19, <2>3, <3>2 DEF Exact
  <2> QED BY <2>2, <2>3
<1>23. ExactLeaves'
  BY <1>1, SameMeasurements DEF ExactLeaves, measurements
<1>24. CASE l = 0
  BY <1>1, <1>2, <1>15, <1>18, <1>22, <1>23, <1>24 DEF IInv, measurements
<1>25. CASE l # 0
  <2>1. AtFirstExtra'
    <3>1. Width(level)' = 2 * w
      BY <1>1, <1>7, <1>15 DEF Width, measurements
    <3>2. o * (2 * w) = a
      BY <1>7, <1>9
    <3>3. l \in 1..innerLevelCount
      BY <1>5, <1>25
    <3> QED BY <1>1, <1>14, <1>15, <1>17, <3>1, <3>2, <3>3 DEF AtFirstExtra, measurements
  <2>2. FullAbove(level)' /\ ExactFrom(level)'
    BY <1>15, <1>20, <1>22 DEF FullAbove, ExactFrom
  <2> QED BY <1>1, <1>2, <1>15, <1>18, <1>23, <1>25, <2>1, <2>2 DEF IInv, measurements
<1> QED BY <1>24, <1>25

\* The inductive invariant holds throughout the construction.
THEOREM InductiveInvariant == Spec => []IInv
<1>1. Init => IInv
  <2> SUFFICES ASSUME Init PROVE IInv
    OBVIOUS
  <2>1. PowerOfTwo[1] = 2
    BY PowerOfTwoDef
  <2> QED BY <2>1, TreeAssumption DEF Init, IInv, Measured
<1>2. IInv /\ [Next]_vars => IInv'
  <2> SUFFICES ASSUME IInv, [Next]_vars PROVE IInv'
    OBVIOUS
  <2>1. CASE Measure
    BY <2>1, MeasureStep
  <2>2. CASE fillAllNodes
    BY <2>2, FillStep
  <2>3. CASE TruncateLeaves
    BY <2>3, TruncateLeavesStep
  <2>4. CASE innerTruncate
    BY <2>4, InnerTruncateStep
  <2>5. CASE UNCHANGED vars
    <3>1. /\ UNCHANGED measurements /\ pc' = pc /\ inner' = inner /\ leaf' = leaf
          /\ level' = level /\ offset' = offset /\ toSubtract' = toSubtract
      BY <2>5 DEF vars, measurements
    <3>2. /\ capacity' = capacity /\ leafNodeCount' = leafNodeCount
          /\ innerLevelCount' = innerLevelCount
      BY <3>1 DEF measurements
    <3>3. Measured => Measured'
      BY <3>1, SameMeasurements
    <3>4. Shaped => Shaped'
      BY <3>1, <3>2 DEF Shaped
    <3>5. /\ FullAbove(level) => FullAbove(level)'
          /\ FullAbove(innerLevelCount) => FullAbove(innerLevelCount)'
      BY <3>1, <3>2, SameMeasurements DEF FullAbove
    <3>6. (ExactFrom(level) => ExactFrom(level)') /\ (ExactFrom(0) => ExactFrom(0)')
      BY <3>1, <3>2, SameMeasurements DEF ExactFrom, Exact
    <3>7. ExactLeaves => ExactLeaves'
      <4>1. \A o : Wanted(innerLevelCount, o)' = Wanted(innerLevelCount, o)
        BY <3>2 DEF Wanted, Span, Width
      <4> QED BY <3>1, <3>2, <4>1 DEF ExactLeaves
    <3>8. AtFirstExtra => AtFirstExtra'
      <4>1. Width(level)' = Width(level)
        BY <3>1, <3>2 DEF Width
      <4> QED BY <3>1, <3>2, <4>1 DEF AtFirstExtra
    <3> QED BY <3>1, <3>2, <3>3, <3>4, <3>5, <3>6, <3>7, <3>8 DEF IInv
  <2> QED BY <2>1, <2>2, <2>3, <2>4, <2>5 DEF Next
<1> QED BY <1>1, <1>2, PTL DEF Spec

\* The tree makeFullBeforeSharing() builds holds the ids below the capacity and no
\* others, for every capacity and whatever the undefined shift of leafTruncate() yields.
THEOREM TreeIsExact == Spec => []TreeHoldsCapacity
<1>1. IInv => TreeHoldsCapacity
  <2> SUFFICES ASSUME IInv, pc = "done" PROVE TreeHoldsCapacity
    BY DEF TreeHoldsCapacity
  <2>1. Measured /\ Shaped /\ ExactFrom(0) /\ ExactLeaves
    BY DEF IInv
  <2>2. ASSUME NEW l \in DOMAIN inner, NEW o \in DOMAIN inner[l], l = 0 \/ Wanted(l, o) > 0
        PROVE  inner[l][o] = [left |-> Wanted(l + 1, 2 * o), right |-> Wanted(l + 1, 2 * o + 1)]
    <3>1. l \in 0..(innerLevelCount - 1)
      BY <2>1 DEF Shaped
    <3>2. o \in 0..(PowerOfTwo[l] - 1)
      BY <2>1, <3>1 DEF Shaped
    <3>3. 0 <= l
      BY <2>1, <3>1 DEF Measured
    <3> QED BY <2>1, <2>2, <3>1, <3>2, <3>3 DEF ExactFrom, Exact
  <2>3. ASSUME NEW o \in DOMAIN leaf, Wanted(innerLevelCount, o) > 0
        PROVE  leaf[o] = {b \in Bits : o * BitsPerLeaf + b < capacity}
    BY <2>1, <2>3 DEF Shaped, ExactLeaves
  <2> QED BY <2>2, <2>3 DEF TreeHoldsCapacity
<1> QED BY <1>1, InductiveInvariant, PTL

\* IdSetMeasurements() finds a perfect tree with a leaf for every id, which is what
\* PageStack assumes of its constants, and no tree of half the size has one.
MeasurementsSuffice ==
    pc # "measure" =>
        /\ capacity <= BitsPerLeaf * PowerOfTwo[innerLevelCount]
        /\ innerLevelCount = 1 \/ BitsPerLeaf * PowerOfTwo[innerLevelCount - 1] < capacity

\* A leaf count that is not the first one has not been needed by half as many.
LEMMA HalfTooSmall ==
    ASSUME Measured
    PROVE  innerLevelCount = 1 \/ BitsPerLeaf * PowerOfTwo[innerLevelCount - 1] < capacity
<1> USE TreeAssumption
<1> SUFFICES ASSUME innerLevelCount # 1
             PROVE  BitsPerLeaf * PowerOfTwo[innerLevelCount - 1] < capacity
  OBVIOUS
<1>1. innerLevelCount - 1 \in Nat \ {0} /\ innerLevelCount \in Nat \ {0} /\ capacity \in Nat
  BY DEF Measured
<1>2. PICK p \in Nat \ {0} : p = PowerOfTwo[innerLevelCount - 1]
  BY <1>1, PowerOfTwoPositive
<1>3. leafNodeCount = 2 * p
  BY <1>1, <1>2, PowerOfTwoDef DEF Measured
<1>4. p # 1
  <2>1. PICK q \in Nat \ {0} : q = PowerOfTwo[(innerLevelCount - 1) - 1]
    BY <1>1, PowerOfTwoPositive
  <2>2. p = 2 * q
    BY <1>1, <1>2, <2>1, PowerOfTwoDef
  <2> QED BY <2>2
<1>5. PICK x \in Nat : x = capacity + (BitsPerLeaf - 1)
  BY <1>1
<1>6. PICK r \in Nat : r = x \div BitsPerLeaf
  OBVIOUS
<1>7. p + 1 <= r
  BY <1>3, <1>4, <1>5, <1>6 DEF Measured, requestedLeafNodeCount
<1>8. r * BitsPerLeaf <= x
  BY <1>6
<1>9. (p + 1) * BitsPerLeaf <= r * BitsPerLeaf
  BY <1>7, ProductsGrow
<1>10. (p + 1) * BitsPerLeaf = p * BitsPerLeaf + BitsPerLeaf
  BY Products
<1>11. p * BitsPerLeaf < capacity
  BY <1>1, <1>5, <1>8, <1>9, <1>10
<1> QED BY <1>2, <1>11

\* The measurements suffice and are the smallest that do, for every capacity.
THEOREM TreeIsLargeEnough == Spec => []MeasurementsSuffice
<1>1. IInv => MeasurementsSuffice
  BY HalfTooSmall DEF IInv, Measured, MeasurementsSuffice
<1> QED BY <1>1, InductiveInvariant, PTL

\* The assertions of leafTruncate() and innerTruncate(): the leaf to truncate has all its
\* bits, and a node has the ids to subtract on the side they are subtracted from.
TruncateAsserts ==
    /\ pc = "leafTruncate" =>
          /\ capacity \div BitsPerLeaf \in DOMAIN leaf
          /\ leaf[capacity \div BitsPerLeaf] = Bits
    /\ pc = "innerTruncate" =>
          LET node == inner[level - 1][offset \div 2]
          IN  IF offset % 2 = 0 THEN toSubtract <= node.left ELSE toSubtract <= node.right

\* No assertion of truncateExtras() fails, for any capacity.
THEOREM TruncationIsSafe == Spec => []TruncateAsserts
<1> USE TreeAssumption
<1>1. ASSUME IInv, pc = "leafTruncate"
      PROVE  capacity \div BitsPerLeaf \in DOMAIN leaf /\ leaf[capacity \div BitsPerLeaf] = Bits
  <2>1. /\ Measured /\ Shaped /\ capacity <= BitsPerLeaf * leafNodeCount
        /\ capacity # BitsPerLeaf * leafNodeCount
        /\ \A o \in 0..(leafNodeCount - 1) : leaf[o] = Bits
    BY <1>1 DEF IInv
  <2>2. capacity \in Nat /\ leafNodeCount \in Nat
    BY <2>1, PowerOfTwoPositive DEF Measured
  <2>3. PICK k \in Nat : k = capacity \div BitsPerLeaf
    BY <2>2
  <2>4. k * BitsPerLeaf <= capacity
    BY <2>2, <2>3
  <2>5. k < leafNodeCount
    <3>1. SUFFICES ASSUME leafNodeCount <= k PROVE FALSE
      BY <2>2
    <3>2. leafNodeCount * BitsPerLeaf <= k * BitsPerLeaf
      BY <2>2, <3>1, ProductsGrow
    <3> QED BY <2>1, <2>2, <2>4, <3>2
  <2> QED BY <2>1, <2>2, <2>3, <2>5 DEF Shaped
<1>2. ASSUME IInv, pc = "innerTruncate"
      PROVE  LET node == inner[level - 1][offset \div 2]
             IN  IF offset % 2 = 0 THEN toSubtract <= node.left ELSE toSubtract <= node.right
  <2>1. /\ inner[level - 1][offset \div 2] = [left |-> Width(level), right |-> Width(level)]
        /\ toSubtract \in 1..Width(level)
    BY <1>2, NodeToTruncate
  <2>2. toSubtract <= Width(level)
    BY <2>1
  <2> QED BY <2>1, <2>2
<1>3. IInv => TruncateAsserts
  BY <1>1, <1>2 DEF TruncateAsserts
<1> QED BY <1>3, InductiveInvariant, PTL

\* Counts are small: a count that exceeds a leaf stays below the capacity, and so does
\* what truncateExtras() subtracts, so that the 32-bit halves of a node never overflow.
CountsFit ==
    LET Fits(n) == n \in Nat /\ (n <= BitsPerLeaf \/ n < capacity)
    IN  /\ pc \in {"leafTruncate", "innerTruncate", "done"} =>
              \A l \in 0..(innerLevelCount - 1) : \A o \in 0..(PowerOfTwo[l] - 1) :
                  Fits(inner[l][o].left) /\ Fits(inner[l][o].right)
        /\ pc = "innerTruncate" => Fits(toSubtract)

\* No node counts more ids than the full node did.
Bounded ==
    pc \in {"leafTruncate", "innerTruncate", "done"} =>
        \A l \in 0..(innerLevelCount - 1) : \A o \in 0..(PowerOfTwo[l] - 1) :
            /\ inner[l][o].left \in 0..Width(l + 1)
            /\ inner[l][o].right \in 0..Width(l + 1)

\* The width of a level below the root exceeds neither a leaf nor the capacity.
LEMMA WidthsFit ==
    ASSUME Measured, NEW l \in 1..innerLevelCount
    PROVE  Width(l) <= BitsPerLeaf \/ Width(l) < capacity
<1> USE TreeAssumption
<1>1. innerLevelCount \in Nat \ {0} /\ 1 \in 0..innerLevelCount /\ l \in 0..innerLevelCount
  BY DEF Measured
<1>2. PICK w \in Nat \ {0} : w = Width(l)
  BY <1>1, Widths
<1>3. PICK v \in Nat \ {0} : v = Width(1)
  BY <1>1, Widths
<1>4. w <= v
  <2>1. PICK m \in 0..(innerLevelCount - 1) : l = m + 1
    <3>1. l - 1 \in 0..(innerLevelCount - 1) /\ l = (l - 1) + 1
      BY <1>1
    <3> QED BY <3>1
  <2>2. Width(m) = 2 * w /\ m \in 0..innerLevelCount
    BY <1>1, <1>2, <2>1, Widths
  <2>3. Width(0) = 2 * v
    BY <1>1, <1>3, Widths
  <2>4. PICK p \in Nat \ {0} : p = PowerOfTwo[m]
    BY PowerOfTwoPositive
  <2>5. p * (2 * w) = 2 * v
    <3>1. PowerOfTwo[m] * Width(m) = Width(0)
      BY <2>2, LevelSpansAll
    <3> QED BY <2>2, <2>3, <2>4, <3>1, Zenon
  <2>6. 1 * (2 * w) <= p * (2 * w)
    BY ProductsGrow
  <2> QED BY <2>5, <2>6
<1>5. v <= BitsPerLeaf \/ v < capacity
  <2>1. CASE innerLevelCount = 1
    BY <1>3, <2>1, Widths
  <2>2. CASE innerLevelCount # 1
    BY <1>3, <2>2, HalfTooSmall DEF Width
  <2> QED BY <2>1, <2>2
<1>6. capacity \in Nat
  BY DEF Measured
<1> QED BY <1>2, <1>4, <1>5, <1>6

\* Steps keep the counts at most full: nodes are filled once, and then only reduced.
LEMMA BoundedStep ==
    ASSUME IInv, IInv', Bounded, [Next]_vars
    PROVE  Bounded'
<1> USE TreeAssumption
<1>1. CASE Measure
  BY <1>1 DEF Measure, Bounded, IInv
<1>2. CASE fillAllNodes
  <2>1. Measured /\ UNCHANGED measurements
    BY <1>2 DEF fillAllNodes, IInv
  <2>2. ASSUME NEW l \in 0..(innerLevelCount - 1), NEW o \in 0..(PowerOfTwo[l] - 1)
        PROVE  inner'[l][o] = [left |-> Width(l + 1), right |-> Width(l + 1)] /\ Width(l + 1) \in Nat
    <3>1. innerLevelCount - 1 - l = innerLevelCount - (l + 1) /\ l + 1 \in 0..innerLevelCount
      BY <2>1 DEF Measured
    <3>2. PagesBelow(l) = Width(l + 1)
      BY <3>1 DEF PagesBelow, Width
    <3>3. Width(l + 1) \in Nat
      BY <2>1, <3>1, Widths
    <3> QED BY <1>2, <3>2, <3>3 DEF fillAllNodes
  <2>3. ASSUME NEW l \in 0..(innerLevelCount - 1), NEW o \in 0..(PowerOfTwo[l] - 1)
        PROVE  inner'[l][o].left \in 0..Width(l + 1) /\ inner'[l][o].right \in 0..Width(l + 1)
    <3>1. PICK w \in Nat : w = Width(l + 1)
      BY <2>2
    <3>2. inner'[l][o] = [left |-> w, right |-> w]
      BY <2>2, <3>1
    <3>3. w \in 0..w
      BY <3>1
    <3> QED BY <3>1, <3>2, <3>3
  <2> QED BY <2>1, <2>3, SameMeasurements DEF Bounded, measurements
<1>3. CASE TruncateLeaves
  <2>1. UNCHANGED measurements /\ inner' = inner /\ pc = "leafTruncate"
    BY <1>3 DEF TruncateLeaves
  <2> QED BY <2>1, SameMeasurements DEF Bounded, measurements
<1>4. CASE innerTruncate
  <2>1. UNCHANGED measurements /\ Shaped /\ Measured /\ pc = "innerTruncate"
    BY <1>4 DEF innerTruncate, IInv
  <2>2. PICK k \in 0..(innerLevelCount - 1) : k = level - 1
    BY <2>1, NodeToTruncate
  <2>3. PICK i \in 0..(PowerOfTwo[k] - 1) : i = offset \div 2
    BY <2>1, <2>2, NodeToTruncate
  <2>4. level = k + 1 /\ k + 1 \in 0..innerLevelCount
    BY <2>1, <2>2 DEF IInv, AtFirstExtra, Measured
  <2>5. PICK w \in Nat : w = Width(k + 1)
    BY <2>1, <2>4, Widths
  <2>6. PICK d \in 0..w : d = toSubtract
    BY <2>1, <2>4, <2>5, NodeToTruncate
  <2>7. inner[k][i] = [left |-> w, right |-> w]
    BY <2>1, <2>2, <2>3, <2>4, <2>5, NodeToTruncate
  <2> DEFINE t == Truncated(inner[k][i], offset % 2 = 0)
  <2>8. inner' = [inner EXCEPT ![k][i] = t]
    BY <1>4, <2>2, <2>3 DEF innerTruncate
  <2>9. t.left \in 0..w /\ t.right \in 0..w
    <3>1. t \in {[left |-> w - d, right |-> 0], [left |-> w, right |-> w - d]}
      BY <2>6, <2>7 DEF Truncated
    <3>2. w \in 0..w /\ w - d \in 0..w /\ 0 \in 0..w
      BY <2>5, <2>6
    <3> QED BY <3>1, <3>2
  <2> HIDE DEF t
  <2>10. ASSUME NEW l \in 0..(innerLevelCount - 1), NEW o \in 0..(PowerOfTwo[l] - 1)
         PROVE  inner'[l][o] = IF l = k /\ o = i THEN t ELSE inner[l][o]
    BY <2>1, <2>8 DEF Shaped
  <2>11. ASSUME NEW l \in 0..(innerLevelCount - 1), NEW o \in 0..(PowerOfTwo[l] - 1)
         PROVE  inner'[l][o].left \in 0..Width(l + 1) /\ inner'[l][o].right \in 0..Width(l + 1)
    <3>1. CASE l = k /\ o = i
      BY <2>5, <2>9, <2>10, <3>1
    <3>2. CASE ~(l = k /\ o = i)
      BY <2>1, <2>10, <3>2 DEF Bounded
    <3> QED BY <3>1, <3>2
  <2> QED BY <2>1, <2>11, SameMeasurements DEF Bounded, measurements
<1>5. CASE UNCHANGED vars
  <2>1. UNCHANGED measurements /\ inner' = inner /\ pc' = pc
    BY <1>5 DEF vars, measurements
  <2> QED BY <2>1, SameMeasurements DEF Bounded, measurements
<1> QED BY <1>1, <1>2, <1>3, <1>4, <1>5 DEF Next

\* No count of the tree, and nothing truncateExtras() subtracts, outgrows the capacity or
\* a leaf, for any capacity.
THEOREM CountsStaySmall == Spec => []CountsFit
<1>1. Init => Bounded
  BY DEF Init, Bounded
<1>2. Spec => []Bounded
  BY <1>1, BoundedStep, InductiveInvariant, PTL DEF Spec
<1>3. IInv /\ Bounded => CountsFit
  <2> SUFFICES ASSUME IInv, Bounded PROVE CountsFit
    OBVIOUS
  <2>0. Measured /\ innerLevelCount \in Nat /\ capacity \in Nat
    BY TreeAssumption DEF IInv, Measured
  <2>1. ASSUME NEW l \in 0..(innerLevelCount - 1), NEW o \in 0..(PowerOfTwo[l] - 1),
               pc \in {"leafTruncate", "innerTruncate", "done"}, NEW n \in {inner[l][o].left, inner[l][o].right}
        PROVE  n \in Nat /\ (n <= BitsPerLeaf \/ n < capacity)
    <3>1. l + 1 \in 1..innerLevelCount /\ l + 1 \in 0..innerLevelCount
      BY <2>0
    <3>2. PICK w \in Nat : w = Width(l + 1)
      BY <2>0, <3>1, Widths
    <3>3. w <= BitsPerLeaf \/ w < capacity
      BY <2>0, <3>1, <3>2, WidthsFit
    <3>4. n \in 0..w
      BY <2>1, <3>2 DEF Bounded
    <3> QED BY <2>0, <3>2, <3>3, <3>4, TreeAssumption
  <2>2. ASSUME pc = "innerTruncate"
        PROVE  toSubtract \in Nat /\ (toSubtract <= BitsPerLeaf \/ toSubtract < capacity)
    <3>1. level \in 1..innerLevelCount /\ level \in 0..innerLevelCount
      BY <2>0, <2>2 DEF IInv, AtFirstExtra
    <3>2. PICK w \in Nat : w = Width(level)
      BY <2>0, <3>1, Widths
    <3>3. w <= BitsPerLeaf \/ w < capacity
      BY <2>0, <3>1, <3>2, WidthsFit
    <3>4. toSubtract \in 1..w
      BY <2>2, <3>2, NodeToTruncate
    <3> QED BY <2>0, <3>2, <3>3, <3>4, TreeAssumption
  <2> QED BY <2>1, <2>2 DEF CountsFit
<1> QED BY <1>2, <1>3, InductiveInvariant, PTL

-----------------------------------------------------------------------------
(* The loops end *)

\* An upper bound of the steps that are left
StepsLeft ==
    CASE pc = "measure" ->
            innerLevelCount + 3 + IF leafNodeCount < requestedLeafNodeCount
                                  THEN 2 * (requestedLeafNodeCount - leafNodeCount) ELSE 0
      [] pc = "fill" -> innerLevelCount + 2
      [] pc = "leafTruncate" -> innerLevelCount + 1
      [] pc = "innerTruncate" -> level
      [] pc = "done" -> 0

\* Every step brings the construction closer to its end.
StepsDecrease == [][StepsLeft' \in Nat /\ StepsLeft' < StepsLeft]_vars

\* What StepsLeft is at each location
LEMMA StepsLeftAt ==
    /\ pc = "measure" => StepsLeft = innerLevelCount + 3 + (IF leafNodeCount < requestedLeafNodeCount
                             THEN 2 * (requestedLeafNodeCount - leafNodeCount) ELSE 0)
    /\ pc = "fill" => StepsLeft = innerLevelCount + 2
    /\ pc = "leafTruncate" => StepsLeft = innerLevelCount + 1
    /\ pc = "innerTruncate" => StepsLeft = level
    /\ pc = "done" => StepsLeft = 0
BY DEF StepsLeft

\* The loops of IdSetMeasurements() and truncateExtras() end, for every capacity: a
\* natural number decreases with every step.
THEOREM LoopsEnd == Spec => StepsDecrease
<1>1. ASSUME IInv, Next PROVE StepsLeft' \in Nat /\ StepsLeft' < StepsLeft
  <2>0. Measured /\ innerLevelCount \in Nat \ {0} /\ leafNodeCount \in Nat \ {0} /\ capacity \in Nat
    BY <1>1, PowerOfTwoPositive, TreeAssumption DEF IInv, Measured
  <2>1. CASE Measure
    <3>1. PICK r \in Nat : r = requestedLeafNodeCount
      <4>1. PICK x \in Nat : x = capacity + (BitsPerLeaf - 1)
        BY <2>0, TreeAssumption
      <4>2. x \div BitsPerLeaf \in Nat
        BY TreeAssumption
      <4> QED BY <4>1, <4>2 DEF requestedLeafNodeCount
    <3>2. PICK n \in Nat \ {0}, k \in Nat \ {0} : n = leafNodeCount /\ k = innerLevelCount
      BY <2>0
    <3>3. pc = "measure" /\ requestedLeafNodeCount' = r
      BY <2>1, <3>1 DEF Measure, requestedLeafNodeCount
    <3>4. StepsLeft = k + 3 + IF n < r THEN 2 * (r - n) ELSE 0
      BY <3>1, <3>2, <3>3, StepsLeftAt
    <3>5. CASE n < r
      <4>1. pc' = "measure" /\ leafNodeCount' = n * 2 /\ innerLevelCount' = k + 1
        BY <2>1, <3>1, <3>2, <3>3, <3>5 DEF Measure
      <4>2. StepsLeft' = (k + 1) + 3 + IF n * 2 < r THEN 2 * (r - n * 2) ELSE 0
        BY <3>3, <4>1 DEF StepsLeft
      <4> QED BY <3>4, <3>5, <4>2
    <3>6. CASE ~(n < r)
      <4>1. pc' = "fill" /\ innerLevelCount' = k
        BY <2>1, <3>1, <3>2, <3>3, <3>6 DEF Measure
      <4>2. StepsLeft' = k + 2
        BY <4>1 DEF StepsLeft
      <4> QED BY <3>4, <3>6, <4>2
    <3> QED BY <3>5, <3>6
  <2>2. CASE fillAllNodes
    <3>1. pc = "fill" /\ pc' \in {"leafTruncate", "done"} /\ innerLevelCount' = innerLevelCount
      BY <2>2 DEF fillAllNodes, measurements
    <3>2. StepsLeft = innerLevelCount + 2
      BY <3>1, StepsLeftAt
    <3>3. StepsLeft' \in {innerLevelCount + 1, 0}
      BY <3>1 DEF StepsLeft
    <3> QED BY <2>0, <3>2, <3>3
  <2>3. CASE TruncateLeaves
    <3>1. pc = "leafTruncate" /\ pc' = "innerTruncate" /\ level' = innerLevelCount
      BY <2>3 DEF TruncateLeaves
    <3>2. StepsLeft = innerLevelCount + 1
      BY <3>1, StepsLeftAt
    <3>3. StepsLeft' = innerLevelCount
      BY <3>1 DEF StepsLeft
    <3> QED BY <2>0, <3>2, <3>3
  <2>4. CASE innerTruncate
    <3>1. /\ pc = "innerTruncate" /\ level' = level - 1
          /\ pc' = IF level - 1 = 0 THEN "done" ELSE "innerTruncate"
      BY <2>4 DEF innerTruncate
    <3>2. StepsLeft = level
      BY <3>1, StepsLeftAt
    <3>3. StepsLeft' = level - 1
      BY <3>1 DEF StepsLeft
    <3>4. level \in 1..innerLevelCount
      BY <1>1, <3>1 DEF IInv, AtFirstExtra
    <3> QED BY <2>0, <3>2, <3>3, <3>4
  <2> QED BY <1>1, <2>1, <2>2, <2>3, <2>4 DEF Next
<1>2. IInv /\ [Next]_vars => [StepsLeft' \in Nat /\ StepsLeft' < StepsLeft]_vars
  BY <1>1
<1> QED BY <1>2, InductiveInvariant, PTL DEF Spec, StepsDecrease

-----------------------------------------------------------------------------
(* The array of nodes *)

\* Where nodeAt() finds a node: behind the levels above it and the nodes to its left
NodeIndex(l, o) == (PowerOfTwo[l] - 1) + o

\* The assertions of nodeAt(), and that two nodes never share a word.
NodesAreApart ==
    \A l, m \in 0..innerLevelCount : \A o \in 0..(PowerOfTwo[l] - 1), x \in 0..(PowerOfTwo[m] - 1) :
        /\ l = 0 \/ o < 2 * (PowerOfTwo[l] - 1)
        /\ NodeIndex(l, o) < leafNodeCount * 2 - 1
        /\ NodeIndex(l, o) = NodeIndex(m, x) => l = m /\ o = x

\* A level has no more nodes than one below it.
LEMMA PowersGrow == \A n \in Nat : \A l \in 0..n : PowerOfTwo[l] <= PowerOfTwo[n]
<1> DEFINE S == {n \in Nat : \A l \in 0..n : PowerOfTwo[l] <= PowerOfTwo[n]}
<1>1. 0 \in S
  BY PowerOfTwoDef
<1>2. ASSUME NEW n \in Nat, n \in S PROVE n + 1 \in S
  <2> SUFFICES ASSUME NEW l \in 0..(n + 1) PROVE PowerOfTwo[l] <= PowerOfTwo[n + 1]
    OBVIOUS
  <2>1. PICK p \in Nat \ {0} : p = PowerOfTwo[n]
    BY PowerOfTwoPositive
  <2>2. PowerOfTwo[n + 1] = 2 * p
    BY <2>1, PowerOfTwoDef
  <2>3. PICK q \in Nat \ {0} : q = PowerOfTwo[l]
    BY PowerOfTwoPositive
  <2>4. CASE l = n + 1
    BY <2>2, <2>4
  <2>5. CASE l # n + 1
    <3>1. l \in 0..n
      BY <2>5
    <3>2. q <= p
      BY <1>2, <2>1, <2>3, <3>1
    <3> QED BY <2>1, <2>2, <2>3, <3>2
  <2> QED BY <2>4, <2>5
<1>3. Nat \subseteq S
  <2> HIDE DEF S
  <2> QED BY <1>1, <1>2, Induction
<1> QED BY <1>3

\* All nodes of a level come before those of the levels below it.
LEMMA LevelsInOrder ==
    ASSUME NEW l \in Nat, NEW m \in Nat, l < m,
           NEW o \in 0..(PowerOfTwo[l] - 1), NEW x \in 0..(PowerOfTwo[m] - 1)
    PROVE  NodeIndex(l, o) < NodeIndex(m, x)
<1>1. PICK p \in Nat \ {0}, q \in Nat \ {0} : p = PowerOfTwo[l] /\ q = PowerOfTwo[m]
  BY PowerOfTwoPositive
<1>2. PowerOfTwo[l + 1] = 2 * p
  BY <1>1, PowerOfTwoDef
<1>3. l + 1 \in 0..m
  OBVIOUS
<1>4. 2 * p <= q
  BY <1>1, <1>2, <1>3, PowersGrow
<1> QED BY <1>1, <1>4 DEF NodeIndex

\* The flat array holds the tree, for every capacity: no assertion of nodeAt() fails and
\* different positions have different words.
THEOREM NodesDoNotOverlap == Spec => []NodesAreApart
<1>1. IInv => NodesAreApart
  <2> SUFFICES ASSUME Measured,
                      NEW l \in 0..innerLevelCount, NEW m \in 0..innerLevelCount,
                      NEW o \in 0..(PowerOfTwo[l] - 1), NEW x \in 0..(PowerOfTwo[m] - 1)
               PROVE  /\ l = 0 \/ o < 2 * (PowerOfTwo[l] - 1)
                      /\ NodeIndex(l, o) < leafNodeCount * 2 - 1
                      /\ NodeIndex(l, o) = NodeIndex(m, x) => l = m /\ o = x
    BY DEF NodesAreApart, IInv
  <2>1. innerLevelCount \in Nat /\ l \in Nat /\ m \in Nat /\ leafNodeCount = PowerOfTwo[innerLevelCount]
    BY DEF Measured
  <2>2. PICK p \in Nat \ {0}, q \in Nat \ {0} : p = PowerOfTwo[l] /\ q = leafNodeCount
    BY <2>1, PowerOfTwoPositive
  <2>3. p <= q
    BY <2>1, <2>2, PowersGrow
  <2>4. NodeIndex(l, o) < leafNodeCount * 2 - 1
    BY <2>2, <2>3 DEF NodeIndex
  <2>5. l = 0 \/ o < 2 * (PowerOfTwo[l] - 1)
    <3>1. SUFFICES ASSUME l # 0 PROVE o < 2 * (p - 1)
      BY <2>2
    <3>2. l - 1 \in Nat
      BY <2>1, <3>1
    <3>3. PICK h \in Nat \ {0} : h = PowerOfTwo[l - 1]
      BY <3>2, PowerOfTwoPositive
    <3>4. p = 2 * h
      BY <2>1, <2>2, <3>1, <3>3, PowerOfTwoDef
    <3> QED BY <2>2, <3>4
  <2>6. ASSUME NodeIndex(l, o) = NodeIndex(m, x) PROVE l = m /\ o = x
    <3>1. NodeIndex(l, o) \in Int /\ NodeIndex(m, x) \in Int
      BY <2>1, PowerOfTwoPositive DEF NodeIndex
    <3>2. ~(l < m)
      BY <2>1, <2>6, <3>1, LevelsInOrder
    <3>3. ~(m < l)
      BY <2>1, <2>6, <3>1, LevelsInOrder
    <3>4. l = m
      BY <2>1, <3>2, <3>3
    <3>5. o = x
      BY <2>2, <2>6, <3>4 DEF NodeIndex
    <3> QED BY <3>4, <3>5
  <2> QED BY <2>4, <2>5, <2>6
<1> QED BY <1>1, InductiveInvariant, PTL

-----------------------------------------------------------------------------
(* The tree that PageStack starts from.  PageStack addresses nodes by paths   *)
(* from the root and has the measurements as constants.                       *)

CONSTANTS Procs, KillLimit, Capacity, InnerLevels

\* The path to the node at level l and offset o: an even offset is to the left.
Path(l, o) == [i \in 1..l |-> IF (o \div PowerOfTwo[l - i]) % 2 = 0 THEN 0 ELSE 1]

OffsetOf(n) == CHOOSE o \in 0..(PowerOfTwo[Len(n)] - 1) : n = Path(Len(n), o)

\* The words in shared memory, by paths.  A node that stands for no id below the capacity
\* counts as empty, whatever fillAllNodes() left there: no operation gets to it (theorem
\* UnusedNodesAreLeftAlone of PageStackProofs).
CountAt(n, d) ==
    LET node == inner[Len(n)][OffsetOf(n)]
    IN  IF Len(n) = 0 \/ Wanted(Len(n), OffsetOf(n)) > 0
        THEN IF d = 0 THEN node.left ELSE node.right
        ELSE 0
IdsAt(n) ==
    IF Wanted(Len(n), OffsetOf(n)) > 0
    THEN {OffsetOf(n) * BitsPerLeaf + b : b \in leaf[OffsetOf(n)]}
    ELSE {}

Stack == INSTANCE PageStack WITH
    count <- [n \in UNION {[1..l -> {0, 1}] : l \in 0..(innerLevelCount - 1)} |->
                 [d \in {0, 1} |-> CountAt(n, d)]],
    leaf <- [n \in [1..innerLevelCount -> {0, 1}] |-> IdsAt(n)],
    size <- capacity,
    used <- [p \in Procs |-> {}],
    loc <- [p \in Procs |-> "idle"],
    pos <- [p \in Procs |-> <<>>],
    hand <- [p \in Procs |-> 0],
    kills <- 0

\* PageStack starts from the tree that makeFullBeforeSharing() leaves, and what it
\* assumes of its constants is true of the measurements.
StackStartsFromTree ==
    pc = "done" /\ capacity = Capacity /\ innerLevelCount = InnerLevels =>
        Stack!Init /\ Capacity <= BitsPerLeaf * PowerOfTwo[InnerLevels]

\* Quotients are determined by the remainder.
LEMMA QuotientIs ==
    ASSUME NEW k \in Nat, NEW m \in Nat \ {0}, NEW q \in Nat, NEW s \in Nat,
           k = m * q + s, s < m
    PROVE  k \div m = q
<1>1. PICK x \in Nat, r \in Nat : x = k \div m /\ k = m * x + r /\ r < m
  <2>1. k \div m \in Nat /\ k % m \in Nat /\ k % m < m /\ k = m * (k \div m) + (k % m)
    OBVIOUS
  <2> QED BY <2>1, Zenon
<1>2. ~(x + 1 <= q)
  <2> SUFFICES ASSUME x + 1 <= q PROVE FALSE
    OBVIOUS
  <2>1. (x + 1) * m <= q * m
    BY ProductsGrow
  <2>2. (x + 1) * m = x * m + m
    BY Products
  <2>3. m * x = x * m /\ m * q = q * m
    OBVIOUS
  <2> QED BY <1>1, <2>1, <2>2, <2>3
<1>3. ~(q + 1 <= x)
  <2> SUFFICES ASSUME q + 1 <= x PROVE FALSE
    OBVIOUS
  <2>1. (q + 1) * m <= x * m
    BY ProductsGrow
  <2>2. (q + 1) * m = q * m + m
    BY Products
  <2>3. m * x = x * m /\ m * q = q * m
    OBVIOUS
  <2> QED BY <1>1, <2>1, <2>2, <2>3
<1> QED BY <1>1, <1>2, <1>3

\* Dividing twice
LEMMA DigitAbove ==
    ASSUME NEW o \in Nat, NEW d \in {0, 1}, NEW p \in Nat \ {0}
    PROVE  (2 * o + d) \div (2 * p) = o \div p
<1>1. PICK q \in Nat, r \in 0..(p - 1) : q = o \div p /\ r = o % p
  <2>1. o \div p \in Nat /\ o % p \in 0..(p - 1)
    OBVIOUS
  <2> QED BY <2>1, Zenon
<1>2. o = p * q + r
  BY <1>1
<1>3. PICK x \in Nat : x = p * q
  BY <1>1
<1>4. (2 * p) * q = 2 * x
  BY <1>1, <1>3
<1>5. PICK m \in Nat, s \in Nat : m = 2 * p /\ s = 2 * r + d /\ s < m
  <2>1. 2 * r + d \in Nat /\ 2 * p \in Nat /\ 2 * r + d < 2 * p
    BY <1>1
  <2> QED BY <2>1, Zenon
<1>6. 2 * o + d = m * q + s
  BY <1>2, <1>3, <1>4, <1>5
<1>7. (2 * o + d) \div m = q
  <2>1. PICK k \in Nat : k = 2 * o + d
    BY <1>1
  <2>2. k = m * q + s /\ m \in Nat \ {0}
    BY <1>5, <1>6, <2>1
  <2>3. k \div m = q
    BY <1>1, <1>5, <2>2, QuotientIs
  <2> QED BY <2>1, <2>3
<1> QED BY <1>1, <1>5, <1>7

\* A child's path is its parent's and the direction.
LEMMA PathOfChild ==
    ASSUME NEW l \in Nat, NEW o \in Nat, NEW d \in {0, 1}
    PROVE  /\ Path(l, o) \in Seq({0, 1}) /\ Len(Path(l, o)) = l
           /\ Append(Path(l, o), d) = Path(l + 1, 2 * o + d)
<1> DEFINE n == Path(l, o)
           c == Path(l + 1, 2 * o + d)
<1>1. n \in [1..l -> {0, 1}] /\ c \in [1..(l + 1) -> {0, 1}]
  BY DEF Path
<1>2. n \in Seq({0, 1}) /\ Len(n) = l
  BY <1>1
<1>3. ASSUME NEW i \in 1..l PROVE c[i] = n[i]
  <2>1. l - i \in Nat /\ (l + 1) - i = (l - i) + 1 /\ i \in 1..(l + 1)
    OBVIOUS
  <2>2. PICK p \in Nat \ {0} : p = PowerOfTwo[l - i]
    BY <2>1, PowerOfTwoPositive
  <2>3. PowerOfTwo[(l + 1) - i] = 2 * p
    BY <2>1, <2>2, PowerOfTwoDef
  <2>4. (2 * o + d) \div (2 * p) = o \div p
    BY DigitAbove
  <2> QED BY <2>1, <2>2, <2>3, <2>4 DEF Path
<1>4. c[l + 1] = d
  <2>1. (l + 1) - (l + 1) = 0 /\ l + 1 \in 1..(l + 1)
    OBVIOUS
  <2>2. PowerOfTwo[0] = 1
    BY PowerOfTwoDef
  <2>3. (2 * o + d) \div 1 = 2 * o + d
    OBVIOUS
  <2>4. (2 * o + d) % 2 = d
    OBVIOUS
  <2> QED BY <2>1, <2>2, <2>3, <2>4 DEF Path
<1>5. Append(n, d) = c
  <2> HIDE DEF n, c
  <2>1. /\ Append(n, d) \in Seq({0, 1}) /\ Len(Append(n, d)) = l + 1
        /\ \A i \in 1..l : Append(n, d)[i] = n[i]
        /\ Append(n, d)[l + 1] = d
    BY <1>2, AppendProperties
  <2>2. c \in Seq({0, 1}) /\ Len(c) = l + 1
    BY <1>1
  <2>3. \A i \in 1..(l + 1) : Append(n, d)[i] = c[i]
    BY <1>3, <1>4, <2>1
  <2> QED BY <2>1, <2>2, <2>3, SeqEqual
<1> QED BY <1>2, <1>5

\* Every path of a level leads to a node of it.
LEMMA PathsCover ==
    \A l \in Nat : \A n \in [1..l -> {0, 1}] : \E o \in 0..(PowerOfTwo[l] - 1) : n = Path(l, o)
<1> DEFINE S == {l \in Nat : \A n \in [1..l -> {0, 1}] :
                                 \E o \in 0..(PowerOfTwo[l] - 1) : n = Path(l, o)}
<1>1. 0 \in S
  <2>1. PowerOfTwo[0] = 1
    BY PowerOfTwoDef
  <2>2. \A n \in [1..0 -> {0, 1}] : n = Path(0, 0)
    BY DEF Path
  <2>3. 0 \in 0..(PowerOfTwo[0] - 1)
    BY <2>1
  <2> QED BY <2>2, <2>3
<1>2. ASSUME NEW l \in Nat, l \in S PROVE l + 1 \in S
  <2> SUFFICES ASSUME NEW n \in [1..(l + 1) -> {0, 1}]
               PROVE  \E o \in 0..(PowerOfTwo[l + 1] - 1) : n = Path(l + 1, o)
    OBVIOUS
  <2> DEFINE m == [i \in 1..l |-> n[i]]
  <2>1. m \in [1..l -> {0, 1}]
    OBVIOUS
  <2>2. PICK o \in 0..(PowerOfTwo[l] - 1) : m = Path(l, o)
    BY <1>2, <2>1
  <2>3. PICK d \in {0, 1} : d = n[l + 1]
    OBVIOUS
  <2>4. o \in Nat
    OBVIOUS
  <2>5. Append(m, d) = Path(l + 1, 2 * o + d)
    BY <2>2, <2>4, PathOfChild
  <2>6. n = Append(m, d)
    <3>1. m \in Seq({0, 1}) /\ Len(m) = l /\ n \in Seq({0, 1}) /\ Len(n) = l + 1
      BY <2>1
    <3>2. \A i \in 1..l : m[i] = n[i]
      OBVIOUS
    <3> HIDE DEF m
    <3>3. /\ Append(m, d) \in Seq({0, 1}) /\ Len(Append(m, d)) = l + 1
          /\ \A i \in 1..l : Append(m, d)[i] = m[i]
          /\ Append(m, d)[l + 1] = d
      BY <3>1, AppendProperties
    <3>4. \A i \in 1..(l + 1) : Append(m, d)[i] = n[i]
      BY <2>3, <3>2, <3>3
    <3> QED BY <3>1, <3>3, <3>4, SeqEqual
  <2>7. 2 * o + d \in 0..(PowerOfTwo[l + 1] - 1)
    <3>1. PICK p \in Nat \ {0} : p = PowerOfTwo[l]
      BY PowerOfTwoPositive
    <3>2. PowerOfTwo[l + 1] = 2 * p
      BY <3>1, PowerOfTwoDef
    <3>3. 2 * o + d \in 0..(2 * p - 1)
      BY <3>1
    <3> QED BY <3>2, <3>3
  <2> QED BY <2>5, <2>6, <2>7
<1>3. Nat \subseteq S
  <2> HIDE DEF S
  <2> QED BY <1>1, <1>2, Induction
<1> QED BY <1>3

\* The ids below a child are those below its parent whose next digit is its direction.
LEMMA IdsBelowChild ==
    ASSUME NEW n \in Seq({0, 1}), NEW d \in {0, 1}, NEW id
    PROVE  id \in Stack!IdsBelow(Append(n, d)) <=>
               id \in Stack!IdsBelow(n) /\ Stack!LeafOf(id)[Len(n) + 1] = d
<1> DEFINE c == Append(n, d)
           f == Stack!LeafOf(id)
<1>1. Len(n) \in Nat /\ DOMAIN n = 1..Len(n)
  BY LenProperties
<1>2. /\ c \in Seq({0, 1}) /\ Len(c) = Len(n) + 1 /\ DOMAIN c = 1..(Len(n) + 1)
      /\ \A i \in 1..Len(n) : c[i] = n[i]
      /\ c[Len(n) + 1] = d
  BY AppendProperties, LenProperties
<1>3. 1..(Len(n) + 1) = (1..Len(n)) \cup {Len(n) + 1}
  BY <1>1
<1> HIDE DEF c, f
<1>4. (\A l \in DOMAIN c : c[l] = f[l]) <=>
          (\A l \in DOMAIN n : n[l] = f[l]) /\ f[Len(n) + 1] = d
  BY <1>1, <1>2, <1>3
<1> QED BY <1>4 DEF Stack!IdsBelow, c, f

\* The digit that tells the two children of a node apart
LEMMA DigitOf ==
    ASSUME NEW id \in Nat, NEW p \in Nat \ {0}, NEW x \in Nat,
           BitsPerLeaf \in Nat \ {0},
           x * (BitsPerLeaf * p) <= id, id < x * (BitsPerLeaf * p) + BitsPerLeaf * p
    PROVE  (id \div BitsPerLeaf) \div p = x
<1>1. PICK q \in Nat, r \in 0..(BitsPerLeaf - 1) : q = id \div BitsPerLeaf /\ id = q * BitsPerLeaf + r
  <2>1. /\ id \div BitsPerLeaf \in Nat /\ id % BitsPerLeaf \in 0..(BitsPerLeaf - 1)
        /\ id = (id \div BitsPerLeaf) * BitsPerLeaf + (id % BitsPerLeaf)
    OBVIOUS
  <2> QED BY <2>1, Zenon
<1>2. PICK a \in Nat : a = x * p
  OBVIOUS
<1>3. x * (BitsPerLeaf * p) = a * BitsPerLeaf /\ BitsPerLeaf * p = p * BitsPerLeaf
  BY <1>2
<1>4. a <= q
  <2> SUFFICES ASSUME q + 1 <= a PROVE FALSE
    BY <1>1, <1>2
  <2>1. (q + 1) * BitsPerLeaf <= a * BitsPerLeaf
    BY <1>1, <1>2, ProductsGrow
  <2>2. (q + 1) * BitsPerLeaf = q * BitsPerLeaf + BitsPerLeaf
    BY <1>1, Products
  <2> QED BY <1>1, <1>3, <2>1, <2>2
<1>5. q < a + p
  <2> SUFFICES ASSUME a + p <= q PROVE FALSE
    BY <1>1, <1>2
  <2>1. (a + p) * BitsPerLeaf <= q * BitsPerLeaf
    BY <1>1, <1>2, ProductsGrow
  <2>2. (a + p) * BitsPerLeaf = a * BitsPerLeaf + p * BitsPerLeaf
    BY <1>2
  <2> QED BY <1>1, <1>2, <1>3, <2>1, <2>2
<1>6. PICK s \in Nat : q = a + s /\ s < p
  <2>1. q - a \in Nat /\ q = a + (q - a) /\ q - a < p
    BY <1>1, <1>2, <1>4, <1>5
  <2> QED BY <2>1, Zenon
<1>7. q = p * x + s
  BY <1>2, <1>6
<1>8. q \div p = x
  BY <1>1, <1>6, <1>7, QuotientIs
<1> QED BY <1>1, <1>8

\* The ids below the node with the path of an offset are the ids it stands for.
LEMMA IdsBelowPath ==
    ASSUME Measured, capacity = Capacity, innerLevelCount = InnerLevels,
           capacity <= BitsPerLeaf * leafNodeCount
    PROVE  \A l \in 0..innerLevelCount : \A o \in 0..(PowerOfTwo[l] - 1) :
               Stack!IdsBelow(Path(l, o)) = Span(l, o) \cap 0..(capacity - 1)
<1> USE TreeAssumption
<1> DEFINE S == {l \in Nat : l <= innerLevelCount =>
                    \A o \in 0..(PowerOfTwo[l] - 1) :
                        Stack!IdsBelow(Path(l, o)) = Span(l, o) \cap 0..(capacity - 1)}
<1>0. innerLevelCount \in Nat \ {0} /\ capacity \in Nat
  BY DEF Measured
<1>1. 0 \in S
  <2>1. PowerOfTwo[0] = 1
    BY PowerOfTwoDef
  <2> SUFFICES ASSUME NEW o \in 0..(PowerOfTwo[0] - 1)
               PROVE  Stack!IdsBelow(Path(0, o)) = Span(0, o) \cap 0..(capacity - 1)
    OBVIOUS
  <2>2. o = 0
    BY <2>1
  <2>3. DOMAIN Path(0, o) = {}
    BY DEF Path
  <2>4. Stack!IdsBelow(Path(0, o)) = 0..(capacity - 1)
    BY <2>3 DEF Stack!IdsBelow, Stack!Ids
  <2>5. PICK w \in Nat : w = Width(0) /\ capacity <= w
    BY <1>0, Widths
  <2>6. Span(0, o) = 0..(w - 1)
    BY <2>2, <2>5 DEF Span
  <2>7. (0..(w - 1)) \cap 0..(capacity - 1) = 0..(capacity - 1)
    BY <1>0, <2>5
  <2> QED BY <2>4, <2>6, <2>7
<1>2. ASSUME NEW l \in Nat, l \in S PROVE l + 1 \in S
  <2> SUFFICES ASSUME l + 1 <= innerLevelCount, NEW y \in 0..(PowerOfTwo[l + 1] - 1)
               PROVE  Stack!IdsBelow(Path(l + 1, y)) = Span(l + 1, y) \cap 0..(capacity - 1)
    OBVIOUS
  <2>1. /\ l \in 0..(innerLevelCount - 1) /\ l + 1 \in 0..innerLevelCount /\ l <= innerLevelCount
        /\ innerLevelCount - (l + 1) \in Nat
    BY <1>0
  <2>2. PICK p \in Nat \ {0} : p = PowerOfTwo[innerLevelCount - (l + 1)]
    BY <2>1, PowerOfTwoPositive
  <2>3. PICK w \in Nat \ {0} : w = BitsPerLeaf * p
    OBVIOUS
  <2>4. Width(l + 1) = w /\ Width(l) = 2 * w
    BY <2>1, <2>2, <2>3, Widths DEF Width
  <2>5. PICK o \in Nat, d \in {0, 1} : y = 2 * o + d /\ o \in 0..(PowerOfTwo[l] - 1)
    <3>1. PICK k \in Nat \ {0} : k = PowerOfTwo[l]
      BY PowerOfTwoPositive
    <3>2. PowerOfTwo[l + 1] = 2 * k
      BY <3>1, PowerOfTwoDef
    <3>3. y \in 0..(2 * k - 1)
      BY <3>2
    <3>4. y \div 2 \in 0..(k - 1) /\ y % 2 \in {0, 1} /\ y = 2 * (y \div 2) + (y % 2)
      BY <3>3
    <3>5. y \div 2 \in Nat
      BY <3>3
    <3> QED BY <3>1, <3>4, <3>5, Zenon
  <2>6. PICK a \in Nat : a = (2 * o) * w
    BY <2>5
  <2>7. o * (2 * w) = a /\ (2 * o + 1) * w = a + w
    BY <2>5, <2>6, Products
  <2>8. Path(l + 1, y) = Append(Path(l, o), d) /\ Path(l, o) \in Seq({0, 1}) /\ Len(Path(l, o)) = l
    BY <2>5, PathOfChild
  <2>9. Stack!IdsBelow(Path(l, o)) = Span(l, o) \cap 0..(capacity - 1)
    BY <1>2, <2>1, <2>5
  <2>10. Span(l, o) = a..(a + 2 * w - 1)
    BY <2>4, <2>7 DEF Span
  <2>11. Span(l + 1, y) = IF d = 0 THEN a..(a + w - 1) ELSE (a + w)..(a + w + w - 1)
    <3>1. CASE d = 0
      <4>1. y * w = a
        BY <2>5, <2>6, <3>1
      <4> QED BY <2>4, <3>1, <4>1 DEF Span
    <3>2. CASE d = 1
      <4>1. y * w = a + w
        BY <2>5, <2>7, <3>2
      <4> QED BY <2>4, <3>2, <4>1 DEF Span
    <3> QED BY <3>1, <3>2
  <2>12. ASSUME NEW id \in a..(a + 2 * w - 1)
         PROVE  Stack!LeafOf(id)[l + 1] = IF id < a + w THEN 0 ELSE 1
    <3>0. id \in Nat /\ l + 1 \in 1..InnerLevels
      BY <1>0, <2>1
    <3>1. Stack!LeafOf(id)[l + 1] = IF ((id \div BitsPerLeaf) \div p) % 2 = 0 THEN 0 ELSE 1
      <4>1. Stack!PowerOfTwo = PowerOfTwo
        BY DEF Stack!PowerOfTwo, PowerOfTwo
      <4> QED BY <2>2, <3>0, <4>1 DEF Stack!LeafOf
    <3>2. CASE id < a + w
      <4>1. (2 * o) * (BitsPerLeaf * p) <= id /\ id < (2 * o) * (BitsPerLeaf * p) + BitsPerLeaf * p
        BY <2>3, <2>6, <3>2
      <4>2. (id \div BitsPerLeaf) \div p = 2 * o
        <5>1. PICK x \in Nat : x = 2 * o
          BY <2>5
        <5>2. x * (BitsPerLeaf * p) <= id /\ id < x * (BitsPerLeaf * p) + BitsPerLeaf * p
          BY <4>1, <5>1
        <5>3. (id \div BitsPerLeaf) \div p = x
          BY <2>2, <3>0, <5>1, <5>2, DigitOf
        <5> QED BY <5>1, <5>3
      <4>3. (2 * o) % 2 = 0
        BY <2>5
      <4> QED BY <3>1, <3>2, <4>2, <4>3
    <3>3. CASE ~(id < a + w)
      <4>1. /\ (2 * o + 1) * (BitsPerLeaf * p) <= id
            /\ id < (2 * o + 1) * (BitsPerLeaf * p) + BitsPerLeaf * p
        BY <2>3, <2>7, <3>0, <3>3
      <4>2. (id \div BitsPerLeaf) \div p = 2 * o + 1
        <5>1. PICK x \in Nat : x = 2 * o + 1
          BY <2>5
        <5>2. x * (BitsPerLeaf * p) <= id /\ id < x * (BitsPerLeaf * p) + BitsPerLeaf * p
          BY <4>1, <5>1
        <5>3. (id \div BitsPerLeaf) \div p = x
          BY <2>2, <3>0, <5>1, <5>2, DigitOf
        <5> QED BY <5>1, <5>3
      <4>3. (2 * o + 1) % 2 # 0
        BY <2>5
      <4> QED BY <3>1, <3>3, <4>2, <4>3
    <3> QED BY <3>2, <3>3
  <2>13. ASSUME NEW id
         PROVE  id \in Stack!IdsBelow(Path(l + 1, y)) <=> id \in Span(l + 1, y) \cap 0..(capacity - 1)
    <3>1. id \in Stack!IdsBelow(Path(l + 1, y)) <=>
              id \in Stack!IdsBelow(Path(l, o)) /\ Stack!LeafOf(id)[l + 1] = d
      BY <2>8, IdsBelowChild
    <3>2. CASE id \in a..(a + 2 * w - 1)
      <4>1. Stack!LeafOf(id)[l + 1] = d <=> id \in Span(l + 1, y)
        <5>1. CASE d = 0
          BY <2>11, <2>12, <3>2, <5>1
        <5>2. CASE d = 1
          BY <2>11, <2>12, <3>2, <5>2
        <5> QED BY <5>1, <5>2
      <4> QED BY <2>9, <2>10, <3>1, <3>2, <4>1
    <3>3. CASE id \notin a..(a + 2 * w - 1)
      <4>1. id \notin Span(l + 1, y)
        BY <2>11, <3>3
      <4> QED BY <2>9, <2>10, <3>1, <3>3, <4>1
    <3> QED BY <3>2, <3>3
  <2> QED BY <2>13
<1>3. Nat \subseteq S
  <2> HIDE DEF S
  <2> QED BY <1>1, <1>2, Induction
<1> QED BY <1>0, <1>3

\* OffsetOf inverts Path.
LEMMA OffsetOfPath ==
    ASSUME NEW l \in Nat, NEW n \in [1..l -> {0, 1}]
    PROVE  /\ Len(n) = l /\ n \in Seq({0, 1})
           /\ OffsetOf(n) \in 0..(PowerOfTwo[l] - 1)
           /\ n = Path(l, OffsetOf(n))
<1>1. Len(n) = l /\ n \in Seq({0, 1})
  OBVIOUS
<1>2. \E o \in 0..(PowerOfTwo[l] - 1) : n = Path(l, o)
  BY PathsCover
<1>3. OffsetOf(n) = CHOOSE o \in 0..(PowerOfTwo[l] - 1) : n = Path(l, o)
  BY <1>1 DEF OffsetOf
<1> QED BY <1>1, <1>2, <1>3, Zenon

\* An inner node, read by its path, counts the ids below its children.
LEMMA MappedCounts ==
    ASSUME Measured, Shaped, ExactFrom(0), capacity = Capacity, innerLevelCount = InnerLevels,
           capacity <= BitsPerLeaf * leafNodeCount,
           NEW l \in 0..(innerLevelCount - 1), NEW n \in [1..l -> {0, 1}], NEW d \in {0, 1}
    PROVE  CountAt(n, d) = Cardinality(Stack!IdsBelow(Append(n, d)))
<1> USE TreeAssumption
<1>0. /\ innerLevelCount \in Nat \ {0} /\ capacity \in Nat /\ l \in Nat
      /\ l \in 0..innerLevelCount /\ l + 1 \in 0..innerLevelCount
  BY DEF Measured
<1>1. PICK o \in 0..(PowerOfTwo[l] - 1) : o = OffsetOf(n) /\ n = Path(l, o)
  BY <1>0, OffsetOfPath, Zenon
<1>2. Len(n) = l /\ n \in Seq({0, 1}) /\ o \in Nat
  BY <1>0, OffsetOfPath
<1>3. PICK y \in Nat : y = 2 * o + d
  BY <1>2
<1>4. y \in 0..(PowerOfTwo[l + 1] - 1)
  <2>1. PICK p \in Nat \ {0} : p = PowerOfTwo[l]
    BY <1>0, PowerOfTwoPositive
  <2>2. PowerOfTwo[l + 1] = 2 * p
    BY <1>0, <2>1, PowerOfTwoDef
  <2>3. y \in 0..(2 * p - 1)
    BY <1>3, <2>1
  <2> QED BY <2>2, <2>3
<1>5. Append(n, d) = Path(l + 1, y)
  <2>1. Append(Path(l, o), d) = Path(l + 1, 2 * o + d)
    BY <1>0, <1>2, PathOfChild
  <2> QED BY <1>1, <1>3, <2>1, Zenon
<1>6. Cardinality(Stack!IdsBelow(Append(n, d))) = Wanted(l + 1, y)
  BY <1>0, <1>4, <1>5, IdsBelowPath DEF Wanted
<1>7. CASE l = 0 \/ Wanted(l, o) > 0
  <2>1. Exact(l, o)
    <3>1. 0 <= l
      BY <1>0
    <3> QED BY <1>7, <3>1 DEF ExactFrom
  <2>2. CountAt(n, d) = IF d = 0 THEN inner[l][o].left ELSE inner[l][o].right
    BY <1>1, <1>2, <1>7 DEF CountAt
  <2>3. CASE d = 0
    <3>1. y = 2 * o
      BY <1>2, <1>3, <2>3
    <3> QED BY <1>6, <2>1, <2>2, <2>3, <3>1 DEF Exact
  <2>4. CASE d = 1
    <3>1. y = 2 * o + 1
      BY <1>2, <1>3, <2>4
    <3> QED BY <1>6, <2>1, <2>2, <2>4, <3>1 DEF Exact
  <2> QED BY <2>3, <2>4
<1>8. CASE ~(l = 0 \/ Wanted(l, o) > 0)
  <2>1. CountAt(n, d) = 0
    BY <1>1, <1>2, <1>8 DEF CountAt
  <2>2. PICK w \in Nat \ {0} : w = Width(l + 1)
    BY <1>0, Widths
  <2>3. Width(l) = 2 * w
    BY <2>2, Widths
  <2>4. PICK a \in Nat : a = (2 * o) * w
    BY <1>2
  <2>5. o * Width(l) = a /\ (2 * o + 1) * w = a + w
    BY <1>2, <2>3, <2>4, Products
  <2>6. capacity <= a
    <3>1. Wanted(l, o) = IF capacity <= a THEN 0
                         ELSE IF a + 2 * w <= capacity THEN 2 * w ELSE capacity - a
      BY <1>0, <1>2, <2>3, <2>5, WantedValue
    <3> QED BY <1>0, <1>8, <3>1
  <2>7. a <= y * w /\ y * w \in Nat
    BY <1>2, <1>3, <2>4, <2>5
  <2>8. Wanted(l + 1, y) = 0
    <3>1. capacity <= y * Width(l + 1)
      BY <1>0, <2>2, <2>6, <2>7
    <3> QED BY <1>0, <3>1, WantedValue
  <2> QED BY <1>6, <2>1, <2>8
<1> QED BY <1>7, <1>8

\* A leaf, read by its path, has the ids below it.
LEMMA MappedLeaves ==
    ASSUME Measured, ExactLeaves, capacity = Capacity, innerLevelCount = InnerLevels,
           capacity <= BitsPerLeaf * leafNodeCount, NEW n \in [1..innerLevelCount -> {0, 1}]
    PROVE  IdsAt(n) = Stack!IdsBelow(n)
<1> USE TreeAssumption
<1>0. /\ innerLevelCount \in Nat \ {0} /\ capacity \in Nat
      /\ innerLevelCount \in 0..innerLevelCount /\ leafNodeCount = PowerOfTwo[innerLevelCount]
  BY DEF Measured
<1>1. PICK o \in 0..(PowerOfTwo[innerLevelCount] - 1) : o = OffsetOf(n) /\ n = Path(innerLevelCount, o)
  BY <1>0, OffsetOfPath, Zenon
<1>2. Len(n) = innerLevelCount /\ o \in Nat
  BY <1>0, OffsetOfPath
<1>3. PICK a \in Nat : a = o * BitsPerLeaf
  BY <1>2
<1>4. Stack!IdsBelow(n) = (a..(a + BitsPerLeaf - 1)) \cap 0..(capacity - 1)
  <2>1. Stack!IdsBelow(n) = Span(innerLevelCount, o) \cap 0..(capacity - 1)
    BY <1>0, <1>1, IdsBelowPath
  <2>2. Width(innerLevelCount) = BitsPerLeaf
    BY Widths
  <2> QED BY <1>3, <2>1, <2>2 DEF Span
<1>5. CASE Wanted(innerLevelCount, o) > 0
  <2>1. leaf[o] = {b \in Bits : a + b < capacity}
    BY <1>0, <1>1, <1>3, <1>5 DEF ExactLeaves
  <2>2. IdsAt(n) = {a + b : b \in leaf[o]}
    BY <1>1, <1>2, <1>3, <1>5 DEF IdsAt
  <2>3. ASSUME NEW id \in {a + b : b \in {b \in Bits : a + b < capacity}}
        PROVE  id \in (a..(a + BitsPerLeaf - 1)) \cap 0..(capacity - 1)
    BY <1>0, <1>3 DEF Bits
  <2>4. ASSUME NEW id \in (a..(a + BitsPerLeaf - 1)) \cap 0..(capacity - 1)
        PROVE  id \in {a + b : b \in {b \in Bits : a + b < capacity}}
    <3>1. id - a \in Bits /\ a + (id - a) = id /\ a + (id - a) < capacity
      BY <1>0, <1>3 DEF Bits
    <3> QED BY <3>1
  <2> QED BY <1>4, <2>1, <2>2, <2>3, <2>4
<1>6. CASE ~(Wanted(innerLevelCount, o) > 0)
  <2>1. IdsAt(n) = {}
    BY <1>1, <1>2, <1>6 DEF IdsAt
  <2>2. capacity <= a
    <3>1. Wanted(innerLevelCount, o) =
              IF capacity <= a THEN 0
              ELSE IF a + BitsPerLeaf <= capacity THEN BitsPerLeaf ELSE capacity - a
      BY <1>0, <1>2, <1>3, WantedValue, Widths
    <3> QED BY <1>0, <1>6, <3>1
  <2>3. (a..(a + BitsPerLeaf - 1)) \cap 0..(capacity - 1) = {}
    BY <1>0, <1>3, <2>2
  <2> QED BY <1>4, <2>1, <2>3
<1> QED BY <1>5, <1>6

\* PageStack starts from the tree that the code builds, for every capacity: the loops of
\* IdSetMeasurements(), fillAllNodes() and truncateExtras() end in an initial state of it.
THEOREM StackStartsRight == Spec => []StackStartsFromTree
<1>1. IInv => StackStartsFromTree
  <2> SUFFICES ASSUME IInv, pc = "done", capacity = Capacity, innerLevelCount = InnerLevels
               PROVE  Stack!Init /\ Capacity <= BitsPerLeaf * PowerOfTwo[InnerLevels]
    BY DEF StackStartsFromTree
  <2>1. Measured /\ Shaped /\ ExactFrom(0) /\ ExactLeaves /\ capacity <= BitsPerLeaf * leafNodeCount
    BY DEF IInv
  <2>2. ASSUME NEW n \in UNION {[1..l -> {0, 1}] : l \in 0..(innerLevelCount - 1)}, NEW d \in {0, 1}
        PROVE  CountAt(n, d) = Cardinality(Stack!IdsBelow(Append(n, d)))
    <3>1. PICK l \in 0..(innerLevelCount - 1) : n \in [1..l -> {0, 1}]
      OBVIOUS
    <3> QED BY <2>1, <3>1, MappedCounts
  <2>3. \A n \in [1..innerLevelCount -> {0, 1}] : IdsAt(n) = Stack!IdsBelow(n)
    BY <2>1, MappedLeaves
  <2>4. [n \in UNION {[1..l -> {0, 1}] : l \in 0..(innerLevelCount - 1)} |->
            [d \in {0, 1} |-> CountAt(n, d)]]
        = [n \in Stack!Inner |->
              [d \in Stack!Dirs |-> Stack!Cardinality(Stack!IdsBelow(Append(n, d)))]]
    <3>1. \A S : Stack!Cardinality(S) = Cardinality(S)
      BY DEF Stack!Cardinality, Cardinality, Stack!IsFiniteSet, IsFiniteSet
    <3> QED BY <2>2, <3>1 DEF Stack!Inner, Stack!Dirs
  <2>5. [n \in [1..innerLevelCount -> {0, 1}] |-> IdsAt(n)]
        = [n \in Stack!Leaves |-> Stack!IdsBelow(n)]
    BY <2>3 DEF Stack!Leaves, Stack!Dirs
  <2>6. Capacity <= BitsPerLeaf * PowerOfTwo[InnerLevels]
    BY <2>1 DEF Measured
  <2> QED BY <2>4, <2>5, <2>6, Zenon DEF Stack!Init, Stack!Root
<1> QED BY <1>1, InductiveInvariant, PTL

=============================================================================
