---------------------------- MODULE PagePoolProofs ----------------------------
(***************************************************************************)
(* Theorems about PagePool, for any processes, limits and width of size_t.  *)
(***************************************************************************)
EXTENDS PagePool, FiniteSetTheorems, TLAPS

Locs == {"idle", "pop", "count", "push"}
Pushing == {q \in Procs : loc[q] = "push"}
Getting(p, u) == loc[p] \in {"pop", "count"} /\ purpose[p] = u

PoolTypes ==
    /\ free \in Nat /\ raced \in BOOLEAN
    /\ level \in [Purposes -> Nat] /\ inUse \in [Purposes -> Nat]
    /\ loc \in [Procs -> Locs] /\ purpose \in [Procs -> Purposes]

\* Every page is in the stack, in use, or on its way from PutPage() to the stack.
PagesAreConserved ==
    free + inUse[cachePage] + inUse[ioPage] + Cardinality(Pushing) = Capacity

\* While no two GetPage() calls for a purpose overlap, the one call that is between its
\* test and its count has a page of the limit to itself.
LimitsAreKept ==
    ~raced => \A u \in Purposes :
        /\ inUse[u] <= PageLimit[u]
        /\ \A p \in Procs : loc[p] = "pop" /\ purpose[p] = u => inUse[u] < PageLimit[u]
        /\ \A p, q \in Procs : Getting(p, u) /\ Getting(q, u) => p = q

PoolInv == PoolTypes /\ LevelIsAccurate /\ PagesAreConserved /\ LimitsAreKept

-----------------------------------------------------------------------------
(* Counts and size_t *)

\* The sets of processes at a control location are finite.
LEMMA CountsAreNaturals ==
    /\ IsFiniteSet(Pushing) /\ Cardinality(Pushing) \in Nat
    /\ \A u : IsFiniteSet(Counting(u)) /\ Cardinality(Counting(u)) \in Nat
<1>1. IsFiniteSet(Procs)
    BY PoolAssumption DEF PoolAssumption
<1>2. Pushing \in SUBSET Procs /\ \A u : Counting(u) \in SUBSET Procs
    BY DEF Pushing, Counting
<1>3. IsFiniteSet(Pushing) /\ \A u : IsFiniteSet(Counting(u))
    BY <1>1, <1>2, FS_Subset
<1> QED
    BY <1>3, FS_CardinalityType

\* size_t arithmetic (PagesAvailable(), Levels::value_type) is exact below 2^Width, and
\* every page count is.
LEMMA SizeIsExact ==
    ASSUME NEW n \in 0 .. Capacity
    PROVE  n % 2^Width = n
<1>1. 2^Width \in Int
    BY PoolAssumption DEF PoolAssumption
<1>2. PICK m \in Int : m = 2^Width
    BY <1>1
<1>3. Capacity \in Nat
    BY PoolAssumption DEF PoolAssumption, Purposes, Capacity
<1>4. Capacity < m
    BY <1>2, PoolAssumption DEF PoolAssumption
<1>5. n \in Int /\ 0 <= n /\ n < m
    BY <1>3, <1>4
<1>6. n % m = n
    BY <1>5
<1> QED
    BY <1>2, <1>6

\* No count of pages exceeds the capacity of the pool.
LEMMA CountsFit ==
    ASSUME PoolTypes, PagesAreConserved, LevelIsAccurate, NEW u \in Purposes
    PROVE  /\ inUse[u] \in 0 .. Capacity /\ level[u] \in 0 .. Capacity
           /\ PageLimit[u] \in 0 .. Capacity
           /\ Cardinality(Counting(u)) \in 0 .. Capacity
           /\ level[u] = inUse[u] - Cardinality(Counting(u))
<1>1. Cardinality(Pushing) \in Nat /\ Cardinality(Counting(u)) \in Nat
    BY CountsAreNaturals
<1>2. PageLimit[cachePage] \in Nat /\ PageLimit[ioPage] \in Nat /\ u \in {cachePage, ioPage}
    BY PoolAssumption DEF PoolAssumption, Purposes
<1>3. /\ free \in Nat /\ inUse[cachePage] \in Nat /\ inUse[ioPage] \in Nat
      /\ level[u] \in Nat /\ inUse[u] \in Nat
    BY DEF PoolTypes, Purposes
<1>4. PageLimit[u] \in 0 .. Capacity
    BY <1>2 DEF Capacity
<1>5. inUse[u] \in 0 .. Capacity
    BY <1>1, <1>2, <1>3 DEF PagesAreConserved, Capacity
<1>6. level[u] = inUse[u] - Cardinality(Counting(u))
    BY DEF LevelIsAccurate
<1>7. Capacity \in Nat
    BY <1>2 DEF Capacity
<1>8. level[u] \in 0 .. Capacity /\ Cardinality(Counting(u)) \in 0 .. Capacity
    BY <1>1, <1>3, <1>5, <1>6, <1>7
<1> QED
    BY <1>4, <1>5, <1>6, <1>8

\* The limit test of GetPage(): what PagesAvailable() says if the limit is kept.
LEMMA AvailableIsExact ==
    ASSUME PoolTypes, PagesAreConserved, LevelIsAccurate, NEW u \in Purposes,
           level[u] <= PageLimit[u]
    PROVE  PagesAvailable(u) = PageLimit[u] - level[u]
<1>1. level[u] \in 0 .. Capacity /\ PageLimit[u] \in 0 .. Capacity /\ Capacity \in Nat
    BY CountsFit, PoolAssumption DEF PoolAssumption, Capacity, Purposes
<1>2. PageLimit[u] - level[u] \in 0 .. Capacity
    BY <1>1
<1> QED
    BY <1>2, SizeIsExact DEF PagesAvailable

\* A process that moves from one control location to another moves between the sets.
LEMMA MoveCounts ==
    ASSUME PoolTypes, NEW p \in Procs, NEW l \in Locs, Goto(p, l)
    PROVE  /\ loc' \in [Procs -> Locs] /\ loc'[p] = l
           /\ \A q \in Procs \ {p} : loc'[q] = loc[q]
           /\ Pushing' = IF l = "push" THEN Pushing \cup {p} ELSE Pushing \ {p}
           /\ UNCHANGED purpose => \A u : Counting(u)' =
                IF l = "count" /\ purpose[p] = u THEN Counting(u) \cup {p}
                                                 ELSE Counting(u) \ {p}
<1>1. /\ loc' \in [Procs -> Locs] /\ loc'[p] = l
      /\ \A q \in Procs \ {p} : loc'[q] = loc[q]
    BY DEF PoolTypes, Goto
<1> QED
    BY <1>1 DEF Pushing, Counting

-----------------------------------------------------------------------------
(* Invariance *)

\* An empty pool has no page in use.
LEMMA InitHolds == Init => PoolInv
<1> SUFFICES ASSUME Init PROVE PoolInv
    OBVIOUS
<1>1. Pushing = {} /\ \A u : Counting(u) = {}
    BY DEF Init, Pushing, Counting
<1>2. Cardinality(Pushing) = 0 /\ \A u : Cardinality(Counting(u)) = 0
    BY <1>1, FS_EmptySet
<1>3. Capacity \in Nat /\ PageLimit \in [Purposes -> Nat]
    BY PoolAssumption DEF PoolAssumption, Capacity, Purposes
<1>4. PoolTypes
    BY <1>3 DEF Init, PoolTypes, Locs
<1>5. LevelIsAccurate
    BY <1>2 DEF Init, LevelIsAccurate
<1>6. PagesAreConserved
    BY <1>2, <1>3 DEF Init, PagesAreConserved, Purposes
<1>7. LimitsAreKept
    BY <1>3 DEF Init, LimitsAreKept, Getting
<1> QED
    BY <1>4, <1>5, <1>6, <1>7 DEF PoolInv

\* GetPage() up to its test keeps the invariant: a call that is alone and passes the test
\* leaves room under the limit.
LEMMA GetPageKeeps ==
    ASSUME PoolInv, NEW p \in Procs, NEW u \in Purposes, GetPage(p, u)
    PROVE  PoolInv'
<1> USE DEF PoolInv
<1>1. /\ loc[p] = "idle" /\ Goto(p, "pop") /\ PagesAvailable(u) > 0
      /\ purpose' = [purpose EXCEPT ![p] = u]
      /\ UNCHANGED <<free, level, inUse>>
      /\ raced' = (raced \/ \E q \in Procs : Getting(q, u))
    BY DEF GetPage, Getting
<1>2. /\ loc' \in [Procs -> Locs] /\ loc'[p] = "pop"
      /\ \A q \in Procs \ {p} : loc'[q] = loc[q]
      /\ Pushing' = Pushing \ {p}
    BY <1>1, MoveCounts DEF Locs
<1>3. /\ purpose' \in [Procs -> Purposes] /\ purpose'[p] = u
      /\ \A q \in Procs \ {p} : purpose'[q] = purpose[q]
    BY <1>1 DEF PoolTypes
<1>4. Pushing' = Pushing /\ \A v : Counting(v)' = Counting(v)
    BY <1>1, <1>2, <1>3 DEF Pushing, Counting
<1>5. PoolTypes'
  <2>1. raced' \in BOOLEAN
      BY <1>1 DEF PoolTypes
  <2> QED
      BY <2>1, <1>1, <1>2, <1>3 DEF PoolTypes
<1>6. LevelIsAccurate'
    BY <1>1, <1>4 DEF LevelIsAccurate
<1>7. PagesAreConserved'
    BY <1>1, <1>4 DEF PagesAreConserved
<1>8. LimitsAreKept'
  <2> SUFFICES ASSUME ~raced', NEW v \in Purposes
               PROVE  /\ inUse'[v] <= PageLimit[v]
                      /\ \A q \in Procs : loc'[q] = "pop" /\ purpose'[q] = v
                                                          => inUse'[v] < PageLimit[v]
                      /\ \A q, r \in Procs : Getting(q, v)' /\ Getting(r, v)' => q = r
      BY DEF LimitsAreKept
  <2>1. ~raced /\ \A q \in Procs : ~Getting(q, u)
      BY <1>1
  <2>2. inUse[u] <= PageLimit[u] /\ inUse[v] <= PageLimit[v]
      BY <2>1 DEF LimitsAreKept
  <2>3. Counting(u) = {}
      BY <2>1 DEF Counting, Getting
  <2>4. Cardinality(Counting(u)) = 0
      BY <2>3, FS_EmptySet
  <2>5. inUse[u] \in Nat /\ PageLimit[u] \in Nat /\ level[u] \in Nat
      BY PoolAssumption DEF PoolTypes, PoolAssumption
  <2>6. level[u] = inUse[u]
      BY <2>4, <2>5 DEF LevelIsAccurate
  <2>7. PagesAvailable(u) = PageLimit[u] - level[u]
      BY <2>2, <2>6, AvailableIsExact
  <2>8. inUse[u] < PageLimit[u]
      BY <2>5, <2>6, <2>7, <1>1
  <2>9. \A q \in Procs : Getting(q, v)' <=> (q = p /\ v = u) \/ (q # p /\ Getting(q, v))
      BY <1>1, <1>2, <1>3 DEF Getting
  <2>10. \A q, r \in Procs : Getting(q, v) /\ Getting(r, v) => q = r
      BY <2>1 DEF LimitsAreKept
  <2>11. \A q, r \in Procs : Getting(q, v)' /\ Getting(r, v)' => q = r
      BY <2>1, <2>9, <2>10
  <2>12. \A q \in Procs : loc'[q] = "pop" /\ purpose'[q] = v => inUse[v] < PageLimit[v]
      BY <2>1, <2>8, <1>2, <1>3 DEF LimitsAreKept
  <2> QED
      BY <2>2, <2>11, <2>12, <1>1
<1> QED
    BY <1>5, <1>6, <1>7, <1>8

\* PagePool::get() with a free page: the page moves from the stack to its purpose.
LEMMA PopKeeps ==
    ASSUME PoolInv, NEW p \in Procs, Pop(p), free # 0
    PROVE  PoolInv'
<1> USE DEF PoolInv
<1>1. PICK u \in Purposes : u = purpose[p]
    BY DEF PoolTypes
<1>2. /\ loc[p] = "pop" /\ Goto(p, "count") /\ free' = free - 1
      /\ inUse' = [inUse EXCEPT ![u] = @ + 1]
      /\ UNCHANGED <<level, purpose, raced>>
    BY <1>1 DEF Pop
<1>3. /\ loc' \in [Procs -> Locs] /\ loc'[p] = "count"
      /\ \A q \in Procs \ {p} : loc'[q] = loc[q]
      /\ Pushing' = Pushing \ {p}
      /\ \A v : Counting(v)' = IF u = v THEN Counting(v) \cup {p} ELSE Counting(v) \ {p}
    BY <1>1, <1>2, MoveCounts DEF Locs
<1>4. p \notin Pushing /\ \A v : p \notin Counting(v)
    BY <1>2 DEF Pushing, Counting
<1>5. Pushing' = Pushing /\ \A v : v # u => Counting(v)' = Counting(v)
    BY <1>3, <1>4
<1>6. Cardinality(Counting(u)') = Cardinality(Counting(u)) + 1
    BY <1>3, <1>4, CountsAreNaturals, FS_AddElement
<1>7. inUse[u] \in Nat /\ inUse[cachePage] \in Nat /\ inUse[ioPage] \in Nat /\ free \in Nat
    BY DEF PoolTypes, Purposes
<1>8. /\ inUse' \in [Purposes -> Nat] /\ inUse'[u] = inUse[u] + 1
      /\ \A v \in Purposes \ {u} : inUse'[v] = inUse[v]
    BY <1>2, <1>7 DEF PoolTypes
<1>9. PoolTypes'
  <2>1. free' \in Nat
      BY <1>2, <1>7
  <2> QED
      BY <2>1, <1>2, <1>3, <1>8 DEF PoolTypes
<1>10. LevelIsAccurate'
  <2> SUFFICES ASSUME NEW v \in Purposes
               PROVE  level'[v] = inUse'[v] - Cardinality(Counting(v)') /\ level'[v] >= 0
      BY DEF LevelIsAccurate
  <2>1. level[v] = inUse[v] - Cardinality(Counting(v)) /\ level[v] >= 0 /\ level'[v] = level[v]
      BY <1>2 DEF LevelIsAccurate
  <2>2. CASE v # u
      BY <2>1, <2>2, <1>5, <1>8
  <2>3. CASE v = u
    <3>1. Cardinality(Counting(u)) \in Nat
        BY CountsAreNaturals
    <3> QED
        BY <2>1, <2>3, <3>1, <1>6, <1>7, <1>8
  <2> QED
      BY <2>2, <2>3
<1>11. PagesAreConserved'
  <2>1. cachePage # ioPage /\ u \in {cachePage, ioPage} /\ Cardinality(Pushing) \in Nat
      BY PoolAssumption, CountsAreNaturals DEF PoolAssumption, Purposes
  <2>2. inUse'[cachePage] + inUse'[ioPage] = inUse[cachePage] + inUse[ioPage] + 1
      BY <2>1, <1>7, <1>8 DEF Purposes
  <2>3. free' = free - 1 /\ Cardinality(Pushing') = Cardinality(Pushing)
      BY <1>2, <1>5
  <2>4. \A a, b, c, d, x, y \in Int :
            x + y = b + c + 1 => (a - 1) + x + y + d = a + b + c + d
      OBVIOUS
  <2>5. inUse'[cachePage] \in Int /\ inUse'[ioPage] \in Int
      BY <1>8 DEF Purposes
  <2>6. (free - 1) + inUse'[cachePage] + inUse'[ioPage] + Cardinality(Pushing) = Capacity
      BY <2>1, <2>2, <2>4, <2>5, <1>7 DEF PagesAreConserved
  <2> QED
      BY <2>3, <2>6 DEF PagesAreConserved
<1>12. LimitsAreKept'
  <2> SUFFICES ASSUME ~raced', NEW v \in Purposes
               PROVE  /\ inUse'[v] <= PageLimit[v]
                      /\ \A q \in Procs : loc'[q] = "pop" /\ purpose'[q] = v
                                                          => inUse'[v] < PageLimit[v]
                      /\ \A q, r \in Procs : Getting(q, v)' /\ Getting(r, v)' => q = r
      BY DEF LimitsAreKept
  <2>1. /\ inUse[v] <= PageLimit[v]
        /\ \A q \in Procs : loc[q] = "pop" /\ purpose[q] = v => inUse[v] < PageLimit[v]
        /\ \A q, r \in Procs : Getting(q, v) /\ Getting(r, v) => q = r
      BY <1>2 DEF LimitsAreKept
  <2>2. \A q \in Procs : Getting(q, v)' <=> Getting(q, v)
      BY <1>2, <1>3 DEF Getting
  <2>3. CASE v # u
      BY <2>1, <2>2, <2>3, <1>1, <1>2, <1>3, <1>8
  <2>4. CASE v = u
    <3>1. inUse[u] < PageLimit[u] /\ PageLimit[u] \in Nat
        BY <2>1, <2>4, <1>1, <1>2, PoolAssumption DEF PoolAssumption
    <3>2. inUse'[v] <= PageLimit[v]
        BY <2>4, <3>1, <1>7, <1>8
    <3>3. \A q \in Procs : ~(loc'[q] = "pop" /\ purpose'[q] = v)
      <4> SUFFICES ASSUME NEW q \in Procs, loc'[q] = "pop", purpose'[q] = v PROVE FALSE
          OBVIOUS
      <4>1. q # p /\ Getting(q, v) /\ Getting(p, v)
          BY <2>4, <1>1, <1>2, <1>3 DEF Getting
      <4> QED
          BY <4>1, <2>1
    <3> QED
        BY <2>1, <2>2, <3>2, <3>3
  <2> QED
      BY <2>3, <2>4
<1> QED
    BY <1>9, <1>10, <1>11, <1>12

\* PagePool::get(), the count: the level catches up with the pages in use.
LEMMA CountKeeps ==
    ASSUME PoolInv, NEW p \in Procs, Count(p)
    PROVE  PoolInv'
<1> USE DEF PoolInv
<1>1. PICK u \in Purposes : u = purpose[p]
    BY DEF PoolTypes
<1>2. /\ loc[p] = "count" /\ Goto(p, "idle")
      /\ level' = [level EXCEPT ![u] = (@ + 1) % 2^Width]
      /\ UNCHANGED <<free, inUse, purpose, raced>>
    BY <1>1 DEF Count
<1>3. /\ loc' \in [Procs -> Locs] /\ loc'[p] = "idle"
      /\ \A q \in Procs \ {p} : loc'[q] = loc[q]
      /\ Pushing' = Pushing \ {p}
      /\ \A v : Counting(v)' = Counting(v) \ {p}
    BY <1>1, <1>2, MoveCounts DEF Locs
<1>4. p \notin Pushing /\ p \in Counting(u) /\ \A v : v # u => p \notin Counting(v)
    BY <1>1, <1>2 DEF Pushing, Counting
<1>5. Pushing' = Pushing /\ \A v : v # u => Counting(v)' = Counting(v)
    BY <1>3, <1>4
<1>6. Cardinality(Counting(u)') = Cardinality(Counting(u)) - 1
    BY <1>3, <1>4, CountsAreNaturals, FS_RemoveElement
<1>7. Cardinality(Counting(u)) \in Nat /\ Cardinality(Counting(u)') \in Nat
    BY <1>3, CountsAreNaturals, FS_RemoveElement, FS_CardinalityType
<1>8. /\ inUse[u] \in 0 .. Capacity /\ level[u] \in 0 .. Capacity /\ Capacity \in Nat
      /\ level[u] = inUse[u] - Cardinality(Counting(u))
    BY CountsFit, PoolAssumption DEF PoolAssumption, Purposes, Capacity
<1>9. level[u] + 1 \in 0 .. Capacity
    BY <1>6, <1>7, <1>8
<1>10. (level[u] + 1) % 2^Width = level[u] + 1
    BY <1>9, SizeIsExact
<1>11. /\ level' \in [Purposes -> Nat] /\ level'[u] = level[u] + 1
       /\ \A v \in Purposes \ {u} : level'[v] = level[v]
    BY <1>2, <1>9, <1>10 DEF PoolTypes
<1>12. PoolTypes'
    BY <1>2, <1>3, <1>11 DEF PoolTypes
<1>13. LevelIsAccurate'
  <2> SUFFICES ASSUME NEW v \in Purposes
               PROVE  level'[v] = inUse'[v] - Cardinality(Counting(v)') /\ level'[v] >= 0
      BY DEF LevelIsAccurate
  <2>1. CASE v # u
      BY <2>1, <1>2, <1>5, <1>11 DEF LevelIsAccurate
  <2>2. CASE v = u
    <3>1. inUse'[u] = inUse[u]
        BY <1>2
    <3>2. level[u] + 1 = inUse[u] - (Cardinality(Counting(u)) - 1) /\ level[u] + 1 >= 0
        BY <1>7, <1>8
    <3> QED
        BY <2>2, <3>1, <3>2, <1>6, <1>11
  <2> QED
      BY <2>1, <2>2
<1>14. PagesAreConserved'
    BY <1>2, <1>5 DEF PagesAreConserved
<1>15. LimitsAreKept'
    BY <1>2, <1>3 DEF LimitsAreKept, Getting
<1> QED
    BY <1>12, <1>13, <1>14, <1>15

\* PutPage() up to its push: a page in use is uncounted.
LEMMA PutPageKeeps ==
    ASSUME PoolInv, NEW p \in Procs, NEW u \in Purposes, PutPage(p, u)
    PROVE  PoolInv'
<1> USE DEF PoolInv
<1>1. /\ loc[p] = "idle" /\ Goto(p, "push") /\ inUse[u] > Cardinality(Counting(u))
      /\ inUse' = [inUse EXCEPT ![u] = @ - 1]
      /\ level' = [level EXCEPT ![u] = (@ - 1) % 2^Width]
      /\ UNCHANGED <<free, purpose, raced>>
    BY DEF PutPage
<1>2. /\ loc' \in [Procs -> Locs] /\ loc'[p] = "push"
      /\ \A q \in Procs \ {p} : loc'[q] = loc[q]
      /\ Pushing' = Pushing \cup {p}
      /\ \A v : Counting(v)' = Counting(v) \ {p}
    BY <1>1, MoveCounts DEF Locs
<1>3. p \notin Pushing /\ \A v : p \notin Counting(v)
    BY <1>1 DEF Pushing, Counting
<1>4. Cardinality(Pushing') = Cardinality(Pushing) + 1
    BY <1>2, <1>3, CountsAreNaturals, FS_AddElement
<1>5. \A v : Counting(v)' = Counting(v)
    BY <1>2, <1>3
<1>6. /\ inUse[u] \in 0 .. Capacity /\ level[u] \in 0 .. Capacity /\ Capacity \in Nat
      /\ level[u] = inUse[u] - Cardinality(Counting(u)) /\ Cardinality(Counting(u)) \in Nat
    BY CountsFit, CountsAreNaturals, PoolAssumption DEF PoolAssumption, Purposes, Capacity
<1>7. level[u] - 1 \in 0 .. Capacity /\ inUse[u] - 1 \in Nat
    BY <1>1, <1>6
<1>8. (level[u] - 1) % 2^Width = level[u] - 1
    BY <1>7, SizeIsExact
<1>9. /\ level' \in [Purposes -> Nat] /\ level'[u] = level[u] - 1
      /\ \A v \in Purposes \ {u} : level'[v] = level[v]
    BY <1>1, <1>7, <1>8 DEF PoolTypes
<1>10. /\ inUse' \in [Purposes -> Nat] /\ inUse'[u] = inUse[u] - 1
       /\ \A v \in Purposes \ {u} : inUse'[v] = inUse[v]
    BY <1>1, <1>7 DEF PoolTypes
<1>11. PoolTypes'
    BY <1>1, <1>2, <1>9, <1>10 DEF PoolTypes
<1>12. LevelIsAccurate'
  <2> SUFFICES ASSUME NEW v \in Purposes
               PROVE  level'[v] = inUse'[v] - Cardinality(Counting(v)') /\ level'[v] >= 0
      BY DEF LevelIsAccurate
  <2>1. CASE v # u
      BY <2>1, <1>5, <1>9, <1>10 DEF LevelIsAccurate
  <2>2. CASE v = u
    <3>1. level[u] - 1 = (inUse[u] - 1) - Cardinality(Counting(u)) /\ level[u] - 1 >= 0
        BY <1>6, <1>7
    <3> QED
        BY <2>2, <3>1, <1>5, <1>9, <1>10
  <2> QED
      BY <2>1, <2>2
<1>13. PagesAreConserved'
  <2>1. cachePage # ioPage /\ u \in {cachePage, ioPage} /\ Cardinality(Pushing) \in Nat
      BY PoolAssumption, CountsAreNaturals DEF PoolAssumption, Purposes
  <2>2. inUse[cachePage] \in Nat /\ inUse[ioPage] \in Nat /\ free \in Nat
      BY DEF PoolTypes, Purposes
  <2>3. inUse'[cachePage] + inUse'[ioPage] = inUse[cachePage] + inUse[ioPage] - 1
      BY <2>1, <2>2, <1>10 DEF Purposes
  <2>4. \A a, b, c, d, x, y \in Int :
            x + y = b + c - 1 => a + x + y + (d + 1) = a + b + c + d
      OBVIOUS
  <2>5. inUse'[cachePage] \in Int /\ inUse'[ioPage] \in Int
      BY <1>10 DEF Purposes
  <2>6. free + inUse'[cachePage] + inUse'[ioPage] + (Cardinality(Pushing) + 1) = Capacity
      BY <2>1, <2>2, <2>3, <2>4, <2>5 DEF PagesAreConserved
  <2>7. free' = free
      BY <1>1
  <2> QED
      BY <2>6, <2>7, <1>4 DEF PagesAreConserved
<1>14. LimitsAreKept'
  <2> SUFFICES ASSUME ~raced', NEW v \in Purposes
               PROVE  /\ inUse'[v] <= PageLimit[v]
                      /\ \A q \in Procs : loc'[q] = "pop" /\ purpose'[q] = v
                                                          => inUse'[v] < PageLimit[v]
                      /\ \A q, r \in Procs : Getting(q, v)' /\ Getting(r, v)' => q = r
      BY DEF LimitsAreKept
  <2>1. /\ inUse[v] <= PageLimit[v]
        /\ \A q \in Procs : loc[q] = "pop" /\ purpose[q] = v => inUse[v] < PageLimit[v]
        /\ \A q, r \in Procs : Getting(q, v) /\ Getting(r, v) => q = r
      BY <1>1 DEF LimitsAreKept
  <2>2. \A q \in Procs : /\ Getting(q, v)' => Getting(q, v)
                         /\ loc'[q] = "pop" /\ purpose'[q] = v => loc[q] = "pop" /\ purpose[q] = v
      BY <1>1, <1>2 DEF Getting
  <2>3. inUse[v] \in Nat /\ PageLimit[v] \in Nat
      BY PoolAssumption DEF PoolTypes, PoolAssumption
  <2>4. inUse'[v] = inUse[v] \/ inUse'[v] = inUse[v] - 1
      BY <1>10
  <2> QED
      BY <2>1, <2>2, <2>3, <2>4
<1> QED
    BY <1>11, <1>12, <1>13, <1>14

\* Every other step (a pop that finds no page, a push) keeps the invariant.
LEMMA RestKeeps ==
    ASSUME PoolInv, NEW p \in Procs, Push(p) \/ (Pop(p) /\ free = 0)
    PROVE  PoolInv'
<1> USE DEF PoolInv
<1>1. /\ loc[p] \in {"push", "pop"} /\ Goto(p, "idle")
      /\ free' = IF loc[p] = "push" THEN free + 1 ELSE free
      /\ UNCHANGED <<level, inUse, purpose, raced>>
    BY DEF Push, Pop
<1>2. /\ loc' \in [Procs -> Locs] /\ loc'[p] = "idle"
      /\ \A q \in Procs \ {p} : loc'[q] = loc[q]
      /\ Pushing' = Pushing \ {p}
      /\ \A v : Counting(v)' = Counting(v) \ {p}
    BY <1>1, MoveCounts DEF Locs
<1>3. \A v : Counting(v)' = Counting(v)
    BY <1>1, <1>2 DEF Counting
<1>4. IsFiniteSet(Pushing) /\ Cardinality(Pushing) \in Nat
    BY CountsAreNaturals
<1>5. Cardinality(Pushing') =
          IF loc[p] = "push" THEN Cardinality(Pushing) - 1 ELSE Cardinality(Pushing)
  <2>1. p \in Pushing <=> loc[p] = "push"
      BY DEF Pushing
  <2> QED
      BY <2>1, <1>2, <1>4, FS_RemoveElement
<1>6. free \in Nat /\ inUse[cachePage] \in Nat /\ inUse[ioPage] \in Nat
    BY DEF PoolTypes, Purposes
<1>7. PoolTypes'
  <2>1. free' \in Nat
      BY <1>1, <1>6
  <2> QED
      BY <2>1, <1>1, <1>2 DEF PoolTypes
<1>8. LevelIsAccurate'
    BY <1>1, <1>3 DEF LevelIsAccurate
<1>9. PagesAreConserved'
  <2>1. \A a, b, c, d \in Int : (a + 1) + b + c + (d - 1) = a + b + c + d
      OBVIOUS
  <2>2. (free + 1) + inUse[cachePage] + inUse[ioPage] + (Cardinality(Pushing) - 1) = Capacity
      BY <2>1, <1>4, <1>6 DEF PagesAreConserved
  <2>3. inUse' = inUse
      BY <1>1
  <2>4. CASE loc[p] = "push"
      BY <2>2, <2>3, <2>4, <1>1, <1>5 DEF PagesAreConserved
  <2>5. CASE loc[p] # "push"
      BY <2>3, <2>5, <1>1, <1>5 DEF PagesAreConserved
  <2> QED
      BY <2>4, <2>5
<1>10. LimitsAreKept'
    BY <1>1, <1>2 DEF LimitsAreKept, Getting
<1> QED
    BY <1>7, <1>8, <1>9, <1>10

-----------------------------------------------------------------------------
(* Theorems *)

\* The invariant that the theorems below rest on: levels count pages, no page is lost
\* (GetPage(), PagePool::get(), PutPage(), PagePool::put()), and limits are kept while
\* no two GetPage() calls for a purpose overlap.
THEOREM Invariance == Spec => []PoolInv
<1>1. PoolInv /\ [Next]_vars => PoolInv'
  <2> SUFFICES ASSUME PoolInv, [Next]_vars PROVE PoolInv'
      OBVIOUS
  <2>1. CASE Next
      BY <2>1, GetPageKeeps, PopKeeps, CountKeeps, PutPageKeeps, RestKeeps DEF Next
  <2>2. CASE UNCHANGED vars
      BY <2>2 DEF vars, PoolInv, PoolTypes, LevelIsAccurate, PagesAreConserved, LimitsAreKept,
                  Counting, Pushing, Getting
  <2> QED
      BY <2>1, <2>2
<1> QED
    BY <1>1, InitHolds, PTL DEF Spec

\* A level is the number of pages in use but for those being counted, and never wraps,
\* however calls of PagePool::get() and put() interleave.
THEOREM LevelsAreAccurate == Spec => []LevelIsAccurate
<1>1. PoolInv => LevelIsAccurate
    BY DEF PoolInv
<1> QED
    BY <1>1, Invariance, PTL

\* A purpose gets more pages than its limit only after two of its GetPage() calls
\* overlapped between the test of the limit and the count.
THEOREM OverrunsNeedRaces == Spec => []OverrunNeedsRace
<1>1. PoolInv => OverrunNeedsRace
  <2> SUFFICES ASSUME PoolInv, ~raced, NEW u \in Purposes PROVE ~(inUse[u] > PageLimit[u])
      BY DEF OverrunNeedsRace, PoolInv, PoolTypes
  <2>1. inUse[u] \in Nat /\ PageLimit[u] \in Nat /\ inUse[u] <= PageLimit[u]
      BY PoolAssumption DEF PoolInv, PoolTypes, LimitsAreKept, PoolAssumption
  <2> QED
      BY <2>1
<1> QED
    BY <1>1, Invariance, PTL

\* The limits reserve pages: without such an overlap a GetPage() that passed its test
\* finds a page, or PutPage() is about to push one.
THEOREM LimitsReservePages == Spec => []LimitsReserve
<1>1. PoolInv => LimitsReserve
  <2> SUFFICES ASSUME PoolInv, NEW p \in Procs, loc[p] = "pop", free = 0, ~raced
               PROVE  \E q \in Procs : loc[q] = "push"
      BY DEF LimitsReserve, PoolInv, PoolTypes
  <2> USE DEF PoolInv
  <2>1. PICK u \in Purposes : u = purpose[p]
      BY DEF PoolTypes
  <2>2. inUse[u] < PageLimit[u] /\ \A v \in Purposes : inUse[v] <= PageLimit[v]
      BY <2>1 DEF LimitsAreKept
  <2>3. /\ inUse[cachePage] \in Nat /\ inUse[ioPage] \in Nat
        /\ PageLimit[cachePage] \in Nat /\ PageLimit[ioPage] \in Nat
      BY PoolAssumption DEF PoolTypes, PoolAssumption, Purposes
  <2>4. inUse[cachePage] + inUse[ioPage] < Capacity
      BY <2>1, <2>2, <2>3 DEF Purposes, Capacity
  <2>5. Cardinality(Pushing) # 0
      BY <2>3, <2>4, CountsAreNaturals DEF PagesAreConserved
  <2>6. Pushing # {}
      BY <2>5, FS_EmptySet
  <2> QED
      BY <2>6 DEF Pushing
<1> QED
    BY <1>1, Invariance, PTL

=============================================================================
