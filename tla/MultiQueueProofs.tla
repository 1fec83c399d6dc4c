-------------------------- MODULE MultiQueueProofs --------------------------
(***************************************************************************)
(* Theorems about MultiQueue, for any number of writers, any capacity that *)
(* divides the range of the indices, and any number of kills.  Where       *)
(* processes may be killed is a hypothesis of each theorem that needs one. *)
(***************************************************************************)
EXTENDS MultiQueue, SequenceTheorems, TLAPS

-----------------------------------------------------------------------------
(* Arithmetic of indices that wrap around *)

\* A remainder is determined by any quotient that leaves one.
LEMMA ModUnique ==
    ASSUME NEW c \in Nat, c > 0, NEW x \in Nat, NEW q \in Nat, NEW r \in 0..c-1, x = c * q + r
    PROVE  x % c = r
OBVIOUS

\* Every number has a quotient that leaves its remainder.
LEMMA ModQuotient ==
    ASSUME NEW c \in Nat, c > 0, NEW x \in Nat
    PROVE  \E q \in Nat : x = c * q + (x % c)
OBVIOUS

\* A remainder is less than the divisor.
LEMMA ModRange ==
    ASSUME NEW c \in Nat, c > 0, NEW x \in Nat
    PROVE  x % c \in 0..c-1
OBVIOUS

\* An index below the limit is itself.
LEMMA ModSmall ==
    ASSUME NEW c \in Nat, c > 0, NEW x \in 0..c-1
    PROVE  x % c = x
OBVIOUS

\* An index that wrapped around once.
LEMMA ModWrapped ==
    ASSUME NEW c \in Nat, c > 0, NEW x \in 0..c-1
    PROVE  (x + c) % c = x
<1>1. x + c = c * 1 + x
    OBVIOUS
<1> QED BY <1>1, ModUnique

\* Adding a multiple of the divisor does not change the remainder.
LEMMA ModPlusMultiple ==
    ASSUME NEW c \in Nat, c > 0, NEW x \in Nat, NEW l \in Nat, l % c = 0
    PROVE  (x + l) % c = x % c
<1>1. PICK q \in Nat : x = c * q + (x % c)
    BY ModQuotient
<1>2. PICK m \in Nat : l = c * m + (l % c)
    BY ModQuotient
<1>3. x + l = c * (q + m) + (x % c)
    BY <1>1, <1>2
<1>4. x % c \in 0..c-1
    BY ModRange
<1>5. q + m \in Nat /\ x + l \in Nat
    BY <1>1, <1>2
<1> QED BY <1>3, <1>4, <1>5, ModUnique

\* Numbers that differ by less than the divisor have different remainders.
LEMMA ModDistinct ==
    ASSUME NEW c \in Nat, c > 0, NEW x \in Nat, NEW d \in 1..c-1
    PROVE  (x + d) % c # x % c
<1>1. PICK q \in Nat : x = c * q + (x % c)
    BY ModQuotient
<1>2. PICK r \in Nat : r = x % c /\ r \in 0..c-1
    BY ModRange
<1>3. CASE r + d < c
  <2>1. x + d = c * q + (r + d) /\ x + d \in Nat
    BY <1>1, <1>2
  <2>2. r + d \in 0..c-1
    BY <1>2, <1>3
  <2>3. (x + d) % c = r + d
    BY <1>1, <2>1, <2>2, ModUnique
  <2> QED BY <2>3, <1>2
<1>4. CASE r + d >= c
  <2>1. x + d = c * (q + 1) + (r + d - c) /\ x + d \in Nat /\ q + 1 \in Nat
    BY <1>1, <1>2
  <2>2. r + d - c \in 0..c-1
    BY <1>2, <1>4
  <2>3. (x + d) % c = r + d - c
    BY <1>1, <2>1, <2>2, ModUnique
  <2> QED BY <2>3, <1>2
<1> QED BY <1>2, <1>3, <1>4

\* The quantities of QueueAssumption have their types.
LEMMA Constants ==
    /\ WriterCount \in Nat /\ WriterCount > 0
    /\ Capacity \in Nat /\ Capacity > 0
    /\ IndexLimit \in Nat /\ IndexLimit > Capacity /\ IndexLimit % Capacity = 0
    /\ RestartLimit \in Nat /\ PopLimit \in Nat /\ PopLimit > 0
BY QueueAssumption DEF QueueAssumption

\* The same without the remainder, which the steps that need no arithmetic of
\* indices do better without.
LEMMA Sizes == WriterCount \in Nat /\ WriterCount > 0 /\ Capacity \in Nat /\ Capacity > 0
               /\ IndexLimit \in Nat /\ IndexLimit > Capacity /\ RestartLimit \in Nat
               /\ PopLimit \in Nat /\ PopLimit > 0
BY QueueAssumption DEF QueueAssumption

\* An index in a queue, reduced to the range of theIn and theOut, has the same
\* slot: the capacity divides that range.
LEMMA SlotOfWrapped ==
    ASSUME NEW i \in 0..IndexLimit - 1, NEW k \in 0..Capacity
    PROVE  /\ (i + k) % IndexLimit \in 0..IndexLimit - 1
           /\ Slot((i + k) % IndexLimit) = Slot(i + k)
<1>1. CASE i + k < IndexLimit
    BY <1>1, ModSmall, Constants DEF Slot
<1>2. CASE i + k >= IndexLimit
  <2> DEFINE j == i + k - IndexLimit
  <2>1. j \in 0..IndexLimit - 1 /\ j \in Nat /\ i + k = j + IndexLimit
    BY <1>2, Constants
  <2> HIDE DEF j
  <2>2. (i + k) % IndexLimit = j
    BY <2>1, ModWrapped, Constants
  <2>3. (j + IndexLimit) % Capacity = j % Capacity
    BY <2>1, ModPlusMultiple, Constants
  <2> QED BY <2>1, <2>2, <2>3 DEF Slot
<1> QED BY <1>1, <1>2, Constants

\* Stepping from an index to the next one and on by k is stepping on by k + 1.
LEMMA NextIndexPlus ==
    ASSUME NEW i \in 0..IndexLimit - 1, NEW k \in 0..Capacity
    PROVE  /\ NextIndex(i) \in 0..IndexLimit - 1
           /\ (NextIndex(i) + k) % IndexLimit = (i + (k + 1)) % IndexLimit
           /\ Slot(NextIndex(i) + k) = Slot(i + (k + 1))
<1>1. CASE i + 1 < IndexLimit
  <2>1. NextIndex(i) = i + 1
    BY <1>1, ModSmall, Constants DEF NextIndex
  <2>2. NextIndex(i) + k = i + (k + 1)
    BY <2>1, Constants
  <2> QED BY <1>1, <2>1, <2>2, Constants
<1>2. CASE i + 1 = IndexLimit
  <2>1. NextIndex(i) = 0
    BY <1>2, ModWrapped, Constants DEF NextIndex
  <2>2. i + (k + 1) = k + IndexLimit /\ k \in 0..IndexLimit - 1 /\ k \in Nat
    BY <1>2, Constants
  <2>3. (k + IndexLimit) % IndexLimit = k % IndexLimit
    BY <2>2, ModWrapped, ModSmall, Constants
  <2>4. (k + IndexLimit) % Capacity = k % Capacity
    BY <2>2, ModPlusMultiple, Constants
  <2> QED BY <2>1, <2>2, <2>3, <2>4, Constants DEF Slot
<1> QED BY <1>1, <1>2, Constants

\* The index before the next one is the index, and the other way round.
LEMMA NextAndPrevious ==
    ASSUME NEW i \in 0..IndexLimit - 1
    PROVE  /\ (NextIndex(i) + IndexLimit - 1) % IndexLimit = i
           /\ (i + IndexLimit - 1) % IndexLimit \in 0..IndexLimit - 1
           /\ NextIndex((i + IndexLimit - 1) % IndexLimit) = i
<1>1. (NextIndex(i) + IndexLimit - 1) % IndexLimit = i
  <2>1. CASE i + 1 < IndexLimit
    <3>1. NextIndex(i) = i + 1
      BY <2>1, ModSmall, Constants DEF NextIndex
    <3>2. NextIndex(i) + IndexLimit - 1 = i + IndexLimit
      BY <3>1, Constants
    <3> QED BY <3>2, ModWrapped, Constants
  <2>2. CASE i + 1 = IndexLimit
    <3>1. NextIndex(i) = 0
      BY <2>2, ModWrapped, Constants DEF NextIndex
    <3> QED BY <3>1, <2>2, ModSmall, Constants
  <2> QED BY <2>1, <2>2, Constants
<1>2. CASE i = 0
  <2>1. (i + IndexLimit - 1) % IndexLimit = IndexLimit - 1
    BY <1>2, ModSmall, Constants
  <2>2. NextIndex(IndexLimit - 1) = 0
    BY ModWrapped, Constants DEF NextIndex
  <2> QED BY <1>1, <1>2, <2>1, <2>2, Constants
<1>3. CASE i > 0
  <2>1. i - 1 \in 0..IndexLimit - 1 /\ i + IndexLimit - 1 = (i - 1) + IndexLimit
    BY <1>3, Constants
  <2>2. (i + IndexLimit - 1) % IndexLimit = i - 1
    BY <2>1, ModWrapped, Constants
  <2>3. NextIndex(i - 1) = i
    BY <1>3, ModSmall, Constants DEF NextIndex
  <2> QED BY <1>1, <2>1, <2>2, <2>3
<1> QED BY <1>2, <1>3, Constants

-----------------------------------------------------------------------------
(* The inductive invariants *)

\* A queue is not filled beyond its capacity, and not emptied below zero: a
\* push() that passed the full() check has room whenever it increments theSize,
\* and a pop() that saw an item still finds one.
SizeFits ==
    /\ \A w \in Writers : pc[w] = "size" => theSize[w] < Capacity
    /\ rpc \in {"unblock", "copy", "drop"} => theSize[theLastPopProcessId] > 0

\* n items from index first on are in the buffer, each in its slot, and the next
\* one will be pushed at index in.
RingHolds(in, first, n, buffer) ==
    /\ in = (first + n) % IndexLimit
    /\ \A k \in 0..n - 1 : buffer[Slot(first + k)] = (first + k) % IndexLimit

\* The items in the ring of w: one may be written and not counted yet.
InRing(w) == theSize[w] + (IF pc[w] = "size" THEN 1 ELSE 0)

Rings == \A w \in Writers : RingHolds(theIn[w], First(w), InRing(w), theBuffer[w])

\* How many steps of BaseMultiQueue::pop() ago the reader visited w, if it did.
Behind(w) == IF w <= theLastPopProcessId THEN theLastPopProcessId - w
                                         ELSE theLastPopProcessId + WriterCount - w

\* The queues that the current BaseMultiQueue::pop() found empty after block().
FoundEmpty(w) == \/ rpc \in {"next", "idle"} /\ Behind(w) < tries
                 \/ rpc \in {"block", "recheck"} /\ 0 < Behind(w) /\ Behind(w) < tries

\* The reader is blocked once it found a queue empty; a signal is followed by a
\* notification, or by clearSignal(); and a queue that was found empty and is not
\* empty any more has a writer that is about to raise the signal, unless it is
\* raised already.  A notification that was lost excuses from both.
Wakeups ==
    /\ rpc = "idle" => tries = WriterCount
    /\ rpc \in {"block", "recheck"} => tries > 0
    /\ \/ rpc \in {"idle", "recheck"}
       \/ rpc = "next" /\ tries > 0
       \/ rpc = "block" /\ tries > 1
       => popBlocked
    /\ popSignal => rpc \in {"start", "clear"} \/ notes > 0 \/ lost
    /\ \A w \in Writers : FoundEmpty(w) /\ theSize[w] > 0 =>
                              pc[w] \in Notifying \/ popSignal \/ lost

\* Kills that leave a ring consistent: not between the two accesses of a pop(),
\* and not between writing an item and counting it.
KillsSpareRings == "drop" \notin ReaderCrash /\ "size" \notin WriterCrash

-----------------------------------------------------------------------------
(* Types and sizes *)

\* The reader's next queue is the one after the last, in a circle.
LEMMA NextQueue ==
    ASSUME NEW w \in Writers
    PROVE  /\ w = WriterCount => (w % WriterCount) + 1 = 1
           /\ w # WriterCount => (w % WriterCount) + 1 = w + 1
           /\ (w % WriterCount) + 1 \in Writers
<1>1. CASE w = WriterCount
  <2>1. (0 + WriterCount) % WriterCount = 0
    BY ModWrapped, Constants
  <2> QED BY <1>1, <2>1, Constants DEF Writers
<1>2. CASE w # WriterCount
  <2>1. w \in 0..WriterCount - 1
    BY <1>2, Constants DEF Writers
  <2>2. w % WriterCount = w
    BY <2>1, ModSmall, Constants
  <2> QED BY <1>2, <2>1, <2>2, Constants DEF Writers
<1> QED BY <1>1, <1>2

\* A new set of queues is empty and has the right types.
LEMMA InitTypes == Init => TypeOK /\ SizeFits
<1> SUFFICES ASSUME Init PROVE TypeOK /\ SizeFits
    OBVIOUS
<1>1. /\ 0 \in 0..IndexLimit - 1 /\ 0 \in 0..Capacity /\ 0 \in 0..RestartLimit
      /\ 0 \in 0..WriterCount /\ 0 \in 0..PopLimit - 1
      /\ \A slot \in 0..Capacity - 1 : IndexLimit - Capacity + slot \in 0..IndexLimit - 1
    BY Sizes
<1>2. WriterCount \in Writers
    BY Constants DEF Writers
<1>3. TypeOK
    BY <1>1, <1>2 DEF Init, ReaderStart, TypeOK, PushAccess, PopAccess
<1>4. SizeFits
    BY DEF Init, ReaderStart, SizeFits
<1> QED BY <1>3, <1>4

\* Each step of push() and its caller keeps types and sizes.
LEMMA PushTypes ==
    ASSUME TypeOK, SizeFits, NEW w \in Writers, Push(w) \/ PushStep(w) \/ KillWriter(w)
    PROVE  TypeOK' /\ SizeFits'
<1> USE Sizes DEF TypeOK, SizeFits, WriterGoto, PushAccess, readerVars, queueVars
<1>1. CASE Push(w)
  <2>1. pc' \in [Writers -> PushAccess \cup {"idle"}]
    BY <1>1 DEF Push
  <2>2. theSize[w] < Capacity
    BY <1>1 DEF Push
  <2>3. SizeFits'
    BY <1>1, <2>2 DEF Push
  <2>4. NextIndex(theIn[w]) \in 0..IndexLimit - 1
    BY NextIndexPlus, Constants
  <2>5. Slot(theIn[w]) \in 0..Capacity - 1
    BY ModRange, Constants DEF Slot
  <2>6. theIn' \in [Writers -> 0..IndexLimit - 1]
    BY <1>1, <2>4 DEF Push, WriteItem
  <2>7. theBuffer' \in [Writers -> [0..Capacity - 1 -> 0..IndexLimit - 1]]
    BY <1>1, <2>5 DEF Push, WriteItem
  <2> QED BY <1>1, <2>1, <2>3, <2>6, <2>7 DEF Push
<1>3. CASE GrowSize(w)
  <2>1. /\ theSize' = [theSize EXCEPT ![w] = theSize[w] + 1]
        /\ theSize \in [Writers -> 0..Capacity]
    BY <1>3 DEF GrowSize
  <2>2. theSize[w] \in 0..Capacity /\ theSize[w] < Capacity
    BY <1>3, <2>1 DEF GrowSize
  <2>3. theSize' \in [Writers -> 0..Capacity]
    <3> HIDE Sizes DEF TypeOK, SizeFits, WriterGoto, PushAccess, readerVars, queueVars
    <3>1. theSize[w] + 1 \in 0..Capacity
      BY <2>2, Constants
    <3> QED BY <2>1, <3>1
  <2>4. pc' \in [Writers -> PushAccess \cup {"idle"}]
    BY <1>3 DEF GrowSize
  <2>5. \A v \in Writers : pc'[v] = "size" => theSize'[v] < Capacity
    BY <1>3 DEF GrowSize
  <2>6. theSize'[theLastPopProcessId] >= theSize[theLastPopProcessId]
    <3>1. theLastPopProcessId \in Writers
      OBVIOUS
    <3> HIDE Sizes DEF TypeOK, SizeFits, WriterGoto, PushAccess, readerVars, queueVars
    <3> QED BY <2>1, <2>2, <3>1
  <2>7. rpc' \in {"unblock", "copy", "drop"} => theSize'[theLastPopProcessId'] > 0
    BY <1>3, <2>3, <2>6 DEF GrowSize
  <2> QED BY <1>3, <2>3, <2>4, <2>5, <2>7 DEF GrowSize
<1>4. CASE CheckBlocked(w)
    BY <1>4 DEF CheckBlocked
<1>5. CASE RaiseSignal(w)
  <2>1. notes' \in Nat /\ popSignal' \in BOOLEAN
    BY <1>5 DEF RaiseSignal, Notify
  <2>2. pc' \in [Writers -> PushAccess \cup {"idle"}]
    BY <1>5 DEF RaiseSignal
  <2>3. SizeFits'
    BY <1>5 DEF RaiseSignal
  <2> QED BY <1>5, <2>1, <2>2, <2>3 DEF RaiseSignal
<1>7. CASE KillWriter(w)
  <2>1. pc' \in [Writers -> PushAccess \cup {"idle"}]
    BY <1>7 DEF KillWriter
  <2>2. SizeFits'
    BY <1>7 DEF KillWriter
  <2>3. restarts' \in 0..RestartLimit /\ lost' \in BOOLEAN
    BY <1>7 DEF KillWriter
  <2> QED BY <1>7, <2>1, <2>2, <2>3 DEF KillWriter
<1> QED BY <1>1, <1>3, <1>4, <1>5, <1>7 DEF PushStep

\* Each step of the reader keeps types and sizes.
LEMMA PopTypes ==
    ASSUME TypeOK, SizeFits, ReaderStep \/ KillReader \/ GiveUp
    PROVE  TypeOK' /\ SizeFits'
<1> USE Sizes DEF TypeOK, SizeFits, ReaderGoto, PopAccess, writerVars, queueVars
<1>1. CASE HandleNewDataAtStart
    BY <1>1 DEF HandleNewDataAtStart, Wake
<1>2. CASE HandleNotification
  <2>1. notes' \in Nat /\ rpc' = "clear"
    BY <1>2 DEF HandleNotification, Wake
  <2>2. SizeFits'
    BY <1>2, <2>1 DEF HandleNotification, Wake
  <2> QED BY <1>2, <2>1, <2>2 DEF HandleNotification, Wake
<1>3. CASE ClearSignal
  <2>1. SizeFits'
    BY <1>3 DEF ClearSignal
  <2>2. tries' \in 0..WriterCount
    BY <1>3 DEF ClearSignal
  <2>3. popSignal' \in BOOLEAN /\ lost' \in BOOLEAN
    BY <1>3 DEF ClearSignal
  <2> QED BY <1>3, <2>1, <2>2, <2>3 DEF ClearSignal
<1>4. CASE TryQueue
  <2>1. theLastPopProcessId' \in Writers
    BY <1>4, NextQueue DEF TryQueue
  <2>2. tries' \in 0..WriterCount
    BY <1>4 DEF TryQueue
  <2>3. theSize'[theLastPopProcessId'] \in 0..Capacity
    BY <1>4, <2>1 DEF TryQueue
  <2>4. SizeFits'
    BY <1>4, <2>1, <2>3 DEF TryQueue
  <2>5. rpc' \in PopAccess
    BY <1>4 DEF TryQueue
  <2> QED BY <1>4, <2>1, <2>2, <2>4, <2>5 DEF TryQueue
<1>5. CASE Block
    BY <1>5 DEF Block
<1>6. CASE Recheck
  <2>1. SizeFits'
    BY <1>6 DEF Recheck
  <2>2. rpc' \in PopAccess
    BY <1>6 DEF Recheck
  <2> QED BY <1>6, <2>1, <2>2 DEF Recheck
<1>7. CASE Unblock
    BY <1>7 DEF Unblock
<1>8. CASE CopyItem
  <2>1. NextIndex(theOut[theLastPopProcessId]) \in 0..IndexLimit - 1
    BY NextIndexPlus, Constants
  <2> QED BY <1>8, <2>1 DEF CopyItem
<1>9. CASE DropItem \/ PopTooMany
  <2>0. TakeItem
    BY <1>9 DEF DropItem, PopTooMany
  <2>1. theSize' \in [Writers -> 0..Capacity]
    BY <2>0 DEF TakeItem
  <2>2. \A w \in Writers : theSize'[w] <= theSize[w]
    BY <2>0 DEF TakeItem
  <2>3. rpc' \in {"next", "start"} /\ pc' = pc
    BY <1>9 DEF DropItem, PopTooMany, TakeItem, Restart
  <2>4. SizeFits'
    BY <2>1, <2>2, <2>3
  <2>5. tries' \in 0..WriterCount /\ notes' \in Nat /\ poppedCount' \in 0..PopLimit - 1
    BY <1>9 DEF DropItem, PopTooMany, Restart
  <2>6. theLastPopProcessId' \in Writers
    <3>1. WriterCount \in Writers
      BY DEF Writers
    <3> QED BY <1>9, <3>1 DEF DropItem, PopTooMany, Restart
  <2> QED BY <1>9, <2>1, <2>3, <2>4, <2>5, <2>6 DEF DropItem, PopTooMany, TakeItem
<1>10. CASE PopFailed
  <2>1. poppedCount' \in 0..PopLimit - 1
    BY <1>10 DEF PopFailed
  <2> QED BY <1>10, <2>1 DEF PopFailed
<1>11. CASE KillReader
  <2>1. WriterCount \in Writers
    BY DEF Writers
  <2>2. SizeFits'
    BY <1>11 DEF KillReader, Restart
  <2>3. notes' \in Nat /\ restarts' \in 0..RestartLimit /\ tries' \in 0..WriterCount
        /\ poppedCount' \in 0..PopLimit - 1
    BY <1>11 DEF KillReader, Restart
  <2>4. rpc' \in PopAccess
    BY <1>11 DEF KillReader, Restart
  <2> QED BY <1>11, <2>1, <2>2, <2>3, <2>4 DEF KillReader, Restart
<1>12. CASE GiveUp
  <2>1. notes' \in Nat /\ lost' \in BOOLEAN
    BY <1>12 DEF GiveUp
  <2> QED BY <1>12, <2>1 DEF GiveUp, readerVars
<1> QED BY <1>1, <1>2, <1>3, <1>4, <1>5, <1>6, <1>7, <1>8, <1>9, <1>10, <1>11, <1>12 DEF ReaderStep

\* No step leaves the types, fills a queue beyond its capacity or empties it
\* below zero.
LEMMA StepTypes == TypeOK /\ SizeFits /\ [Next]_vars => TypeOK' /\ SizeFits'
<1>1. TypeOK /\ SizeFits /\ UNCHANGED vars => TypeOK' /\ SizeFits'
    BY DEF TypeOK, SizeFits, vars, queueVars, writerVars, readerVars
<1> QED BY <1>1, PushTypes, PopTypes DEF Next

\* Wherever processes are killed, all state stays in its type, and theSize of a
\* queue in 0..Capacity although push() and pop() check it long before they
\* change it (OneToOneUniQueue::push(), pop()).
THEOREM TypeCorrect == Spec => []TypeOK
<1>1. Spec => [](TypeOK /\ SizeFits)
    BY InitTypes, StepTypes, PTL DEF Spec
<1> QED BY <1>1, PTL

-----------------------------------------------------------------------------
(* Rings *)

\* Writing an item at index in adds it at the end of the ring, and overwrites
\* none of the items there: there is a free slot.
LEMMA RingPush ==
    ASSUME NEW first \in 0..IndexLimit - 1, NEW n \in 0..Capacity - 1, NEW in,
           NEW buffer \in [0..Capacity - 1 -> 0..IndexLimit - 1],
           RingHolds(in, first, n, buffer)
    PROVE  RingHolds(NextIndex(in), first, n + 1, [buffer EXCEPT ![Slot(in)] = in])
<1> DEFINE filled == [buffer EXCEPT ![Slot(in)] = in]
<1>1. in = (first + n) % IndexLimit /\ in \in 0..IndexLimit - 1 /\ Slot(in) = Slot(first + n)
  <2>1. in = (first + n) % IndexLimit /\ n \in 0..Capacity
    BY Sizes DEF RingHolds
  <2> QED BY <2>1, SlotOfWrapped
<1>2. NextIndex(in) = (first + (n + 1)) % IndexLimit
  <2>1. CASE first + n < IndexLimit
    <3>1. in = first + n
      BY <1>1, <2>1, ModSmall, Constants
    <3> QED BY <3>1, Constants DEF NextIndex
  <2>2. CASE first + n >= IndexLimit
    <3> DEFINE j == first + n - IndexLimit
    <3>1. j \in 0..IndexLimit - 1 /\ j + IndexLimit = first + n
      BY <2>2, Constants
    <3> HIDE DEF j
    <3>2. (j + IndexLimit) % IndexLimit = j
      BY <3>1, ModWrapped, Sizes
    <3>3. in = j
      BY <1>1, <3>1, <3>2
    <3> DEFINE m == in + 1
    <3>4. m \in 0..IndexLimit - 1 /\ first + (n + 1) = m + IndexLimit
      BY <3>1, <3>3, Sizes
    <3> HIDE DEF m
    <3>5. (m + IndexLimit) % IndexLimit = m /\ m % IndexLimit = m
      BY <3>4, ModWrapped, ModSmall, Sizes
    <3> QED BY <3>4, <3>5 DEF NextIndex, m
  <2> QED BY <2>1, <2>2, Constants
<1>3. ASSUME NEW k \in 0..n PROVE filled[Slot(first + k)] = (first + k) % IndexLimit
  <2>1. first + k \in Nat /\ first + n \in Nat
    BY Constants
  <2>2. Slot(first + k) \in 0..Capacity - 1 /\ Slot(first + n) \in 0..Capacity - 1
    BY <2>1, ModRange, Constants DEF Slot
  <2>3. CASE k = n
    BY <1>1, <2>2, <2>3
  <2>4. CASE k # n
    <3>1. n - k \in 1..Capacity - 1 /\ (first + k) + (n - k) = first + n
      BY <2>4, Constants
    <3>2. ((first + k) + (n - k)) % Capacity # (first + k) % Capacity
      BY <2>1, <3>1, ModDistinct, Constants
    <3>3. Slot(first + n) # Slot(first + k)
      BY <3>1, <3>2 DEF Slot
    <3>4. filled[Slot(first + k)] = buffer[Slot(first + k)]
      BY <1>1, <2>2, <3>3
    <3>5. k \in 0..n - 1
      BY <2>4
    <3> QED BY <3>4, <3>5 DEF RingHolds
  <2> QED BY <2>3, <2>4
<1>4. 0..(n + 1) - 1 = 0..n
    OBVIOUS
<1> QED BY <1>2, <1>3, <1>4 DEF RingHolds

\* Dropping the first item leaves the others where they are.
LEMMA RingPop ==
    ASSUME NEW first \in 0..IndexLimit - 1, NEW n \in 1..Capacity, NEW in, NEW buffer,
           RingHolds(in, first, n, buffer)
    PROVE  RingHolds(in, NextIndex(first), n - 1, buffer)
<1>1. n - 1 \in 0..Capacity /\ (n - 1) + 1 = n
    BY Sizes
<1>2. (NextIndex(first) + (n - 1)) % IndexLimit = (first + n) % IndexLimit
    BY <1>1, NextIndexPlus
<1>3. ASSUME NEW k \in 0..(n - 1) - 1
      PROVE  buffer[Slot(NextIndex(first) + k)] = (NextIndex(first) + k) % IndexLimit
  <2>1. k \in 0..Capacity /\ k + 1 \in 0..n - 1
    BY Constants
  <2>2. /\ (NextIndex(first) + k) % IndexLimit = (first + (k + 1)) % IndexLimit
        /\ Slot(NextIndex(first) + k) = Slot(first + (k + 1))
    BY <2>1, NextIndexPlus
  <2> QED BY <2>1, <2>2 DEF RingHolds
<1> QED BY <1>2, <1>3 DEF RingHolds

\* Empty rings.
LEMMA InitRings == Init => Rings
<1> SUFFICES ASSUME Init, NEW w \in Writers
             PROVE  RingHolds(theIn[w], First(w), InRing(w), theBuffer[w])
    BY DEF Rings
<1>1. theIn[w] = 0 /\ First(w) = 0 /\ InRing(w) = 0
    BY DEF Init, ReaderStart, First, InRing
<1>2. 0 % IndexLimit = 0
    BY ModSmall, Sizes
<1>3. 0..0 - 1 = {}
    OBVIOUS
<1> QED BY <1>1, <1>2, <1>3 DEF RingHolds

\* First(w) is an index.
LEMMA FirstType == ASSUME TypeOK, NEW w \in Writers PROVE First(w) \in 0..IndexLimit - 1
<1>1. theOut[w] \in 0..IndexLimit - 1
    BY DEF TypeOK
<1> QED BY <1>1, NextAndPrevious DEF First

\* A step that leaves the ring of v alone.
LEMMA RingStays ==
    ASSUME NEW v \in Writers, RingHolds(theIn[v], First(v), InRing(v), theBuffer[v]),
           theIn'[v] = theIn[v], First(v)' = First(v), InRing(v)' = InRing(v),
           theBuffer'[v] = theBuffer[v]
    PROVE  RingHolds(theIn[v], First(v), InRing(v), theBuffer[v])'
BY DEF RingHolds

\* Each step of push() keeps the rings; so do kills, but between writing an item
\* and counting it.
LEMMA PushRings ==
    ASSUME TypeOK, SizeFits, Rings, KillsSpareRings, NEW w \in Writers,
           Push(w) \/ PushStep(w) \/ KillWriter(w)
    PROVE  Rings'
<1> SUFFICES ASSUME NEW v \in Writers
             PROVE  RingHolds(theIn[v], First(v), InRing(v), theBuffer[v])'
    BY DEF Rings
<1>1. RingHolds(theIn[v], First(v), InRing(v), theBuffer[v])
    BY DEF Rings
<1>2. First(v)' = First(v)
    BY DEF First, Push, PushStep, GrowSize, CheckBlocked, RaiseSignal, KillWriter,
           queueVars, readerVars
<1>3. CASE Push(w)
  <2>1. CASE v = w
    <3>1. InRing(v) = theSize[v] /\ InRing(v)' = theSize[v] + 1
      BY <1>3, <2>1 DEF Push, WriterGoto, InRing, TypeOK
    <3>2. theSize[v] \in 0..Capacity - 1
      BY <1>3, <2>1, Sizes DEF Push, TypeOK
    <3>3. theIn'[v] = NextIndex(theIn[v])
      BY <1>3, <2>1 DEF Push, WriteItem, TypeOK
    <3>4. theBuffer'[v] = [theBuffer[v] EXCEPT ![Slot(theIn[v])] = theIn[v]]
      BY <1>3, <2>1 DEF Push, WriteItem, TypeOK
    <3>5. theBuffer[v] \in [0..Capacity - 1 -> 0..IndexLimit - 1]
      BY DEF TypeOK
    <3>6. RingHolds(NextIndex(theIn[v]), First(v), theSize[v] + 1,
                    [theBuffer[v] EXCEPT ![Slot(theIn[v])] = theIn[v]])
      BY <1>1, <3>1, <3>2, <3>5, FirstType, RingPush
    <3> QED BY <1>2, <3>1, <3>3, <3>4, <3>6 DEF RingHolds
  <2>2. CASE v # w
    <3>1. theIn'[v] = theIn[v] /\ theBuffer'[v] = theBuffer[v] /\ InRing(v)' = InRing(v)
      BY <1>3, <2>2 DEF Push, WriteItem, WriterGoto, InRing, TypeOK
    <3> QED BY <1>1, <1>2, <3>1, RingStays
  <2> QED BY <2>1, <2>2
<1>4. CASE ~Push(w)
  <2>1. theIn'[v] = theIn[v] /\ theBuffer'[v] = theBuffer[v]
    BY <1>4 DEF PushStep, GrowSize, CheckBlocked, RaiseSignal, KillWriter, queueVars
  <2>2. CASE GrowSize(w)
    <3>1. CASE v = w
      <4>1. pc[v] = "size" /\ pc'[v] # "size" /\ theSize'[v] = theSize[v] + 1
        BY <2>2, <3>1 DEF GrowSize, WriterGoto, TypeOK
      <4>2. InRing(v)' = InRing(v)
        BY <4>1 DEF InRing, TypeOK
      <4> QED BY <1>1, <1>2, <2>1, <4>2, RingStays
    <3>2. CASE v # w
      <4>1. InRing(v)' = InRing(v)
        BY <2>2, <3>2 DEF GrowSize, WriterGoto, InRing, TypeOK
      <4> QED BY <1>1, <1>2, <2>1, <4>1, RingStays
    <3> QED BY <3>1, <3>2
  <2>3. CASE ~GrowSize(w)
    <3>1. theSize' = theSize
      BY <1>4, <2>3 DEF PushStep, CheckBlocked, RaiseSignal, KillWriter, queueVars
    <3>2. pc'[v] = "size" <=> pc[v] = "size"
      BY <1>4, <2>3 DEF PushStep, CheckBlocked, RaiseSignal, KillWriter, WriterGoto,
                        KillsSpareRings, TypeOK
    <3>3. InRing(v)' = InRing(v)
      BY <3>1, <3>2 DEF InRing
    <3> QED BY <1>1, <1>2, <2>1, <3>3, RingStays
  <2> QED BY <2>2, <2>3
<1> QED BY <1>3, <1>4

\* Each step of the reader keeps the rings; so do kills, but between the two
\* accesses of a pop().
LEMMA PopRings ==
    ASSUME TypeOK, SizeFits, Rings, KillsSpareRings, ReaderStep \/ KillReader \/ GiveUp
    PROVE  Rings'
<1> SUFFICES ASSUME NEW v \in Writers
             PROVE  RingHolds(theIn[v], First(v), InRing(v), theBuffer[v])'
    BY DEF Rings
<1>1. RingHolds(theIn[v], First(v), InRing(v), theBuffer[v])
    BY DEF Rings
<1>2. theIn'[v] = theIn[v] /\ theBuffer'[v] = theBuffer[v] /\ pc' = pc
    BY DEF ReaderStep, HandleNewDataAtStart, HandleNotification, Wake, ClearSignal, TryQueue, Block,
           Recheck, Unblock, CopyItem, DropItem, PopTooMany, TakeItem, PopFailed, KillReader,
           GiveUp, queueVars, writerVars
<1>3. CASE CopyItem
  <2>1. theOut[v] \in 0..IndexLimit - 1
    BY DEF TypeOK
  <2>2. CASE v = theLastPopProcessId
    <3>1. theOut'[v] = NextIndex(theOut[v]) /\ rpc' = "drop" /\ rpc # "drop"
          /\ theLastPopProcessId' = v
      BY <1>3, <2>2 DEF CopyItem, ReaderGoto, TypeOK
    <3>2. First(v)' = theOut[v]
      BY <2>1, <3>1, NextAndPrevious DEF First
    <3>3. First(v) = theOut[v]
      BY <3>1 DEF First
    <3>4. InRing(v)' = InRing(v)
      BY <1>2, <1>3 DEF CopyItem, InRing
    <3> QED BY <1>1, <1>2, <3>2, <3>3, <3>4, RingStays
  <2>3. CASE v # theLastPopProcessId
    <3>1. First(v)' = First(v)
      BY <1>3, <2>3 DEF CopyItem, ReaderGoto, First, TypeOK
    <3>2. InRing(v)' = InRing(v)
      BY <1>2, <1>3 DEF CopyItem, InRing
    <3> QED BY <1>1, <1>2, <3>1, <3>2, RingStays
  <2> QED BY <2>2, <2>3
<1>4. CASE DropItem \/ PopTooMany
  <2>1. CASE v = theLastPopProcessId
    <3>1. theOut[v] \in 0..IndexLimit - 1 /\ theSize[v] \in 1..Capacity
      BY <1>4, <2>1, Sizes DEF DropItem, PopTooMany, TakeItem, TypeOK, SizeFits
    <3>2. rpc = "drop" /\ rpc' # "drop" /\ theOut' = theOut
      BY <1>4 DEF DropItem, PopTooMany, TakeItem, Restart
    <3>3. First(v) = (theOut[v] + IndexLimit - 1) % IndexLimit /\ First(v)' = theOut[v]
      BY <2>1, <3>2 DEF First
    <3>4. NextIndex(First(v)) = First(v)'
      BY <3>1, <3>3, NextAndPrevious
    <3>5. theSize'[v] = theSize[v] - 1
      BY <1>4, <2>1 DEF DropItem, PopTooMany, TakeItem, TypeOK
    <3>6. InRing(v)' = InRing(v) - 1 /\ InRing(v) \in 1..Capacity
      BY <1>2, <3>1, <3>5, Sizes DEF InRing, SizeFits
    <3>7. RingHolds(theIn[v], NextIndex(First(v)), InRing(v) - 1, theBuffer[v])
      BY <1>1, <3>6, FirstType, RingPop
    <3> QED BY <1>2, <3>4, <3>6, <3>7 DEF RingHolds
  <2>2. CASE v # theLastPopProcessId
    <3>1. First(v)' = First(v)
      BY <1>4, <2>2 DEF DropItem, PopTooMany, TakeItem, Restart, First
    <3>2. InRing(v)' = InRing(v)
      BY <1>2, <1>4, <2>2 DEF DropItem, PopTooMany, TakeItem, InRing, TypeOK
    <3> QED BY <1>1, <1>2, <3>1, <3>2, RingStays
  <2> QED BY <2>1, <2>2
<1>5. CASE GiveUp
    BY <1>1, <1>2, <1>5, RingStays DEF GiveUp, First, InRing, queueVars, readerVars
<1>6. CASE ~CopyItem /\ ~DropItem /\ ~PopTooMany /\ ~GiveUp
  <2>1. theOut' = theOut /\ theSize' = theSize
    BY <1>6 DEF ReaderStep, HandleNewDataAtStart, HandleNotification, Wake, ClearSignal, TryQueue,
                Block, Recheck, Unblock, PopFailed, KillReader, queueVars
  <2>2. rpc # "drop" /\ rpc' # "drop"
    BY <1>6 DEF ReaderStep, HandleNewDataAtStart, HandleNotification, Wake, ClearSignal, TryQueue,
                Block, Recheck, Unblock, PopFailed, KillReader, Restart, ReaderGoto, KillsSpareRings
  <2>3. First(v)' = First(v) /\ InRing(v)' = InRing(v)
    BY <1>2, <2>1, <2>2 DEF First, InRing
  <2> QED BY <1>1, <1>2, <2>3, RingStays
<1> QED BY <1>3, <1>4, <1>5, <1>6

\* The inductive invariant of the rings.
RingInv == TypeOK /\ SizeFits /\ Rings

\* The rings stay consistent whatever processes do between two accesses.
LEMMA StepRings == KillsSpareRings /\ RingInv /\ [Next]_vars => RingInv'
<1> SUFFICES ASSUME KillsSpareRings, RingInv, [Next]_vars PROVE RingInv'
    OBVIOUS
<1>1. TypeOK' /\ SizeFits'
    BY StepTypes DEF RingInv
<1>2. CASE UNCHANGED vars
    BY <1>1, <1>2 DEF RingInv, Rings, RingHolds, First, InRing, vars, queueVars, writerVars, readerVars
<1>3. CASE Next
    BY <1>1, <1>3, PushRings, PopRings DEF Next, RingInv
<1> QED BY <1>2, <1>3

\* So the rings are consistent in every state.
LEMMA RingInvariance == KillsSpareRings => (Spec => []RingInv)
<1> SUFFICES ASSUME KillsSpareRings PROVE Spec => []RingInv
    OBVIOUS
<1>1. Init => RingInv
    BY InitTypes, InitRings DEF RingInv
<1>2. RingInv /\ [Next]_vars => RingInv'
    BY StepRings
<1> QED BY <1>1, <1>2, PTL DEF Spec

\* Unless a process is killed in the middle of a pop(), or between writing an
\* item and counting it, every item that the reader copies is the one pushed at
\* that index (OneToOneUniQueue::pop()), for any capacity, any number of writers
\* and after any number of wrap-arounds and kills.
THEOREM ItemsArriveIntact == KillsSpareRings => (Spec => []PopsWhatWasPushed)
<1>1. RingInv => PopsWhatWasPushed
  <2> SUFFICES ASSUME RingInv, rpc = "copy"
               PROVE  theBuffer[theLastPopProcessId][Slot(theOut[theLastPopProcessId])]
                          = theOut[theLastPopProcessId]
    BY DEF PopsWhatWasPushed
  <2> DEFINE w == theLastPopProcessId
  <2>1. w \in Writers /\ theOut[w] \in 0..IndexLimit - 1 /\ theSize[w] \in Nat
    BY DEF RingInv, TypeOK
  <2>2. First(w) = theOut[w] /\ theSize[w] > 0
    BY DEF First, RingInv, SizeFits
  <2>3. 0 \in 0..InRing(w) - 1
    BY <2>1, <2>2 DEF InRing
  <2>4. theBuffer[w][Slot(First(w) + 0)] = (First(w) + 0) % IndexLimit
    BY <2>1, <2>3 DEF RingInv, Rings, RingHolds
  <2>5. First(w) + 0 = theOut[w]
    BY <2>1, <2>2
  <2>6. theOut[w] % IndexLimit = theOut[w]
    BY <2>1, ModSmall, Sizes
  <2> QED BY <2>4, <2>5, <2>6
<1> SUFFICES ASSUME KillsSpareRings PROVE Spec => []PopsWhatWasPushed
    OBVIOUS
<1>2. Spec => []RingInv
    BY RingInvariance
<1> QED BY <1>1, <1>2, PTL

-----------------------------------------------------------------------------
(* Wake-ups *)

\* The state of the wake-up protocol at the start.
LEMMA InitWakeups == Init => Wakeups
BY DEF Init, ReaderStart, Wakeups, FoundEmpty

\* Behind(w) is a number of steps.
LEMMA BehindType ==
    ASSUME TypeOK, NEW w \in Writers
    PROVE  /\ Behind(w) \in 0..WriterCount - 1
           /\ Behind(w) = 0 => w = theLastPopProcessId
<1>1. w \in 1..WriterCount /\ theLastPopProcessId \in 1..WriterCount
    BY DEF TypeOK, Writers
<1> QED BY <1>1, Sizes DEF Behind

\* Each step of push() and its caller keeps the wake-up protocol, and so does the
\* death of a writer.
LEMMA PushWakeups ==
    ASSUME TypeOK, Wakeups, NEW w \in Writers, Push(w) \/ PushStep(w) \/ KillWriter(w)
    PROVE  Wakeups'
<1>1. UNCHANGED <<rpc, tries, theLastPopProcessId, popBlocked>>
    BY DEF Push, PushStep, GrowSize, CheckBlocked, RaiseSignal, KillWriter, readerVars
<1>2. (popSignal => popSignal') /\ (lost => lost')
  <2>1. popSignal => popSignal'
    BY DEF Push, PushStep, GrowSize, CheckBlocked, RaiseSignal, KillWriter
  <2>2. CASE KillWriter(w)
    BY <2>1, <2>2, Zenon DEF KillWriter
  <2>3. CASE Push(w) \/ PushStep(w)
    <3>1. lost' = lost
      BY <2>3 DEF Push, PushStep, GrowSize, CheckBlocked, RaiseSignal
    <3> QED BY <2>1, <3>1
  <2> QED BY <2>2, <2>3
<1>3. ASSUME popSignal'
      PROVE  rpc' \in {"start", "clear"} \/ notes' > 0 \/ lost'
  <2>1. CASE RaiseSignal(w) /\ ~popSignal
    BY <2>1 DEF RaiseSignal, Notify, TypeOK
  <2>2. CASE ~(RaiseSignal(w) /\ ~popSignal)
    <3>1. popSignal /\ notes' = notes
      BY <1>3, <2>2 DEF Push, PushStep, GrowSize, CheckBlocked, RaiseSignal, KillWriter
    <3> QED BY <1>1, <1>2, <3>1 DEF Wakeups
  <2> QED BY <2>1, <2>2
<1>4. ASSUME NEW v \in Writers, FoundEmpty(v)', theSize'[v] > 0
      PROVE  pc'[v] \in Notifying \/ popSignal' \/ lost'
  <2>1. FoundEmpty(v)
    BY <1>1, <1>4 DEF FoundEmpty, Behind
  <2>2. popBlocked
    <3>1. Behind(v) \in Nat /\ tries \in Nat
      <4>1. Behind(v) \in 0..WriterCount - 1
        BY BehindType
      <4>2. tries \in Nat
        BY DEF TypeOK
      <4> QED BY <4>1, <4>2
    <3>2. CASE rpc = "next" /\ tries > 0
      BY <3>2 DEF Wakeups
    <3>3. CASE rpc \in {"block", "recheck"} /\ tries > 1
      BY <3>3 DEF Wakeups
    <3> QED BY <2>1, <3>1, <3>2, <3>3 DEF FoundEmpty, Wakeups
  <2>3. CASE v # w
    <3>1. theSize'[v] = theSize[v] /\ pc'[v] = pc[v]
      BY <2>3 DEF Push, PushStep, GrowSize, CheckBlocked, RaiseSignal, KillWriter,
                  WriterGoto, queueVars, TypeOK
    <3> QED BY <1>2, <1>4, <2>1, <3>1 DEF Wakeups
  <2>4. CASE v = w
    <3>1. CASE GrowSize(w)
      <4>1. CASE theSize[w] = 0
        BY <2>4, <3>1, <4>1 DEF GrowSize, WriterGoto, Notifying, TypeOK
      <4>2. CASE theSize[w] # 0
        <5>1. theSize[v] > 0 /\ pc[v] = "size"
          BY <2>4, <3>1, <4>2, Sizes DEF GrowSize, TypeOK
        <5> QED BY <1>2, <2>1, <5>1 DEF Wakeups, Notifying
      <4> QED BY <4>1, <4>2
    <3>2. CASE CheckBlocked(w)
      BY <2>2, <2>4, <3>2 DEF CheckBlocked, WriterGoto, Notifying, TypeOK
    <3>3. CASE RaiseSignal(w)
      BY <3>3 DEF RaiseSignal
    <3>4. CASE Push(w) \/ KillWriter(w)
      <4>1. theSize' = theSize
        BY <3>4 DEF Push, KillWriter, queueVars
      <4>2. CASE pc[v] \in Notifying
        BY <2>4, <3>4, <4>2 DEF Push, KillWriter, Notifying
      <4>3. CASE pc[v] \notin Notifying
        BY <1>2, <1>4, <2>1, <4>1, <4>3 DEF Wakeups
      <4> QED BY <4>2, <4>3
    <3> QED BY <3>1, <3>2, <3>3, <3>4 DEF PushStep
  <2> QED BY <2>3, <2>4
<1>5. /\ rpc' = "idle" => tries' = WriterCount
      /\ rpc' \in {"block", "recheck"} => tries' > 0
      /\ \/ rpc' \in {"idle", "recheck"}
         \/ rpc' = "next" /\ tries' > 0
         \/ rpc' = "block" /\ tries' > 1
         => popBlocked'
    BY <1>1 DEF Wakeups
<1> QED BY <1>3, <1>4, <1>5 DEF Wakeups

\* The same after a step.
LEMMA BehindNotNegative ==
    ASSUME TypeOK', NEW w \in Writers
    PROVE  Behind(w)' \in Nat
<1>1. \A v, last \in Writers :
        (IF v <= last THEN last - v ELSE last + WriterCount - v) \in Nat
    BY Sizes DEF Writers
<1>2. theLastPopProcessId' \in Writers
    BY DEF TypeOK
<1> QED BY <1>1, <1>2 DEF Behind

\* When the reader turns to the next queue, the others are one step further back.
LEMMA TryQueueBehind ==
    ASSUME TypeOK, TryQueue, NEW w \in Writers
    PROVE  Behind(w)' > 0 => Behind(w)' = Behind(w) + 1
<1>1. w \in 1..WriterCount /\ theLastPopProcessId \in 1..WriterCount
    BY DEF TypeOK, Writers
<1>2. CASE theLastPopProcessId = WriterCount
  <2>1. theLastPopProcessId' = 1
    BY <1>1, <1>2, NextQueue DEF TryQueue, TypeOK
  <2> QED BY <1>1, <1>2, <2>1, Sizes DEF Behind
<1>3. CASE theLastPopProcessId # WriterCount
  <2>1. theLastPopProcessId' = theLastPopProcessId + 1
    BY <1>1, <1>3, NextQueue DEF TryQueue, TypeOK
  <2> QED BY <1>1, <1>3, <2>1, Sizes DEF Behind
<1> QED BY <1>2, <1>3

\* Each step of the reader keeps the wake-up protocol, and so does its death.
LEMMA PopWakeups ==
    ASSUME TypeOK, Wakeups, ReaderStep \/ KillReader \/ GiveUp, TypeOK'
    PROVE  Wakeups'
<1>1. CASE HandleNewDataAtStart \/ HandleNotification
  <2>1. rpc' = "clear"
    BY <1>1 DEF HandleNewDataAtStart, HandleNotification, Wake, ReaderGoto
  <2> QED BY <2>1 DEF Wakeups, FoundEmpty
<1>2. CASE KillReader \/ PopTooMany
  <2>1. rpc' = "start"
    BY <1>2 DEF KillReader, PopTooMany, Restart
  <2> QED BY <2>1 DEF Wakeups, FoundEmpty
<1>3. CASE ClearSignal
  <2>1. rpc' = "next" /\ tries' = 0 /\ ~popSignal'
    BY <1>3 DEF ClearSignal
  <2>2. \A w \in Writers : Behind(w)' \in Nat
    BY BehindNotNegative
  <2>3. \A w \in Writers : ~FoundEmpty(w)'
    BY <2>1, <2>2 DEF FoundEmpty
  <2> QED BY <2>1, <2>3 DEF Wakeups
<1>4. CASE ReaderStep /\ ~HandleNewDataAtStart /\ ~HandleNotification /\ ~ClearSignal
                 /\ ~PopTooMany
  <2>1. pc' = pc /\ popSignal' = popSignal /\ notes' = notes /\ lost' = lost
        /\ rpc \notin {"start", "clear"}
    BY <1>4 DEF ReaderStep, TryQueue, Block, Recheck, Unblock, CopyItem, DropItem, TakeItem,
                PopFailed, writerVars
  <2>2. popSignal' => rpc' \in {"start", "clear"} \/ notes' > 0 \/ lost'
    BY <2>1 DEF Wakeups
  <2>3. CASE TryQueue
    <3>1. rpc = "next" /\ tries' = tries + 1 /\ theSize' = theSize /\ popBlocked' = popBlocked
          /\ rpc' \in {"block", "unblock"}
      BY <2>3 DEF TryQueue, queueVars
    <3>2. tries \in Nat
      BY DEF TypeOK
    <3>3. ASSUME NEW w \in Writers, FoundEmpty(w)', theSize'[w] > 0
          PROVE  pc'[w] \in Notifying \/ popSignal' \/ lost'
      <4>1. 0 < Behind(w)' /\ Behind(w)' < tries'
        BY <3>1, <3>3 DEF FoundEmpty
      <4>2. Behind(w)' = Behind(w) + 1 /\ Behind(w) \in Nat
        BY <2>3, <4>1, TryQueueBehind, BehindType
      <4>3. FoundEmpty(w)
        BY <3>1, <3>2, <4>1, <4>2 DEF FoundEmpty
      <4> QED BY <2>1, <3>1, <3>3, <4>3 DEF Wakeups
    <3>4. rpc' = "block" /\ tries' > 1 => popBlocked'
      BY <3>1, <3>2 DEF Wakeups
    <3>5. tries' > 0
      BY <3>1, <3>2
    <3> QED BY <2>2, <3>1, <3>3, <3>4, <3>5 DEF Wakeups
  <2>4. CASE Block
    <3>1. rpc = "block" /\ rpc' = "recheck" /\ popBlocked' /\ theSize' = theSize
          /\ UNCHANGED <<tries, theLastPopProcessId>>
      BY <2>4 DEF Block, ReaderGoto, queueVars
    <3>2. \A w \in Writers : FoundEmpty(w)' <=> FoundEmpty(w)
      BY <3>1 DEF FoundEmpty, Behind
    <3> QED BY <2>1, <2>2, <3>1, <3>2 DEF Wakeups
  <2>5. CASE Recheck
    <3>1. rpc = "recheck" /\ popBlocked' = popBlocked /\ theSize' = theSize
          /\ UNCHANGED <<tries, theLastPopProcessId>>
      BY <2>5 DEF Recheck, ReaderGoto, queueVars
    <3>2. CASE theSize[theLastPopProcessId] = 0
      <4>1. rpc' = "next"
        BY <2>5, <3>2 DEF Recheck, ReaderGoto
      <4>2. ASSUME NEW w \in Writers, FoundEmpty(w)', theSize'[w] > 0
            PROVE  pc'[w] \in Notifying \/ popSignal' \/ lost'
        <5>1. Behind(w) \in Nat /\ Behind(w) < tries
          BY <3>1, <4>1, <4>2, BehindType DEF FoundEmpty, Behind
        <5>2. w # theLastPopProcessId
          BY <3>1, <3>2, <4>2
        <5>3. FoundEmpty(w)
          BY <3>1, <5>1, <5>2, BehindType DEF FoundEmpty
        <5> QED BY <2>1, <3>1, <4>2, <5>3 DEF Wakeups
      <4> QED BY <2>2, <3>1, <4>1, <4>2 DEF Wakeups
    <3>3. CASE theSize[theLastPopProcessId] # 0
      <4>1. rpc' = "unblock"
        BY <2>5, <3>3 DEF Recheck, ReaderGoto
      <4> QED BY <2>2, <4>1 DEF Wakeups, FoundEmpty
    <3> QED BY <3>2, <3>3
  <2>6. CASE Unblock \/ CopyItem
    <3>1. rpc' \in {"copy", "drop"}
      BY <2>6 DEF Unblock, CopyItem, ReaderGoto
    <3> QED BY <2>2, <3>1 DEF Wakeups, FoundEmpty
  <2>7. CASE DropItem
    <3>1. rpc' = "next" /\ tries' = 0
      BY <2>7 DEF DropItem
    <3>2. \A w \in Writers : Behind(w)' \in Nat
      BY BehindNotNegative
    <3>3. \A w \in Writers : ~FoundEmpty(w)'
      BY <3>1, <3>2 DEF FoundEmpty
    <3> QED BY <2>2, <3>1, <3>3 DEF Wakeups
  <2>8. CASE PopFailed
    <3>1. rpc = "next" /\ rpc' = "idle" /\ tries = WriterCount /\ popBlocked' = popBlocked
          /\ theSize' = theSize /\ UNCHANGED <<tries, theLastPopProcessId>>
      BY <2>8 DEF PopFailed, queueVars
    <3>2. \A w \in Writers : FoundEmpty(w)' <=> FoundEmpty(w)
      BY <3>1 DEF FoundEmpty, Behind
    <3>3. popBlocked'
      BY <3>1, Sizes DEF Wakeups
    <3> QED BY <2>1, <2>2, <3>1, <3>2, <3>3 DEF Wakeups
  <2> QED BY <1>4, <2>3, <2>4, <2>5, <2>6, <2>7, <2>8 DEF ReaderStep
<1>5. CASE GiveUp
  <2>1. lost' /\ UNCHANGED <<rpc, tries, popBlocked>>
    BY <1>5 DEF GiveUp, readerVars
  <2> QED BY <2>1 DEF Wakeups
<1> QED BY <1>1, <1>2, <1>3, <1>4, <1>5

\* The inductive invariant of the wake-up protocol.
WakeupInv == TypeOK /\ SizeFits /\ Wakeups

\* Nobody's step breaks the wake-up protocol.
LEMMA StepWakeups == WakeupInv /\ [Next]_vars => WakeupInv'
<1> SUFFICES ASSUME WakeupInv, [Next]_vars PROVE WakeupInv'
    OBVIOUS
<1>1. TypeOK' /\ SizeFits'
    BY StepTypes DEF WakeupInv
<1>2. CASE UNCHANGED vars
    BY <1>1, <1>2 DEF WakeupInv, Wakeups, FoundEmpty, Behind, vars, queueVars, writerVars, readerVars
<1>3. CASE Next
    BY <1>1, <1>3, PushWakeups, PopWakeups DEF Next, WakeupInv
<1> QED BY <1>2, <1>3

\* A reader does not sleep on queued items without a notification on its way
\* (BaseMultiQueue::pop(), QueueReader), unless a sender gave up or was killed;
\* where readers are killed and how often HandleNewData() fails its assertion
\* does not matter.
THEOREM NoWakeupIsLost == Spec => []NoLostWakeup
<1>1. WakeupInv => NoLostWakeup
  <2> SUFFICES ASSUME WakeupInv, rpc = "idle", NEW w \in Writers, theSize[w] > 0
               PROVE  notes > 0 \/ lost \/ \E v \in Writers : pc[v] \in Notifying
    BY DEF NoLostWakeup
  <2>1. FoundEmpty(w)
    BY BehindType, Sizes DEF FoundEmpty, WakeupInv, Wakeups
  <2>2. pc[w] \in Notifying \/ popSignal \/ lost
    BY <2>1 DEF WakeupInv, Wakeups
  <2> QED BY <2>2 DEF WakeupInv, Wakeups
<1>2. Init => WakeupInv
    BY InitTypes, InitWakeups DEF WakeupInv
<1> QED BY <1>1, <1>2, StepWakeups, PTL DEF Spec

-----------------------------------------------------------------------------
(* The queues are FIFO channels *)

\* The n items pushed from index first on.
Indices(first, n) == [k \in 1..n |-> (first + k - 1) % IndexLimit]

\* These are a sequence of indices.
LEMMA IndicesType ==
    ASSUME NEW first \in 0..IndexLimit - 1, NEW n \in Nat
    PROVE  /\ Indices(first, n) \in Seq(0..IndexLimit - 1)
           /\ Len(Indices(first, n)) = n
           /\ \A k \in 1..n : Indices(first, n)[k] = (first + k - 1) % IndexLimit
<1>1. \A k \in 1..n : first + k - 1 \in Nat
    BY Sizes
<1>2. \A k \in 1..n : (first + k - 1) % IndexLimit \in 0..IndexLimit - 1
    BY <1>1, ModRange, Sizes
<1>3. Indices(first, n) \in [1..n -> 0..IndexLimit - 1]
    BY <1>2 DEF Indices
<1>4. Indices(first, n) \in Seq(0..IndexLimit - 1)
    BY <1>3, SeqDef
<1>5. Len(Indices(first, n)) = n
    BY <1>3, <1>4, LenProperties
<1> QED BY <1>4, <1>5 DEF Indices

\* One item more is appended.
LEMMA IndicesAppend ==
    ASSUME NEW first \in 0..IndexLimit - 1, NEW n \in Nat
    PROVE  /\ (first + n) % IndexLimit \in 0..IndexLimit - 1
           /\ Indices(first, n + 1) = Append(Indices(first, n), (first + n) % IndexLimit)
<1> DEFINE i == (first + n) % IndexLimit
           S == 0..IndexLimit - 1
           s == Indices(first, n)
           t == Append(s, i)
<1>1. i \in S
    BY ModRange, Sizes
<1>2. /\ s \in Seq(S) /\ Len(s) = n
      /\ \A k \in 1..n : s[k] = (first + k - 1) % IndexLimit
    BY IndicesType
<1>3. /\ t \in Seq(S) /\ Len(t) = n + 1
      /\ \A k \in 1..n : t[k] = s[k]
      /\ t[n + 1] = i
    BY <1>1, <1>2, AppendProperties
<1>4. /\ Indices(first, n + 1) \in Seq(S) /\ Len(Indices(first, n + 1)) = n + 1
      /\ \A k \in 1..n + 1 : Indices(first, n + 1)[k] = (first + k - 1) % IndexLimit
    BY IndicesType
<1>5. ASSUME NEW k \in 1..n + 1 PROVE t[k] = Indices(first, n + 1)[k]
  <2>1. CASE k = n + 1
    <3>1. first + k - 1 = first + n
      BY <2>1, Sizes
    <3> QED BY <1>3, <1>4, <2>1, <3>1
  <2>2. CASE k # n + 1
    <3>1. k \in 1..n
      BY <2>2
    <3> QED BY <1>2, <1>3, <1>4, <3>1
  <2> QED BY <2>1, <2>2
<1>6. t = Indices(first, n + 1)
    BY <1>3, <1>4, <1>5, SeqEqual
<1> QED BY <1>1, <1>6

\* One item less is the tail.
LEMMA IndicesTail ==
    ASSUME NEW first \in 0..IndexLimit - 1, NEW n \in 1..Capacity
    PROVE  /\ Indices(first, n) # <<>>
           /\ Indices(NextIndex(first), n - 1) = Tail(Indices(first, n))
<1> DEFINE S == 0..IndexLimit - 1
           s == Indices(first, n)
           t == Indices(NextIndex(first), n - 1)
<1>1. n \in Nat /\ n - 1 \in Nat
    BY Sizes
<1>2. /\ s \in Seq(S) /\ Len(s) = n
      /\ \A k \in 1..n : s[k] = (first + k - 1) % IndexLimit
    BY <1>1, IndicesType
<1>3. s # <<>>
    BY <1>2, EmptySeq
<1>4. /\ Tail(s) \in Seq(S) /\ Len(Tail(s)) = n - 1
      /\ \A k \in 1..n - 1 : Tail(s)[k] = s[k + 1]
    BY <1>2, <1>3, HeadTailProperties
<1>5. NextIndex(first) \in S
  <2>1. 0 \in 0..Capacity
    BY Sizes
  <2> QED BY <2>1, NextIndexPlus
<1>6. /\ t \in Seq(S) /\ Len(t) = n - 1
      /\ \A k \in 1..n - 1 : t[k] = (NextIndex(first) + k - 1) % IndexLimit
    BY <1>1, <1>5, IndicesType
<1>7. ASSUME NEW k \in 1..n - 1 PROVE t[k] = Tail(s)[k]
  <2>1. k - 1 \in 0..Capacity /\ k + 1 \in 1..n
    BY Sizes
  <2>2. (NextIndex(first) + (k - 1)) % IndexLimit = (first + ((k - 1) + 1)) % IndexLimit
    BY <2>1, NextIndexPlus
  <2>3. NextIndex(first) + (k - 1) = NextIndex(first) + k - 1
        /\ first + ((k - 1) + 1) = first + (k + 1) - 1
    BY <1>5, Sizes
  <2> QED BY <1>2, <1>4, <1>6, <2>1, <2>2, <2>3
<1>8. t = Tail(s)
    BY <1>4, <1>6, <1>7, SeqEqual
<1> QED BY <1>3, <1>8

\* In a consistent ring, the items in the channel are the indices they were pushed at.
LEMMA QueuedIndices ==
    RingInv => \A w \in Writers : Queued(w) = Indices(First(w), theSize[w])
<1> SUFFICES ASSUME RingInv, NEW w \in Writers
             PROVE  Queued(w) = Indices(First(w), theSize[w])
    OBVIOUS
<1>1. theSize[w] \in Nat /\ First(w) \in 0..IndexLimit - 1
  <2>1. theSize[w] \in Nat
    BY Sizes DEF RingInv, TypeOK
  <2>2. First(w) \in 0..IndexLimit - 1
    BY FirstType DEF RingInv
  <2> QED BY <2>1, <2>2
<1>2. ASSUME NEW k \in 1..theSize[w]
      PROVE  theBuffer[w][Slot(First(w) + k - 1)] = (First(w) + k - 1) % IndexLimit
  <2>1. k - 1 \in 0..InRing(w) - 1
    BY <1>1 DEF InRing
  <2>2. First(w) + (k - 1) = First(w) + k - 1
    BY <1>1, Sizes
  <2>3. theBuffer[w][Slot(First(w) + (k - 1))] = (First(w) + (k - 1)) % IndexLimit
    BY <2>1 DEF RingInv, Rings, RingHolds
  <2> QED BY <2>2, <2>3
<1> QED BY <1>2 DEF Queued, Indices

\* Unless a process is killed in the middle of a pop(), or between writing an
\* item and counting it, the rings are FIFO channels: each step of any process
\* appends one item to a channel that has room, takes the first item of a channel,
\* or changes no channel.
THEOREM QueuesAreChannels == KillsSpareRings => (Spec => ImplementsChannels)
<1> SUFFICES ASSUME KillsSpareRings PROVE Spec => ImplementsChannels
    OBVIOUS
<1> DEFINE C == 0..IndexLimit - 1
<1>1. Init => Channels!Init
  <2> SUFFICES ASSUME Init, NEW w \in Writers PROVE Queued(w) = <<>>
    BY DEF Channels!Init, Queues
  <2>1. RingInv /\ theSize[w] = 0
    BY InitTypes, InitRings DEF RingInv, Init
  <2>2. First(w) \in C
    BY <2>1, FirstType DEF RingInv
  <2>3. Indices(First(w), 0) \in Seq(C) /\ Len(Indices(First(w), 0)) = 0
    BY <2>2, IndicesType
  <2>4. Indices(First(w), 0) = <<>>
    BY <2>3, EmptySeq
  <2> QED BY <2>1, <2>4, QueuedIndices
<1>2. (RingInv => \A w \in Writers : Queued(w) = Indices(First(w), theSize[w]))'
    BY QueuedIndices, PTL
<1>3. RingInv /\ RingInv' /\ [Next]_vars => [Channels!Next]_Queues
  <2> SUFFICES ASSUME RingInv, RingInv', [Next]_vars
               PROVE  Channels!Next \/ Queues' = Queues
    OBVIOUS
  <2>1. \A w \in Writers : /\ Queued(w) = Indices(First(w), theSize[w])
                           /\ Queued(w)' = Indices(First(w)', theSize'[w])
    BY <1>2, QueuedIndices DEF Indices
  <2>2. ASSUME \A w \in Writers : First(w)' = First(w), theSize' = theSize
        PROVE  Queues' = Queues
    BY <2>1, <2>2 DEF Queues
  <2>3. \A w \in Writers : First(w) \in C /\ theSize[w] \in 0..Capacity
    BY FirstType DEF RingInv, TypeOK
  <2>4. CASE UNCHANGED vars
    BY <2>2, <2>4 DEF vars, queueVars, readerVars, First
  <2>5. ASSUME NEW w \in Writers, GrowSize(w)
        PROVE  Channels!Next
    <3> DEFINE i == (First(w) + theSize[w]) % IndexLimit
    <3>1. \A v \in Writers : First(v)' = First(v)
      BY <2>5 DEF GrowSize, First, readerVars
    <3>2. theSize[w] \in 0..Capacity - 1 /\ theSize[w] \in Nat
      BY <2>3, <2>5, Sizes DEF GrowSize, RingInv, SizeFits
    <3>3. theSize' = [theSize EXCEPT ![w] = theSize[w] + 1]
      BY <2>5 DEF GrowSize
    <3>4. i \in C /\ Indices(First(w), theSize[w] + 1) = Append(Indices(First(w), theSize[w]), i)
      BY <2>3, <3>2, IndicesAppend
    <3>5. Len(Queues[w]) < Capacity
      <4>1. Len(Indices(First(w), theSize[w])) = theSize[w]
        BY <2>3, <3>2, IndicesType
      <4>2. Queues[w] = Indices(First(w), theSize[w])
        BY <2>1 DEF Queues
      <4> QED BY <3>2, <4>1, <4>2, Sizes
    <3>6. Queues' = [Queues EXCEPT ![w] = Append(Queues[w], i)]
      BY <2>1, <3>1, <3>3, <3>4 DEF Queues, RingInv, TypeOK
    <3>7. Channels!Push(w, i)
      BY <3>5, <3>6 DEF Channels!Push
    <3>8. Queues'[w] # Queues[w]
      <4>1. /\ Len(Indices(First(w), theSize[w])) = theSize[w]
            /\ Len(Indices(First(w), theSize[w] + 1)) = theSize[w] + 1
        BY <2>3, <3>2, IndicesType
      <4>2. theSize'[w] = theSize[w] + 1
        BY <3>3 DEF RingInv, TypeOK
      <4>3. Queues[w] = Indices(First(w), theSize[w]) /\ Queues'[w] = Indices(First(w), theSize[w] + 1)
        BY <2>1, <3>1, <4>2 DEF Queues
      <4> QED BY <3>2, <4>1, <4>3
    <3> QED BY <3>4, <3>7, <3>8 DEF Channels!Next
  <2>6. CASE DropItem \/ PopTooMany
    <3>1. PICK w \in Writers : /\ w = theLastPopProcessId
                               /\ theSize[w] \in 1..Capacity /\ theOut[w] \in C
      BY <2>6, Sizes DEF DropItem, PopTooMany, TakeItem, RingInv, SizeFits, TypeOK
    <3>2. \A v \in Writers \ {w} : First(v)' = First(v)
      BY <2>6, <3>1 DEF DropItem, PopTooMany, TakeItem, Restart, First
    <3>3. First(w)' = NextIndex(First(w))
      BY <2>6, <3>1, NextAndPrevious DEF DropItem, PopTooMany, TakeItem, Restart, First
    <3>4. theSize' = [theSize EXCEPT ![w] = theSize[w] - 1]
      BY <2>6, <3>1 DEF DropItem, PopTooMany, TakeItem
    <3>5. /\ Indices(First(w), theSize[w]) # <<>>
          /\ Indices(NextIndex(First(w)), theSize[w] - 1) = Tail(Indices(First(w), theSize[w]))
      BY <2>3, <3>1, IndicesTail
    <3>6. Queues[w] # <<>>
      BY <2>1, <3>1, <3>5 DEF Queues
    <3>7. Queues' = [Queues EXCEPT ![w] = Tail(Queues[w])]
      <4>1. Queued(w)' = Indices(First(w)', theSize'[w]) /\ Queued(w) = Indices(First(w), theSize[w])
        BY <2>1, <3>1
      <4>2. theSize'[w] = theSize[w] - 1
        BY <3>1, <3>4 DEF RingInv, TypeOK
      <4>3. Queued(w)' = Tail(Queued(w))
        BY <3>3, <3>5, <4>1, <4>2
      <4>4. \A v \in Writers \ {w} : Queued(v)' = Queued(v)
        BY <2>1, <3>2, <3>4 DEF RingInv, TypeOK
      <4> QED BY <3>1, <4>3, <4>4 DEF Queues
    <3>8. Channels!Pop(w)
      BY <3>6, <3>7 DEF Channels!Pop
    <3>9. Queues'[w] # Queues[w]
      <4>1. /\ Len(Indices(First(w), theSize[w])) = theSize[w]
            /\ Len(Indices(First(w)', theSize[w] - 1)) = theSize[w] - 1
        <5>1. 0 \in 0..Capacity /\ theSize[w] \in Nat /\ theSize[w] - 1 \in Nat
          BY <3>1, Sizes
        <5>2. First(w)' \in C
          BY <2>3, <3>3, <5>1, NextIndexPlus
        <5> QED BY <2>3, <5>1, <5>2, IndicesType
      <4>2. theSize'[w] = theSize[w] - 1
        BY <3>1, <3>4 DEF RingInv, TypeOK
      <4>3. Queues[w] = Indices(First(w), theSize[w]) /\ Queues'[w] = Indices(First(w)', theSize[w] - 1)
        BY <2>1, <3>1, <4>2 DEF Queues
      <4> QED BY <3>1, <4>1, <4>3
    <3> QED BY <3>1, <3>8, <3>9 DEF Channels!Next
  <2>7. CASE CopyItem
    <3>1. theSize' = theSize
      BY <2>7 DEF CopyItem
    <3>2. ASSUME NEW v \in Writers PROVE First(v)' = First(v)
      <4>1. theOut[v] \in C
        BY DEF RingInv, TypeOK
      <4>2. CASE v = theLastPopProcessId
        <5>1. theOut'[v] = NextIndex(theOut[v]) /\ rpc' = "drop" /\ rpc # "drop"
              /\ theLastPopProcessId' = v
          BY <2>7, <4>2 DEF CopyItem, ReaderGoto, RingInv, TypeOK
        <5> QED BY <4>1, <5>1, NextAndPrevious DEF First
      <4>3. CASE v # theLastPopProcessId
        BY <2>7, <4>3 DEF CopyItem, ReaderGoto, First, RingInv, TypeOK
      <4> QED BY <4>2, <4>3
    <3> QED BY <2>2, <3>1, <3>2
  <2>8. ASSUME NEW w \in Writers, Push(w) \/ CheckBlocked(w) \/ RaiseSignal(w) \/ KillWriter(w)
        PROVE  Queues' = Queues
    <3>1. theSize' = theSize /\ \A v \in Writers : First(v)' = First(v)
      BY <2>8 DEF Push, CheckBlocked, RaiseSignal, KillWriter, First,
                  queueVars, readerVars
    <3> QED BY <2>2, <3>1
  <2>9. CASE (ReaderStep /\ ~CopyItem /\ ~DropItem /\ ~PopTooMany) \/ KillReader
    <3>1. theOut' = theOut /\ theSize' = theSize
      BY <2>9 DEF ReaderStep, HandleNewDataAtStart, HandleNotification, Wake, ClearSignal, TryQueue,
                  Block, Recheck, Unblock, PopFailed, KillReader, queueVars
    <3>2. rpc # "drop" /\ rpc' # "drop"
      BY <2>9 DEF ReaderStep, HandleNewDataAtStart, HandleNotification, Wake, ClearSignal, TryQueue,
                  Block, Recheck, Unblock, PopFailed, KillReader, Restart, ReaderGoto, KillsSpareRings
    <3>3. \A v \in Writers : First(v)' = First(v)
      BY <3>1, <3>2 DEF First
    <3> QED BY <2>2, <3>1, <3>3
  <2>10. CASE GiveUp
    BY <2>2, <2>10 DEF GiveUp, First, queueVars, readerVars
  <2> QED BY <2>4, <2>5, <2>6, <2>7, <2>8, <2>9, <2>10 DEF Next, PushStep
<1>4. Spec => []RingInv
    BY RingInvariance
<1> QED BY <1>1, <1>3, <1>4, PTL DEF Spec, ImplementsChannels, Channels!Spec
=============================================================================
