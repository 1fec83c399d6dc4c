---------------------------- MODULE IpcIoFileProofs ----------------------------
(***************************************************************************)
(* Theorems about IpcIoFile, for any capacity of the queues, number of      *)
(* pages, ids and requests, and any number of kills and lost notifications. *)
(***************************************************************************)
EXTENDS IpcIoFile, FiniteSetTheorems, FunctionTheorems, SequenceTheorems, TLAPS

-----------------------------------------------------------------------------
(* The inductive invariant *)

InHand == IF hand = NoMsg THEN 0 ELSE 1
Flags == [blocked : BOOLEAN, signal : BOOLEAN, notes : Nat]

\* The types of the requests, of the messages and of the pages.
DataTypes ==
    /\ pid \in 1..(WorkerKills + 1) /\ lastRequestId \in 0..(IdLimit - 1)
    /\ pid = wkills + 1 /\ wkills \in Nat /\ dkills \in Nat
    /\ olderRequests \subseteq Requests /\ newerRequests \subseteq Requests
    /\ hand \in Messages \cup {NoMsg}
    /\ toDisker \in Seq(Messages) /\ Len(toDisker) <= QueueCapacity
    /\ toWorker \in Seq(Messages) /\ Len(toWorker) <= QueueCapacity
    /\ freePages \in Nat /\ serial \in 0..RequestLimit
    /\ completed \subseteq 1..serial /\ late \subseteq 1..RequestLimit
    /\ answered \subseteq (1..RequestLimit) \X (1..RequestLimit)
    /\ abandoned \in BOOLEAN

\* The places of the worker, and what it may rely on there.
WorkerPlaces ==
    /\ openState \in {"closed", "waiting", "open", "failed"} /\ error \in BOOLEAN
    /\ timeoutCheckScheduled \in BOOLEAN
    /\ wloc \in {"start", "idle", "responses", "expire"} \cup Commands
    /\ then \in {"idle", "expire"} \cup Commands
    /\ wloc # "responses" => then = "idle"
    /\ wloc \in Commands \/ then \in Commands => serial < RequestLimit /\ openState = "open"
    /\ wloc = "start" => openState = "closed"
    /\ openState # "open" => olderRequests = {} /\ newerRequests = {}

\* The places of the disker, and what may wake up the two processes.
DiskerPlaces ==
    /\ dloc \in {"start", "idle", "loop", "io", "reply"}
    /\ hand # NoMsg <=> dloc \in {"io", "reply"}
    /\ moreScheduled \in BOOLEAN /\ moreEvents \in Nat
    /\ reader \in [{"worker", "disker"} -> Flags]
    /\ lost \in Nat

Places == WorkerPlaces /\ DiskerPlaces

\* A notification stands for a request or a response: there are not more of them.
FewNotes ==
    /\ reader["disker"].notes <= serial
    /\ moreEvents + reader["disker"].notes + (IF dloc = "idle" THEN 0 ELSE 1) <= serial + 1
    /\ reader["worker"].notes + Len(toDisker) + InHand <= serial

\* A disker that waits without anything to wake it up has announced that it blocks, and
\* its queue is empty.
Awake ==
    /\ moreScheduled => moreEvents > 0
    /\ lost = 0 /\ dloc # "start" /\ reader["disker"].signal => reader["disker"].notes > 0
    /\ lost = 0 /\ dloc = "idle" /\ moreEvents = 0 /\ reader["disker"].notes = 0 =>
           toDisker = <<>> /\ reader["disker"].blocked

Fields(m) == [id |-> m.id, serial |-> m.serial, cmd |-> m.cmd]
InQueue(q) == {q[i] : i \in DOMAIN q}
InTransit == InQueue(toDisker) \cup InQueue(toWorker) \cup ({hand} \ {NoMsg})

\* Requests are answered in order.
Ascending(q) == \A i, j \in DOMAIN q : i < j => q[i].serial < q[j].serial
Before(S, T) == \A m \in S, n \in T : m.serial < n.serial
InOrder ==
    /\ Ascending(toDisker) /\ Ascending(toWorker)
    /\ Before(InQueue(toWorker), {hand} \ {NoMsg})
    /\ Before({hand} \ {NoMsg}, InQueue(toDisker))
    /\ Before(InQueue(toWorker), InQueue(toDisker))
    /\ \A m \in InTransit : m.serial <= serial

\* No request is in the maps twice, and no two of them share an id.
PendingOnce ==
    /\ IsFiniteSet(olderRequests) /\ IsFiniteSet(newerRequests)
    /\ olderRequests \cap newerRequests = {}
    /\ \A r, s \in Pending : r.serial = s.serial \/ r.id = s.id => r = s
    /\ \A r \in Pending : r.serial <= serial
    /\ Cardinality(olderRequests) + Cardinality(newerRequests) <= QueueCapacity

\* An id belongs to the last request that got it, or to one that is a whole round of
\* ids older.
Current == Pending \cup {m \in InTransit : m.pid = pid}
LastOfId(x) == serial - x.serial = lastRequestId - x.id
RoundOlder(x) == serial - x.serial >= lastRequestId - x.id + (IdLimit - 1)
IdsGoRound ==
    /\ \A m \in InTransit : m.pid <= pid
    /\ \A x \in Current : LastOfId(x) \/ RoundOlder(x)
    /\ IdLimit > RequestLimit => lastRequestId <= serial /\ \A x \in Current : LastOfId(x)
    /\ \A r \in Pending, m \in InTransit :
          m.pid = pid /\ r.id = m.id =>
              r.serial = m.serial \/ r.serial - m.serial >= IdLimit - 1

\* As long as nobody gives up, every message is about a pending request and every
\* pending request has one message.
Quiet == ~abandoned /\ wkills = 0 /\ dkills = 0
MessagesArePending ==
    Quiet =>
        /\ \A m \in InTransit : Fields(m) \in Pending
        /\ Len(toDisker) + Len(toWorker) + InHand =
               Cardinality(olderRequests) + Cardinality(newerRequests)

PagesAreConserved ==
    /\ freePages + PagesSent <= PageCount
    /\ Quiet => freePages + PagesSent = PageCount

IoInv == /\ DataTypes /\ Places /\ FewNotes /\ Awake /\ InOrder
         /\ PendingOnce /\ EachCompletedOnce /\ TimeoutIsScheduled
         /\ IdsGoRound /\ AnswersMatch /\ MessagesArePending /\ PagesAreConserved

-----------------------------------------------------------------------------
(* Queues *)

\* A queue of messages is a function on an interval, and holds messages only.
LEMMA QueueFacts ==
    ASSUME NEW q \in Seq(Messages)
    PROVE  /\ DOMAIN q = 1..Len(q) /\ Len(q) \in Nat
           /\ InQueue(q) \subseteq Messages
           /\ IsFiniteSet({i \in DOMAIN q : q[i].page}) /\ PagesIn(q) \in Nat
<1>1. DOMAIN q = 1..Len(q) /\ Len(q) \in Nat
    OBVIOUS
<1>2. InQueue(q) \subseteq Messages
    BY DEF InQueue
<1>3. IsFiniteSet(1..Len(q))
    BY <1>1, FS_Interval
<1>4. {i \in DOMAIN q : q[i].page} \in SUBSET (1..Len(q))
    BY <1>1
<1>5. IsFiniteSet({i \in DOMAIN q : q[i].page})
    BY <1>3, <1>4, FS_Subset
<1>6. PagesIn(q) \in Nat
    BY <1>5, FS_CardinalityType DEF PagesIn
<1> QED
    BY <1>1, <1>2, <1>5, <1>6

\* What a push changes.
LEMMA QueueAppend ==
    ASSUME NEW q \in Seq(Messages), NEW m \in Messages
    PROVE  /\ Append(q, m) \in Seq(Messages) /\ Len(Append(q, m)) = Len(q) + 1
           /\ InQueue(Append(q, m)) = InQueue(q) \cup {m}
           /\ PagesIn(Append(q, m)) = PagesIn(q) + (IF m.page THEN 1 ELSE 0)
           /\ Ascending(q) /\ Before(InQueue(q), {m}) => Ascending(Append(q, m))
<1> DEFINE a == Append(q, m)
           n == Len(q) + 1
<1>1. a \in Seq(Messages) /\ Len(a) = n /\ n \in Nat /\ a[n] = m /\ \A i \in 1..Len(q) : a[i] = q[i]
    BY AppendProperties, LenProperties
<1>2. DOMAIN a = DOMAIN q \cup {n} /\ n \notin DOMAIN q /\ DOMAIN q = 1..Len(q) /\ n \in Nat
    BY <1>1, QueueFacts
<1> HIDE DEF a
<1>3. InQueue(a) = InQueue(q) \cup {m}
    BY <1>1, <1>2 DEF InQueue
<1>4. PagesIn(a) = PagesIn(q) + (IF m.page THEN 1 ELSE 0)
  <2>1. {i \in DOMAIN a : a[i].page} =
            {i \in DOMAIN q : q[i].page} \cup (IF m.page THEN {n} ELSE {})
      BY <1>1, <1>2
  <2>2. IsFiniteSet({i \in DOMAIN q : q[i].page}) /\ PagesIn(q) \in Nat
      BY QueueFacts
  <2>3. CASE m.page
    <3>1. n \notin {i \in DOMAIN q : q[i].page}
        BY <1>2
    <3> QED
        BY <2>1, <2>2, <2>3, <3>1, FS_AddElement DEF PagesIn
  <2>4. CASE ~m.page
    <3>1. {i \in DOMAIN a : a[i].page} = {i \in DOMAIN q : q[i].page}
        BY <2>1, <2>4
    <3>2. PagesIn(a) = PagesIn(q)
        BY <3>1 DEF PagesIn
    <3> QED
        BY <2>2, <2>4, <3>2
  <2> QED
      BY <2>3, <2>4
<1>5. ASSUME Ascending(q), Before(InQueue(q), {m}) PROVE Ascending(a)
  <2> SUFFICES ASSUME NEW i \in DOMAIN a, NEW j \in DOMAIN a, i < j
               PROVE  a[i].serial < a[j].serial
      BY DEF Ascending
  <2>1. i \in DOMAIN q /\ a[i] = q[i]
      BY <1>1, <1>2
  <2>2. CASE j \in DOMAIN q
      BY <2>1, <2>2, <1>1, <1>2, <1>5 DEF Ascending
  <2>3. CASE j = n
      BY <2>1, <2>3, <1>1, <1>5 DEF Before, InQueue
  <2> QED
      BY <2>2, <2>3, <1>2
<1> QED
    BY <1>1, <1>3, <1>4, <1>5 DEF a

\* What a pop changes.
LEMMA QueueTail ==
    ASSUME NEW q \in Seq(Messages), q # <<>>
    PROVE  /\ Head(q) \in Messages /\ Tail(q) \in Seq(Messages) /\ Len(Tail(q)) = Len(q) - 1
           /\ InQueue(q) = InQueue(Tail(q)) \cup {Head(q)}
           /\ PagesIn(q) = PagesIn(Tail(q)) + (IF Head(q).page THEN 1 ELSE 0)
           /\ Ascending(q) => Ascending(Tail(q)) /\ Before({Head(q)}, InQueue(Tail(q)))
<1> DEFINE t == Tail(q)
<1>1. /\ t \in Seq(Messages) /\ Len(t) = Len(q) - 1 /\ Len(q) \in Nat \ {0}
      /\ \A i \in 1..Len(t) : t[i] = q[i + 1]
      /\ Head(q) = q[1] /\ Head(q) \in Messages
    BY HeadTailProperties, LenProperties, EmptySeq
<1>2. DOMAIN q = 1..Len(q) /\ DOMAIN t = 1..Len(t)
    BY <1>1, QueueFacts
<1> HIDE DEF t
<1>3. \A i \in DOMAIN q : i # 1 => i - 1 \in DOMAIN t /\ q[i] = t[i - 1]
  <2> SUFFICES ASSUME NEW i \in DOMAIN q, i # 1 PROVE i - 1 \in DOMAIN t /\ q[i] = t[i - 1]
      OBVIOUS
  <2>1. i - 1 \in 1..Len(t) /\ (i - 1) + 1 = i
      BY <1>1, <1>2
  <2> QED
      BY <2>1, <1>1, <1>2
<1>4. \A i \in DOMAIN t : i + 1 \in DOMAIN q /\ t[i] = q[i + 1] /\ i \in Nat /\ i >= 1
    BY <1>1, <1>2
<1>5. 1 \in DOMAIN q
    BY <1>1, <1>2
<1>6. InQueue(q) = InQueue(t) \cup {Head(q)}
  <2>1. ASSUME NEW x \in InQueue(q) PROVE x \in InQueue(t) \cup {Head(q)}
    <3>1. PICK i \in DOMAIN q : x = q[i]
        BY <2>1 DEF InQueue
    <3>2. CASE i = 1
        BY <3>1, <3>2, <1>1
    <3>3. CASE i # 1
        BY <3>1, <3>3, <1>3 DEF InQueue
    <3> QED
        BY <3>2, <3>3
  <2>2. InQueue(t) \subseteq InQueue(q)
      BY <1>4 DEF InQueue
  <2>3. Head(q) \in InQueue(q)
      BY <1>1, <1>5 DEF InQueue
  <2> QED
      BY <2>1, <2>2, <2>3
<1>7. PagesIn(q) = PagesIn(t) + (IF Head(q).page THEN 1 ELSE 0)
  <2> DEFINE S == {i \in DOMAIN q : q[i].page}
             T == {i \in DOMAIN t : t[i].page}
             f == [i \in T |-> i + 1]
  <2>1. IsFiniteSet(S) /\ IsFiniteSet(T) /\ PagesIn(t) \in Nat /\ PagesIn(q) \in Nat
      BY <1>1, QueueFacts
  <2>2. f \in Bijection(T, S \ {1})
    <3>1. ASSUME NEW i \in T PROVE i + 1 \in S \ {1}
        BY <1>4
    <3>2. f \in [T -> S \ {1}]
        BY <3>1
    <3>3. \A i, j \in T : f[i] = f[j] => i = j
        BY <1>4
    <3>4. \A k \in S \ {1} : \E i \in T : f[i] = k
      <4> SUFFICES ASSUME NEW k \in S \ {1} PROVE \E i \in T : f[i] = k
          OBVIOUS
      <4>1. k - 1 \in T
          BY <1>3
      <4>2. f[k - 1] = k
          BY <4>1, <1>2
      <4> QED
          BY <4>1, <4>2
    <3> QED
        BY <3>2, <3>3, <3>4, Fun_IsBij
  <2>3. Cardinality(S \ {1}) = Cardinality(T)
    <3>1. ExistsBijection(T, S \ {1})
        BY <2>2 DEF ExistsBijection
    <3> QED
        BY <2>1, <3>1, FS_Bijection
  <2>4. Cardinality(S \ {1}) = IF 1 \in S THEN Cardinality(S) - 1 ELSE Cardinality(S)
      BY <2>1, FS_RemoveElement
  <2>5. 1 \in S <=> Head(q).page
      BY <1>1, <1>5
  <2>6. PagesIn(q) = Cardinality(S) /\ PagesIn(t) = Cardinality(T)
      BY DEF PagesIn
  <2> HIDE DEF S, T, f
  <2> QED
      BY <2>1, <2>3, <2>4, <2>5, <2>6
<1>8. ASSUME Ascending(q) PROVE Ascending(t) /\ Before({Head(q)}, InQueue(t))
  <2>1. Ascending(t)
    <3> SUFFICES ASSUME NEW i \in DOMAIN t, NEW j \in DOMAIN t, i < j
                 PROVE  t[i].serial < t[j].serial
        BY DEF Ascending
    <3>1. i + 1 < j + 1 /\ i + 1 \in DOMAIN q /\ j + 1 \in DOMAIN q
        BY <1>4
    <3> QED
        BY <3>1, <1>4, <1>8 DEF Ascending
  <2>2. Before({Head(q)}, InQueue(t))
    <3> SUFFICES ASSUME NEW n \in InQueue(t) PROVE Head(q).serial < n.serial
        BY DEF Before
    <3>1. PICK i \in DOMAIN t : n = t[i]
        BY DEF InQueue
    <3>2. 1 < i + 1 /\ i + 1 \in DOMAIN q /\ n = q[i + 1]
        BY <3>1, <1>4
    <3> QED
        BY <3>2, <1>1, <1>5, <1>8 DEF Ascending
  <2> QED
      BY <2>1, <2>2
<1> QED
    BY <1>1, <1>6, <1>7, <1>8 DEF t

-----------------------------------------------------------------------------
(* Requests and messages *)

data == <<pid, lastRequestId, olderRequests, newerRequests, hand, toDisker, toWorker, freePages,
          serial, completed, late, answered, abandoned, wkills, dkills>>
requests == <<pid, lastRequestId, olderRequests, newerRequests, serial, completed, answered,
              abandoned, wkills>>

DataInv == /\ DataTypes /\ InOrder /\ PendingOnce /\ EachCompletedOnce
           /\ IdsGoRound /\ AnswersMatch /\ MessagesArePending /\ PagesAreConserved

SameRequest(m, n) == m.id = n.id /\ m.serial = n.serial /\ m.cmd = n.cmd /\ m.pid = n.pid

\* Steps that leave requests, messages and pages alone keep what is said of them.
LEMMA DataUnchanged == ASSUME DataInv, UNCHANGED data PROVE DataInv'
<1> USE DEF DataInv, data
<1>1. InTransit' = InTransit /\ Pending' = Pending /\ PagesSent' = PagesSent /\ InHand' = InHand
    BY DEF InTransit, InQueue, Pending, PagesSent, PagesIn, InHand
<1>2. DataTypes'
    BY DEF DataTypes
<1>3. InOrder'
    BY <1>1 DEF InOrder, Ascending, Before, InQueue
<1>4. PendingOnce' /\ EachCompletedOnce' /\ AnswersMatch'
    BY <1>1 DEF PendingOnce, EachCompletedOnce, AnswersMatch, PendingSerials
<1>5. IdsGoRound'
    BY <1>1 DEF IdsGoRound, Current, LastOfId, RoundOlder
<1>6. MessagesArePending' /\ PagesAreConserved'
    BY <1>1 DEF MessagesArePending, PagesAreConserved, Quiet, Fields
<1> QED
    BY <1>2, <1>3, <1>4, <1>5, <1>6

\* Messages are well-formed.
LEMMA TransitTypes == ASSUME DataTypes PROVE InTransit \subseteq Messages
BY QueueFacts DEF DataTypes, InTransit

\* Messages may move, change their page and be lost without a change of what they answer.
LEMMA TransitKeeps ==
    ASSUME DataInv, UNCHANGED requests, dkills' = 0 => dkills = 0,
           \A m \in InTransit' : \E n \in InTransit : SameRequest(m, n)
    PROVE  /\ \A m \in InTransit' : m.serial <= serial'
           /\ PendingOnce' /\ EachCompletedOnce' /\ IdsGoRound' /\ AnswersMatch'
           /\ Quiet' => Quiet /\ \A m \in InTransit' : Fields(m) \in Pending'
<1> USE DEF DataInv, requests
<1>1. Pending' = Pending
    BY DEF Pending
<1>2. \A m \in InTransit' : m.serial <= serial'
    BY DEF InOrder, SameRequest
<1>3. PendingOnce' /\ EachCompletedOnce' /\ AnswersMatch'
    BY <1>1 DEF PendingOnce, EachCompletedOnce, AnswersMatch, PendingSerials
<1>4. IdsGoRound'
  <2>1. \A m \in InTransit' : m.pid <= pid'
      BY DEF IdsGoRound, SameRequest
  <2>2. ASSUME NEW x \in Current' PROVE \E y \in Current : x.id = y.id /\ x.serial = y.serial
      BY <1>1, <2>2 DEF Current, SameRequest
  <2>3. \A x \in Current' : LastOfId(x)' \/ RoundOlder(x)'
      BY <2>2 DEF IdsGoRound, LastOfId, RoundOlder
  <2>4. IdLimit > RequestLimit => lastRequestId' <= serial' /\ \A x \in Current' : LastOfId(x)'
      BY <2>2 DEF IdsGoRound, LastOfId
  <2>5. \A r \in Pending', m \in InTransit' :
            m.pid = pid' /\ r.id = m.id =>
                r.serial = m.serial \/ r.serial - m.serial >= IdLimit - 1
      BY <1>1 DEF IdsGoRound, SameRequest
  <2> QED
      BY <2>1, <2>3, <2>4, <2>5 DEF IdsGoRound
<1>5. ASSUME Quiet' PROVE Quiet /\ \A m \in InTransit' : Fields(m) \in Pending'
  <2>1. Quiet
      BY <1>5 DEF Quiet
  <2> QED
      BY <2>1, <1>1 DEF MessagesArePending, SameRequest, Fields
<1> QED
    BY <1>2, <1>3, <1>4, <1>5

\* The numbers of messages and pages.
LEMMA Numbers ==
    ASSUME DataTypes
    PROVE  /\ Len(toDisker) \in Nat /\ Len(toWorker) \in Nat
           /\ PagesIn(toDisker) \in Nat /\ PagesIn(toWorker) \in Nat
           /\ InHand \in {0, 1} /\ PagesSent \in Nat /\ PageCount \in Nat
           /\ QueueCapacity \in Nat /\ freePages \in Nat
<1>1. /\ Len(toDisker) \in Nat /\ Len(toWorker) \in Nat
      /\ PagesIn(toDisker) \in Nat /\ PagesIn(toWorker) \in Nat
    BY QueueFacts DEF DataTypes
<1>2. PagesSent \in Nat
  <2>1. PICK b \in {0, 1} : b = IF hand # NoMsg /\ hand.page THEN 1 ELSE 0
      OBVIOUS
  <2>2. PagesSent = PagesIn(toDisker) + PagesIn(toWorker) + b
      BY <2>1 DEF PagesSent
  <2> QED
      BY <1>1, <2>2
<1>3. InHand \in {0, 1}
    BY DEF InHand
<1>4. PageCount \in Nat /\ QueueCapacity \in Nat /\ freePages \in Nat
    BY IpcIoAssumption DEF DataTypes, IpcIoAssumption
<1> QED
    BY <1>1, <1>2, <1>3, <1>4

\* A message is not the empty hand.
LEMMA HandHolds == NoMsg \notin Messages
BY DEF NoMsg, Messages

\* The disker takes a request from its queue (DiskerPop).
LEMMA DiskerPopData ==
    ASSUME DataInv, Places, DiskerPop PROVE DataInv'
<1>1. CASE toDisker = <<>>
    BY <1>1, DataUnchanged DEF DiskerPop, data, workerVars, ghosts, bounds
<1>2. CASE toDisker # <<>>
  <2> DEFINE m == Head(toDisker)
             t == Tail(toDisker)
  <2>1. /\ hand' = m /\ toDisker' = t /\ dloc = "loop"
        /\ UNCHANGED <<requests, toWorker, freePages, late, dkills>>
      BY <1>2 DEF DiskerPop, workerVars, ghosts, bounds, requests
  <2>2. hand = NoMsg
      BY <2>1 DEF Places, WorkerPlaces, DiskerPlaces
  <2>3. DataTypes /\ toDisker \in Seq(Messages)
      BY DEF DataInv, DataTypes
  <2>4. /\ m \in Messages /\ t \in Seq(Messages) /\ Len(t) = Len(toDisker) - 1
        /\ InQueue(toDisker) = InQueue(t) \cup {m}
        /\ PagesIn(toDisker) = PagesIn(t) + (IF m.page THEN 1 ELSE 0)
        /\ Ascending(toDisker) => Ascending(t) /\ Before({m}, InQueue(t))
      BY <1>2, <2>3, QueueTail
  <2>5. m # NoMsg
      BY <2>4, HandHolds
  <2> HIDE DEF m, t
  <2>6. InTransit' = InTransit
      BY <2>1, <2>2, <2>4, <2>5 DEF InTransit, InQueue
  <2>7. /\ \A n \in InTransit' : n.serial <= serial'
        /\ PendingOnce' /\ EachCompletedOnce' /\ IdsGoRound' /\ AnswersMatch'
        /\ Quiet' => Quiet /\ \A n \in InTransit' : Fields(n) \in Pending'
      BY <2>1, <2>6, TransitKeeps DEF SameRequest
  <2>8. DataTypes'
    <3>1. Len(t) <= QueueCapacity
        BY <2>3, <2>4, Numbers DEF DataTypes
    <3> QED
        BY <2>1, <2>3, <2>4, <3>1 DEF DataTypes, requests
  <2>9. InOrder'
    <3>1. Ascending(t) /\ Before({m}, InQueue(t)) /\ Ascending(toWorker)
        BY <2>4 DEF DataInv, InOrder
    <3>2. Before(InQueue(toWorker), {m}) /\ Before(InQueue(toWorker), InQueue(t))
        BY <2>4 DEF DataInv, InOrder, Before
    <3>3. {hand'} \ {NoMsg} = {m} /\ InQueue(toWorker)' = InQueue(toWorker) /\ InQueue(toDisker)' = InQueue(t)
        BY <2>1, <2>5 DEF InQueue
    <3>4. Ascending(toDisker)' /\ Ascending(toWorker)'
        BY <2>1, <3>1 DEF Ascending
    <3>5. (Before(InQueue(toWorker), {hand} \ {NoMsg}))' /\ (Before({hand} \ {NoMsg}, InQueue(toDisker)))'
          /\ (Before(InQueue(toWorker), InQueue(toDisker)))'
        BY <3>1, <3>2, <3>3 DEF Before
    <3> QED
        BY <2>7, <3>4, <3>5 DEF InOrder
  <2>10. PagesSent' = PagesSent
    <3>1. PagesSent' = PagesIn(t) + PagesIn(toWorker) + (IF m.page THEN 1 ELSE 0)
        BY <2>1, <2>5 DEF PagesSent, PagesIn
    <3>2. PagesSent = PagesIn(toDisker) + PagesIn(toWorker) + 0
        BY <2>2 DEF PagesSent
    <3>3. PICK b \in {0, 1} : b = IF m.page THEN 1 ELSE 0
        OBVIOUS
    <3>4. PagesIn(t) \in Nat /\ PagesIn(toWorker) \in Nat
        BY <2>3, <2>4, Numbers, QueueFacts
    <3> QED
        BY <2>4, <3>1, <3>2, <3>3, <3>4
  <2>11. PagesAreConserved'
      BY <2>1, <2>7, <2>10 DEF DataInv, PagesAreConserved
  <2>12. MessagesArePending'
    <3> SUFFICES ASSUME Quiet'
                 PROVE  Len(toDisker') + Len(toWorker') + InHand' =
                            Cardinality(olderRequests') + Cardinality(newerRequests')
        BY <2>7 DEF MessagesArePending
    <3>1. Len(toDisker) + Len(toWorker) + InHand = Cardinality(olderRequests) + Cardinality(newerRequests)
        BY <2>7 DEF DataInv, MessagesArePending
    <3>2. InHand = 0 /\ InHand' = 1
        BY <2>1, <2>2, <2>5 DEF InHand
    <3>3. Len(t) + Len(toWorker) + 1 = Cardinality(olderRequests) + Cardinality(newerRequests)
        BY <2>3, <2>4, <3>1, <3>2, Numbers
    <3> QED
        BY <2>1, <3>2, <3>3 DEF requests
  <2> QED
      BY <2>7, <2>8, <2>9, <2>11, <2>12 DEF DataInv
<1> QED
    BY <1>1, <1>2

\* The disker reads or writes a page (DiskerIo).
LEMMA DiskerIoData ==
    ASSUME DataInv, Places, NEW failed \in BOOLEAN, DiskerIo(failed) PROVE DataInv'
<1> DEFINE gotPage == hand.cmd = "read" /\ freePages > 0
           b == IF hand.page THEN 1 ELSE 0
           c == IF gotPage THEN 1 ELSE 0
<1>1. /\ hand' = [hand EXCEPT !.page = gotPage,
                              !.failed = failed /\ (gotPage \/ hand.cmd = "write")]
      /\ freePages' = freePages + b - c
      /\ dloc = "io"
      /\ UNCHANGED <<requests, toDisker, toWorker, late, dkills>>
    BY DEF DiskerIo, workerVars, queueVars, ghosts, bounds, requests
<1>2. hand # NoMsg /\ hand \in Messages /\ DataTypes
    BY <1>1 DEF Places, WorkerPlaces, DiskerPlaces, DataInv, DataTypes
<1>3. /\ hand' \in Messages /\ hand' # NoMsg /\ SameRequest(hand', hand)
      /\ hand'.page = gotPage
  <2>1. gotPage \in BOOLEAN /\ (failed /\ (gotPage \/ hand.cmd = "write")) \in BOOLEAN
      OBVIOUS
  <2> HIDE DEF gotPage
  <2>2. hand' \in Messages /\ SameRequest(hand', hand) /\ hand'.page = gotPage
      BY <1>1, <1>2, <2>1 DEF Messages, SameRequest
  <2> QED
      BY <2>2, HandHolds
<1>4. \A m \in InTransit' : \E n \in InTransit : SameRequest(m, n)
  <2>1. InTransit = InQueue(toDisker) \cup InQueue(toWorker) \cup {hand}
      BY <1>2 DEF InTransit
  <2>2. InQueue(toDisker)' = InQueue(toDisker) /\ InQueue(toWorker)' = InQueue(toWorker)
      BY <1>1 DEF InQueue
  <2>3. InTransit' = InQueue(toDisker) \cup InQueue(toWorker) \cup {hand'}
      BY <1>3, <2>2 DEF InTransit
  <2> QED
      BY <1>3, <2>1, <2>3 DEF SameRequest
<1>5. /\ \A n \in InTransit' : n.serial <= serial'
      /\ PendingOnce' /\ EachCompletedOnce' /\ IdsGoRound' /\ AnswersMatch'
      /\ Quiet' => Quiet /\ \A n \in InTransit' : Fields(n) \in Pending'
    BY <1>1, <1>4, TransitKeeps
<1>6. PagesSent = PagesIn(toDisker) + PagesIn(toWorker) + b
    BY <1>2 DEF PagesSent
<1>7. PagesSent' = PagesIn(toDisker) + PagesIn(toWorker) + c
    BY <1>1, <1>3 DEF PagesSent, PagesIn
<1>8. b \in {0, 1} /\ c \in {0, 1} /\ (c = 1 => freePages > 0)
    OBVIOUS
<1>9. freePages' \in Nat
    BY <1>1, <1>2, <1>8 DEF DataTypes
<1> HIDE DEF b, c, gotPage
<1>10. DataTypes'
    BY <1>1, <1>2, <1>3, <1>9 DEF DataTypes, requests
<1>11. InOrder'
  <2>1. {hand'} \ {NoMsg} = {hand'} /\ {hand} \ {NoMsg} = {hand} /\ hand'.serial = hand.serial
      BY <1>2, <1>3 DEF SameRequest
  <2>2. InQueue(toWorker)' = InQueue(toWorker) /\ InQueue(toDisker)' = InQueue(toDisker)
      BY <1>1 DEF InQueue
  <2>3. Ascending(toDisker)' /\ Ascending(toWorker)'
      BY <1>1 DEF DataInv, InOrder, Ascending
  <2>4. /\ (Before(InQueue(toWorker), {hand} \ {NoMsg}))'
        /\ (Before({hand} \ {NoMsg}, InQueue(toDisker)))'
        /\ (Before(InQueue(toWorker), InQueue(toDisker)))'
      BY <2>1, <2>2 DEF DataInv, InOrder, Before
  <2> QED
      BY <1>5, <2>3, <2>4 DEF InOrder
<1>12. PagesAreConserved'
  <2>1. (freePages + b - c) + (PagesIn(toDisker) + PagesIn(toWorker) + c) = freePages + PagesSent
      BY <1>2, <1>6, <1>8, Numbers
  <2>2. freePages' + PagesSent' = freePages + PagesSent
      BY <1>1, <1>7, <2>1
  <2> QED
      BY <1>5, <2>2 DEF DataInv, PagesAreConserved
<1>13. MessagesArePending'
  <2>1. InHand' = InHand
      BY <1>2, <1>3 DEF InHand
  <2> QED
      BY <1>1, <1>5, <2>1 DEF DataInv, MessagesArePending, requests
<1> QED
    BY <1>5, <1>10, <1>11, <1>12, <1>13 DEF DataInv

\* The disker pushes its response, or drops it when the worker's queue is full, which
\* does not happen as long as nobody gave up (DiskerReply).
LEMMA DiskerReplyData ==
    ASSUME DataInv, Places, NEW pause \in BOOLEAN, DiskerReply(pause) PROVE DataInv'
<1>1. hand' = NoMsg /\ dloc = "reply" /\ UNCHANGED <<requests, toDisker, freePages, late, dkills>>
    BY DEF DiskerReply, workerVars, bounds, requests
<1>2. hand # NoMsg /\ hand \in Messages /\ DataTypes
    BY <1>1 DEF Places, WorkerPlaces, DiskerPlaces, DataInv, DataTypes
<1>3. InHand = 1 /\ InHand' = 0
    BY <1>1, <1>2 DEF InHand
<1>4. PICK b \in {0, 1} : b = IF hand.page THEN 1 ELSE 0
    OBVIOUS
<1>5. PagesSent = PagesIn(toDisker) + PagesIn(toWorker) + b
    BY <1>2, <1>4 DEF PagesSent
<1>6. PagesSent' = PagesIn(toDisker)' + PagesIn(toWorker)' + 0
    BY <1>1 DEF PagesSent
<1>7. {hand'} \ {NoMsg} = {} /\ {hand} \ {NoMsg} = {hand} /\ InQueue(toDisker)' = InQueue(toDisker)
      /\ PagesIn(toDisker)' = PagesIn(toDisker)
    BY <1>1, <1>2 DEF InQueue, PagesIn
<1>8. CASE Len(toWorker) = QueueCapacity
  <2>1. toWorker' = toWorker
      BY <1>8 DEF DiskerReply
  <2>2. InQueue(toWorker)' = InQueue(toWorker) /\ PagesIn(toWorker)' = PagesIn(toWorker)
      BY <2>1 DEF InQueue, PagesIn
  <2>3. InTransit' \subseteq InTransit
      BY <1>7, <2>2 DEF InTransit
  <2>4. /\ \A n \in InTransit' : n.serial <= serial'
        /\ PendingOnce' /\ EachCompletedOnce' /\ IdsGoRound' /\ AnswersMatch'
        /\ Quiet' => Quiet
      BY <1>1, <2>3, TransitKeeps DEF SameRequest
  <2>5. ~Quiet
    <3> SUFFICES ASSUME Quiet PROVE FALSE
        OBVIOUS
    <3>1. Len(toDisker) + Len(toWorker) + InHand =
              Cardinality(olderRequests) + Cardinality(newerRequests)
        BY DEF DataInv, MessagesArePending
    <3>2. Cardinality(olderRequests) + Cardinality(newerRequests) <= QueueCapacity
        BY DEF DataInv, PendingOnce
    <3>3. Len(toDisker) \in Nat /\ QueueCapacity \in Nat
        BY <1>2, Numbers
    <3> QED
        BY <1>3, <1>8, <3>1, <3>2, <3>3
  <2>6. DataTypes'
      BY <1>1, <1>2, <2>1 DEF DataTypes, requests
  <2>7. InOrder'
    <3>1. Ascending(toDisker)' /\ Ascending(toWorker)'
        BY <1>1, <2>1 DEF DataInv, InOrder, Ascending
    <3>2. /\ (Before(InQueue(toWorker), {hand} \ {NoMsg}))'
          /\ (Before({hand} \ {NoMsg}, InQueue(toDisker)))'
          /\ (Before(InQueue(toWorker), InQueue(toDisker)))'
        BY <1>7, <2>2 DEF DataInv, InOrder, Before
    <3> QED
        BY <2>4, <3>1, <3>2 DEF InOrder
  <2>8. PagesAreConserved'
    <3>1. freePages + (PagesIn(toDisker) + PagesIn(toWorker) + 0) <= PageCount
        BY <1>2, <1>4, <1>5, Numbers DEF DataInv, PagesAreConserved
    <3>2. freePages' + PagesSent' = freePages + (PagesIn(toDisker) + PagesIn(toWorker) + 0)
        BY <1>1, <1>6, <1>7, <2>2
    <3> QED
        BY <2>4, <2>5, <3>1, <3>2 DEF PagesAreConserved
  <2> QED
      BY <2>4, <2>5, <2>6, <2>7, <2>8 DEF DataInv, MessagesArePending
<1>9. CASE Len(toWorker) # QueueCapacity
  <2>1. toWorker' = Append(toWorker, hand) /\ toWorker \in Seq(Messages)
      BY <1>2, <1>9 DEF DiskerReply, DataTypes
  <2>2. /\ Append(toWorker, hand) \in Seq(Messages)
        /\ Len(Append(toWorker, hand)) = Len(toWorker) + 1
        /\ InQueue(toWorker)' = InQueue(toWorker) \cup {hand}
        /\ PagesIn(toWorker)' = PagesIn(toWorker) + b
        /\ Ascending(toWorker) /\ Before(InQueue(toWorker), {hand}) => Ascending(toWorker)'
    <3>1. /\ InQueue(Append(toWorker, hand)) = InQueue(toWorker) \cup {hand}
          /\ PagesIn(Append(toWorker, hand)) = PagesIn(toWorker) + b
          /\ Append(toWorker, hand) \in Seq(Messages)
          /\ Len(Append(toWorker, hand)) = Len(toWorker) + 1
          /\ Ascending(toWorker) /\ Before(InQueue(toWorker), {hand}) => Ascending(Append(toWorker, hand))
        BY <1>2, <1>4, <2>1, QueueAppend
    <3>2. /\ InQueue(toWorker)' = InQueue(Append(toWorker, hand))
          /\ PagesIn(toWorker)' = PagesIn(Append(toWorker, hand))
          /\ Ascending(toWorker)' = Ascending(Append(toWorker, hand))
        BY <2>1 DEF InQueue, PagesIn, Ascending
    <3> QED
        BY <3>1, <3>2
  <2>3. InTransit' = InTransit
      BY <1>7, <2>2 DEF InTransit
  <2>4. /\ \A n \in InTransit' : n.serial <= serial'
        /\ PendingOnce' /\ EachCompletedOnce' /\ IdsGoRound' /\ AnswersMatch'
        /\ Quiet' => Quiet /\ \A n \in InTransit' : Fields(n) \in Pending'
      BY <1>1, <2>3, TransitKeeps DEF SameRequest
  <2>5. DataTypes'
    <3>1. Len(toWorker) + 1 <= QueueCapacity
        BY <1>2, <1>9, Numbers DEF DataTypes
    <3>2. toWorker' \in Seq(Messages) /\ Len(toWorker') <= QueueCapacity
        BY <2>1, <2>2, <3>1
    <3> QED
        BY <1>1, <1>2, <3>2 DEF DataTypes, requests
  <2>6. InOrder'
    <3>1. Ascending(toDisker)'
        BY <1>1 DEF DataInv, InOrder, Ascending
    <3>2. Ascending(toWorker)'
        BY <1>7, <2>2 DEF DataInv, InOrder
    <3>3. /\ (Before(InQueue(toWorker), {hand} \ {NoMsg}))'
          /\ (Before({hand} \ {NoMsg}, InQueue(toDisker)))'
          /\ (Before(InQueue(toWorker), InQueue(toDisker)))'
        BY <1>7, <2>2 DEF DataInv, InOrder, Before
    <3> QED
        BY <2>4, <3>1, <3>2, <3>3 DEF InOrder
  <2>7. PagesAreConserved'
    <3>1. PagesIn(toDisker) + (PagesIn(toWorker) + b) + 0 = PagesSent
        BY <1>2, <1>4, <1>5, Numbers
    <3>2. PagesSent' = PagesSent
        BY <1>6, <1>7, <2>2, <3>1
    <3> QED
        BY <1>1, <2>4, <3>2 DEF DataInv, PagesAreConserved
  <2>8. MessagesArePending'
    <3>1. Len(toDisker) + (Len(toWorker) + 1) + 0 = Len(toDisker) + Len(toWorker) + InHand
        BY <1>2, <1>3, Numbers
    <3>2. Len(toDisker') + Len(toWorker') + InHand' = Len(toDisker) + Len(toWorker) + InHand
        BY <1>1, <1>3, <2>1, <2>2, <3>1
    <3> QED
        BY <1>1, <2>4, <3>2 DEF DataInv, MessagesArePending, requests
  <2> QED
      BY <2>4, <2>5, <2>6, <2>7, <2>8 DEF DataInv
<1> QED
    BY <1>8, <1>9

\* A killed disker forgets the request in its hand, with the page (KillDisker).
LEMMA KillDiskerData ==
    ASSUME DataInv, KillDisker PROVE DataInv'
<1>1. /\ hand' = NoMsg /\ dkills' = dkills + 1
      /\ UNCHANGED <<requests, toDisker, toWorker, freePages, late>>
    BY DEF KillDisker, workerVars, ghosts, requests
<1>2. DataTypes /\ dkills' \in Nat /\ dkills' # 0
    BY <1>1 DEF DataInv, DataTypes
<1>3. /\ {hand'} \ {NoMsg} = {} /\ InQueue(toDisker)' = InQueue(toDisker)
      /\ InQueue(toWorker)' = InQueue(toWorker)
      /\ PagesIn(toDisker)' = PagesIn(toDisker) /\ PagesIn(toWorker)' = PagesIn(toWorker)
    BY <1>1 DEF InQueue, PagesIn
<1>4. InTransit' \subseteq InTransit
    BY <1>3 DEF InTransit
<1>5. /\ \A n \in InTransit' : n.serial <= serial'
      /\ PendingOnce' /\ EachCompletedOnce' /\ IdsGoRound' /\ AnswersMatch'
    BY <1>1, <1>2, <1>4, TransitKeeps DEF SameRequest
<1>6. ~Quiet'
    BY <1>2 DEF Quiet
<1>7. DataTypes'
    BY <1>1, <1>2 DEF DataTypes, requests
<1>8. InOrder'
  <2>1. Ascending(toDisker)' /\ Ascending(toWorker)'
      BY <1>1 DEF DataInv, InOrder, Ascending
  <2>2. /\ (Before(InQueue(toWorker), {hand} \ {NoMsg}))'
        /\ (Before({hand} \ {NoMsg}, InQueue(toDisker)))'
        /\ (Before(InQueue(toWorker), InQueue(toDisker)))'
      BY <1>3 DEF DataInv, InOrder, Before
  <2> QED
      BY <1>5, <2>1, <2>2 DEF InOrder
<1>9. PagesAreConserved'
  <2>1. PICK b \in {0, 1} : PagesSent = PagesIn(toDisker) + PagesIn(toWorker) + b
      BY DEF PagesSent
  <2>2. freePages + (PagesIn(toDisker) + PagesIn(toWorker) + 0) <= PageCount
      BY <1>2, <2>1, Numbers DEF DataInv, PagesAreConserved
  <2>3. PagesSent' = PagesIn(toDisker) + PagesIn(toWorker) + 0
      BY <1>1, <1>3 DEF PagesSent
  <2> QED
      BY <1>1, <1>6, <2>2, <2>3 DEF PagesAreConserved
<1> QED
    BY <1>5, <1>6, <1>7, <1>8, <1>9 DEF DataInv, MessagesArePending

\* A killed worker forgets its requests; its successor counts ids from 1 again (KillWorker).
LEMMA KillWorkerData ==
    ASSUME DataInv, KillWorker PROVE DataInv'
<1>1. /\ olderRequests' = {} /\ newerRequests' = {} /\ lastRequestId' = 0 /\ late' = {}
      /\ pid' = pid + 1 /\ wkills' = wkills + 1 /\ wkills < WorkerKills
      /\ UNCHANGED <<hand, toDisker, toWorker, freePages, serial, completed, answered,
                     abandoned, dkills>>
    BY DEF KillWorker, diskerVars
<1>2. DataTypes
    BY DEF DataInv
<1>3. wkills' \in Nat /\ wkills' # 0 /\ ~Quiet'
    BY <1>1, <1>2 DEF DataTypes, Quiet
<1>4. InTransit' = InTransit /\ Pending' = {} /\ PagesSent' = PagesSent
    BY <1>1 DEF InTransit, InQueue, Pending, PagesSent, PagesIn
<1>5. DataTypes'
  <2>1. pid' \in 1..(WorkerKills + 1) /\ pid' = wkills' + 1
      BY <1>1, <1>2, IpcIoAssumption DEF DataTypes, IpcIoAssumption
  <2>2. 0 \in 0..(IdLimit - 1)
      BY IpcIoAssumption DEF IpcIoAssumption
  <2> QED
      BY <1>1, <1>2, <1>3, <2>1, <2>2 DEF DataTypes
<1>6. InOrder'
    BY <1>1, <1>4 DEF DataInv, InOrder, Ascending, Before, InQueue
<1>7. PendingOnce'
  <2>1. IsFiniteSet({}) /\ Cardinality({}) = 0
      BY FS_EmptySet
  <2> QED
      BY <1>1, <1>4, <2>1, IpcIoAssumption DEF PendingOnce, IpcIoAssumption
<1>8. EachCompletedOnce' /\ AnswersMatch'
    BY <1>1, <1>3, <1>4 DEF DataInv, EachCompletedOnce, PendingSerials, AnswersMatch
<1>9. IdsGoRound'
  <2>1. \A m \in InTransit : m.pid <= pid /\ m.pid \in Int /\ pid \in Int
      BY <1>2, TransitTypes DEF DataInv, IdsGoRound, Messages, DataTypes
  <2>2. \A m \in InTransit : m.pid <= pid + 1 /\ m.pid # pid + 1
      BY <2>1
  <2>3. Current' = {}
      BY <1>1, <1>4, <2>2 DEF Current
  <2>4. 0 <= serial
      BY <1>2 DEF DataTypes
  <2> QED
      BY <1>1, <1>4, <2>2, <2>3, <2>4 DEF IdsGoRound
<1>10. PagesAreConserved'
    BY <1>1, <1>3, <1>4 DEF DataInv, PagesAreConserved
<1> QED
    BY <1>3, <1>5, <1>6, <1>7, <1>8, <1>9, <1>10 DEF DataInv, MessagesArePending

\* Serials of pending requests are numbers of requests.
LEMMA PendingTypes ==
    ASSUME DataTypes
    PROVE  /\ Pending \subseteq Requests
           /\ \A r \in Pending : r.serial \in 1..RequestLimit /\ r.id \in 1..(IdLimit - 1)
BY DEF DataTypes, Pending, Requests

\* checkTimeouts() gives up on the older requests; the newer ones become older.
LEMMA ExpireOlderData ==
    ASSUME DataInv, ExpireOlder PROVE DataInv'
<1>1. /\ completed' = completed \cup {r.serial : r \in olderRequests}
      /\ abandoned' = (abandoned \/ olderRequests # {})
      /\ olderRequests' = newerRequests /\ newerRequests' = {}
      /\ UNCHANGED <<pid, lastRequestId, hand, toDisker, toWorker, freePages, serial, late,
                     answered, wkills, dkills>>
    BY DEF ExpireOlder, AbandonOlder, SwapMaps, diskerVars, queueVars, bounds
<1>2. DataTypes /\ PendingOnce
    BY DEF DataInv
<1>3. /\ InTransit' = InTransit /\ PagesSent' = PagesSent /\ InHand' = InHand
      /\ Pending' = newerRequests /\ Pending' \subseteq Pending
    BY <1>1 DEF InTransit, InQueue, Pending, PagesSent, PagesIn, InHand
<1>4. Quiet' => Quiet /\ olderRequests = {}
    BY <1>1 DEF Quiet
<1>5. Cardinality({}) = 0 /\ IsFiniteSet({}) /\ Cardinality(newerRequests) \in Nat
      /\ Cardinality(olderRequests) \in Nat
    BY <1>2, FS_EmptySet, FS_CardinalityType DEF PendingOnce
<1>6. DataTypes'
  <2>1. \A r \in olderRequests : r.serial \in 1..serial
      BY <1>2, PendingTypes DEF PendingOnce, Pending, DataTypes
  <2>2. completed' \subseteq 1..serial
      BY <1>1, <1>2, <2>1 DEF DataTypes
  <2>3. abandoned' \in BOOLEAN
      BY <1>1
  <2> QED
      BY <1>1, <1>2, <2>2, <2>3 DEF DataTypes
<1>7. InOrder'
    BY <1>1, <1>3 DEF DataInv, InOrder, Ascending, Before, InQueue
<1>8. PendingOnce'
  <2>1. Cardinality(newerRequests) + 0 <= QueueCapacity
      BY <1>2, <1>5, IpcIoAssumption DEF PendingOnce, IpcIoAssumption
  <2> QED
      BY <1>1, <1>2, <1>3, <1>5, <2>1 DEF PendingOnce
<1>9. EachCompletedOnce'
  <2>1. PendingSerials = PendingSerials' \cup {r.serial : r \in olderRequests}
      BY <1>3 DEF PendingSerials, Pending
  <2>2. PendingSerials' \cap {r.serial : r \in olderRequests} = {}
      BY <1>2, <1>3 DEF PendingSerials, PendingOnce, Pending
  <2>3. PendingSerials' \cap completed' = {}
      BY <1>1, <2>1, <2>2 DEF DataInv, EachCompletedOnce
  <2>4. PendingSerials' \cup completed' = PendingSerials \cup completed
      BY <1>1, <2>1
  <2> QED
      BY <1>1, <2>3, <2>4 DEF DataInv, EachCompletedOnce
<1>10. IdsGoRound'
    BY <1>1, <1>3 DEF DataInv, IdsGoRound, Current, LastOfId, RoundOlder
<1>11. AnswersMatch'
    BY <1>1 DEF DataInv, AnswersMatch
<1>12. PagesAreConserved'
    BY <1>1, <1>3, <1>4 DEF DataInv, PagesAreConserved
<1>13. MessagesArePending'
  <2> SUFFICES ASSUME Quiet'
               PROVE  /\ \A m \in InTransit' : Fields(m) \in Pending'
                      /\ Len(toDisker') + Len(toWorker') + InHand' =
                             Cardinality(olderRequests') + Cardinality(newerRequests')
      BY DEF MessagesArePending
  <2>1. /\ \A m \in InTransit : Fields(m) \in Pending
        /\ Len(toDisker) + Len(toWorker) + InHand =
               Cardinality(olderRequests) + Cardinality(newerRequests)
      BY <1>4 DEF DataInv, MessagesArePending
  <2>2. olderRequests = {} /\ Pending = newerRequests
      BY <1>4 DEF Pending
  <2>3. Cardinality(olderRequests) + Cardinality(newerRequests) = Cardinality(newerRequests) + 0
      BY <1>5, <2>2
  <2> QED
      BY <1>1, <1>3, <1>5, <2>1, <2>2, <2>3
<1> QED
    BY <1>6, <1>7, <1>8, <1>9, <1>10, <1>11, <1>12, <1>13 DEF DataInv

\* The worker takes a response and completes the request with its id (HandleResponse).
LEMMA HandleResponseData ==
    ASSUME DataInv, Places, HandleResponse PROVE DataInv'
<1> DEFINE m == Head(toWorker)
           t == Tail(toWorker)
           F == Matching(m)
           found == {r \in F : Mine(m)}
<1>1. /\ toWorker # <<>> /\ toWorker' = t
      /\ olderRequests' = olderRequests \ F /\ newerRequests' = newerRequests \ F
      /\ completed' = completed \cup {r.serial : r \in found}
      /\ answered' = answered \cup {<<r.serial, m.serial>> : r \in found}
      /\ freePages' = freePages + IF found # {} /\ m.page THEN 1 ELSE 0
      /\ late' = late \cup {n \in {m.serial} : F = {} /\ Mine(m)}
      /\ UNCHANGED <<pid, lastRequestId, hand, toDisker, serial, abandoned, wkills, dkills>>
    BY DEF HandleResponse, Dequeue, CompleteIo, diskerVars, bounds
<1>2. DataTypes /\ PendingOnce /\ InOrder /\ IdsGoRound /\ toWorker \in Seq(Messages)
    BY DEF DataInv, DataTypes
<1>3. /\ m \in Messages /\ t \in Seq(Messages) /\ Len(t) = Len(toWorker) - 1
      /\ InQueue(toWorker) = InQueue(t) \cup {m}
      /\ PagesIn(toWorker) = PagesIn(t) + (IF m.page THEN 1 ELSE 0)
      /\ Ascending(t) /\ Before({m}, InQueue(t))
    BY <1>1, <1>2, QueueTail DEF InOrder
<1>4. /\ F = {r \in Pending : r.id = m.id /\ openState = "open"}
      /\ found = {r \in F : m.pid = pid}
    BY DEF Matching, Mine
<1> HIDE DEF m, t, F, found
<1>5. /\ InQueue(toWorker)' = InQueue(t) /\ InQueue(toDisker)' = InQueue(toDisker)
      /\ PagesIn(toWorker)' = PagesIn(t) /\ PagesIn(toDisker)' = PagesIn(toDisker)
      /\ InHand' = InHand /\ Pending' = Pending \ F
    BY <1>1 DEF InQueue, PagesIn, InHand, Pending
<1>6. m \in InTransit /\ InTransit' \subseteq InTransit
    BY <1>1, <1>3, <1>5 DEF InTransit
<1>7. \A n \in InTransit' : m.serial < n.serial
    BY <1>1, <1>2, <1>3, <1>5 DEF InTransit, InOrder, Before
<1>8. \A r \in found : r \in Pending /\ r \in F /\ r.id = m.id /\ m.pid = pid
    BY <1>4
<1>9. \A r \in Pending : r.serial \in 1..RequestLimit /\ r.serial <= serial /\ r.serial \in 1..serial
    BY <1>2, PendingTypes DEF PendingOnce, DataTypes
<1>10. Quiet' <=> Quiet
    BY <1>1 DEF Quiet
<1>11. m.serial \in 1..RequestLimit
    BY <1>3 DEF Messages
<1>12. ASSUME Quiet PROVE /\ Fields(m) \in Pending /\ F = {Fields(m)} /\ found = F
  <2>1. Fields(m) \in Pending
      BY <1>6, <1>12 DEF DataInv, MessagesArePending
  <2>2. openState = "open"
      BY <2>1 DEF Places, WorkerPlaces, DiskerPlaces, Pending
  <2>3. Fields(m).id = m.id
      BY DEF Fields
  <2>4. F = {Fields(m)}
      BY <1>2, <1>4, <2>1, <2>2, <2>3 DEF PendingOnce
  <2>5. m.pid = pid
      BY <1>2, <1>3, <1>6, <1>12 DEF IdsGoRound, Quiet, DataTypes, Messages
  <2> QED
      BY <1>4, <2>1, <2>4, <2>5
<1>13. DataTypes'
  <2>1. completed' \subseteq 1..serial
      BY <1>1, <1>2, <1>8, <1>9 DEF DataTypes
  <2>2. answered' \subseteq (1..RequestLimit) \X (1..RequestLimit)
      BY <1>1, <1>2, <1>8, <1>9, <1>11 DEF DataTypes
  <2>3. late' \subseteq 1..RequestLimit
      BY <1>1, <1>2, <1>11 DEF DataTypes
  <2>4. freePages' \in Nat
      BY <1>1, <1>2 DEF DataTypes
  <2>5. Len(t) <= QueueCapacity
      BY <1>2, <1>3, Numbers DEF DataTypes
  <2>6. toWorker' \in Seq(Messages) /\ Len(toWorker') <= QueueCapacity
      BY <1>1, <1>3, <2>5
  <2>7. olderRequests' \subseteq Requests /\ newerRequests' \subseteq Requests
      BY <1>1, <1>2 DEF DataTypes
  <2> QED
      BY <1>1, <1>2, <2>1, <2>2, <2>3, <2>4, <2>6, <2>7 DEF DataTypes
<1>14. InOrder'
  <2>1. Ascending(toDisker)' /\ Ascending(toWorker)'
      BY <1>1, <1>2, <1>3 DEF InOrder, Ascending
  <2>2. /\ (Before(InQueue(toWorker), {hand} \ {NoMsg}))'
        /\ (Before({hand} \ {NoMsg}, InQueue(toDisker)))'
        /\ (Before(InQueue(toWorker), InQueue(toDisker)))'
      BY <1>1, <1>2, <1>3, <1>5 DEF InOrder, Before
  <2>3. \A n \in InTransit' : n.serial <= serial'
      BY <1>1, <1>2, <1>6 DEF InOrder
  <2> QED
      BY <2>1, <2>2, <2>3 DEF InOrder
<1>15. PendingOnce'
  <2>1. /\ IsFiniteSet(olderRequests \ F) /\ IsFiniteSet(newerRequests \ F)
        /\ Cardinality(olderRequests \ F) <= Cardinality(olderRequests)
        /\ Cardinality(newerRequests \ F) <= Cardinality(newerRequests)
    <3>1. olderRequests \ F \in SUBSET olderRequests /\ newerRequests \ F \in SUBSET newerRequests
        OBVIOUS
    <3> QED
        BY <1>2, <3>1, FS_Subset DEF PendingOnce
  <2>2. /\ Cardinality(olderRequests \ F) \in Nat /\ Cardinality(olderRequests) \in Nat
        /\ Cardinality(newerRequests \ F) \in Nat /\ Cardinality(newerRequests) \in Nat
      BY <1>2, <2>1, FS_CardinalityType DEF PendingOnce
  <2>3. Cardinality(olderRequests \ F) + Cardinality(newerRequests \ F) <= QueueCapacity
      BY <1>2, <2>1, <2>2, Numbers DEF PendingOnce
  <2> QED
      BY <1>1, <1>2, <1>5, <2>1, <2>3 DEF PendingOnce
<1>16. EachCompletedOnce'
  <2>1. PendingSerials' \cap completed' = {}
    <3> SUFFICES ASSUME NEW r \in Pending', r.serial \in completed' PROVE FALSE
        BY DEF PendingSerials
    <3>1. r \in Pending /\ r \notin F
        BY <1>5
    <3>2. r.serial \notin completed
        BY <3>1 DEF DataInv, EachCompletedOnce, PendingSerials
    <3>3. PICK s \in found : r.serial = s.serial
        BY <1>1, <3>2
    <3> QED
        BY <1>2, <1>8, <3>1, <3>3 DEF PendingOnce
  <2>2. ASSUME wkills' = 0 PROVE PendingSerials' \cup completed' = 1..serial'
    <3>1. m.pid = pid
        BY <1>1, <1>2, <1>3, <1>6, <2>2 DEF IdsGoRound, DataTypes, Messages
    <3>2. found = F /\ F \subseteq Pending
        BY <1>4, <3>1
    <3>3. PendingSerials = PendingSerials' \cup {r.serial : r \in F}
        BY <1>5, <3>2 DEF PendingSerials
    <3>4. PendingSerials \cup completed = 1..serial
        BY <1>1, <2>2 DEF DataInv, EachCompletedOnce
    <3> QED
        BY <1>1, <3>2, <3>3, <3>4
  <2> QED
      BY <2>1, <2>2 DEF EachCompletedOnce
<1>17. IdsGoRound'
  <2>1. Current' \subseteq Current /\ Pending' \subseteq Pending
      BY <1>1, <1>5, <1>6 DEF Current
  <2> QED
      BY <1>1, <1>2, <1>6, <2>1 DEF IdsGoRound, LastOfId, RoundOlder
<1>18. AnswersMatch'
  <2>1. ASSUME NEW a \in answered', a[1] # a[2] PROVE a[1] - a[2] >= IdLimit - 1
    <3>1. CASE a \in answered
        BY <2>1, <3>1 DEF DataInv, AnswersMatch
    <3>2. CASE a \notin answered
      <4>1. PICK r \in found : a = <<r.serial, m.serial>>
          BY <1>1, <3>2
      <4>2. a[1] = r.serial /\ a[2] = m.serial
          BY <4>1
      <4> QED
          BY <1>2, <1>6, <1>8, <2>1, <4>2 DEF IdsGoRound
    <3> QED
        BY <3>1, <3>2
  <2> QED
      BY <2>1 DEF AnswersMatch
<1>19. PagesAreConserved'
  <2>1. PICK b \in {0, 1} : b = IF m.page THEN 1 ELSE 0
      OBVIOUS
  <2>2. PICK h \in {0, 1} : h = IF hand # NoMsg /\ hand.page THEN 1 ELSE 0
      OBVIOUS
  <2>3. PICK c \in {0, 1} : c = IF found # {} /\ m.page THEN 1 ELSE 0
      OBVIOUS
  <2>4. PagesSent = PagesIn(toDisker) + (PagesIn(t) + b) + h
      BY <1>3, <2>1, <2>2 DEF PagesSent
  <2>5. PagesSent' = PagesIn(toDisker) + PagesIn(t) + h
      BY <1>1, <1>5, <2>2 DEF PagesSent
  <2>6. c <= b /\ (Quiet => c = b)
      BY <1>12, <2>1, <2>3
  <2>7. PagesIn(toDisker) \in Nat /\ PagesIn(t) \in Nat /\ freePages \in Nat /\ PageCount \in Nat
      BY <1>2, <1>3, Numbers, QueueFacts
  <2>8. /\ (freePages + c) + (PagesIn(toDisker) + PagesIn(t) + h) <= PageCount
        /\ Quiet => (freePages + c) + (PagesIn(toDisker) + PagesIn(t) + h) = PageCount
      BY <2>4, <2>6, <2>7 DEF DataInv, PagesAreConserved
  <2>9. freePages' = freePages + c
      BY <1>1, <2>3
  <2> QED
      BY <1>10, <2>5, <2>8, <2>9 DEF PagesAreConserved
<1>20. MessagesArePending'
  <2> SUFFICES ASSUME Quiet
               PROVE  /\ \A n \in InTransit' : Fields(n) \in Pending'
                      /\ Len(toDisker') + Len(toWorker') + InHand' =
                             Cardinality(olderRequests') + Cardinality(newerRequests')
      BY <1>10 DEF MessagesArePending
  <2>1. ASSUME NEW n \in InTransit' PROVE Fields(n) \in Pending'
    <3>1. Fields(n) \in Pending
        BY <1>6, <2>1 DEF DataInv, MessagesArePending
    <3>2. n.serial # m.serial
      <4>1. n \in Messages
          BY <1>2, <1>6, <2>1, TransitTypes
      <4> QED
          BY <1>7, <1>11, <2>1, <4>1 DEF Messages
    <3>3. Fields(n) # Fields(m)
        BY <3>2 DEF Fields
    <3> QED
        BY <1>5, <1>12, <3>1, <3>3
  <2>2. /\ Cardinality(olderRequests) \in Nat /\ Cardinality(newerRequests) \in Nat
        /\ IsFiniteSet(olderRequests) /\ IsFiniteSet(newerRequests)
      BY <1>2, FS_CardinalityType DEF PendingOnce
  <2>3. Cardinality(olderRequests \ F) + Cardinality(newerRequests \ F)
            = Cardinality(olderRequests) + Cardinality(newerRequests) - 1
    <3>1. /\ Cardinality(olderRequests \ {Fields(m)}) =
                 IF Fields(m) \in olderRequests THEN Cardinality(olderRequests) - 1
                                                ELSE Cardinality(olderRequests)
          /\ Cardinality(newerRequests \ {Fields(m)}) =
                 IF Fields(m) \in newerRequests THEN Cardinality(newerRequests) - 1
                                                ELSE Cardinality(newerRequests)
        BY <2>2, FS_RemoveElement
    <3>2. /\ Fields(m) \in olderRequests \/ Fields(m) \in newerRequests
          /\ ~(Fields(m) \in olderRequests /\ Fields(m) \in newerRequests)
        BY <1>2, <1>12 DEF Pending, PendingOnce
    <3>3. Cardinality(olderRequests \ {Fields(m)}) + Cardinality(newerRequests \ {Fields(m)})
              = Cardinality(olderRequests) + Cardinality(newerRequests) - 1
      <4>1. CASE Fields(m) \in olderRequests
          BY <2>2, <3>1, <3>2, <4>1
      <4>2. CASE Fields(m) \notin olderRequests
          BY <2>2, <3>1, <3>2, <4>2
      <4> QED
          BY <4>1, <4>2
    <3> QED
        BY <1>12, <3>3
  <2>4. Len(toDisker) + Len(toWorker) + InHand =
            Cardinality(olderRequests) + Cardinality(newerRequests)
      BY DEF DataInv, MessagesArePending
  <2>5. Len(toDisker) + Len(t) + InHand =
            Cardinality(olderRequests) + Cardinality(newerRequests) - 1
    <3>1. Len(toDisker) \in Nat /\ Len(toWorker) \in Nat /\ InHand \in Nat
        BY <1>2, Numbers
    <3>2. Len(toDisker) + (Len(toWorker) - 1) + InHand = Len(toDisker) + Len(toWorker) + InHand - 1
        BY <3>1
    <3> QED
        BY <1>3, <2>2, <2>4, <3>1, <3>2
  <2> QED
      BY <1>1, <1>5, <2>1, <2>3, <2>5
<1> QED
    BY <1>13, <1>14, <1>15, <1>16, <1>17, <1>18, <1>19, <1>20 DEF DataInv

\* A request that gets the next id makes every other one older (newRequestId()).
LEMMA IdsAge ==
    ASSUME NEW lim \in Nat, NEW last \in 0..(lim - 1), NEW s \in Nat,
           NEW id \in 1..(lim - 1), NEW n \in Nat
    PROVE  LET nextId == IF last + 1 = lim THEN 1 ELSE last + 1
           IN  /\ s - n >= last - id + (lim - 1) => (s + 1) - n >= nextId - id + (lim - 1)
               /\ s - n = last - id => \/ (s + 1) - n = nextId - id
                                       \/ (s + 1) - n >= nextId - id + (lim - 1)
               /\ s - n = last - id /\ last + 1 # lim => (s + 1) - n = nextId - id
OBVIOUS

\* What push() does to the numbers that identify requests.
NewIds ==
    /\ serial' = serial + 1 /\ lastRequestId' = NextId
    /\ serial < RequestLimit /\ UNCHANGED <<pid, wkills>>

\* The ids of the requests that are there already, when another one gets an id.
LEMMA NewIdsAge ==
    ASSUME DataInv, NewIds
    PROVE  /\ serial' \in 0..RequestLimit /\ lastRequestId' \in 1..(IdLimit - 1)
           /\ \A x \in Current : /\ LastOfId(x)' \/ RoundOlder(x)'
                                 /\ IdLimit > RequestLimit => LastOfId(x)'
                                 /\ x.serial \in Nat /\ x.serial <= serial /\ x.id \in Nat
           /\ IdLimit > RequestLimit => lastRequestId' <= serial' /\ NextId = lastRequestId + 1
<1>1. /\ IdLimit \in Nat /\ IdLimit > 2 /\ lastRequestId \in 0..(IdLimit - 1)
      /\ serial \in Nat /\ RequestLimit \in Nat
    BY IpcIoAssumption DEF IpcIoAssumption, DataInv, DataTypes
<1>2. serial + 1 \in 0..RequestLimit /\ NextId \in 1..(IdLimit - 1)
    BY <1>1 DEF NewIds, NextId
<1>3. ASSUME NEW x \in Current
      PROVE  x.serial \in Nat /\ x.serial <= serial /\ x.id \in 1..(IdLimit - 1)
  <2>1. CASE x \in Pending
      BY <2>1, PendingTypes DEF DataInv, PendingOnce
  <2>2. CASE x \in InTransit
      BY <2>2, TransitTypes DEF DataInv, InOrder, Messages
  <2> QED
      BY <1>3, <2>1, <2>2 DEF Current
<1>4. IdLimit > RequestLimit => lastRequestId + 1 # IdLimit /\ lastRequestId <= serial
    BY <1>1 DEF DataInv, IdsGoRound, NewIds
<1>5. ASSUME NEW x \in Current
      PROVE  /\ LastOfId(x)' \/ RoundOlder(x)'
             /\ IdLimit > RequestLimit => LastOfId(x)'
  <2>1. x.serial \in Nat /\ x.id \in 1..(IdLimit - 1)
      BY <1>3, <1>5
  <2>2. LastOfId(x) \/ RoundOlder(x)
      BY <1>5 DEF DataInv, IdsGoRound
  <2>3. \/ (serial + 1) - x.serial = NextId - x.id
        \/ (serial + 1) - x.serial >= NextId - x.id + (IdLimit - 1)
      BY <1>1, <2>1, <2>2, IdsAge DEF LastOfId, RoundOlder, NextId
  <2>4. IdLimit > RequestLimit => (serial + 1) - x.serial = NextId - x.id
    <3> SUFFICES ASSUME IdLimit > RequestLimit PROVE (serial + 1) - x.serial = NextId - x.id
        OBVIOUS
    <3>1. LastOfId(x)
        BY <1>5 DEF DataInv, IdsGoRound
    <3> QED
        BY <1>1, <1>4, <2>1, <3>1, IdsAge DEF LastOfId, NextId
  <2> QED
      BY <2>3, <2>4 DEF NewIds, LastOfId, RoundOlder
<1>6. IdLimit > RequestLimit => NextId <= serial + 1 /\ NextId = lastRequestId + 1
    BY <1>1, <1>4 DEF NextId
<1> QED
    BY <1>2, <1>3, <1>5, <1>6 DEF NewIds

\* No pending request has the id that a request gets when there is room for one more.
LEMMA NewIdIsUnused ==
    ASSUME DataInv, NewIds,
           ~(Cardinality(olderRequests) + Cardinality(newerRequests) >= QueueCapacity)
    PROVE  \A r \in Pending : r.id # NextId
<1>1. CASE QueueCapacity = 1
  <2>1. /\ IsFiniteSet(olderRequests) /\ IsFiniteSet(newerRequests)
        /\ Cardinality(olderRequests) \in Nat /\ Cardinality(newerRequests) \in Nat
      BY FS_CardinalityType DEF DataInv, PendingOnce
  <2>2. Cardinality(olderRequests) = 0 /\ Cardinality(newerRequests) = 0
      BY <1>1, <2>1
  <2>3. olderRequests = {} /\ newerRequests = {}
      BY <2>1, <2>2, FS_EmptySet
  <2> QED
      BY <2>3 DEF Pending
<1>2. CASE IdLimit > RequestLimit
  <2> SUFFICES ASSUME NEW r \in Pending PROVE r.id # NextId
      OBVIOUS
  <2>1. r.serial \in Nat /\ r.serial <= serial /\ r.id \in Nat /\ LastOfId(r)
      BY <1>2, NewIdsAge DEF Current, DataInv, IdsGoRound
  <2>2. NextId = lastRequestId + 1
      BY <1>2, NewIdsAge
  <2>3. serial \in Nat /\ lastRequestId \in Nat
      BY DEF DataInv, DataTypes
  <2> QED
      BY <2>1, <2>2, <2>3 DEF LastOfId
<1> QED
    BY <1>1, <1>2, IdsAssumption DEF IdsAssumption

\* A request that push() refuses is completed at once.
LEMMA PushFailsData ==
    ASSUME DataInv, Places, NEW cmd \in Commands, push(cmd), PushFails(cmd) PROVE DataInv'
<1>1. /\ completed' = completed \cup {serial + 1} /\ wloc = cmd
      /\ serial' = serial + 1 /\ lastRequestId' = NextId
      /\ UNCHANGED <<pid, olderRequests, newerRequests, hand, toDisker, toWorker, freePages,
                     late, answered, abandoned, wkills, dkills>>
    BY DEF push, diskerVars, bounds
<1>2. NewIds
    BY <1>1 DEF NewIds, Places, WorkerPlaces, DiskerPlaces
<1>3. DataTypes /\ PendingOnce /\ InOrder /\ serial \in Nat
    BY DEF DataInv, DataTypes
<1>4. /\ serial' \in 0..RequestLimit /\ lastRequestId' \in 1..(IdLimit - 1)
      /\ \A x \in Current : /\ LastOfId(x)' \/ RoundOlder(x)'
                            /\ IdLimit > RequestLimit => LastOfId(x)'
                            /\ x.serial \in Nat /\ x.serial <= serial
      /\ IdLimit > RequestLimit => lastRequestId' <= serial'
    BY <1>2, NewIdsAge
<1>5. /\ InTransit' = InTransit /\ Pending' = Pending /\ Current' = Current
      /\ PagesSent' = PagesSent /\ InHand' = InHand
    BY <1>1 DEF InTransit, InQueue, Pending, Current, PagesSent, PagesIn, InHand
<1>6. DataTypes'
  <2>1. completed' \subseteq 1..(serial + 1)
      BY <1>1, <1>3 DEF DataTypes
  <2>2. lastRequestId' \in 0..(IdLimit - 1)
      BY <1>4
  <2> QED
      BY <1>1, <1>3, <1>4, <2>1, <2>2 DEF DataTypes
<1>7. \A r \in Pending : r.serial \in Nat /\ r.serial <= serial /\ r.serial <= serial + 1
    BY <1>3, <1>4 DEF Current
<1>8. InOrder'
  <2>1. \A n \in InTransit : n.serial <= serial + 1
      BY <1>3, TransitTypes DEF InOrder, Messages
  <2> QED
      BY <1>1, <1>3, <1>5, <2>1 DEF InOrder, Ascending, Before, InQueue
<1>9. PendingOnce'
    BY <1>1, <1>3, <1>5, <1>7 DEF PendingOnce
<1>10. EachCompletedOnce'
  <2>1. serial + 1 \notin PendingSerials
      BY <1>3, <1>7 DEF PendingSerials
  <2>2. PendingSerials' = PendingSerials
      BY <1>5 DEF PendingSerials
  <2>3. 1..(serial + 1) = 1..serial \cup {serial + 1}
      BY <1>3
  <2> QED
      BY <1>1, <2>1, <2>2, <2>3 DEF DataInv, EachCompletedOnce
<1>11. IdsGoRound'
    BY <1>1, <1>4, <1>5 DEF DataInv, IdsGoRound
<1>12. AnswersMatch' /\ PagesAreConserved' /\ MessagesArePending'
    BY <1>1, <1>5 DEF DataInv, AnswersMatch, PagesAreConserved, MessagesArePending, Quiet, Fields
<1> QED
    BY <1>6, <1>8, <1>9, <1>10, <1>11, <1>12 DEF DataInv

\* A request that push() accepts is pending and on its way to the disker.
LEMMA PushData ==
    ASSUME DataInv, Places, NEW cmd \in Commands, push(cmd), ~PushFails(cmd) PROVE DataInv'
<1>m. PICK m : m = [id |-> NextId, serial |-> serial + 1, cmd |-> cmd, pid |-> pid,
                    page |-> cmd = "write", failed |-> FALSE]
    OBVIOUS
<1>r. PICK r : r = [id |-> NextId, serial |-> serial + 1, cmd |-> cmd]
    OBVIOUS
<1>b. PICK b \in {0, 1} : b = IF cmd = "write" THEN 1 ELSE 0
    OBVIOUS
<1>1. /\ toDisker' = Append(toDisker, m) /\ newerRequests' = newerRequests \cup {r}
      /\ freePages' = freePages - b
      /\ serial' = serial + 1 /\ lastRequestId' = NextId /\ wloc = cmd
      /\ UNCHANGED <<pid, olderRequests, hand, toWorker, completed, late, answered, abandoned,
                     wkills, dkills>>
    BY <1>m, <1>b, <1>r DEF push, diskerVars, bounds
<1>2. /\ ~(Cardinality(olderRequests) + Cardinality(newerRequests) >= QueueCapacity)
      /\ Len(toDisker) # QueueCapacity /\ (cmd = "write" => freePages # 0)
    BY DEF PushFails
<1>3. NewIds
    BY <1>1 DEF NewIds, Places, WorkerPlaces, DiskerPlaces
<1>4. /\ DataTypes /\ PendingOnce /\ InOrder /\ IdsGoRound /\ serial \in Nat /\ pid \in Nat
      /\ toDisker \in Seq(Messages)
    BY DEF DataInv, DataTypes
<1>5. /\ serial' \in 0..RequestLimit /\ lastRequestId' \in 1..(IdLimit - 1)
      /\ \A x \in Current : /\ LastOfId(x)' \/ RoundOlder(x)'
                            /\ IdLimit > RequestLimit => LastOfId(x)'
                            /\ x.serial \in Nat /\ x.serial <= serial
      /\ IdLimit > RequestLimit => lastRequestId' <= serial'
    BY <1>3, NewIdsAge
<1>6. \A s \in Pending : s.id # NextId
    BY <1>2, <1>3, NewIdIsUnused
<1>7. /\ m \in Messages /\ m # NoMsg /\ r \in Requests /\ Fields(m) = r
      /\ m.serial = serial + 1 /\ m.id = NextId /\ m.pid = pid /\ m.page = (cmd = "write")
      /\ r.serial = serial + 1 /\ r.id = NextId
  <2>1. NextId \in 1..(IdLimit - 1) /\ serial + 1 \in 1..RequestLimit /\ pid \in 1..(WorkerKills + 1)
      BY <1>1, <1>4, <1>5 DEF DataTypes
  <2>2. m \in Messages
      BY <1>m, <2>1 DEF Messages
  <2>3. r \in Requests
      BY <1>r, <2>1 DEF Requests
  <2> QED
      BY <1>m, <1>r, <2>2, <2>3, HandHolds DEF Fields
<1>8. b = (IF m.page THEN 1 ELSE 0) /\ (b = 1 => freePages # 0)
  <2>1. m.page <=> cmd = "write"
      BY <1>m
  <2>2. b = 1 => cmd = "write"
      BY <1>b
  <2> QED
      BY <1>2, <1>b, <2>1, <2>2
<1>9. /\ toDisker' \in Seq(Messages) /\ Len(toDisker') = Len(toDisker) + 1
      /\ InQueue(toDisker)' = InQueue(toDisker) \cup {m}
      /\ PagesIn(toDisker)' = PagesIn(toDisker) + b
      /\ Ascending(toDisker) /\ Before(InQueue(toDisker), {m}) => Ascending(toDisker)'
  <2>1. /\ Append(toDisker, m) \in Seq(Messages) /\ Len(Append(toDisker, m)) = Len(toDisker) + 1
        /\ InQueue(Append(toDisker, m)) = InQueue(toDisker) \cup {m}
        /\ PagesIn(Append(toDisker, m)) = PagesIn(toDisker) + b
        /\ Ascending(toDisker) /\ Before(InQueue(toDisker), {m}) => Ascending(Append(toDisker, m))
      BY <1>4, <1>7, <1>8, QueueAppend
  <2>2. /\ InQueue(toDisker)' = InQueue(Append(toDisker, m))
        /\ PagesIn(toDisker)' = PagesIn(Append(toDisker, m))
        /\ Ascending(toDisker)' = Ascending(Append(toDisker, m))
      BY <1>1 DEF InQueue, PagesIn, Ascending
  <2> QED
      BY <1>1, <2>1, <2>2
<1>10. /\ InTransit' = InTransit \cup {m} /\ Pending' = Pending \cup {r} /\ InHand' = InHand
       /\ InQueue(toWorker)' = InQueue(toWorker) /\ Current' = Current \cup {m, r}
  <2>1. InQueue(toWorker)' = InQueue(toWorker)
      BY <1>1 DEF InQueue
  <2>2. InTransit' = InTransit \cup {m}
      BY <1>1, <1>9, <2>1 DEF InTransit
  <2>3. Pending' = Pending \cup {r} /\ InHand' = InHand
      BY <1>1 DEF Pending, InHand
  <2> QED
      BY <1>1, <1>7, <2>1, <2>2, <2>3 DEF Current
<1>11. \A n \in InTransit : n.serial \in Nat /\ n.serial <= serial /\ n.serial < serial + 1
    BY <1>4, TransitTypes DEF InOrder, Messages
<1>12. \A s \in Pending : s.serial \in Nat /\ s.serial <= serial /\ s.serial < serial + 1
    BY <1>4, <1>5 DEF Current
<1>13. DataTypes'
  <2>1. completed' \subseteq 1..(serial + 1)
      BY <1>1, <1>4 DEF DataTypes
  <2>2. lastRequestId' \in 0..(IdLimit - 1)
      BY <1>5
  <2>3. freePages' \in Nat
      BY <1>1, <1>4, <1>8 DEF DataTypes
  <2>4. Len(toDisker) + 1 <= QueueCapacity
      BY <1>2, <1>4, Numbers DEF DataTypes
  <2>5. newerRequests' \subseteq Requests
      BY <1>1, <1>4, <1>7 DEF DataTypes
  <2> QED
      BY <1>1, <1>4, <1>5, <1>9, <2>1, <2>2, <2>3, <2>4, <2>5 DEF DataTypes
<1>14. InOrder'
  <2>1. Before(InTransit, {m})
      BY <1>7, <1>11 DEF Before
  <2>2. /\ Before(InQueue(toDisker), {m}) /\ Before(InQueue(toWorker), {m})
        /\ Before({hand} \ {NoMsg}, {m})
      BY <2>1 DEF Before, InTransit
  <2>3. Ascending(toDisker)' /\ Ascending(toWorker)'
      BY <1>1, <1>4, <1>9, <2>2 DEF InOrder, Ascending
  <2>4. /\ (Before(InQueue(toWorker), {hand} \ {NoMsg}))'
        /\ (Before({hand} \ {NoMsg}, InQueue(toDisker)))'
        /\ (Before(InQueue(toWorker), InQueue(toDisker)))'
      BY <1>1, <1>4, <1>9, <1>10, <2>2 DEF InOrder, Before
  <2>5. \A n \in InTransit' : n.serial <= serial'
      BY <1>1, <1>4, <1>7, <1>10, <1>11
  <2> QED
      BY <2>3, <2>4, <2>5 DEF InOrder
<1>15. r \notin Pending /\ r \notin olderRequests /\ r \notin newerRequests
    BY <1>4, <1>7, <1>12 DEF Pending
<1>16. /\ IsFiniteSet(newerRequests \cup {r})
       /\ Cardinality(newerRequests \cup {r}) = Cardinality(newerRequests) + 1
       /\ Cardinality(newerRequests) \in Nat /\ Cardinality(olderRequests) \in Nat
    BY <1>4, <1>15, FS_AddElement, FS_CardinalityType DEF PendingOnce
<1>17. PendingOnce'
  <2>1. Cardinality(olderRequests) + (Cardinality(newerRequests) + 1) <= QueueCapacity
      BY <1>2, <1>4, <1>16, Numbers
  <2>2. \A s, u \in Pending' : s.serial = u.serial \/ s.id = u.id => s = u
      BY <1>4, <1>6, <1>7, <1>10, <1>12 DEF PendingOnce
  <2>3. \A s \in Pending' : s.serial <= serial'
      BY <1>1, <1>4, <1>7, <1>10, <1>12
  <2> QED
      BY <1>1, <1>4, <1>15, <1>16, <2>1, <2>2, <2>3 DEF PendingOnce
<1>18. EachCompletedOnce'
  <2>1. PendingSerials' = PendingSerials \cup {serial + 1}
      BY <1>7, <1>10 DEF PendingSerials
  <2>2. serial + 1 \notin completed
      BY <1>4 DEF DataTypes
  <2>3. 1..(serial + 1) = 1..serial \cup {serial + 1}
      BY <1>4
  <2> QED
      BY <1>1, <2>1, <2>2, <2>3 DEF DataInv, EachCompletedOnce
<1>19. IdsGoRound'
  <2>1. LastOfId(m)' /\ LastOfId(r)'
    <3>1. (serial + 1) - (serial + 1) = NextId - NextId
        BY <1>1, <1>4, <1>5
    <3> QED
        BY <1>1, <1>7, <3>1 DEF LastOfId
  <2>2. \A n \in InTransit' : n.pid <= pid'
      BY <1>1, <1>4, <1>7, <1>10 DEF IdsGoRound
  <2>3. /\ \A x \in Current' : LastOfId(x)' \/ RoundOlder(x)'
        /\ IdLimit > RequestLimit => lastRequestId' <= serial' /\ \A x \in Current' : LastOfId(x)'
      BY <1>5, <1>10, <2>1
  <2>4. ASSUME NEW s \in Pending', NEW n \in InTransit', n.pid = pid', s.id = n.id
        PROVE  s.serial = n.serial \/ s.serial - n.serial >= IdLimit - 1
    <3>1. CASE s \in Pending /\ n \in InTransit
        BY <1>1, <1>4, <2>4, <3>1 DEF IdsGoRound
    <3>2. CASE s \in Pending /\ n = m
        BY <1>6, <1>7, <2>4, <3>2
    <3>3. CASE s = r /\ n = m
        BY <1>7, <3>3
    <3>4. CASE s = r /\ n \in InTransit
      <4>1. n \in Current /\ n.id = NextId /\ NextId \in Nat /\ n.serial \in Nat /\ n.serial <= serial
          BY <1>1, <1>5, <1>7, <1>11, <2>4, <3>4 DEF Current
      <4>2. LastOfId(n)' \/ RoundOlder(n)'
          BY <1>5, <4>1
      <4>3. \/ (serial + 1) - n.serial = NextId - NextId
            \/ (serial + 1) - n.serial >= NextId - NextId + (IdLimit - 1)
          BY <1>1, <4>1, <4>2 DEF LastOfId, RoundOlder
      <4>4. IdLimit \in Nat
          BY IpcIoAssumption DEF IpcIoAssumption
      <4>5. (serial + 1) - n.serial >= IdLimit - 1
          BY <1>4, <4>1, <4>3, <4>4
      <4> QED
          BY <1>7, <3>4, <4>5
    <3> QED
        BY <1>10, <2>4, <3>1, <3>2, <3>3, <3>4
  <2> QED
      BY <2>2, <2>3, <2>4 DEF IdsGoRound
<1>20. AnswersMatch'
    BY <1>1 DEF DataInv, AnswersMatch
<1>21. Quiet' <=> Quiet
    BY <1>1 DEF Quiet
<1>22. PagesAreConserved'
  <2>1. PICK h \in {0, 1} : h = IF hand # NoMsg /\ hand.page THEN 1 ELSE 0
      OBVIOUS
  <2>2. PagesSent = PagesIn(toDisker) + PagesIn(toWorker) + h
      BY <2>1 DEF PagesSent
  <2>3. PagesIn(toWorker)' = PagesIn(toWorker)
      BY <1>1 DEF PagesIn
  <2>4. PagesSent' = (PagesIn(toDisker) + b) + PagesIn(toWorker) + h
      BY <1>1, <1>9, <2>1, <2>3 DEF PagesSent
  <2>5. PagesIn(toDisker) \in Nat /\ PagesIn(toWorker) \in Nat /\ freePages \in Nat
      BY <1>4, Numbers
  <2>6. (freePages - b) + ((PagesIn(toDisker) + b) + PagesIn(toWorker) + h) = freePages + PagesSent
      BY <1>8, <2>2, <2>5
  <2>7. freePages' + PagesSent' = freePages + PagesSent
      BY <1>1, <2>4, <2>6
  <2> QED
      BY <1>21, <2>7 DEF DataInv, PagesAreConserved
<1>23. MessagesArePending'
  <2> SUFFICES ASSUME Quiet
               PROVE  /\ \A n \in InTransit' : Fields(n) \in Pending'
                      /\ Len(toDisker') + Len(toWorker') + InHand' =
                             Cardinality(olderRequests') + Cardinality(newerRequests')
      BY <1>21 DEF MessagesArePending
  <2>1. /\ \A n \in InTransit : Fields(n) \in Pending
        /\ Len(toDisker) + Len(toWorker) + InHand =
               Cardinality(olderRequests) + Cardinality(newerRequests)
      BY DEF DataInv, MessagesArePending
  <2>2. Len(toDisker) \in Nat /\ Len(toWorker) \in Nat /\ InHand \in Nat
      BY <1>4, Numbers
  <2>3. (Len(toDisker) + 1) + Len(toWorker) + InHand =
            Cardinality(olderRequests) + (Cardinality(newerRequests) + 1)
      BY <1>16, <2>1, <2>2
  <2>4. \A n \in InTransit' : Fields(n) \in Pending'
      BY <1>7, <1>10, <2>1
  <2> QED
      BY <1>1, <1>9, <1>10, <1>16, <2>3, <2>4
<1> QED
    BY <1>13, <1>14, <1>17, <1>18, <1>19, <1>20, <1>22, <1>23 DEF DataInv

\* Every step keeps what is said of requests, messages and pages.
LEMMA StepKeepsData ==
    ASSUME DataInv, Places, Next PROVE DataInv'
<1>1. CASE \E failed \in BOOLEAN : DiskerIo(failed)
    BY <1>1, DiskerIoData
<1>2. CASE \E pause \in BOOLEAN : DiskerReply(pause)
    BY <1>2, DiskerReplyData
<1>3. CASE \E cmd \in Commands : push(cmd)
    BY <1>3, PushData, PushFailsData
<1>4. CASE HandleResponse \/ ExpireOlder \/ DiskerPop \/ KillWorker \/ KillDisker
    BY <1>4, HandleResponseData, ExpireOlderData, DiskerPopData, KillWorkerData, KillDiskerData
<1>5. CASE \/ HandleMessagesAtStart \/ HandleNotification \/ NoMoreResponses \/ CheckTimeouts
           \/ \E answer \in {"open", "failed"} : OpenCompleted(answer)
           \/ \E cmd \in Commands : StartIo(cmd)
  <2>1. UNCHANGED data
      BY <1>5 DEF data, HandleMessagesAtStart, HandleNotification, NoMoreResponses, CheckTimeouts,
                  OpenCompleted, StartIo, diskerVars, queueVars, ghosts, bounds
  <2> QED
      BY <2>1, DataUnchanged
<1>6. CASE \/ DiskerAtStart \/ DiskerHandleNotification \/ DiskerHandleMoreRequests \/ WaitBeforePop
           \/ \E p \in {"worker", "disker"} : LoseNotification(p)
  <2>1. UNCHANGED data
      BY <1>6 DEF data, DiskerAtStart, DiskerHandleNotification, DiskerHandleMoreRequests,
                  WaitBeforePop, LoseNotification, DiskerGoto, workerVars, diskerVars, queueVars,
                  ghosts, bounds
  <2> QED
      BY <2>1, DataUnchanged
<1> QED
    BY <1>1, <1>2, <1>3, <1>4, <1>5, <1>6 DEF Next, WorkerStep, DiskerStep

-----------------------------------------------------------------------------
(* The worker *)

\* Every step keeps what is said of the worker's place, and a pending request keeps a
\* timeout check ahead of it.
LEMMA StepKeepsWorker ==
    ASSUME DataTypes, WorkerPlaces, TimeoutIsScheduled, Next
    PROVE  WorkerPlaces' /\ TimeoutIsScheduled'
<1> USE DEF WorkerPlaces, TimeoutIsScheduled, Pending, Commands
<1>1. CASE HandleMessagesAtStart
    BY <1>1 DEF HandleMessagesAtStart, ghosts
<1>2. ASSUME NEW answer \in {"open", "failed"}, OpenCompleted(answer)
      PROVE  WorkerPlaces' /\ TimeoutIsScheduled'
    BY <1>2 DEF OpenCompleted, ghosts
<1>3. CASE HandleNotification
    BY <1>3 DEF HandleNotification, Drain, ghosts
<1>4. CASE HandleResponse
  <2>1. UNCHANGED <<openState, timeoutCheckScheduled, wloc, then, serial>>
      BY <1>4 DEF HandleResponse
  <2>2. olderRequests' \subseteq olderRequests /\ newerRequests' \subseteq newerRequests
      BY <1>4 DEF HandleResponse, Dequeue
  <2>3. error' \in BOOLEAN
      BY <1>4 DEF HandleResponse, CompleteIo
  <2> QED
      BY <2>1, <2>2, <2>3
<1>5. CASE NoMoreResponses
    BY <1>5 DEF NoMoreResponses, ghosts
<1>6. ASSUME NEW cmd \in Commands, StartIo(cmd)
      PROVE  WorkerPlaces' /\ TimeoutIsScheduled'
    BY <1>6 DEF StartIo, Drain, ghosts
<1>7. ASSUME NEW cmd \in Commands, push(cmd)
      PROVE  WorkerPlaces' /\ TimeoutIsScheduled'
  <2>1. /\ wloc = cmd /\ wloc' = "idle" /\ UNCHANGED <<openState, error, olderRequests, then>>
        /\ openState = "open" /\ then = "idle"
      BY <1>7 DEF push
  <2>2. CASE PushFails(cmd)
    <3>1. UNCHANGED <<newerRequests, timeoutCheckScheduled>>
        BY <1>7, <2>2 DEF push
    <3> QED
        BY <2>1, <3>1
  <2>3. CASE ~PushFails(cmd)
    <3>1. timeoutCheckScheduled' = TRUE
        BY <1>7, <2>3 DEF push
    <3> QED
        BY <2>1, <3>1
  <2> QED
      BY <2>2, <2>3
<1>8. CASE CheckTimeouts
    BY <1>8 DEF CheckTimeouts, Drain, ghosts
<1>9. CASE ExpireOlder
    BY <1>9 DEF ExpireOlder, SwapMaps
<1>10. CASE KillWorker
    BY <1>10 DEF KillWorker
<1>11. CASE DiskerStep \/ KillDisker \/ \E p \in {"worker", "disker"} : LoseNotification(p)
  <2>1. UNCHANGED workerVars /\ UNCHANGED serial
      BY <1>11 DEF DiskerStep, DiskerAtStart, DiskerHandleNotification, DiskerHandleMoreRequests,
                   WaitBeforePop, DiskerPop, DiskerIo, DiskerReply, KillDisker, LoseNotification,
                   ghosts
  <2> QED
      BY <2>1 DEF workerVars
<1> QED
    BY <1>1, <1>2, <1>3, <1>4, <1>5, <1>6, <1>7, <1>8, <1>9, <1>10, <1>11 DEF Next, WorkerStep

-----------------------------------------------------------------------------
(* Notifications *)

\* What the queue operations do to the readers' flags.
LEMMA ReaderSteps ==
    ASSUME reader \in [{"worker", "disker"} -> Flags], NEW p \in {"worker", "disker"}
    PROVE  /\ \A wasEmpty \in BOOLEAN : Pushed(p, wasEmpty) =>
                /\ reader' \in [{"worker", "disker"} -> Flags]
                /\ \A q \in {"worker", "disker"} \ {p} : reader'[q] = reader[q]
                /\ reader'[p].blocked = reader[p].blocked
                /\ \/ /\ wasEmpty /\ reader[p].blocked /\ ~reader[p].signal
                      /\ reader'[p].notes = reader[p].notes + 1
                   \/ /\ ~(wasEmpty /\ reader[p].blocked /\ ~reader[p].signal)
                      /\ reader'[p] = reader[p]
           /\ \A found \in BOOLEAN : Popped(p, found) =>
                /\ reader' \in [{"worker", "disker"} -> Flags]
                /\ \A q \in {"worker", "disker"} \ {p} : reader'[q] = reader[q]
                /\ reader'[p].blocked = ~found /\ reader'[p].signal = reader[p].signal
                /\ reader'[p].notes = reader[p].notes
           /\ \A n \in Nat : Cleared(p, n) /\ n <= reader[p].notes =>
                /\ reader' \in [{"worker", "disker"} -> Flags]
                /\ \A q \in {"worker", "disker"} \ {p} : reader'[q] = reader[q]
                /\ ~reader'[p].signal /\ reader'[p].notes = reader[p].notes - n
           /\ Restarted(p) =>
                /\ reader' \in [{"worker", "disker"} -> Flags]
                /\ \A q \in {"worker", "disker"} \ {p} : reader'[q] = reader[q]
                /\ reader'[p].notes <= reader[p].notes
<1> USE DEF Flags
<1>1. reader[p].notes \in Nat /\ reader[p] \in Flags
    OBVIOUS
<1>2. ASSUME NEW wasEmpty \in BOOLEAN, Pushed(p, wasEmpty)
      PROVE  /\ reader' \in [{"worker", "disker"} -> Flags]
             /\ \A q \in {"worker", "disker"} \ {p} : reader'[q] = reader[q]
             /\ reader'[p].blocked = reader[p].blocked
             /\ \/ /\ wasEmpty /\ reader[p].blocked /\ ~reader[p].signal
                   /\ reader'[p].notes = reader[p].notes + 1
                \/ /\ ~(wasEmpty /\ reader[p].blocked /\ ~reader[p].signal)
                   /\ reader'[p] = reader[p]
  <2>1. CASE wasEmpty /\ reader[p].blocked /\ ~reader[p].signal
    <3>1. reader' = [reader EXCEPT ![p].signal = TRUE, ![p].notes = @ + 1]
        BY <1>2, <2>1 DEF Pushed
    <3> QED
        BY <1>1, <2>1, <3>1
  <2>2. CASE ~(wasEmpty /\ reader[p].blocked /\ ~reader[p].signal)
    <3>1. reader' = reader
        BY <1>2, <2>2 DEF Pushed
    <3> QED
        BY <2>2, <3>1
  <2> QED
      BY <2>1, <2>2
<1>3. ASSUME NEW found \in BOOLEAN, Popped(p, found)
      PROVE  /\ reader' \in [{"worker", "disker"} -> Flags]
             /\ \A q \in {"worker", "disker"} \ {p} : reader'[q] = reader[q]
             /\ reader'[p].blocked = ~found /\ reader'[p].signal = reader[p].signal
             /\ reader'[p].notes = reader[p].notes
    BY <1>3 DEF Popped
<1>4. ASSUME NEW n \in Nat, Cleared(p, n), n <= reader[p].notes
      PROVE  /\ reader' \in [{"worker", "disker"} -> Flags]
             /\ \A q \in {"worker", "disker"} \ {p} : reader'[q] = reader[q]
             /\ ~reader'[p].signal /\ reader'[p].notes = reader[p].notes - n
  <2>1. reader[p].notes - n \in Nat
      BY <1>1, <1>4
  <2> QED
      BY <1>4, <2>1 DEF Cleared
<1>5. ASSUME Restarted(p)
      PROVE  /\ reader' \in [{"worker", "disker"} -> Flags]
             /\ \A q \in {"worker", "disker"} \ {p} : reader'[q] = reader[q]
             /\ reader'[p].notes <= reader[p].notes
  <2>1. PICK n \in 0..reader[p].notes : reader' = [reader EXCEPT ![p].notes = n]
      BY <1>5 DEF Restarted
  <2> QED
      BY <1>1, <2>1
<1> QED
    BY <1>2, <1>3, <1>4, <1>5

DiskerInv == DiskerPlaces /\ FewNotes /\ Awake

\* Steps of the worker other than push() leave the disker's flags alone and add no
\* notifications.
LEMMA WorkerNotes ==
    ASSUME DataTypes, DiskerInv,
           UNCHANGED <<diskerVars, toDisker, serial, lost>>,
           reader' \in [{"worker", "disker"} -> Flags],
           reader'["disker"] = reader["disker"],
           reader'["worker"].notes <= reader["worker"].notes
    PROVE  DiskerInv'
<1> USE DEF DiskerInv, diskerVars
<1>1. DiskerPlaces'
    BY DEF DiskerPlaces
<1>2. Awake'
    BY DEF Awake
<1>3. FewNotes'
  <2>1. /\ reader["worker"].notes \in Nat /\ reader'["worker"].notes \in Nat
        /\ Len(toDisker) \in Nat /\ InHand \in Nat /\ serial \in Nat
      BY Numbers DEF DiskerPlaces, Flags, DataTypes
  <2>2. \A x \in Nat : x <= reader["worker"].notes => x + Len(toDisker) + InHand <= serial
      BY <2>1 DEF FewNotes
  <2>3. reader'["worker"].notes + Len(toDisker') + InHand' <= serial'
      BY <2>1, <2>2 DEF InHand
  <2> QED
      BY <2>3 DEF FewNotes
<1> QED
    BY <1>1, <1>2, <1>3

\* push() notifies a disker that announced that it blocks.
LEMMA PushNotes ==
    ASSUME DataTypes, WorkerPlaces, DiskerInv, NEW cmd \in Commands, push(cmd)
    PROVE  DiskerInv'
<1> USE DEF DiskerInv
<1>1. UNCHANGED diskerVars /\ serial' = serial + 1 /\ UNCHANGED lost
    BY DEF push, bounds
<1>2. /\ reader["worker"].notes \in Nat /\ reader["disker"].notes \in Nat /\ moreEvents \in Nat
      /\ Len(toDisker) \in Nat /\ InHand \in Nat /\ serial \in Nat
    BY Numbers DEF DiskerPlaces, Flags, DataTypes
<1>3. PICK a \in Nat : a = IF dloc = "idle" THEN 0 ELSE 1
    OBVIOUS
<1>4. InHand' = InHand /\ a = IF dloc' = "idle" THEN 0 ELSE 1
    BY <1>1, <1>3 DEF InHand, diskerVars
<1>5. /\ reader["disker"].notes <= serial
      /\ moreEvents + reader["disker"].notes + a <= serial + 1
      /\ reader["worker"].notes + Len(toDisker) + InHand <= serial
    BY <1>3 DEF FewNotes
<1>6. CASE PushFails(cmd)
  <2>1. UNCHANGED <<toDisker, reader>>
      BY <1>6 DEF push
  <2>2. reader["disker"].notes <= serial + 1
      BY <1>2, <1>5
  <2>3. moreEvents + reader["disker"].notes + a <= (serial + 1) + 1
      BY <1>2, <1>5
  <2>4. reader["worker"].notes + Len(toDisker) + InHand <= serial + 1
      BY <1>2, <1>5
  <2>5. FewNotes'
      BY <1>1, <1>4, <2>1, <2>2, <2>3, <2>4 DEF FewNotes, diskerVars
  <2>6. DiskerPlaces' /\ Awake'
      BY <1>1, <2>1 DEF DiskerPlaces, Awake, diskerVars
  <2> QED
      BY <2>5, <2>6
<1>7. CASE ~PushFails(cmd)
  <2>1. PICK m : toDisker' = Append(toDisker, m)
      BY <1>7 DEF push
  <2>2. Len(toDisker') = Len(toDisker) + 1 /\ toDisker' # <<>>
    <3>1. toDisker \in Seq(Messages \cup {m})
        BY DEF DataTypes
    <3>2. Append(toDisker, m) # <<>> /\ Len(Append(toDisker, m)) = Len(toDisker) + 1
        BY <3>1, AppendProperties
    <3> QED
        BY <2>1, <3>2
  <2>3. Pushed("disker", toDisker = <<>>)
      BY <1>7 DEF push
  <2>4. /\ reader' \in [{"worker", "disker"} -> Flags]
        /\ reader'["worker"] = reader["worker"]
        /\ reader'["disker"].blocked = reader["disker"].blocked
        /\ \/ /\ toDisker = <<>> /\ reader["disker"].blocked /\ ~reader["disker"].signal
              /\ reader'["disker"].notes = reader["disker"].notes + 1
           \/ /\ ~(toDisker = <<>> /\ reader["disker"].blocked /\ ~reader["disker"].signal)
              /\ reader'["disker"] = reader["disker"]
    <3>1. (toDisker = <<>>) \in BOOLEAN /\ reader \in [{"worker", "disker"} -> Flags]
        BY DEF DiskerPlaces
    <3> QED
        BY <2>3, <3>1, ReaderSteps
  <2>5. DiskerPlaces'
      BY <1>1, <2>4 DEF DiskerPlaces, diskerVars
  <2>6. FewNotes'
    <3>1. PICK k \in Nat : k <= 1 /\ reader'["disker"].notes = reader["disker"].notes + k
        BY <1>2, <2>4
    <3>2. reader["disker"].notes + k <= serial + 1
        BY <1>2, <1>5, <3>1
    <3>3. moreEvents + (reader["disker"].notes + k) + a <= (serial + 1) + 1
        BY <1>2, <1>5, <3>1, SMTT(20)
    <3>4. reader["worker"].notes + (Len(toDisker) + 1) + InHand <= serial + 1
        BY <1>2, <1>5
    <3> QED
        BY <1>1, <1>4, <2>2, <2>4, <3>1, <3>2, <3>3, <3>4 DEF FewNotes, diskerVars
  <2>7. Awake'
    <3>1. UNCHANGED <<moreScheduled, moreEvents, dloc, lost>>
        BY <1>1 DEF diskerVars
    <3>2. CASE reader'["disker"].notes = reader["disker"].notes + 1
      <4>1. reader'["disker"].notes > 0
          BY <1>2, <3>2
      <4> QED
          BY <3>1, <4>1 DEF Awake
    <3>3. CASE /\ ~(toDisker = <<>> /\ reader["disker"].blocked /\ ~reader["disker"].signal)
               /\ reader'["disker"] = reader["disker"]
      <4>1. /\ lost' = 0 /\ dloc' # "start" /\ reader'["disker"].signal
                    => reader'["disker"].notes > 0
            /\ moreScheduled' => moreEvents' > 0
          BY <3>1, <3>3 DEF Awake
      <4>2. ~(/\ lost' = 0 /\ dloc' = "idle" /\ moreEvents' = 0
              /\ reader'["disker"].notes = 0)
          BY <1>2, <3>1, <3>3 DEF Awake
      <4> QED
          BY <4>1, <4>2 DEF Awake
    <3> QED
        BY <2>4, <3>2, <3>3
  <2> QED
      BY <2>5, <2>6, <2>7
<1> QED
    BY <1>6, <1>7

\* Steps of the disker outside the queues: it starts, is woken up, or pauses.
LEMMA DiskerPlaceNotes ==
    ASSUME DataTypes, DiskerInv,
           \/ DiskerAtStart \/ DiskerHandleNotification \/ DiskerHandleMoreRequests \/ WaitBeforePop
    PROVE  DiskerInv'
<1> USE DEF DiskerInv
<1>1. UNCHANGED <<toDisker, serial, lost, hand>>
    BY DEF DiskerAtStart, DiskerHandleNotification, DiskerHandleMoreRequests, WaitBeforePop,
           DiskerGoto, queueVars, ghosts, bounds
<1>2. /\ reader["worker"].notes \in Nat /\ reader["disker"].notes \in Nat /\ moreEvents \in Nat
      /\ Len(toDisker) \in Nat /\ InHand \in Nat /\ serial \in Nat
      /\ reader \in [{"worker", "disker"} -> Flags] /\ InHand' = InHand
    BY <1>1, Numbers DEF DiskerPlaces, Flags, DataTypes, InHand
<1>3. CASE DiskerAtStart
  <2>1. /\ dloc = "start" /\ dloc' = "loop" /\ UNCHANGED <<moreScheduled, moreEvents>>
        /\ Cleared("disker", 0)
      BY <1>3 DEF DiskerAtStart, DiskerGoto
  <2>2. /\ reader' \in [{"worker", "disker"} -> Flags] /\ reader'["worker"] = reader["worker"]
        /\ ~reader'["disker"].signal /\ reader'["disker"].notes = reader["disker"].notes
      BY <1>2, <2>1, ReaderSteps
  <2>3. DiskerPlaces' /\ Awake'
      BY <1>1, <2>1, <2>2 DEF DiskerPlaces, Awake
  <2>4. FewNotes'
      BY <1>1, <1>2, <2>1, <2>2 DEF FewNotes
  <2> QED
      BY <2>3, <2>4
<1>4. CASE DiskerHandleNotification
  <2>1. /\ dloc = "idle" /\ dloc' = "loop" /\ UNCHANGED <<moreScheduled, moreEvents>>
        /\ Cleared("disker", 1) /\ reader["disker"].notes > 0
      BY <1>4 DEF DiskerHandleNotification, DiskerGoto
  <2>2. /\ reader' \in [{"worker", "disker"} -> Flags] /\ reader'["worker"] = reader["worker"]
        /\ ~reader'["disker"].signal /\ reader'["disker"].notes = reader["disker"].notes - 1
      BY <1>2, <2>1, ReaderSteps
  <2>3. DiskerPlaces' /\ Awake'
      BY <1>1, <2>1, <2>2 DEF DiskerPlaces, Awake
  <2>4. /\ reader["disker"].notes - 1 <= serial
        /\ moreEvents + (reader["disker"].notes - 1) + 1 <= serial + 1
      BY <1>2, <2>1 DEF FewNotes
  <2>5. FewNotes'
      BY <1>1, <1>2, <2>1, <2>2, <2>4 DEF FewNotes
  <2> QED
      BY <2>3, <2>5
<1>5. CASE DiskerHandleMoreRequests
  <2>1. /\ dloc = "idle" /\ dloc' = "loop" /\ moreEvents > 0 /\ UNCHANGED reader
        /\ moreScheduled' = FALSE /\ moreEvents' = moreEvents - 1
      BY <1>5 DEF DiskerHandleMoreRequests, DiskerGoto, queueVars
  <2>2. moreEvents' \in Nat
      BY <1>2, <2>1
  <2>3. DiskerPlaces' /\ Awake'
      BY <1>1, <2>1, <2>2 DEF DiskerPlaces, Awake
  <2>4. (moreEvents - 1) + reader["disker"].notes + 1 <= serial + 1
      BY <1>2, <2>1 DEF FewNotes
  <2>5. FewNotes'
      BY <1>1, <1>2, <2>1, <2>4 DEF FewNotes
  <2> QED
      BY <2>3, <2>5
<1>6. CASE WaitBeforePop
  <2>1. /\ dloc = "loop" /\ dloc' = "idle" /\ UNCHANGED reader
        /\ moreScheduled' = TRUE /\ moreEvents' = moreEvents + 1
      BY <1>6 DEF WaitBeforePop, DiskerGoto, queueVars
  <2>2. moreEvents' \in Nat /\ moreEvents' > 0
      BY <1>2, <2>1
  <2>3. DiskerPlaces' /\ Awake'
      BY <1>1, <2>1, <2>2 DEF DiskerPlaces, Awake
  <2>4. (moreEvents + 1) + reader["disker"].notes + 0 <= serial + 1
      BY <1>2, <2>1 DEF FewNotes
  <2>5. FewNotes'
      BY <1>1, <1>2, <2>1, <2>4 DEF FewNotes
  <2> QED
      BY <2>3, <2>5
<1> QED
    BY <1>3, <1>4, <1>5, <1>6

\* Steps of the disker with a request: it takes one, does the I/O and replies.
LEMMA DiskerRequestNotes ==
    ASSUME DataTypes, DiskerInv,
           \/ DiskerPop \/ (\E failed \in BOOLEAN : DiskerIo(failed))
           \/ (\E pause \in BOOLEAN : DiskerReply(pause))
    PROVE  DiskerInv'
<1> USE DEF DiskerInv
<1>1. UNCHANGED <<serial, lost>>
    BY DEF DiskerPop, DiskerIo, DiskerReply, ghosts, bounds
<1>2. /\ reader["worker"].notes \in Nat /\ reader["disker"].notes \in Nat /\ moreEvents \in Nat
      /\ Len(toDisker) \in Nat /\ serial \in Nat
    BY Numbers DEF DiskerPlaces, Flags, DataTypes
<1>3. reader \in [{"worker", "disker"} -> Flags] /\ moreScheduled \in BOOLEAN
    BY DEF DiskerPlaces
<1>4. CASE DiskerPop
  <2>1. /\ dloc = "loop" /\ UNCHANGED <<moreScheduled, moreEvents>>
        /\ Popped("disker", toDisker # <<>>) /\ hand = NoMsg
      BY <1>4 DEF DiskerPop, DiskerPlaces
  <2>2. /\ reader' \in [{"worker", "disker"} -> Flags] /\ reader'["worker"] = reader["worker"]
        /\ reader'["disker"].blocked = (toDisker = <<>>)
        /\ reader'["disker"].signal = reader["disker"].signal
        /\ reader'["disker"].notes = reader["disker"].notes
      BY <1>3, <2>1, ReaderSteps
  <2>3. InHand = 0 /\ moreEvents + reader["disker"].notes + 1 <= serial + 1
        /\ reader["worker"].notes + Len(toDisker) + 0 <= serial
      BY <2>1 DEF InHand, FewNotes
  <2>4. CASE toDisker = <<>>
    <3>1. dloc' = "idle" /\ UNCHANGED <<hand, toDisker>>
        BY <1>4, <2>4 DEF DiskerPop
    <3>2. moreEvents + reader["disker"].notes + 0 <= serial + 1
        BY <1>2, <2>3
    <3>3. FewNotes'
        BY <1>1, <2>1, <2>2, <2>3, <3>1, <3>2 DEF FewNotes, InHand
    <3>4. DiskerPlaces' /\ Awake'
        BY <1>1, <2>1, <2>2, <2>4, <3>1 DEF DiskerPlaces, Awake
    <3> QED
        BY <3>3, <3>4
  <2>5. CASE toDisker # <<>>
    <3>1. dloc' = "io" /\ hand' = Head(toDisker) /\ toDisker' = Tail(toDisker)
        BY <1>4, <2>5 DEF DiskerPop
    <3>2. Head(toDisker) \in Messages /\ Len(Tail(toDisker)) = Len(toDisker) - 1
        BY <2>5, QueueTail DEF DataTypes
    <3>3. hand' # NoMsg /\ InHand' = 1
        BY <3>1, <3>2, HandHolds DEF InHand
    <3>4. reader["worker"].notes + (Len(toDisker) - 1) + 1 <= serial
        BY <1>2, <2>3
    <3>5. FewNotes'
        BY <1>1, <2>1, <2>2, <2>3, <3>1, <3>2, <3>3, <3>4 DEF FewNotes
    <3>6. DiskerPlaces' /\ Awake'
        BY <1>1, <2>1, <2>2, <3>1, <3>3 DEF DiskerPlaces, Awake
    <3> QED
        BY <3>5, <3>6
  <2> QED
      BY <2>4, <2>5
<1>5. CASE \E failed \in BOOLEAN : DiskerIo(failed)
  <2>1. /\ dloc = "io" /\ dloc' = "reply" /\ UNCHANGED <<moreScheduled, moreEvents, reader, toDisker>>
        /\ \E page, fails : hand' = [hand EXCEPT !.page = page, !.failed = fails]
      BY <1>5 DEF DiskerIo, queueVars
  <2>2. hand \in Messages
      BY <2>1 DEF DiskerPlaces, DataTypes
  <2>3. hand'.id = hand.id /\ hand.id # 0
      BY <2>1, <2>2 DEF Messages
  <2>4. hand' # NoMsg /\ hand # NoMsg
      BY <2>3 DEF NoMsg
  <2>5. DiskerPlaces' /\ Awake'
      BY <1>1, <2>1, <2>4 DEF DiskerPlaces, Awake
  <2>6. FewNotes'
      BY <1>1, <2>1, <2>4 DEF FewNotes, InHand
  <2> QED
      BY <2>5, <2>6
<1>6. ASSUME NEW pause \in BOOLEAN, DiskerReply(pause) PROVE DiskerInv'
  <2>1. /\ dloc = "reply" /\ dloc' = (IF pause THEN "idle" ELSE "loop") /\ hand' = NoMsg
        /\ moreScheduled' = (moreScheduled \/ pause) /\ UNCHANGED toDisker /\ hand # NoMsg
      BY <1>6 DEF DiskerReply, DiskerPlaces
  <2>2. PICK k \in Nat : k = IF pause /\ ~moreScheduled THEN 1 ELSE 0
      OBVIOUS
  <2>3. moreEvents' = moreEvents + k /\ k <= 1 /\ (pause \/ k = 0)
      BY <1>6, <2>2 DEF DiskerReply
  <2>4. InHand = 1 /\ InHand' = 0
      BY <2>1 DEF InHand
  <2>5. /\ reader' \in [{"worker", "disker"} -> Flags] /\ reader'["disker"] = reader["disker"]
        /\ \E d \in Nat : d <= 1 /\ reader'["worker"].notes = reader["worker"].notes + d
    <3>1. CASE Len(toWorker) = QueueCapacity
      <4>1. reader' = reader
          BY <1>6, <3>1 DEF DiskerReply
      <4>2. reader["worker"].notes = reader["worker"].notes + 0
          BY <1>2
      <4> QED
          BY <1>3, <4>1, <4>2
    <3>2. CASE Len(toWorker) # QueueCapacity
      <4>1. Pushed("worker", toWorker = <<>>) /\ (toWorker = <<>>) \in BOOLEAN
          BY <1>6, <3>2 DEF DiskerReply
      <4>2. reader["worker"].notes = reader["worker"].notes + 0
          BY <1>2
      <4>3. /\ reader' \in [{"worker", "disker"} -> Flags]
            /\ \A q \in {"worker", "disker"} \ {"worker"} : reader'[q] = reader[q]
            /\ \/ reader'["worker"].notes = reader["worker"].notes + 1
               \/ reader'["worker"] = reader["worker"]
          BY <1>3, <4>1, ReaderSteps
      <4>4. CASE reader'["worker"].notes = reader["worker"].notes + 1
          BY <4>3, <4>4
      <4>5. CASE reader'["worker"] = reader["worker"]
          BY <4>2, <4>3, <4>5
      <4> QED
          BY <4>3, <4>4, <4>5
    <3> QED
        BY <3>1, <3>2
  <2>6. PICK d \in Nat : d <= 1 /\ reader'["worker"].notes = reader["worker"].notes + d
      BY <2>5
  <2>7. /\ reader["disker"].notes <= serial
        /\ moreEvents + reader["disker"].notes + 1 <= serial + 1
        /\ reader["worker"].notes + Len(toDisker) + 1 <= serial
      BY <2>1, <2>4 DEF FewNotes
  <2>8. (reader["worker"].notes + d) + Len(toDisker) + 0 <= serial
      BY <1>2, <2>6, <2>7, SMTT(20)
  <2>9. (moreEvents + k) + reader["disker"].notes + (IF pause THEN 0 ELSE 1) <= serial + 1
    <3>1. CASE pause
        BY <1>2, <2>3, <2>7, <3>1
    <3>2. CASE ~pause
        BY <1>2, <2>3, <2>7, <3>2
    <3> QED
        BY <3>1, <3>2
  <2>10. dloc' = "idle" <=> pause
      BY <2>1
  <2>11. FewNotes'
      BY <1>1, <2>1, <2>3, <2>4, <2>5, <2>6, <2>7, <2>8, <2>9, <2>10 DEF FewNotes
  <2>12. moreEvents' \in Nat
      BY <1>2, <2>3
  <2>13. DiskerPlaces'
    <3>1. moreScheduled' \in BOOLEAN
        BY <2>1
    <3> QED
        BY <1>1, <2>1, <2>5, <2>12, <3>1 DEF DiskerPlaces
  <2>14. moreScheduled \/ pause => moreEvents + k > 0
      BY <1>2, <2>2 DEF Awake
  <2>15. Awake'
    <3>1. moreScheduled' => moreEvents' > 0
        BY <2>1, <2>3, <2>14
    <3>2. dloc' = "idle" => moreEvents' # 0
        BY <1>2, <2>3, <2>10, <2>12, <2>14
    <3>3. lost' = 0 /\ reader'["disker"].signal => reader'["disker"].notes > 0
        BY <1>1, <2>1, <2>5 DEF Awake
    <3> QED
        BY <3>1, <3>2, <3>3 DEF Awake
  <2> QED
      BY <2>11, <2>13, <2>15
<1> QED
    BY <1>4, <1>5, <1>6

\* Kills and lost notifications.
LEMMA FailureNotes ==
    ASSUME DataTypes, DiskerInv,
           \/ KillWorker \/ KillDisker \/ \E p \in {"worker", "disker"} : LoseNotification(p)
    PROVE  DiskerInv'
<1>1. reader \in [{"worker", "disker"} -> Flags] /\ lost \in Nat
    BY DEF DiskerInv, DiskerPlaces
<1>2. /\ reader["worker"].notes \in Nat /\ reader["disker"].notes \in Nat /\ moreEvents \in Nat
      /\ Len(toDisker) \in Nat /\ serial \in Nat
    BY Numbers DEF DiskerInv, DiskerPlaces, Flags, DataTypes
<1>3. CASE KillWorker
  <2>1. UNCHANGED <<diskerVars, toDisker, serial, lost>> /\ Restarted("worker")
      BY <1>3 DEF KillWorker
  <2> QED
      BY <1>1, <2>1, ReaderSteps, WorkerNotes
<1>4. CASE KillDisker
  <2>1. /\ UNCHANGED <<toDisker, serial, lost>> /\ Restarted("disker") /\ hand' = NoMsg
        /\ dloc' = "start" /\ moreScheduled' = FALSE /\ moreEvents' = 0
      BY <1>4 DEF KillDisker, ghosts
  <2>2. /\ reader' \in [{"worker", "disker"} -> Flags] /\ reader'["worker"] = reader["worker"]
        /\ reader'["disker"].notes <= reader["disker"].notes
      BY <1>1, <2>1, ReaderSteps
  <2>3. DiskerPlaces' /\ Awake'
      BY <1>1, <2>1, <2>2 DEF DiskerPlaces, Awake
  <2>4. PICK n \in Nat : n = reader'["disker"].notes /\ n <= reader["disker"].notes
      BY <2>2 DEF Flags
  <2>5. n <= serial
      BY <1>2, <2>4 DEF DiskerInv, FewNotes
  <2>6. 0 + n + 1 <= serial + 1
      BY <1>2, <2>5
  <2>7. reader["worker"].notes + Len(toDisker) + 0 <= serial
      BY <1>2 DEF DiskerInv, FewNotes, InHand
  <2>8. FewNotes'
      BY <2>1, <2>2, <2>4, <2>5, <2>6, <2>7 DEF FewNotes, InHand
  <2> QED
      BY <2>3, <2>8 DEF DiskerInv
<1>5. ASSUME NEW p \in {"worker", "disker"}, LoseNotification(p) PROVE DiskerInv'
  <2>1. /\ UNCHANGED <<diskerVars, toDisker, serial>> /\ lost' = lost + 1 /\ reader[p].notes > 0
        /\ reader' = [reader EXCEPT ![p].notes = @ - 1]
      BY <1>5 DEF LoseNotification, ghosts
  <2>2. lost' \in Nat /\ lost' # 0 /\ reader[p].notes - 1 \in Nat
      BY <1>1, <1>2, <2>1
  <2>3. reader' \in [{"worker", "disker"} -> Flags]
      BY <1>1, <2>1, <2>2 DEF Flags
  <2>4. DiskerPlaces' /\ Awake'
      BY <2>1, <2>2, <2>3 DEF DiskerInv, DiskerPlaces, Awake, diskerVars
  <2>5. PICK d \in Nat : d = reader'["disker"].notes /\ d <= reader["disker"].notes
      BY <1>1, <1>2, <2>1, <2>2 DEF Flags
  <2>6. PICK w \in Nat : w = reader'["worker"].notes /\ w <= reader["worker"].notes
      BY <1>1, <1>2, <2>1, <2>2 DEF Flags
  <2>7. PICK a \in Nat : a = (IF dloc = "idle" THEN 0 ELSE 1)
      OBVIOUS
  <2>8. InHand \in Nat
      BY DEF InHand
  <2>9. reader["disker"].notes <= serial
      BY DEF DiskerInv, FewNotes
  <2>10. d <= serial
      BY <1>2, <2>5, <2>9
  <2>11. moreEvents + d + a <= serial + 1
    <3>1. moreEvents + reader["disker"].notes + a <= serial + 1
        BY <2>7 DEF DiskerInv, FewNotes
    <3>2. \A x \in Nat : x <= reader["disker"].notes => moreEvents + x + a <= serial + 1
        BY <1>2, <3>1
    <3> QED
        BY <2>5, <3>2
  <2>12. w + Len(toDisker) + InHand <= serial
    <3>1. reader["worker"].notes + Len(toDisker) + InHand <= serial
        BY DEF DiskerInv, FewNotes
    <3>2. \A x \in Nat : x <= reader["worker"].notes => x + Len(toDisker) + InHand <= serial
        BY <1>2, <2>8, <3>1
    <3> QED
        BY <2>6, <3>2
  <2>13. FewNotes'
      BY <2>1, <2>5, <2>6, <2>7, <2>10, <2>11, <2>12 DEF FewNotes, InHand, diskerVars
  <2> QED
      BY <2>4, <2>13 DEF DiskerInv
<1> QED
    BY <1>3, <1>4, <1>5

\* Every step keeps what is said of the disker and of notifications.
LEMMA StepKeepsDisker ==
    ASSUME DataTypes, WorkerPlaces, DiskerInv, Next PROVE DiskerInv'
<1>1. reader \in [{"worker", "disker"} -> Flags] /\ reader["worker"].notes \in Nat
    BY DEF DiskerInv, DiskerPlaces, Flags
<1>2. CASE HandleMessagesAtStart
  <2>1. UNCHANGED <<diskerVars, toDisker, serial, lost>> /\ Cleared("worker", 0)
      BY <1>2 DEF HandleMessagesAtStart, ghosts, bounds
  <2> QED
      BY <1>1, <2>1, ReaderSteps, WorkerNotes
<1>3. CASE HandleNotification
  <2>1. /\ UNCHANGED <<diskerVars, toDisker, serial, lost>> /\ Cleared("worker", 1)
        /\ reader["worker"].notes > 0
      BY <1>3 DEF HandleNotification, ghosts, bounds
  <2> QED
      BY <1>1, <2>1, ReaderSteps, WorkerNotes
<1>4. CASE HandleResponse \/ NoMoreResponses
  <2>1. UNCHANGED <<diskerVars, toDisker, serial, lost>> /\ \E b \in BOOLEAN : Popped("worker", b)
      BY <1>4 DEF HandleResponse, NoMoreResponses, ghosts, bounds
  <2> QED
      BY <1>1, <2>1, ReaderSteps, WorkerNotes
<1>5. CASE \/ CheckTimeouts \/ ExpireOlder
           \/ (\E answer \in {"open", "failed"} : OpenCompleted(answer))
           \/ (\E cmd \in Commands : StartIo(cmd))
  <2>1. UNCHANGED <<diskerVars, toDisker, serial, lost, reader>>
      BY <1>5 DEF CheckTimeouts, ExpireOlder, OpenCompleted, StartIo, queueVars, ghosts, bounds
  <2> QED
      BY <1>1, <2>1, WorkerNotes
<1>6. CASE \E cmd \in Commands : push(cmd)
    BY <1>6, PushNotes
<1>7. CASE DiskerStep
    BY <1>7, DiskerPlaceNotes, DiskerRequestNotes DEF DiskerStep
<1>8. CASE KillWorker \/ KillDisker \/ \E p \in {"worker", "disker"} : LoseNotification(p)
    BY <1>8, FailureNotes
<1> QED
    BY <1>2, <1>3, <1>4, <1>5, <1>6, <1>7, <1>8 DEF Next, WorkerStep

-----------------------------------------------------------------------------
(* Theorems *)

\* The invariant holds initially.
LEMMA InitHolds == Init => IoInv
<1> SUFFICES ASSUME Init PROVE IoInv
    OBVIOUS
<1> USE DEF Init
<1>1. toDisker \in Seq(Messages) /\ toWorker \in Seq(Messages) /\ Len(toDisker) = 0 /\ Len(toWorker) = 0
    OBVIOUS
<1>2. DataTypes
  <2>1. /\ QueueCapacity \in Nat /\ PageCount \in Nat /\ RequestLimit \in Nat /\ WorkerKills \in Nat
        /\ IdLimit \in Nat /\ IdLimit > 2
      BY IpcIoAssumption
  <2>2. pid \in 1..(WorkerKills + 1) /\ lastRequestId \in 0..(IdLimit - 1) /\ serial \in 0..RequestLimit
      BY <2>1
  <2>3. pid = wkills + 1 /\ wkills \in Nat /\ dkills \in Nat /\ freePages \in Nat
      BY <2>1
  <2>4. Len(toDisker) <= QueueCapacity /\ Len(toWorker) <= QueueCapacity
      BY <1>1, <2>1
  <2> QED
      BY <1>1, <2>2, <2>3, <2>4 DEF DataTypes
<1>3. WorkerPlaces
    BY DEF WorkerPlaces, Commands
<1>4. DiskerPlaces
    BY DEF DiskerPlaces, Flags
<1>5. InHand = 0 /\ InQueue(toDisker) = {} /\ InQueue(toWorker) = {} /\ InTransit = {} /\ Pending = {}
    BY DEF InHand, InQueue, InTransit, Pending
<1>6. FewNotes /\ Awake
    BY <1>1, <1>5 DEF FewNotes, Awake
<1>7. InOrder
    BY <1>5 DEF InOrder, Ascending, Before
<1>8. Cardinality(olderRequests) = 0 /\ Cardinality(newerRequests) = 0
      /\ IsFiniteSet(olderRequests) /\ IsFiniteSet(newerRequests)
    BY FS_EmptySet
<1>9. PendingOnce
    BY <1>5, <1>8, IpcIoAssumption DEF PendingOnce
<1>10. EachCompletedOnce /\ TimeoutIsScheduled /\ AnswersMatch
    BY <1>5 DEF EachCompletedOnce, PendingSerials, TimeoutIsScheduled, AnswersMatch
<1>11. IdsGoRound
    BY <1>5 DEF IdsGoRound, Current
<1>12. MessagesArePending
    BY <1>1, <1>5, <1>8 DEF MessagesArePending
<1>13. PagesIn(toDisker) = 0 /\ PagesIn(toWorker) = 0
  <2>1. \A q : q = <<>> => {i \in DOMAIN q : q[i].page} = {}
      OBVIOUS
  <2> QED
      BY <2>1, FS_EmptySet DEF PagesIn
<1>14. PagesAreConserved
    BY <1>13, IpcIoAssumption DEF PagesAreConserved, PagesSent
<1> QED
    BY <1>2, <1>3, <1>4, <1>6, <1>7, <1>9, <1>10, <1>11, <1>12, <1>14 DEF IoInv, Places

\* The invariant holds in every state: what is said of requests, messages and pages needs
\* the worker's and the disker's places in their handlers, and these need the types only.
THEOREM Invariance == Spec => []IoInv
<1>1. IoInv /\ Next => IoInv'
  <2> SUFFICES ASSUME IoInv, Next PROVE IoInv'
      OBVIOUS
  <2>1. DataInv /\ Places /\ DiskerInv /\ DataTypes /\ WorkerPlaces /\ TimeoutIsScheduled
      BY DEF IoInv, DataInv, DiskerInv, Places
  <2>2. DataInv'
      BY <2>1, StepKeepsData
  <2>3. WorkerPlaces' /\ TimeoutIsScheduled'
      BY <2>1, StepKeepsWorker
  <2>4. DiskerInv'
      BY <2>1, StepKeepsDisker
  <2> QED
      BY <2>2, <2>3, <2>4 DEF IoInv, DataInv, DiskerInv, Places
<1>2. IoInv /\ UNCHANGED vars => IoInv'
  <2> SUFFICES ASSUME IoInv, UNCHANGED vars PROVE IoInv'
      OBVIOUS
  <2> USE DEF vars, workerVars, diskerVars, queueVars, ghosts, bounds
  <2>1. DataInv'
    <3>1. DataInv /\ UNCHANGED data
        BY DEF IoInv, DataInv, data
    <3> QED
        BY <3>1, DataUnchanged
  <2>2. WorkerPlaces'
      BY DEF IoInv, Places, WorkerPlaces
  <2>3. DiskerPlaces'
      BY DEF IoInv, Places, DiskerPlaces
  <2>4. TimeoutIsScheduled'
      BY DEF IoInv, TimeoutIsScheduled, Pending
  <2>5. FewNotes'
      BY DEF IoInv, FewNotes, InHand
  <2>6. Awake'
      BY DEF IoInv, Awake
  <2> QED
      BY <2>1, <2>2, <2>3, <2>4, <2>5, <2>6 DEF IoInv, DataInv, Places
<1> QED
    BY <1>1, <1>2, InitHolds, PTL DEF Spec

\* What bounds the counters: notifications are not more than requests, and the pages in
\* messages are not free.
LEMMA TypesSuffice == IoInv => TypeOK
<1> SUFFICES ASSUME IoInv PROVE TypeOK
    OBVIOUS
<1>1. DataTypes /\ WorkerPlaces /\ DiskerPlaces /\ FewNotes /\ PagesAreConserved
    BY DEF IoInv, Places
<1>2. /\ reader["worker"].notes \in Nat /\ reader["disker"].notes \in Nat /\ moreEvents \in Nat
      /\ Len(toDisker) \in Nat /\ InHand \in Nat /\ serial \in Nat /\ RequestLimit \in Nat
      /\ serial <= RequestLimit
  <2>1. reader["worker"].notes \in Nat /\ reader["disker"].notes \in Nat /\ moreEvents \in Nat
      BY <1>1 DEF DiskerPlaces, Flags
  <2>2. Len(toDisker) \in Nat /\ InHand \in Nat
      BY <1>1, Numbers
  <2>3. serial \in 0..RequestLimit /\ RequestLimit \in Nat
      BY <1>1, IpcIoAssumption DEF DataTypes
  <2> QED
      BY <2>1, <2>2, <2>3
<1>3. reader["disker"].notes <= RequestLimit
    BY <1>1, <1>2 DEF FewNotes
<1>4. reader["worker"].notes <= RequestLimit
  <2>1. reader["worker"].notes + Len(toDisker) + InHand <= serial
      BY <1>1 DEF FewNotes
  <2> QED
      BY <1>2, <2>1
<1>5. moreEvents <= RequestLimit + 1
  <2>1. PICK a \in Nat : a = IF dloc = "idle" THEN 0 ELSE 1
      OBVIOUS
  <2>2. moreEvents + reader["disker"].notes + a <= serial + 1
      BY <1>1, <2>1 DEF FewNotes
  <2> QED
      BY <1>2, <2>1, <2>2
<1>6. reader \in [{"worker", "disker"} ->
                     [blocked : BOOLEAN, signal : BOOLEAN, notes : 0..(RequestLimit + 1)]]
  <2>1. \A p \in {"worker", "disker"} : reader[p].notes \in 0..(RequestLimit + 1)
      BY <1>2, <1>3, <1>4
  <2> QED
      BY <1>1, <2>1 DEF DiskerPlaces, Flags
<1>7. freePages \in 0..PageCount
  <2>1. freePages \in Nat /\ PagesSent \in Nat /\ PageCount \in Nat /\ freePages + PagesSent <= PageCount
      BY <1>1, Numbers DEF DataTypes, PagesAreConserved
  <2> QED
      BY <2>1
<1>8. moreEvents \in 0..(RequestLimit + 2)
    BY <1>2, <1>5
<1>9. completed \subseteq 1..RequestLimit
    BY <1>1, <1>2 DEF DataTypes
<1> QED
    BY <1>1, <1>6, <1>7, <1>8, <1>9 DEF TypeOK, DataTypes, WorkerPlaces, DiskerPlaces

\* Types are kept, no queue outgrows its capacity and no page appears from nowhere
\* (push(), diskerRead(), diskerWrite(), readCompleted()).
THEOREM TypeCorrect == Spec => []TypeOK
BY Invariance, TypesSuffice, PTL

\* Every request of a running worker is waiting for its answer or was completed, and
\* never both, whatever times out, is answered late or fails to be pushed
\* (push(), handleResponse(), checkTimeouts()).
THEOREM RequestsCompleteOnce == Spec => []EachCompletedOnce
BY Invariance, PTL DEF IoInv

\* A response completes the request it answers, in spite of restarted workers that count
\* ids from 1 again, unless all ids were used up in between (handleResponse()).
THEOREM ResponsesMatch == Spec => []AnswersMatch
BY Invariance, PTL DEF IoInv

\* A worker with a pending request has a timeout check ahead of it (checkTimeouts()).
THEOREM TimeoutsAreScheduled == Spec => []TimeoutIsScheduled
BY Invariance, PTL DEF IoInv

\* A disker that waits has an empty queue, or something will wake it up, unless a
\* notification was lost (DiskerHandleRequests(), WaitBeforePop()).
THEOREM DiskerStaysAwake == Spec => []DiskerIsAwake
<1>1. IoInv => DiskerIsAwake
  <2> SUFFICES ASSUME IoInv, dloc = "idle", toDisker # <<>>, lost = 0
               PROVE  moreEvents > 0 \/ reader["disker"].notes > 0
      BY DEF DiskerIsAwake
  <2>1. moreEvents \in Nat /\ reader["disker"].notes \in Nat
      BY DEF IoInv, Places, DiskerPlaces, Flags
  <2>2. ~(moreEvents = 0 /\ reader["disker"].notes = 0)
      BY DEF IoInv, Awake
  <2> QED
      BY <2>1, <2>2
<1> QED
    BY <1>1, Invariance, PTL

\* An I/O page is free or travels in a message, as long as no request was abandoned and
\* no process killed (push(), diskerRead(), diskerWrite(), readCompleted()).
THEOREM PagesComeBack == Spec => []PagesAreReturned
<1>1. IoInv => PagesAreReturned
  <2> SUFFICES ASSUME IoInv, ~abandoned, ~(wkills + dkills > 0)
               PROVE  PageCount - freePages = PagesSent
      BY DEF PagesAreReturned
  <2>1. /\ wkills \in Nat /\ dkills \in Nat /\ freePages \in Nat /\ PagesSent \in Nat
        /\ PageCount \in Nat
      BY Numbers DEF IoInv, DataTypes
  <2>2. wkills = 0 /\ dkills = 0
      BY <2>1
  <2>3. freePages + PagesSent = PageCount
      BY <2>2 DEF IoInv, PagesAreConserved, Quiet
  <2> QED
      BY <2>1, <2>3
<1> QED
    BY <1>1, Invariance, PTL

=============================================================================
