------------------------------- MODULE IpcIoFile -------------------------------
(***************************************************************************)
(* Disk I/O between a worker and a disker process (DiskIO/IpcIo/IpcIoFile): *)
(* the worker pushes read and write requests to the disker's queue and gets *)
(* responses from its own; it gives up on requests the disker does not      *)
(* answer in time.  Data travel in pages of a shared pool.                  *)
(*                                                                          *)
(* A queue operation is one step here (module MultiQueue shows that the     *)
(* accesses it consists of may be interleaved), so the two processes        *)
(* interleave between queue operations.  Callbacks to the I/O requestor are *)
(* left out, except that a request is recorded as completed; a requestor's  *)
(* next request is a separate step of the worker.                           *)
(***************************************************************************)
EXTENDS Integers, Sequences, FiniteSets

CONSTANTS
    QueueCapacity,    \* capacity of each of the two queues
    PageCount,        \* I/O pages in the shared pool
    IdLimit,          \* requestIds are 1..IdLimit-1 (2^32 in C++)
    RequestLimit,     \* bound: requests made
    WorkerKills, DiskerKills, KillLimit, \* bounds: kills of each, and together
    LossLimit         \* bound: lost notifications

ASSUME IpcIoAssumption ==
    /\ QueueCapacity \in Nat \ {0} /\ PageCount \in Nat
    /\ {IdLimit, RequestLimit, WorkerKills, DiskerKills, KillLimit, LossLimit} \subseteq Nat
    /\ IdLimit > 2

\* Ids come round only in instances with one pending request at a time, where a
\* new request cannot meet its own id among the pending ones.
ASSUME IdsAssumption == QueueCapacity = 1 \/ IdLimit > RequestLimit

VARIABLES
    pid,            \* the worker process (a restarted worker has another pid)
    openState,      \* "closed", "waiting" (for the coordinator), "open", "failed"
    error,          \* error_
    lastRequestId,
    olderRequests, newerRequests, \* pending requests: records of id, serial, cmd
    timeoutCheckScheduled,
    wloc, then,     \* the worker's place in a handler, and what follows HandleResponses()
    dloc, hand,     \* the disker's place in DiskerHandleRequests() and its request
    moreScheduled, moreEvents, \* DiskerHandleMoreRequestsScheduled, and the scheduled calls
    toDisker, toWorker, \* the queues
    reader,         \* QueueReader of each process, and its incoming notifications
    freePages,      \* free pages of the pool
    serial,         \* requests made so far; identifies a request
    completed,      \* serials completeIo() was called for
    late,           \* serials with a LATE response to the running worker process
    answered,       \* serial of the request and of the response that completed it
    abandoned,      \* whether checkTimeouts() ever gave up on a request
    wkills, dkills, lost

workerVars == <<pid, openState, error, lastRequestId, olderRequests, newerRequests,
                timeoutCheckScheduled, wloc, then>>
diskerVars == <<dloc, hand, moreScheduled, moreEvents>>
queueVars == <<toDisker, toWorker, reader>>
bounds == <<wkills, dkills, lost>>
ghosts == <<serial, completed, late, answered, abandoned>>
vars == <<workerVars, diskerVars, queueVars, freePages, ghosts, bounds>>

Commands == {"read", "write"}
Pending == olderRequests \cup newerRequests
NoMsg == [id |-> 0]

Init ==
    /\ pid = 1 /\ openState = "closed" /\ error = FALSE /\ lastRequestId = 0
    /\ olderRequests = {} /\ newerRequests = {} /\ timeoutCheckScheduled = FALSE
    /\ wloc = "start" /\ then = "idle"
    /\ dloc = "start" /\ hand = NoMsg /\ moreScheduled = FALSE /\ moreEvents = 0
    /\ toDisker = <<>> /\ toWorker = <<>>
    /\ reader = [p \in {"worker", "disker"} |-> [blocked |-> FALSE, signal |-> FALSE, notes |-> 0]]
    /\ freePages = PageCount
    /\ serial = 0 /\ completed = {} /\  late = {}
    /\ answered = {} /\ abandoned = FALSE
    /\ wkills = 0 /\ dkills = 0 /\ lost = 0

-----------------------------------------------------------------------------
(* Queue operations: the reader's flags and the notifications *)

\* push() to a queue of p's that was (not) empty, and Notify() if it asks for it
Pushed(p, wasEmpty) ==
    reader' = IF wasEmpty /\ reader[p].blocked /\ ~reader[p].signal
              THEN [reader EXCEPT ![p].signal = TRUE, ![p].notes = @ + 1]
              ELSE reader

Popped(p, found) == reader' = [reader EXCEPT ![p].blocked = ~found]

\* clearReaderSignal(), after n notifications were taken off the socket
Cleared(p, n) ==
    reader' = [reader EXCEPT ![p] = [blocked |-> FALSE, signal |-> FALSE, notes |-> @.notes - n]]

\* A killed process loses some of the notifications in its socket.
Restarted(p) == \E n \in 0..reader[p].notes : reader' = [reader EXCEPT ![p].notes = n]

-----------------------------------------------------------------------------
(* Worker: opening the file *)

HandleMessagesAtStart ==
    /\ wloc = "start"
    /\ openState' = "waiting"
    /\ Cleared("worker", 0)
    /\ wloc' = "responses" /\ then' = "idle"
    /\ UNCHANGED <<pid, error, lastRequestId, olderRequests, newerRequests, timeoutCheckScheduled,
                   diskerVars, toDisker, toWorker, freePages, ghosts, bounds>>

\* The coordinator names the disker once that registered; the answer and
\* OpenTimeout() race, and a late answer is ignored.
OpenCompleted(answer) ==
    /\ wloc = "idle" /\ openState = "waiting"
    /\ answer = "open" => dloc # "start" \/ dkills > 0
    /\ openState' = answer
    /\ error' = (answer = "failed")
    /\ UNCHANGED <<pid, lastRequestId, olderRequests, newerRequests, timeoutCheckScheduled,
                   wloc, then, diskerVars, queueVars, freePages, ghosts, bounds>>

(* Worker: HandleResponses(), before a push and a timeout and when notified *)

Drain(next) == wloc' = "responses" /\ then' = next

HandleNotification ==
    /\ wloc = "idle" /\ reader["worker"].notes > 0
    /\ Cleared("worker", 1)
    /\ Drain("idle")
    /\ UNCHANGED <<pid, openState, error, lastRequestId, olderRequests, newerRequests,
                   timeoutCheckScheduled, diskerVars, toDisker, toWorker, freePages, ghosts, bounds>>

\* The pending request with m's requestId, whoever asked
Matching(m) == {r \in Pending : r.id = m.id /\ openState = "open"}

\* Mutant: looks into one of the two maps only.
DequeueNewer(found) == newerRequests' = newerRequests \ found /\ UNCHANGED olderRequests

Dequeue(found) == olderRequests' = olderRequests \ found /\ newerRequests' = newerRequests \ found

\* Mutant: does not compare process ids.
Anybodys(m) == m.pid > 0

Mine(m) == m.pid = pid

\* Mutant: the page of a failed read is not put back.
CompleteIoOnSuccess(found, m) ==
    /\ completed' = completed \cup {r.serial : r \in found}
    /\ answered' = answered \cup {<<r.serial, m.serial>> : r \in found}
    /\ freePages' = freePages + IF found # {} /\ m.page /\ ~m.failed THEN 1 ELSE 0
    /\ error' = (error \/ (found # {} /\ m.failed))

\* completeIo(&ipcIo) of the found request
CompleteIo(found, m) ==
    /\ completed' = completed \cup {r.serial : r \in found}
    /\ answered' = answered \cup {<<r.serial, m.serial>> : r \in found}
    /\ freePages' = freePages + IF found # {} /\ m.page THEN 1 ELSE 0
    /\ error' = (error \/ (found # {} /\ m.failed))

HandleResponse ==
    /\ wloc = "responses" /\ toWorker # <<>>
    /\ toWorker' = Tail(toWorker)
    /\ Popped("worker", TRUE)
    /\ LET m == Head(toWorker)
       IN  /\ Dequeue(Matching(m))
           /\ CompleteIo({r \in Matching(m) : Mine(m)}, m)
           /\ late' = late \cup {n \in {m.serial} : Matching(m) = {} /\ Mine(m)}
    /\ UNCHANGED <<pid, openState, lastRequestId, timeoutCheckScheduled, wloc, then,
                   diskerVars, toDisker, serial, abandoned, bounds>>

NoMoreResponses ==
    /\ wloc = "responses" /\ toWorker = <<>>
    /\ Popped("worker", FALSE)
    /\ wloc' = then /\ then' = "idle"
    /\ UNCHANGED <<pid, openState, error, lastRequestId, olderRequests, newerRequests,
                   timeoutCheckScheduled, diskerVars, toDisker, toWorker, freePages, ghosts, bounds>>

(* Worker: read(), write() and push() *)

StartIo(cmd) ==
    /\ wloc = "idle" /\ openState = "open" /\ ~error /\ serial < RequestLimit
    /\ Drain(cmd)
    /\ UNCHANGED <<pid, openState, error, lastRequestId, olderRequests, newerRequests,
                   timeoutCheckScheduled, diskerVars, queueVars, freePages, ghosts, bounds>>

NextId == IF lastRequestId + 1 = IdLimit THEN 1 ELSE lastRequestId + 1

\* Mutant: trusts pendingRequests() to know how full the queue is.
PushFailsIfBusy(cmd) ==
    \/ cmd = "write" /\ freePages = 0
    \/ Cardinality(olderRequests) + Cardinality(newerRequests) >= QueueCapacity

\* A write without a page and a request to a full queue fail at once; so does
\* a request beyond the limit that protects the disker's responses.
PushFails(cmd) ==
    \/ cmd = "write" /\ freePages = 0
    \/ Cardinality(olderRequests) + Cardinality(newerRequests) >= QueueCapacity
    \/ Len(toDisker) = QueueCapacity

push(cmd) ==
    /\ wloc = cmd
    /\ wloc' = "idle"
    /\ serial' = serial + 1
    /\ lastRequestId' = NextId
    /\ IF PushFails(cmd)
       THEN /\ completed' = completed \cup {serial'}
            /\ UNCHANGED <<newerRequests, timeoutCheckScheduled, toDisker, reader, freePages>>
       ELSE /\ toDisker' = Append(toDisker, [id |-> NextId, serial |-> serial', cmd |-> cmd,
                                             pid |-> pid, page |-> cmd = "write", failed |-> FALSE])
            /\ Pushed("disker", toDisker = <<>>)
            /\ freePages' = freePages - IF cmd = "write" THEN 1 ELSE 0
            /\ newerRequests' = newerRequests \cup {[id |-> NextId, serial |-> serial', cmd |-> cmd]}
            /\ timeoutCheckScheduled' = TRUE
            /\ UNCHANGED completed
    /\ UNCHANGED <<pid, openState, error, olderRequests, then, diskerVars, toWorker,
                   late, answered, abandoned, bounds>>

(* Worker: CheckTimeouts() *)

CheckTimeouts ==
    /\ wloc = "idle" /\ timeoutCheckScheduled
    /\ timeoutCheckScheduled' = FALSE
    /\ Drain("expire")
    /\ UNCHANGED <<pid, openState, error, lastRequestId, olderRequests, newerRequests,
                   diskerVars, queueVars, freePages, ghosts, bounds>>

\* completeIo(nullptr) for each of olderRequests
AbandonOlder ==
    /\ completed' = completed \cup {r.serial : r \in olderRequests}
    /\ abandoned' = (abandoned \/ olderRequests # {})

\* Mutant: no check is scheduled for the requests that became old.
SwapMapsOnly ==
    /\ olderRequests' = newerRequests
    /\ newerRequests' = {}
    /\ timeoutCheckScheduled' = FALSE

SwapMaps ==
    /\ olderRequests' = newerRequests
    /\ newerRequests' = {}
    /\ timeoutCheckScheduled' = (newerRequests # {})

ExpireOlder ==
    /\ wloc = "expire"
    /\ wloc' = "idle"
    /\ AbandonOlder
    /\ SwapMaps
    /\ UNCHANGED <<pid, openState, error, lastRequestId, then, diskerVars, queueVars, freePages,
                   serial, late, answered, bounds>>

-----------------------------------------------------------------------------
(* Disker: DiskerHandleRequests() *)

DiskerGoto(l) == dloc' = l /\ UNCHANGED hand

DiskerAtStart ==
    /\ dloc = "start"
    /\ Cleared("disker", 0)
    /\ DiskerGoto("loop")
    /\ UNCHANGED <<workerVars, moreScheduled, moreEvents, toDisker, toWorker, freePages, ghosts, bounds>>

DiskerHandleNotification ==
    /\ dloc = "idle" /\ reader["disker"].notes > 0
    /\ Cleared("disker", 1)
    /\ DiskerGoto("loop")
    /\ UNCHANGED <<workerVars, moreScheduled, moreEvents, toDisker, toWorker, freePages, ghosts, bounds>>

DiskerHandleMoreRequests ==
    /\ dloc = "idle" /\ moreEvents > 0
    /\ moreScheduled' = FALSE /\ moreEvents' = moreEvents - 1
    /\ DiskerGoto("loop")
    /\ UNCHANGED <<workerVars, queueVars, freePages, ghosts, bounds>>

\* Mutant: the pause schedules no DiskerHandleMoreRequests().
PauseForever ==
    /\ dloc = "loop" /\ toDisker # <<>> /\ Head(toDisker).cmd = "write"
    /\ moreScheduled' = TRUE
    /\ DiskerGoto("idle")
    /\ UNCHANGED <<workerVars, moreEvents, queueVars, freePages, ghosts, bounds>>

\* The rate limit asks for a pause before the next write: no pop().
WaitBeforePop ==
    /\ dloc = "loop" /\ toDisker # <<>> /\ Head(toDisker).cmd = "write"
    /\ moreScheduled' = TRUE /\ moreEvents' = moreEvents + 1
    /\ DiskerGoto("idle")
    /\ UNCHANGED <<workerVars, queueVars, freePages, ghosts, bounds>>

DiskerPop ==
    /\ dloc = "loop"
    /\ Popped("disker", toDisker # <<>>)
    /\ IF toDisker = <<>>
       THEN dloc' = "idle" /\ UNCHANGED <<hand, toDisker>>
       ELSE dloc' = "io" /\ hand' = Head(toDisker) /\ toDisker' = Tail(toDisker)
    /\ UNCHANGED <<workerVars, moreScheduled, moreEvents, toWorker, freePages, ghosts, bounds>>

\* DiskerHandleRequest(): the I/O into or from a page, then the push of the response.
\* A write's page is free again when it was written; a read may find no page.
DiskerIo(failed) ==
    /\ dloc = "io"
    /\ LET gotPage == hand.cmd = "read" /\ freePages > 0
       IN  /\ hand' = [hand EXCEPT !.page = gotPage,
                                   !.failed = failed /\ (gotPage \/ hand.cmd = "write")]
           /\ freePages' = freePages + (IF hand.page THEN 1 ELSE 0) - (IF gotPage THEN 1 ELSE 0)
    /\ dloc' = "reply"
    /\ UNCHANGED <<workerVars, moreScheduled, moreEvents, queueVars, ghosts, bounds>>

\* A long loop pauses after the response.
DiskerReply(pause) ==
    /\ dloc = "reply"
    /\ IF Len(toWorker) = QueueCapacity
       THEN UNCHANGED <<toWorker, reader>>
       ELSE /\ toWorker' = Append(toWorker, hand)
            /\ Pushed("worker", toWorker = <<>>)
    /\ dloc' = (IF pause THEN "idle" ELSE "loop") /\ hand' = NoMsg
    /\ moreScheduled' = (moreScheduled \/ pause)
    /\ moreEvents' = moreEvents + IF pause /\ ~moreScheduled THEN 1 ELSE 0
    /\ UNCHANGED <<workerVars, toDisker, freePages, serial, completed, late, answered, abandoned,
                   bounds>>

-----------------------------------------------------------------------------
(* Kills and lost notifications *)

KillWorker ==
    /\ wkills < WorkerKills /\ wkills + dkills < KillLimit /\ wkills' = wkills + 1
    /\ pid' = pid + 1 /\ openState' = "closed" /\ error' = FALSE /\ lastRequestId' = 0
    /\ olderRequests' = {} /\ newerRequests' = {} /\ timeoutCheckScheduled' = FALSE
    /\ wloc' = "start" /\ then' = "idle"
    /\ late' = {}
    /\ Restarted("worker")
    /\ UNCHANGED <<diskerVars, toDisker, toWorker, freePages, serial, completed, 
                   answered, abandoned, dkills, lost>>

KillDisker ==
    /\ dkills < DiskerKills /\ wkills + dkills < KillLimit /\ dkills' = dkills + 1
    /\ dloc' = "start" /\ hand' = NoMsg /\ moreScheduled' = FALSE /\ moreEvents' = 0
    /\ Restarted("disker")
    /\ UNCHANGED <<workerVars, toDisker, toWorker, freePages, ghosts, wkills, lost>>

\* UdsSender gives up on a notification after its retries and its timeout.
LoseNotification(p) ==
    /\ lost < LossLimit /\ lost' = lost + 1
    /\ reader[p].notes > 0
    /\ reader' = [reader EXCEPT ![p].notes = @ - 1]
    /\ UNCHANGED <<workerVars, diskerVars, toDisker, toWorker, freePages, ghosts,
                   wkills, dkills>>

-----------------------------------------------------------------------------

WorkerStep == \/ HandleMessagesAtStart \/ HandleNotification \/ HandleResponse \/ NoMoreResponses
              \/ \E cmd \in Commands : push(cmd)
              \/ CheckTimeouts \/ ExpireOlder

DiskerStep == \/ DiskerAtStart \/ DiskerHandleNotification \/ DiskerHandleMoreRequests
              \/ WaitBeforePop \/ DiskerPop
              \/ \E failed \in BOOLEAN : DiskerIo(failed)
              \/ \E pause \in BOOLEAN : DiskerReply(pause)

Next == \/ WorkerStep \/ DiskerStep
        \/ \E answer \in {"open", "failed"} : OpenCompleted(answer)
        \/ \E cmd \in Commands : StartIo(cmd)
        \/ KillWorker \/ KillDisker
        \/ \E p \in {"worker", "disker"} : LoseNotification(p)

Spec == Init /\ [][Next]_vars

\* A worker keeps running its handlers and timeout events.  Nothing is assumed
\* of the disker: its I/O may take forever.
FairSpec == Spec /\ WF_vars(WorkerStep)

-----------------------------------------------------------------------------
(* Properties *)

Messages == [id : 1..(IdLimit - 1), serial : 1..RequestLimit, cmd : Commands,
             pid : 1..(WorkerKills + 1), page : BOOLEAN, failed : BOOLEAN]
Requests == [id : 1..(IdLimit - 1), serial : 1..RequestLimit, cmd : Commands]

\* Types, and no more than QueueCapacity messages in a queue (push()).
TypeOK ==
    /\ pid \in 1..(WorkerKills + 1)
    /\ openState \in {"closed", "waiting", "open", "failed"} /\ error \in BOOLEAN
    /\ lastRequestId \in 0..(IdLimit - 1)
    /\ olderRequests \subseteq Requests /\ newerRequests \subseteq Requests
    /\ timeoutCheckScheduled \in BOOLEAN
    /\ wloc \in {"start", "idle", "responses", "expire"} \cup Commands
    /\ then \in {"idle", "expire"} \cup Commands
    /\ dloc \in {"start", "idle", "loop", "io", "reply"} /\ hand \in Messages \cup {NoMsg}
    /\ moreScheduled \in BOOLEAN /\ moreEvents \in 0..(RequestLimit + 2)
    /\ \A q \in {toDisker, toWorker} : q \in Seq(Messages) /\ Len(q) <= QueueCapacity
    /\ reader \in [{"worker", "disker"} ->
                      [blocked : BOOLEAN, signal : BOOLEAN, notes : 0..(RequestLimit + 1)]]
    /\ freePages \in 0..PageCount
    /\ serial \in 0..RequestLimit
    /\ completed \subseteq 1..RequestLimit /\ late \subseteq 1..RequestLimit
    /\ answered \subseteq (1..RequestLimit) \X (1..RequestLimit)
    /\ abandoned \in BOOLEAN

PendingSerials == {r.serial : r \in Pending}

\* Every request of a worker that was not killed is waiting for its answer or had its
\* completeIo() call, and never both: one that timed out and is answered later is not
\* completed twice, one whose push failed is not forgotten
\* (push(), handleResponse(), checkTimeouts()).
EachCompletedOnce ==
    /\ PendingSerials \cap completed = {}
    /\ wkills = 0 => PendingSerials \cup completed = 1..serial

\* A response completes the request it answers, also when the worker that asked was
\* killed and its successor counts requestIds from 1 again, unless all ids were
\* used up between the two requests (handleResponse(), dequeueRequest()).
AnswersMatch ==
    \A a \in answered : a[1] # a[2] => a[1] - a[2] >= IdLimit - 1

\* A disker that waits has nothing to do, or something will wake it up: a scheduled
\* DiskerHandleMoreRequests() or a notification, unless one was lost
\* (DiskerHandleRequests(), WaitBeforePop(), HandleNotification()).
DiskerIsAwake ==
    dloc = "idle" /\ toDisker # <<>> /\ lost = 0 => moreEvents > 0 \/ reader["disker"].notes > 0

\* A worker that waits for a response has a timeout check scheduled, whatever happened
\* to notifications: no pending request depends on being notified
\* (trackPendingRequest(), checkTimeouts()).
TimeoutIsScheduled ==
    Pending # {} => timeoutCheckScheduled \/ "expire" \in {wloc, then}

PagesIn(q) == Cardinality({i \in DOMAIN q : q[i].page})
PagesSent == PagesIn(toDisker) + PagesIn(toWorker) + IF hand # NoMsg /\ hand.page THEN 1 ELSE 0

\* An I/O page is free or in a message, unless a request was abandoned or a process
\* killed (push(), diskerRead(), diskerWrite(), readCompleted()).
PagesAreReturned ==
    abandoned \/ wkills + dkills > 0 \/ PageCount - freePages = PagesSent

\* A response that finds no pending request answers one that was completed already
\* (handleResponse()).
LateMeansCompleted == late \subseteq completed

\* Every request is completed although the disker may be slow, stuck or killed and
\* notifications may be lost, unless the worker itself is killed (checkTimeouts()).
EveryRequestEnds ==
    \A n \in 1..RequestLimit : (n <= serial) ~> (n \in completed \/ wkills > 0)

=============================================================================
