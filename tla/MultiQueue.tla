------------------------------ MODULE MultiQueue ------------------------------
(***************************************************************************)
(* The lockless shared-memory queues between Squid kids (ipc/Queue.h) as   *)
(* CollapsedForwarding uses them: every writer process has a fixed-capacity *)
(* OneToOneUniQueue to the reader, all the queues of a reader share one     *)
(* QueueReader, and a writer wakes a blocked reader up with an out-of-band  *)
(* UDS datagram, which may be lost.  One reader and its writers are         *)
(* modelled; the queues to another reader share no state with these.        *)
(*                                                                          *)
(* One action is one access to a shared atomic, with the process-local work *)
(* that goes with it.  The item a writer pushes is the index it is pushed   *)
(* at.                                                                      *)
(***************************************************************************)
EXTENDS Integers, FiniteSets

CONSTANTS
    WriterCount,  \* remotesCount(): the writers are processes 1..WriterCount
    Capacity,     \* theCapacity of every queue
    IndexLimit,   \* theIn and theOut wrap around at this value (2^32 in C++)
    ReaderCrash,  \* where the reader may be killed (a set of rpc values)
    WriterCrash,  \* where a writer may be killed (a set of pc values)
    RestartLimit, \* bound on the number of kills
    PopLimit,     \* SQUID_MAXFD: HandleNewData() asserts that it pops less
    RetryLimit    \* bound on the datagrams still retried after that assertion failed

Writers == 1..WriterCount

\* The capacities in use (1024) divide 2^32: theIn % theCapacity survives the
\* wrap-around of theIn.
ASSUME QueueAssumption ==
    /\ WriterCount \in Nat \ {0} /\ Capacity \in Nat \ {0}
    /\ IndexLimit \in Nat \ {0} /\ IndexLimit > Capacity /\ IndexLimit % Capacity = 0
    /\ RestartLimit \in Nat /\ RetryLimit \in Nat /\ PopLimit \in Nat \ {0}

VARIABLES
    theIn, theOut, theSize, \* per writer: OneToOneUniQueue members
    theBuffer,              \* per writer: the item in each slot
    popBlocked, popSignal,  \* QueueReader
    notes,                  \* notifications sent to the reader, not yet received
    pc,                     \* per writer: its next access inside push(), or "idle"
    rpc,                    \* the reader's next access, or "idle" (in the main loop)
    theLastPopProcessId,    \* the writer the reader visited last
    tries,                  \* iterations of the current BaseMultiQueue::pop() loop
    poppedCount,            \* items the current HandleNewData() call has popped
    restarts,               \* number of killed processes
    lost                    \* history: a notification was given up, or its sender
                            \* killed, since the reader last cleared the signal

queueVars == <<theIn, theOut, theSize, theBuffer>>
writerVars == pc
readerVars == <<rpc, theLastPopProcessId, tries, poppedCount>>
vars == <<queueVars, popBlocked, popSignal, notes, writerVars, readerVars, restarts, lost>>

PushAccess == {"size", "blocked", "signal"}
\* A writer that has counted its item and may still have to notify the reader
Notifying == {"blocked", "signal"}
PopAccess == {"start", "clear", "next", "block", "recheck", "unblock", "copy", "drop"}

Slot(index) == index % Capacity
\* Mutant of NextIndex: the indices wrap where the capacity does not divide.
NextIndexUnaligned(index) == (index + 1) % (IndexLimit - 1)

NextIndex(index) == (index + 1) % IndexLimit

\* A new process: theLastPopProcessId is such that the first pop() starts with
\* the first writer.
ReaderStart ==
    rpc = "start" /\ theLastPopProcessId = WriterCount /\ tries = 0 /\ poppedCount = 0

\* What a slot holds before its first item is never read; it looks like an item
\* of the lap before.
Init ==
    /\ theIn = [w \in Writers |-> 0] /\ theOut = [w \in Writers |-> 0]
    /\ theSize = [w \in Writers |-> 0]
    /\ theBuffer = [w \in Writers |-> [s \in 0..Capacity - 1 |-> IndexLimit - Capacity + s]]
    /\ popBlocked = FALSE /\ popSignal = FALSE
    /\ notes = 0 /\ restarts = 0 /\ lost = FALSE
    /\ pc = [w \in Writers |-> "idle"]
    /\ ReaderStart

-----------------------------------------------------------------------------
(* push() and the notification by its caller *)

WriterGoto(w, l) == pc' = [pc EXCEPT ![w] = l]

\* theIn and the slot it points to are the writer's own.
WriteItem(w) ==
    /\ theBuffer' = [theBuffer EXCEPT ![w][Slot(theIn[w])] = theIn[w]]
    /\ theIn' = [theIn EXCEPT ![w] = NextIndex(@)]

\* Mutant of Push: the full() check is missing.
PushUnchecked(w) ==
    /\ pc[w] = "idle"
    /\ WriteItem(w)
    /\ WriterGoto(w, "size")
    /\ UNCHANGED <<theOut, theSize, popBlocked, popSignal, notes, readerVars, restarts, lost>>

\* The push() of an item into a full queue throws Full: the caller reports the
\* overflow and the item is not queued.  Only the other case is a step.
Push(w) ==
    /\ pc[w] = "idle"
    /\ theSize[w] # Capacity
    /\ WriteItem(w)
    /\ WriterGoto(w, "size")
    /\ UNCHANGED <<theOut, theSize, popBlocked, popSignal, notes, readerVars, restarts, lost>>

\* wasEmpty = !theSize++
GrowSize(w) ==
    /\ pc[w] = "size"
    /\ theSize' = [theSize EXCEPT ![w] = @ + 1]
    /\ WriterGoto(w, IF theSize[w] = 0 THEN "blocked" ELSE "idle")
    /\ UNCHANGED <<theIn, theOut, theBuffer, popBlocked, popSignal, notes, readerVars,
                   restarts, lost>>

CheckBlocked(w) ==
    /\ pc[w] = "blocked"
    /\ WriterGoto(w, IF popBlocked THEN "signal" ELSE "idle")
    /\ UNCHANGED <<queueVars, popBlocked, popSignal, notes, readerVars, restarts, lost>>

\* SendMessage() starts a UdsSender, which writes and retries on its own.
Notify == notes' = notes + 1

\* !popSignal.exchange(true); the writer that raised the signal notifies.
RaiseSignal(w) ==
    /\ pc[w] = "signal"
    /\ popSignal' = TRUE
    /\ \/ popSignal /\ UNCHANGED notes
       \/ ~popSignal /\ Notify
    /\ WriterGoto(w, "idle")
    /\ UNCHANGED <<queueVars, popBlocked, readerVars, restarts, lost>>

\* The UdsSender runs out of retries or times out, or its process is killed
\* before it is done; popSignal stays raised.
GiveUp ==
    /\ notes > 0
    /\ notes' = notes - 1
    /\ lost' = TRUE
    /\ UNCHANGED <<queueVars, popBlocked, popSignal, writerVars, readerVars, restarts>>

-----------------------------------------------------------------------------
(* HandleNewDataAtStart(), HandleNotification() and HandleNewData() *)

ReaderGoto(l) == rpc' = l /\ UNCHANGED <<theLastPopProcessId, tries, poppedCount>>

\* A started process and one that receives a notification call clearSignal(),
\* which unblocks first.
Wake(newNotes) ==
    /\ notes' = newNotes
    /\ popBlocked' = FALSE
    /\ ReaderGoto("clear")
    /\ UNCHANGED <<queueVars, popSignal, writerVars, restarts, lost>>

HandleNewDataAtStart == rpc = "start" /\ Wake(notes)

HandleNotification == rpc = "idle" /\ notes > 0 /\ Wake(notes - 1)

ClearSignal ==
    /\ rpc = "clear"
    /\ popSignal' = FALSE
    /\ lost' = FALSE
    /\ rpc' = "next" /\ tries' = 0
    /\ UNCHANGED <<queueVars, popBlocked, notes, writerVars, theLastPopProcessId, poppedCount,
                   restarts>>

\* Mutant of TryQueue: every pop() starts with the first queue.
TryQueueInOrder ==
    /\ rpc = "next" /\ tries < WriterCount
    /\ theLastPopProcessId' = tries + 1
    /\ tries' = tries + 1
    /\ rpc' = IF theSize[theLastPopProcessId'] = 0 THEN "block" ELSE "unblock"
    /\ UNCHANGED <<queueVars, popBlocked, popSignal, notes, writerVars, poppedCount,
                   restarts, lost>>

\* BaseMultiQueue::pop() turns to the next queue, whose pop() tests empty().
TryQueue ==
    /\ rpc = "next" /\ tries < WriterCount
    /\ theLastPopProcessId' = (theLastPopProcessId % WriterCount) + 1
    /\ tries' = tries + 1
    /\ rpc' = IF theSize[theLastPopProcessId'] = 0 THEN "block" ELSE "unblock"
    /\ UNCHANGED <<queueVars, popBlocked, popSignal, notes, writerVars, poppedCount,
                   restarts, lost>>

Block ==
    /\ rpc = "block"
    /\ popBlocked' = TRUE
    /\ ReaderGoto("recheck")
    /\ UNCHANGED <<queueVars, popSignal, notes, writerVars, restarts, lost>>

\* Mutant of Recheck: an item pushed before block() is not noticed.
RecheckNothing ==
    /\ rpc = "recheck"
    /\ ReaderGoto("next")
    /\ UNCHANGED <<queueVars, popBlocked, popSignal, notes, writerVars, restarts, lost>>

Recheck ==
    /\ rpc = "recheck"
    /\ ReaderGoto(IF theSize[theLastPopProcessId] = 0 THEN "next" ELSE "unblock")
    /\ UNCHANGED <<queueVars, popBlocked, popSignal, notes, writerVars, restarts, lost>>

Unblock ==
    /\ rpc = "unblock"
    /\ popBlocked' = FALSE
    /\ ReaderGoto("copy")
    /\ UNCHANGED <<queueVars, popSignal, notes, writerVars, restarts, lost>>

\* Mutant of CopyItem: theOut stays.
CopyKeepsOut ==
    /\ rpc = "copy"
    /\ ReaderGoto("drop")
    /\ UNCHANGED <<queueVars, popBlocked, popSignal, notes, writerVars, restarts, lost>>

CopyItem ==
    /\ rpc = "copy"
    /\ theOut' = [theOut EXCEPT ![theLastPopProcessId] = NextIndex(@)]
    /\ ReaderGoto("drop")
    /\ UNCHANGED <<theIn, theSize, theBuffer, popBlocked, popSignal, notes, writerVars,
                   restarts, lost>>

TakeItem ==
    /\ rpc = "drop"
    /\ theSize' = [theSize EXCEPT ![theLastPopProcessId] = @ - 1]
    /\ UNCHANGED <<theIn, theOut, theBuffer, popBlocked, popSignal, writerVars, restarts, lost>>

\* A new kid process takes the reader's place.  The datagrams waiting in the
\* socket of the old one may be lost; those a UdsSender still retries reach the
\* new one.
Restart ==
    /\ rpc' = "start" /\ theLastPopProcessId' = WriterCount /\ tries' = 0 /\ poppedCount' = 0
    /\ notes' \in 0..notes

\* pop() returns true; HandleNewData() handles the item, counts it and pops again.
DropItem ==
    /\ TakeItem
    /\ poppedCount + 1 < PopLimit
    /\ poppedCount' = poppedCount + 1
    /\ rpc' = "next" /\ tries' = 0
    /\ UNCHANGED <<notes, theLastPopProcessId>>

\* assert(poppedCount < SQUID_MAXFD) fails and ends the process.  The master
\* restarts it, at the latest after hopeless_kid_revival_delay; datagrams beyond
\* RetryLimit were in the socket and are lost with it.
PopTooMany ==
    /\ TakeItem
    /\ poppedCount + 1 >= PopLimit
    /\ Restart /\ notes' <= RetryLimit

\* No process had anything to pop: HandleNewData() ends.
PopFailed ==
    /\ rpc = "next" /\ tries = WriterCount
    /\ rpc' = "idle" /\ poppedCount' = 0
    /\ UNCHANGED <<queueVars, popBlocked, popSignal, notes, writerVars, theLastPopProcessId, tries,
                   restarts, lost>>

-----------------------------------------------------------------------------
(* Kills.  The shared memory survives; a new kid process takes over.          *)

KillReader ==
    /\ rpc \in ReaderCrash /\ restarts < RestartLimit
    /\ restarts' = restarts + 1
    /\ Restart
    /\ UNCHANGED <<queueVars, popBlocked, popSignal, writerVars, lost>>

KillWriter(w) ==
    /\ pc[w] \in WriterCrash /\ restarts < RestartLimit
    /\ restarts' = restarts + 1
    /\ lost' = (lost \/ pc[w] \in Notifying)
    /\ WriterGoto(w, "idle")
    /\ UNCHANGED <<queueVars, popBlocked, popSignal, notes, readerVars>>

-----------------------------------------------------------------------------

PushStep(w) == GrowSize(w) \/ CheckBlocked(w) \/ RaiseSignal(w)

ReaderStep == \/ HandleNewDataAtStart \/ HandleNotification \/ ClearSignal \/ TryQueue
              \/ Block \/ Recheck \/ Unblock \/ CopyItem \/ DropItem \/ PopTooMany
              \/ PopFailed

Next == \/ ReaderStep \/ KillReader \/ GiveUp
        \/ \E w \in Writers : Push(w) \/ PushStep(w) \/ KillWriter(w)

Spec == Init /\ [][Next]_vars

\* A running process executes its code, and a kid handles the datagrams it gets.
\* Nothing makes a process push.
FairSpec == Spec /\ WF_vars(ReaderStep) /\ \A w \in Writers : WF_vars(PushStep(w))

-----------------------------------------------------------------------------
(* Properties *)

TypeOK ==
    /\ theIn \in [Writers -> 0..IndexLimit - 1] /\ theOut \in [Writers -> 0..IndexLimit - 1]
    /\ theSize \in [Writers -> 0..Capacity]
    /\ theBuffer \in [Writers -> [0..Capacity - 1 -> 0..IndexLimit - 1]]
    /\ popBlocked \in BOOLEAN /\ popSignal \in BOOLEAN
    /\ notes \in Nat /\ restarts \in 0..RestartLimit
    /\ pc \in [Writers -> PushAccess \cup {"idle"}]
    /\ rpc \in PopAccess \cup {"idle"}
    /\ theLastPopProcessId \in Writers /\ tries \in 0..WriterCount
    /\ poppedCount \in 0..PopLimit - 1 /\ lost \in BOOLEAN

\* The item the reader copies is the one that was pushed at that index: no item
\* is lost, duplicated, reordered or overwritten while it waits, also after the
\* indices wrap around.
PopsWhatWasPushed ==
    rpc = "copy" => LET w == theLastPopProcessId
                    IN  theBuffer[w][Slot(theOut[w])] = theOut[w]

\* A reader that went back to its main loop with items queued is on its way to
\* be notified of them, unless the sender of a notification gave up or was killed
\* and left the signal raised or the reader asleep.
NoLostWakeup ==
    rpc = "idle" /\ (\E w \in Writers : theSize[w] > 0) =>
        notes > 0 \/ lost \/ \E w \in Writers : pc[w] \in Notifying

\* Every queue that has items gets served, even if the other writers never stop
\* pushing and so make HandleNewData() fail its assertion again and again, and
\* even if the reader is killed and restarted meanwhile.  Only a notification
\* that does not arrive lets it wait.
EveryQueueIsServed ==
    \A w \in Writers : theSize[w] > 0 ~> (rpc = "drop" /\ theLastPopProcessId = w) \/ lost

-----------------------------------------------------------------------------
(* The ring buffers implement bounded FIFO channels: an item is in the channel *)
(* from the increment of theSize in push() to the decrement in pop().          *)

First(w) == IF rpc = "drop" /\ theLastPopProcessId = w
            THEN (theOut[w] + IndexLimit - 1) % IndexLimit ELSE theOut[w]

Queued(w) == [k \in 1..theSize[w] |-> theBuffer[w][Slot(First(w) + k - 1)]]
Queues == [w \in Writers |-> Queued(w)]

Channels == INSTANCE FifoChannels WITH Items <- 0..IndexLimit - 1, chan <- Queues

\* Every step appends an item at the end of a channel that has room, takes the
\* first item of a channel, or changes no channel.
ImplementsChannels == Channels!Spec
=============================================================================
