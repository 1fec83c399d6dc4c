---------------------------- MODULE NodeRegistry ----------------------------
(***************************************************************************)
(* The registry of proxy nodes that the control plane keeps in Redis:      *)
(* nodeManager.js as it is called by the REST routes (registration,        *)
(* heartbeat, update, removal) and by the scheduler's health check.        *)
(*                                                                         *)
(* Every await gives way to the other handlers, so a step is one Redis     *)
(* command (or one ping) with the synchronous code that follows it.  A     *)
(* node has a record, node:<id>, and may be a member of nodes:active;      *)
(* nodes:load is written but never read and is left out.  The data of a    *)
(* record is its status, its health and the age of its last heartbeat, in  *)
(* ticks that saturate at SilentAge, the two minutes after which a node is *)
(* silent.                                                                 *)
(***************************************************************************)
EXTENDS Naturals

CONSTANTS Nodes,          \* identifiers of proxy nodes
          None,           \* no record
          SilentAge,      \* ticks without a heartbeat that make a node silent
          MaxEvents       \* bound on requests, outages and restarts together

(* A node that is heard in every tick is never silent. *)
ASSUME SilentAgeAssumption == SilentAge \in Nat \ {0, 1}

VARIABLES record,      \* node:<id>
          listed,      \* nodes:active
          machine,     \* how the node's machine is: up, busy, sick (no Squid) or cut off
          beat,        \* nodes that were heard, or heard of, since the last tick
          heartbeat,   \* the handler of each node's heartbeat
          check,       \* the health check
          request,     \* the handler of each node's registration
          admin,       \* the handler of an administrator's request
          events,      \* requests, outages and restarts so far
          removed,     \* nodes removed and not registered since (history)
          raced        \* those whose removal met other handlers (history)

vars == <<record, listed, machine, beat, heartbeat, check, request, admin,
          events, removed, raced>>

Idle == [pc |-> "idle"]

(* registerNode() describes every node as active, healthy and just heard. *)
Fresh == [status |-> "active", health |-> "healthy", age |-> 0]

Exists(n) == record[n] # None

Silent(r) == r.age = SilentAge

(* getAvailableNodes(), from which the load balancer picks *)
Available(n) == /\ n \in listed
                /\ Exists(n)
                /\ record[n].status = "active"
                /\ record[n].health = "healthy"

(* the fields of u replace those of r: Object.assign() *)
Assign(r, u) == [f \in DOMAIN r |-> IF f \in DOMAIN u THEN u[f] ELSE r[f]]

(* Somebody read n's record and is about to write it back, or is in the    *)
(* middle of registering n.                                                *)
BeingWritten(n) == \/ heartbeat[n].pc = "set"
                   \/ check.pc = "set" /\ check.node = n
                   \/ admin.pc = "set" /\ admin.node = n
                   \/ request[n].pc # "idle"

(* removeNode() is not done with n. *)
Removing(n) == admin.pc = "sRem" /\ admin.node = n

(* The health check under way saw n in the list and may list it again. *)
HeldByCheck(n) ==
    \/ check.pc = "read" /\ n \in check.ids \union DOMAIN check.copies
    \/ /\ check.pc \in {"check", "get", "set", "list"}
       /\ n \in DOMAIN check.copies
       /\ check.copies[n].status # "active"
    \/ /\ check.pc \in {"get", "set", "list"}
       /\ check.node = n
       /\ check.then = "sAdd"

(* The control plane starts with an empty Redis, or with one that kept the *)
(* nodes that registered before.                                           *)
Init == /\ listed \in {{}, Nodes}
        /\ record = [n \in Nodes |-> IF n \in listed THEN Fresh ELSE None]
        /\ machine = [n \in Nodes |-> "up"]
        /\ beat = {}
        /\ heartbeat = [n \in Nodes |-> Idle]
        /\ check = Idle
        /\ request = [n \in Nodes |-> Idle]
        /\ admin = Idle
        /\ events = 0
        /\ removed = {}
        /\ raced = {}

-----------------------------------------------------------------------------
(* Requests *)

Event == events < MaxEvents /\ events' = events + 1

(* registerNode(): the record is stored, then the node is listed. *)
RegisterNode(n) ==
    /\ machine[n] # "cut off"
    /\ request[n].pc = "idle"
    /\ Event
    /\ record' = [record EXCEPT ![n] = Fresh]
    /\ request' = [request EXCEPT ![n] = [pc |-> "sAdd"]]
    /\ removed' = removed \ {n}
    /\ UNCHANGED <<listed, machine, beat, heartbeat, check, admin, raced>>

ListRegistered(n) ==
    /\ request[n].pc = "sAdd"
    /\ listed' = listed \union {n}
    /\ request' = [request EXCEPT ![n] = Idle]
    /\ removed' = removed \ {n}
    /\ UNCHANGED <<record, machine, beat, heartbeat, check, admin, events, raced>>

(* removeNode(): the record is deleted, then the node is delisted. *)
RemoveNode(n) ==
    /\ admin.pc = "idle"
    /\ Event
    /\ record' = [record EXCEPT ![n] = None]
    /\ admin' = [pc |-> "sRem", node |-> n]
    /\ removed' = removed \union {n}
    /\ raced' = IF BeingWritten(n) THEN raced \union {n} ELSE raced \ {n}
    /\ UNCHANGED <<listed, machine, beat, heartbeat, check, request>>

(* Mutant: the node is not taken out of nodes:active. *)
DelistRemovedNot ==
    /\ admin.pc = "sRem"
    /\ raced' = {n \in raced : n # admin.node \/ HeldByCheck(n)}
    /\ admin' = Idle
    /\ UNCHANGED <<record, listed, machine, beat, heartbeat, check, request,
                   events, removed>>

DelistRemoved ==
    /\ admin.pc = "sRem"
    /\ listed' = listed \ {admin.node}
    /\ raced' = {n \in raced : n # admin.node \/ HeldByCheck(n)}
    /\ admin' = Idle
    /\ UNCHANGED <<record, machine, beat, heartbeat, check, request, events, removed>>

(* PUT /:id with a new status: updateNode() reads the record, and fails if *)
(* there is none, then writes it back with the new status.                 *)
UpdateStatus(n, status) ==
    /\ admin.pc = "idle"
    /\ Event
    /\ admin' = IF Exists(n)
                THEN [pc |-> "set", node |-> n,
                      new |-> [record[n] EXCEPT !.status = status]]
                ELSE Idle
    /\ UNCHANGED <<record, listed, machine, beat, heartbeat, check, request,
                   removed, raced>>

StoreStatus ==
    /\ admin.pc = "set"
    /\ record' = [record EXCEPT ![admin.node] = admin.new]
    /\ admin' = Idle
    /\ UNCHANGED <<listed, machine, beat, heartbeat, check, request, events,
                   removed, raced>>

-----------------------------------------------------------------------------
(* Heartbeats *)

(* updateHeartbeat() reads the record and refreshes its copy; without a    *)
(* record the heartbeat is refused.  What the agent of a busy or sick      *)
(* machine reports is not "healthy", and that is all anybody asks for.     *)
ReadForHeartbeat(n) ==
    /\ machine[n] # "cut off"
    /\ heartbeat[n].pc = "idle"
    /\ heartbeat' = [heartbeat EXCEPT ![n] =
           IF Exists(n)
           THEN [pc |-> "get",
                 new |-> [record[n] EXCEPT
                             !.age = 0,
                             !.health = IF machine[n] = "up" THEN "healthy"
                                                             ELSE "unhealthy"]]
           ELSE Idle]
    /\ beat' = IF Exists(n) THEN beat ELSE beat \union {n}
    /\ UNCHANGED <<record, listed, machine, check, request, admin, events,
                   removed, raced>>

(* updateNode() reads the record again, only to see that there is one: the *)
(* copy that updateHeartbeat() made has every field.                       *)
ReadAgain(n) ==
    /\ heartbeat[n].pc = "get"
    /\ heartbeat' = [heartbeat EXCEPT ![n] =
                        IF Exists(n) THEN [@ EXCEPT !.pc = "set"] ELSE Idle]
    /\ beat' = IF Exists(n) THEN beat ELSE beat \union {n}
    /\ UNCHANGED <<record, listed, machine, check, request, admin, events,
                   removed, raced>>

StoreHeartbeat(n) ==
    /\ heartbeat[n].pc = "set"
    /\ record' = [record EXCEPT ![n] = heartbeat[n].new]
    /\ heartbeat' = [heartbeat EXCEPT ![n] = Idle]
    /\ beat' = beat \union {n}
    /\ UNCHANGED <<listed, machine, check, request, admin, events, removed, raced>>

-----------------------------------------------------------------------------
(* The health check *)

(* The nodes of copies are still to be checked; runJob() clears "running"  *)
(* when the pass is over.                                                  *)
CheckOn(copies) == IF copies = <<>> THEN Idle
                   ELSE [pc |-> "check", copies |-> copies]

(* What the check uses of a record: its status, and whether it is silent. *)
Copy(r) == [status |-> r.status, silent |-> Silent(r)]

Without(copies, n) == [m \in DOMAIN copies \ {n} |-> copies[m]]

(* checkNodeHealth() starts with getAllNodes(): the members of the list,   *)
(* then the record of each.                                                *)
StartCheck ==
    /\ check.pc = "idle"
    /\ check' = IF listed = {} THEN Idle
                ELSE [pc |-> "read", ids |-> listed, copies |-> <<>>]
    /\ UNCHANGED <<record, listed, machine, beat, heartbeat, request, admin,
                   events, removed, raced>>

(* The ages count from the moment the last record is read, which is too    *)
(* soon after the first for a tick.                                        *)
ReadNode(n) ==
    /\ check.pc = "read"
    /\ n \in check.ids
    /\ LET copies == [m \in DOMAIN check.copies \union ({n} \intersect
                               {k \in Nodes : Exists(k)}) |->
                         IF m = n THEN Copy(record[n]) ELSE check.copies[m]]
       IN  check' = IF check.ids = {n} THEN CheckOn(copies)
                    ELSE [check EXCEPT !.ids = @ \ {n}, !.copies = copies]
    /\ UNCHANGED <<record, listed, machine, beat, heartbeat, request, admin,
                   events, removed, raced>>

(* updateNode() is to write updates; then the node is listed, delisted or  *)
(* left as it is.                                                          *)
UpdateNode(n, updates, then) ==
    [pc |-> "get", copies |-> Without(check.copies, n), node |-> n,
     new |-> updates, then |-> then]

(* Mutant: the node is dropped if it is already inactive. *)
JudgeSilentInverted(n) ==
    /\ check.pc = "check"
    /\ n \in DOMAIN check.copies
    /\ check.copies[n].silent
    /\ check' = IF check.copies[n].status # "active"
                THEN UpdateNode(n, [status |-> "inactive", health |-> "unhealthy"],
                                "sRem")
                ELSE CheckOn(Without(check.copies, n))
    /\ UNCHANGED <<record, listed, machine, beat, heartbeat, request, admin,
                   events, removed, raced>>

(* A node without heartbeat for two minutes is dropped if it was active. *)
JudgeSilent(n) ==
    /\ check.pc = "check"
    /\ n \in DOMAIN check.copies
    /\ check.copies[n].silent
    /\ check' = IF check.copies[n].status = "active"
                THEN UpdateNode(n, [status |-> "inactive", health |-> "unhealthy"],
                                "sRem")
                ELSE CheckOn(Without(check.copies, n))
    /\ UNCHANGED <<record, listed, machine, beat, heartbeat, request, admin,
                   events, removed, raced>>

(* Squid of a busy machine answers too. *)
Answers(n) == machine[n] \in {"up", "busy"}

(* Any other node is pinged: an inactive one that answers is activated, an *)
(* active one that does not is unhealthy.                                  *)
Ping(n) ==
    /\ check.pc = "check"
    /\ n \in DOMAIN check.copies
    /\ ~check.copies[n].silent
    /\ check' = CASE /\ Answers(n)
                     /\ check.copies[n].status # "active" ->
                        UpdateNode(n, [status |-> "active", health |-> "healthy"],
                                   "sAdd")
                  [] /\ ~Answers(n)
                     /\ check.copies[n].status = "active" ->
                        UpdateNode(n, [health |-> "unhealthy"], "next")
                  [] OTHER -> CheckOn(Without(check.copies, n))
    /\ UNCHANGED <<record, listed, machine, beat, heartbeat, request, admin,
                   events, removed, raced>>

(* Mutant: a failed update leaves the job marked as running. *)
ReadForCheckStuck ==
    /\ check.pc = "get"
    /\ check' = IF Exists(check.node)
                THEN [check EXCEPT !.pc = "set",
                                   !.new = Assign(record[check.node], @)]
                ELSE IF check.then = "sAdd" THEN CheckOn(check.copies)
                ELSE [pc |-> "failed"]
    /\ UNCHANGED <<record, listed, machine, beat, heartbeat, request, admin,
                   events, removed, raced>>

(* updateNode() fails if the record is gone.  The handler of a failed ping *)
(* catches that when a node was to be activated; otherwise the rest of the *)
(* pass is lost.                                                           *)
ReadForCheck ==
    /\ check.pc = "get"
    /\ check' = IF Exists(check.node)
                THEN [check EXCEPT !.pc = "set",
                                   !.new = Assign(record[check.node], @)]
                ELSE IF check.then = "sAdd" THEN CheckOn(check.copies)
                ELSE Idle
    /\ UNCHANGED <<record, listed, machine, beat, heartbeat, request, admin,
                   events, removed, raced>>

StoreVerdict ==
    /\ check.pc = "set"
    /\ record' = [record EXCEPT ![check.node] = check.new]
    /\ check' = IF check.then = "next" THEN CheckOn(check.copies)
                ELSE [pc |-> "list", copies |-> check.copies, node |-> check.node,
                      then |-> check.then]
    /\ UNCHANGED <<listed, machine, beat, heartbeat, request, admin, events,
                   removed, raced>>

ListVerdict ==
    /\ check.pc = "list"
    /\ listed' = IF check.then = "sAdd" THEN listed \union {check.node}
                                        ELSE listed \ {check.node}
    /\ check' = CheckOn(check.copies)
    /\ UNCHANGED <<record, machine, beat, heartbeat, request, admin, events,
                   removed, raced>>

-----------------------------------------------------------------------------
(* The environment *)

(* A machine gets too much load, its Squid stops, or it is cut off from    *)
(* the network.                                                            *)
Worsen(n, how) ==
    /\ machine[n] # how
    /\ machine[n] # "cut off"
    /\ how # "up"
    /\ Event
    /\ machine' = [machine EXCEPT ![n] = how]
    /\ UNCHANGED <<record, listed, beat, heartbeat, check, request, admin,
                   removed, raced>>

Recover(n) ==
    /\ machine[n] # "up"
    /\ machine' = [machine EXCEPT ![n] = "up"]
    /\ UNCHANGED <<record, listed, beat, heartbeat, check, request, admin,
                   events, removed, raced>>

(* Time passes.  A tick is longer than the 30 seconds between heartbeats,  *)
(* so a machine that is not cut off is heard before the next one, and far  *)
(* longer than a handler waits for Redis: only a ping may last into it.    *)
Older(r) == IF Silent(r) THEN r ELSE [r EXCEPT !.age = @ + 1]

Tick ==
    /\ admin.pc = "idle"
    /\ check.pc \in {"idle", "check"}
    /\ \A n \in Nodes : /\ machine[n] = "cut off" \/ n \in beat
                        /\ heartbeat[n].pc = "idle"
                        /\ request[n].pc = "idle"
    /\ beat' = {}
    /\ record' = [n \in Nodes |-> IF Exists(n) THEN Older(record[n]) ELSE None]
    /\ UNCHANGED <<listed, machine, heartbeat, check, request, admin, events,
                   removed, raced>>

(* The control plane is stopped and started: Redis keeps the registry, the *)
(* handlers under way are gone.                                            *)
Restart ==
    /\ Event
    /\ heartbeat' = [n \in Nodes |-> Idle]
    /\ check' = Idle
    /\ request' = [n \in Nodes |-> Idle]
    /\ admin' = Idle
    /\ removed' = {n \in removed : ~Removing(n)}
    /\ UNCHANGED <<record, listed, machine, beat, raced>>

-----------------------------------------------------------------------------
Heartbeat(n) == ReadForHeartbeat(n) \/ ReadAgain(n) \/ StoreHeartbeat(n)

Judge(n) == ReadNode(n) \/ JudgeSilent(n) \/ Ping(n)

CheckNodeHealth == \/ StartCheck \/ ReadForCheck \/ StoreVerdict \/ ListVerdict
                   \/ \E n \in Nodes : Judge(n)

Next == \/ \E n \in Nodes : \/ RegisterNode(n) \/ ListRegistered(n)
                            \/ RemoveNode(n) \/ Recover(n) \/ Heartbeat(n)
                            \/ \E s \in {"active", "inactive"} : UpdateStatus(n, s)
                            \/ \E how \in {"busy", "sick", "cut off"} : Worsen(n, how)
        \/ DelistRemoved \/ StoreStatus
        \/ CheckNodeHealth
        \/ Tick \/ Restart

(* Handlers under way go on, the scheduler starts the health check again   *)
(* and again, the agents of machines that are not cut off send heartbeats, *)
(* and time passes whatever the handlers do (SF: a tick has to wait for    *)
(* them).  Nobody is obliged to send a request or to recover.              *)
Fairness == /\ WF_vars(CheckNodeHealth)
            /\ SF_vars(Tick)
            /\ WF_vars(DelistRemoved \/ StoreStatus)
            /\ \A n \in Nodes : WF_vars(Heartbeat(n)) /\ WF_vars(ListRegistered(n))

Spec == Init /\ [][Next]_vars /\ Fairness

-----------------------------------------------------------------------------
(* A node that an administrator removed, and that did not register again,  *)
(* gets no more clients, although heartbeats, updates and the health check *)
(* read its record before the removal and write it back after it.  Only    *)
(* when one of them was about to bring the record back, and besides the    *)
(* node is not delisted yet or the health check was about to activate it,  *)
(* may it be used.  A removal that a restart of the control plane cuts     *)
(* short is not meant: its administrator got no answer.                    *)
RemovedNodeReturnsOnlyByRace ==
    \A n \in removed : Available(n) => n \in raced

(* A node that is cut off for good ends up unavailable for good, whatever  *)
(* late heartbeats, aborted passes and restarts come between.              *)
SilentNodeIsDropped ==
    \A n \in Nodes : <>[](machine[n] = "cut off") => <>[]~Available(n)

(* A node that is up and stays in the list, with a record, becomes         *)
(* available for good: lost updates, passes aborted because a node was     *)
(* removed and restarts between the two writes of a verdict leave nothing  *)
(* behind that the next heartbeats and passes do not put right, unless the *)
(* health check and the node's heartbeats go on overwriting each other's   *)
(* records forever.                                                        *)
ListedNodeRecovers ==
    \A n \in Nodes :
        /\ <>[](machine[n] = "up" /\ n \in listed /\ Exists(n))
        /\ <>[]~(check.pc = "set" /\ check.node = n /\ heartbeat[n].pc # "idle")
        => <>[]Available(n)

(* A node that was available, is never removed, and is up again for good   *)
(* with its heartbeats accepted, is used again.  checkNodeHealth() means   *)
(* it to be: it has a branch for inactive nodes that answer.               *)
HeartbeatingNodeReturns ==
    \A n \in Nodes :
        /\ <>Available(n) /\ [](n \notin removed)
        /\ <>[](machine[n] = "up" /\ Exists(n))
        => []<>Available(n)
=============================================================================
