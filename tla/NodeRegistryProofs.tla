------------------------- MODULE NodeRegistryProofs -------------------------
(***************************************************************************)
(* Theorems about NodeRegistry, for any nodes, any time until a node is    *)
(* silent and any number of requests, outages and restarts.                *)
(***************************************************************************)
EXTENDS NodeRegistry, TLAPS

-----------------------------------------------------------------------------
(* The inductive invariant *)

Statuses == {"active", "inactive"}
Healths == {"healthy", "unhealthy"}
Records == [status : Statuses, health : Healths, age : 0..SilentAge]
Updates == [status : Statuses, health : Healths] \cup [health : Healths]

(* copies of the records of some nodes *)
Copies == UNION {[S -> [status : Statuses, silent : BOOLEAN]] : S \in SUBSET Nodes}

Checks ==
    {Idle} \cup [pc : {"read"}, ids : SUBSET Nodes, copies : Copies]
           \cup [pc : {"check"}, copies : Copies]
           \cup [pc : {"get"}, copies : Copies, node : Nodes, new : Updates,
                 then : {"sAdd", "sRem", "next"}]
           \cup [pc : {"set"}, copies : Copies, node : Nodes, new : Records,
                 then : {"sAdd", "sRem", "next"}]
           \cup [pc : {"list"}, copies : Copies, node : Nodes, then : {"sAdd", "sRem"}]

Admins == {Idle} \cup [pc : {"sRem"}, node : Nodes]
                 \cup [pc : {"set"}, node : Nodes, new : Records]

Beats == {Idle} \cup [pc : {"get", "set"}, new : Records]

(* The nodes that the check has still to read are none it has read. *)
ReadOnce == check.pc = "read" => check.ids \cap DOMAIN check.copies = {}

TypeOK ==
    /\ record \in [Nodes -> Records \cup {None}]
    /\ listed \subseteq Nodes
    /\ machine \in [Nodes -> {"up", "busy", "sick", "cut off"}]
    /\ beat \subseteq Nodes
    /\ heartbeat \in [Nodes -> Beats]
    /\ check \in Checks /\ ReadOnce
    /\ request \in [Nodes -> [pc : {"idle", "sAdd"}]]
    /\ admin \in Admins
    /\ events \in Nat
    /\ removed \subseteq Nodes /\ raced \subseteq Nodes

(* Nobody will store a record of n unless one is found first. *)
Gone(n) == ~Exists(n) /\ ~BeingWritten(n)

(* Nobody will list n unless it is found in the list first. *)
Out(n) == n \notin listed /\ ~HeldByCheck(n)

(* A removed node lacks a record or a place in the list, and has nobody to *)
(* bring it back, unless its removal met other handlers.                   *)
StaysAway == \A n \in removed : n \in raced \/ Gone(n) \/ Out(n)

-----------------------------------------------------------------------------
(* The health check *)

(* No copies are copies of no nodes. *)
LEMMA NoCopies == <<>> \in Copies /\ DOMAIN <<>> = {}
<1>1. DOMAIN <<>> = {}
    OBVIOUS
<1>2. <<>> \in [{} -> [status : Statuses, silent : BOOLEAN]]
    BY <1>1
<1> QED
    BY <1>1, <1>2 DEF Copies

(* Copies are a function on some of the nodes. *)
LEMMA CopiesFacts ==
    ASSUME NEW c \in Copies
    PROVE  /\ DOMAIN c \subseteq Nodes
           /\ \A n \in DOMAIN c : c[n].status \in Statuses /\ c[n].silent \in BOOLEAN
           /\ \A n : Without(c, n) \in Copies /\ DOMAIN Without(c, n) = DOMAIN c \ {n}
           /\ \A n : \A m \in DOMAIN c \ {n} : Without(c, n)[m] = c[m]
<1>1. PICK S \in SUBSET Nodes : c \in [S -> [status : Statuses, silent : BOOLEAN]]
    BY DEF Copies
<1>2. ASSUME NEW n PROVE Without(c, n) \in Copies
  <2>1. Without(c, n) \in [S \ {n} -> [status : Statuses, silent : BOOLEAN]]
      BY <1>1 DEF Without
  <2> QED
      BY <2>1 DEF Copies
<1> QED
    BY <1>1, <1>2 DEF Without

(* CheckOn() goes on with the copies, or ends the pass. *)
LEMMA CheckOnType ==
    ASSUME NEW c \in Copies
    PROVE  /\ CheckOn(c) \in Checks
           /\ \/ CheckOn(c).pc = "idle"
              \/ CheckOn(c).pc = "check" /\ CheckOn(c).copies = c
BY DEF CheckOn, Checks, Idle

(* What each place of the check comes with. *)
LEMMA CheckPlaces ==
    ASSUME check \in Checks
    PROVE  /\ check.pc = "read" =>
                 check \in [pc : {"read"}, ids : SUBSET Nodes, copies : Copies]
           /\ check.pc = "check" => check \in [pc : {"check"}, copies : Copies]
           /\ check.pc = "get" =>
                 check \in [pc : {"get"}, copies : Copies, node : Nodes, new : Updates,
                            then : {"sAdd", "sRem", "next"}]
           /\ check.pc = "set" =>
                 check \in [pc : {"set"}, copies : Copies, node : Nodes, new : Records,
                            then : {"sAdd", "sRem", "next"}]
           /\ check.pc = "list" =>
                 check \in [pc : {"list"}, copies : Copies, node : Nodes, then : {"sAdd", "sRem"}]
           /\ check.pc \in {"idle", "read", "check", "get", "set", "list"}
BY DEF Checks, Idle

(* A record with some fields replaced is a record. *)
LEMMA AssignType ==
    ASSUME NEW r \in Records, NEW u \in Updates PROVE Assign(r, u) \in Records
<1>1. DOMAIN r = {"status", "health", "age"}
    BY DEF Records
<1>2. \/ DOMAIN u = {"status", "health"} /\ u["status"] \in Statuses /\ u["health"] \in Healths
      \/ DOMAIN u = {"health"} /\ u["health"] \in Healths
    BY DEF Updates
<1>3. r["status"] \in Statuses /\ r["health"] \in Healths /\ r["age"] \in 0..SilentAge
    BY DEF Records
<1>4. PICK s \in Statuses, h \in Healths, a \in 0..SilentAge :
          Assign(r, u) = [f \in {"status", "health", "age"} |->
                             IF f = "status" THEN s ELSE IF f = "health" THEN h ELSE a]
    BY <1>1, <1>2, <1>3 DEF Assign
<1>5. Assign(r, u) = [status |-> s, health |-> h, age |-> a]
    BY <1>4
<1> QED
    BY <1>5 DEF Records

(* What a step of the health check may do: copies become fewer, except     *)
(* while the records of listed nodes are read, and what it decides to list *)
(* was in a copy.                                                          *)
LEMMA CheckSteps ==
    ASSUME TypeOK,
           \/ StartCheck \/ ReadForCheck \/ StoreVerdict \/ ListVerdict
           \/ \E n \in Nodes : Judge(n)
    PROVE  /\ check' \in Checks /\ ReadOnce'
           /\ \A n \in Nodes : Out(n) => ~HeldByCheck(n)'
<1> USE DEF Out, ReadOnce
<1>1. CASE StartCheck
  <2>1. CASE listed = {}
      BY <1>1, <2>1 DEF StartCheck, Checks, Idle, HeldByCheck
  <2>2. CASE listed # {}
    <3>1. check' = [pc |-> "read", ids |-> listed, copies |-> <<>>]
        BY <1>1, <2>2 DEF StartCheck
    <3>2. check' \in Checks /\ ReadOnce'
        BY <3>1, NoCopies DEF TypeOK, Checks
    <3>3. ASSUME NEW n \in Nodes, n \notin listed PROVE ~HeldByCheck(n)'
        BY <3>1, <3>3, NoCopies DEF HeldByCheck
    <3> QED
        BY <3>2, <3>3
  <2> QED
      BY <2>1, <2>2
<1>2. ASSUME NEW k \in Nodes, ReadNode(k)
      PROVE  check' \in Checks /\ ReadOnce' /\ \A n \in Nodes : Out(n) => ~HeldByCheck(n)'
  <2> DEFINE copies == [m \in DOMAIN check.copies \union ({k} \intersect {j \in Nodes : Exists(j)}) |->
                           IF m = k THEN Copy(record[k]) ELSE check.copies[m]]
  <2>1. /\ check \in [pc : {"read"}, ids : SUBSET Nodes, copies : Copies]
        /\ check.pc = "read" /\ k \in check.ids /\ k \notin DOMAIN check.copies
      BY <1>2, CheckPlaces DEF ReadNode, TypeOK
  <2>2. check' = IF check.ids = {k} THEN CheckOn(copies)
                 ELSE [check EXCEPT !.ids = @ \ {k}, !.copies = copies]
      BY <1>2 DEF ReadNode
  <2>3. DOMAIN copies \subseteq DOMAIN check.copies \cup {k}
      OBVIOUS
  <2>4. copies \in Copies
    <3>1. PICK S \in SUBSET Nodes : check.copies \in [S -> [status : Statuses, silent : BOOLEAN]]
        BY <2>1 DEF Copies
    <3>2. Exists(k) => Copy(record[k]) \in [status : Statuses, silent : BOOLEAN]
      <4>1. Exists(k) => record[k] \in Records
          BY DEF TypeOK, Exists
      <4>2. Exists(k) => record[k].status \in Statuses
          BY <4>1 DEF Records
      <4>3. Silent(record[k]) \in BOOLEAN
          BY DEF Silent
      <4> QED
          BY <4>2, <4>3 DEF Copy
    <3>3. CASE Exists(k)
      <4>1. copies \in [S \cup {k} -> [status : Statuses, silent : BOOLEAN]]
          BY <3>1, <3>2, <3>3
      <4> QED
          BY <4>1, ZenonT(30) DEF Copies
    <3>4. CASE ~Exists(k)
      <4>1. copies \in [S -> [status : Statuses, silent : BOOLEAN]]
          BY <2>1, <3>1, <3>4
      <4> QED
          BY <4>1 DEF Copies
    <3> QED
        BY <3>3, <3>4
  <2> HIDE DEF copies
  <2>5. CASE check.ids = {k}
    <3>1. check' = CheckOn(copies)
        BY <2>2, <2>5
    <3>2. /\ check' \in Checks
          /\ check'.pc = "idle" \/ (check'.pc = "check" /\ check'.copies = copies)
        BY <2>4, <3>1, CheckOnType
    <3>3. ASSUME NEW n \in Nodes, ~HeldByCheck(n) PROVE ~HeldByCheck(n)'
      <4>1. n \notin check.ids /\ n \notin DOMAIN check.copies
          BY <2>1, <3>3 DEF HeldByCheck
      <4>2. n \notin DOMAIN copies
          BY <2>1, <2>3, <4>1
      <4> QED
          BY <3>2, <4>2 DEF HeldByCheck
    <3> QED
        BY <3>2, <3>3
  <2>6. CASE check.ids # {k}
    <3>1. check' = [check EXCEPT !.ids = @ \ {k}, !.copies = copies]
        BY <2>2, <2>6
    <3>2. /\ check' \in [pc : {"read"}, ids : SUBSET Nodes, copies : Copies]
          /\ check'.ids = check.ids \ {k} /\ check'.copies = copies /\ check'.pc = "read"
        BY <2>1, <2>4, <3>1
    <3>3. ASSUME NEW n \in Nodes, ~HeldByCheck(n) PROVE ~HeldByCheck(n)'
      <4>1. n \notin check.ids /\ n \notin DOMAIN check.copies
          BY <2>1, <3>3 DEF HeldByCheck
      <4>2. n \notin DOMAIN copies
          BY <2>1, <2>3, <4>1
      <4> QED
          BY <3>2, <4>1, <4>2 DEF HeldByCheck
    <3>4. check' \in Checks
        BY <3>2 DEF Checks
    <3>5. ReadOnce'
        BY <2>1, <2>3, <3>2 DEF TypeOK
    <3> QED
        BY <3>3, <3>4, <3>5
  <2> QED
      BY <2>5, <2>6
<1>3. ASSUME NEW k \in Nodes, JudgeSilent(k) \/ Ping(k)
      PROVE  check' \in Checks /\ ReadOnce' /\ \A n \in Nodes : Out(n) => ~HeldByCheck(n)'
  <2>1. /\ check \in [pc : {"check"}, copies : Copies] /\ check.pc = "check"
        /\ k \in DOMAIN check.copies /\ check.copies \in Copies
      BY <1>3, CheckPlaces DEF JudgeSilent, Ping, TypeOK
  <2>2. PICK c \in Copies : c = Without(check.copies, k) /\ DOMAIN c = DOMAIN check.copies \ {k}
                            /\ \A m \in DOMAIN c : c[m] = check.copies[m]
      BY <2>1, CopiesFacts
  <2>3. \/ check' = CheckOn(c)
        \/ \E u \in Updates, then \in {"sAdd", "sRem", "next"} :
              /\ check' = [pc |-> "get", copies |-> c, node |-> k, new |-> u, then |-> then]
              /\ then = "sAdd" => check.copies[k].status # "active"
    <3>1. /\ [status |-> "inactive", health |-> "unhealthy"] \in Updates
          /\ [status |-> "active", health |-> "healthy"] \in Updates
          /\ [health |-> "unhealthy"] \in Updates
        BY DEF Updates, Statuses, Healths
    <3>2. CASE JudgeSilent(k)
        BY <2>2, <3>1, <3>2 DEF JudgeSilent, UpdateNode
    <3>3. CASE Ping(k)
        BY <2>2, <3>1, <3>3 DEF Ping, UpdateNode
    <3> QED
        BY <1>3, <3>2, <3>3
  <2>4. CASE check' = CheckOn(c)
    <3>1. /\ check' \in Checks
          /\ check'.pc = "idle" \/ (check'.pc = "check" /\ check'.copies = c)
        BY <2>4, CheckOnType
    <3>2. ASSUME NEW n \in Nodes, ~HeldByCheck(n) PROVE ~HeldByCheck(n)'
        BY <2>1, <2>2, <3>1, <3>2 DEF HeldByCheck
    <3> QED
        BY <3>1, <3>2
  <2>5. ASSUME NEW u \in Updates, NEW then \in {"sAdd", "sRem", "next"},
               check' = [pc |-> "get", copies |-> c, node |-> k, new |-> u, then |-> then],
               then = "sAdd" => check.copies[k].status # "active"
        PROVE  check' \in Checks /\ ReadOnce' /\ \A n \in Nodes : Out(n) => ~HeldByCheck(n)'
    <3>1. check' \in Checks
        BY <2>5 DEF Checks
    <3>2. /\ check'.pc = "get" /\ check'.copies = c /\ check'.node = k /\ check'.then = then
        BY <2>5
    <3>3. ASSUME NEW n \in Nodes, ~HeldByCheck(n) PROVE ~HeldByCheck(n)'
        BY <2>1, <2>2, <2>5, <3>2, <3>3 DEF HeldByCheck
    <3> QED
        BY <3>1, <3>2, <3>3
  <2> QED
      BY <2>3, <2>4, <2>5
<1>4. CASE ReadForCheck
  <2>1. /\ check \in [pc : {"get"}, copies : Copies, node : Nodes, new : Updates,
                      then : {"sAdd", "sRem", "next"}]
        /\ check.pc = "get" /\ check.copies \in Copies
      BY <1>4, CheckPlaces DEF ReadForCheck, TypeOK
  <2>2. CASE Exists(check.node)
    <3>1. record[check.node] \in Records
        BY <2>1, <2>2 DEF TypeOK, Exists
    <3>2. PICK r \in Records : r = Assign(record[check.node], check.new)
        BY <2>1, <3>1, AssignType
    <3>3. check' = [check EXCEPT !.pc = "set", !.new = r]
        BY <1>4, <2>2, <3>2 DEF ReadForCheck
    <3>4. /\ check' \in [pc : {"set"}, copies : Copies, node : Nodes, new : Records,
                         then : {"sAdd", "sRem", "next"}]
          /\ check'.copies = check.copies /\ check'.node = check.node /\ check'.then = check.then
          /\ check'.pc = "set"
        BY <2>1, <3>2, <3>3
    <3>5. ASSUME NEW n \in Nodes, ~HeldByCheck(n) PROVE ~HeldByCheck(n)'
        BY <2>1, <3>4, <3>5 DEF HeldByCheck
    <3>6. check' \in Checks
        BY <3>4 DEF Checks
    <3> QED
        BY <3>4, <3>5, <3>6
  <2>3. CASE ~Exists(check.node)
    <3>1. check' = CheckOn(check.copies) \/ check' = Idle
        BY <1>4, <2>3 DEF ReadForCheck
    <3>2. /\ check' \in Checks
          /\ check'.pc = "idle" \/ (check'.pc = "check" /\ check'.copies = check.copies)
        BY <2>1, <3>1, CheckOnType DEF Checks, Idle
    <3>3. ASSUME NEW n \in Nodes, ~HeldByCheck(n) PROVE ~HeldByCheck(n)'
        BY <2>1, <3>2, <3>3 DEF HeldByCheck
    <3> QED
        BY <3>2, <3>3
  <2> QED
      BY <2>2, <2>3
<1>5. CASE StoreVerdict \/ ListVerdict
  <2>1. check.copies \in Copies /\ check.node \in Nodes /\ check.pc \in {"set", "list"}
      BY <1>5, CheckPlaces DEF StoreVerdict, ListVerdict, TypeOK
  <2>2. \/ check' = CheckOn(check.copies)
        \/ /\ check' = [pc |-> "list", copies |-> check.copies, node |-> check.node,
                        then |-> check.then]
           /\ check.then \in {"sAdd", "sRem"}
      BY <1>5, CheckPlaces DEF StoreVerdict, ListVerdict, TypeOK
  <2>3. /\ check' \in Checks
        /\ \/ check'.pc = "idle"
           \/ check'.pc = "check" /\ check'.copies = check.copies
           \/ check'.pc = "list" /\ check'.copies = check.copies /\ check'.node = check.node
              /\ check'.then = check.then
    <3>1. CASE check' = CheckOn(check.copies)
        BY <2>1, <3>1, CheckOnType
    <3>2. CASE /\ check' = [pc |-> "list", copies |-> check.copies, node |-> check.node,
                            then |-> check.then]
               /\ check.then \in {"sAdd", "sRem"}
        BY <2>1, <3>2 DEF Checks
    <3> QED
        BY <2>2, <3>1, <3>2
  <2>4. ASSUME NEW n \in Nodes, ~HeldByCheck(n) PROVE ~HeldByCheck(n)'
      BY <2>1, <2>3, <2>4 DEF HeldByCheck
  <2> QED
      BY <2>3, <2>4
<1> QED
    BY <1>1, <1>2, <1>3, <1>4, <1>5 DEF Judge

-----------------------------------------------------------------------------
(* Types *)

(* A counted event. *)
LEMMA EventType == ASSUME events \in Nat, Event PROVE events' \in Nat
BY DEF Event

(* What a new record and a fresh one have in common. *)
LEMMA ZeroAge == 0 \in 0..SilentAge
BY SilentAgeAssumption

(* What the handlers of requests and heartbeats come with. *)
LEMMA HandlerPlaces ==
    ASSUME TypeOK
    PROVE  /\ admin.pc = "set" => admin.node \in Nodes /\ admin.new \in Records
           /\ admin.pc = "sRem" => admin.node \in Nodes
           /\ \A n \in Nodes : heartbeat[n].pc # "idle" =>
                  heartbeat[n] \in [pc : {"get", "set"}, new : Records] /\ heartbeat[n].new \in Records
<1>1. admin \in Admins /\ \A n \in Nodes : heartbeat[n] \in Beats
    BY DEF TypeOK
<1>2. Idle.pc = "idle"
    BY DEF Idle
<1> QED
    BY <1>1, <1>2 DEF Admins, Beats

(* Registering, removing and updating nodes keeps the types. *)
LEMMA RequestTypes ==
    ASSUME TypeOK, NEW n \in Nodes,
           \/ RegisterNode(n) \/ ListRegistered(n) \/ RemoveNode(n)
           \/ \E s \in {"active", "inactive"} : UpdateStatus(n, s)
           \/ DelistRemoved \/ StoreStatus
    PROVE  TypeOK'
<1> USE DEF TypeOK, ReadOnce
<1>1. Fresh \in Records
    BY ZeroAge DEF Fresh, Records, Statuses, Healths
<1>2. CASE RegisterNode(n)
  <2>1. [pc |-> "sAdd"] \in [pc : {"idle", "sAdd"}]
      OBVIOUS
  <2> QED
      BY <1>1, <1>2, <2>1, EventType DEF RegisterNode
<1>3. CASE ListRegistered(n)
  <2>1. Idle \in [pc : {"idle", "sAdd"}]
      BY DEF Idle
  <2> QED
      BY <1>3, <2>1 DEF ListRegistered
<1>4. CASE RemoveNode(n)
  <2>1. admin' \in Admins
      BY <1>4 DEF RemoveNode, Admins
  <2>2. raced' \subseteq Nodes /\ removed' \subseteq Nodes
      BY <1>4 DEF RemoveNode
  <2> QED
      BY <1>4, <2>1, <2>2, EventType DEF RemoveNode
<1>5. ASSUME NEW s \in {"active", "inactive"}, UpdateStatus(n, s) PROVE TypeOK'
  <2>1. admin' \in Admins
    <3>1. CASE Exists(n)
      <4>1. record[n] \in Records
          BY <3>1 DEF Exists
      <4>2. [record[n] EXCEPT !.status = s] \in Records
          BY <4>1 DEF Records, Statuses
      <4> QED
          BY <1>5, <3>1, <4>2 DEF UpdateStatus, Admins
    <3>2. CASE ~Exists(n)
        BY <1>5, <3>2 DEF UpdateStatus, Admins
    <3> QED
        BY <3>1, <3>2
  <2> QED
      BY <1>5, <2>1, EventType DEF UpdateStatus
<1>6. CASE DelistRemoved
  <2>1. admin' \in Admins
      BY <1>6 DEF DelistRemoved, Admins
  <2> QED
      BY <1>6, <2>1 DEF DelistRemoved
<1>7. CASE StoreStatus
  <2>1. admin.node \in Nodes /\ admin.new \in Records
      BY <1>7, HandlerPlaces DEF StoreStatus
  <2>2. admin' \in Admins
      BY <1>7 DEF StoreStatus, Admins
  <2> QED
      BY <1>7, <2>1, <2>2 DEF StoreStatus
<1> QED
    BY <1>2, <1>3, <1>4, <1>5, <1>6, <1>7

(* Heartbeats keep the types. *)
LEMMA HeartbeatTypes ==
    ASSUME TypeOK, NEW n \in Nodes, Heartbeat(n) PROVE TypeOK'
<1> USE DEF TypeOK, ReadOnce
<1>1. CASE ReadForHeartbeat(n)
  <2>1. PICK h \in Healths : h = IF machine[n] = "up" THEN "healthy" ELSE "unhealthy"
      BY DEF Healths
  <2>2. PICK b \in Beats : heartbeat' = [heartbeat EXCEPT ![n] = b]
    <3>1. CASE Exists(n)
      <4>1. record[n] \in Records
          BY <3>1 DEF Exists
      <4>2. [record[n] EXCEPT !.age = 0, !.health = h] \in Records
          BY <4>1, ZeroAge DEF Records
      <4>3. [pc |-> "get", new |-> [record[n] EXCEPT !.age = 0, !.health = h]] \in Beats
          BY <4>2 DEF Beats
      <4> QED
          BY <1>1, <2>1, <3>1, <4>3 DEF ReadForHeartbeat
    <3>2. CASE ~Exists(n)
        BY <1>1, <3>2 DEF ReadForHeartbeat, Beats
    <3> QED
        BY <3>1, <3>2
  <2>3. beat' \subseteq Nodes
      BY <1>1 DEF ReadForHeartbeat
  <2> QED
      BY <1>1, <2>2, <2>3 DEF ReadForHeartbeat
<1>2. CASE ReadAgain(n)
  <2>1. heartbeat[n] \in [pc : {"get", "set"}, new : Records]
      BY <1>2, HandlerPlaces DEF ReadAgain
  <2>2. [heartbeat[n] EXCEPT !.pc = "set"] \in Beats /\ Idle \in Beats
      BY <2>1 DEF Beats
  <2>3. heartbeat' \in [Nodes -> Beats]
      BY <1>2, <2>2 DEF ReadAgain
  <2>4. beat' \subseteq Nodes
      BY <1>2 DEF ReadAgain
  <2> QED
      BY <1>2, <2>3, <2>4 DEF ReadAgain
<1>3. CASE StoreHeartbeat(n)
  <2>1. heartbeat[n].new \in Records
      BY <1>3, HandlerPlaces DEF StoreHeartbeat
  <2>2. Idle \in Beats
      BY DEF Beats
  <2> QED
      BY <1>3, <2>1, <2>2 DEF StoreHeartbeat
<1> QED
    BY <1>1, <1>2, <1>3 DEF Heartbeat

(* A record that gets older is a record. *)
LEMMA OlderType == ASSUME NEW r \in Records PROVE Older(r) \in Records
<1>1. r.age \in 0..SilentAge /\ SilentAge \in Nat
    BY SilentAgeAssumption DEF Records
<1>2. r.age # SilentAge => r.age + 1 \in 0..SilentAge
    BY <1>1
<1> QED
    BY <1>2 DEF Older, Silent, Records

(* Every step keeps the types. *)
LEMMA StepKeepsTypes == ASSUME TypeOK, Next PROVE TypeOK'
<1>1. CASE CheckNodeHealth
  <2>1. check' \in Checks /\ ReadOnce'
      BY <1>1, CheckSteps DEF CheckNodeHealth
  <2>2. record' \in [Nodes -> Records \cup {None}]
    <3>1. CASE StoreVerdict
      <4>1. check.node \in Nodes /\ check.new \in Records
          BY <3>1, CheckPlaces DEF StoreVerdict, TypeOK
      <4> QED
          BY <3>1, <4>1 DEF StoreVerdict, TypeOK
    <3>2. CASE ~StoreVerdict
        BY <1>1, <3>2 DEF CheckNodeHealth, StartCheck, ReadForCheck, ListVerdict, Judge, ReadNode,
                          JudgeSilent, Ping, TypeOK
    <3> QED
        BY <3>1, <3>2
  <2>3. listed' \subseteq Nodes
    <3>1. CASE ListVerdict
      <4>1. check.node \in Nodes
          BY <3>1, CheckPlaces DEF ListVerdict, TypeOK
      <4> QED
          BY <3>1, <4>1 DEF ListVerdict, TypeOK
    <3>2. CASE ~ListVerdict
        BY <1>1, <3>2 DEF CheckNodeHealth, StartCheck, ReadForCheck, StoreVerdict, Judge, ReadNode,
                          JudgeSilent, Ping, TypeOK
    <3> QED
        BY <3>1, <3>2
  <2>4. UNCHANGED <<machine, beat, heartbeat, request, admin, events, removed, raced>>
      BY <1>1 DEF CheckNodeHealth, StartCheck, ReadForCheck, StoreVerdict, ListVerdict, Judge,
                  ReadNode, JudgeSilent, Ping
  <2> QED
      BY <2>1, <2>2, <2>3, <2>4 DEF TypeOK
<1>2. ASSUME NEW n \in Nodes, Recover(n) \/ \E how \in {"busy", "sick", "cut off"} : Worsen(n, how)
      PROVE  TypeOK'
  <2>1. machine' \in [Nodes -> {"up", "busy", "sick", "cut off"}] /\ events' \in Nat
      BY <1>2, EventType DEF Recover, Worsen, TypeOK
  <2>2. UNCHANGED <<record, listed, beat, heartbeat, check, request, admin, removed, raced>>
      BY <1>2 DEF Recover, Worsen
  <2> QED
      BY <2>1, <2>2 DEF TypeOK, ReadOnce
<1>3. CASE Tick
  <2>1. record' = [n \in Nodes |-> IF Exists(n) THEN Older(record[n]) ELSE None] /\ beat' = {}
      BY <1>3 DEF Tick
  <2>2. \A n \in Nodes : Exists(n) => Older(record[n]) \in Records
      BY OlderType DEF Exists, TypeOK
  <2>3. record' \in [Nodes -> Records \cup {None}]
      BY <2>1, <2>2
  <2> QED
      BY <1>3, <2>1, <2>3 DEF Tick, TypeOK, ReadOnce
<1>4. CASE Restart
  <2>1. heartbeat' \in [Nodes -> Beats] /\ request' \in [Nodes -> [pc : {"idle", "sAdd"}]]
      BY <1>4 DEF Restart, Beats, Idle
  <2>2. check' \in Checks /\ ReadOnce' /\ admin' \in Admins
      BY <1>4 DEF Restart, Checks, Admins, Idle, ReadOnce
  <2>3. events' \in Nat /\ removed' \subseteq Nodes
      BY <1>4, EventType DEF Restart, TypeOK
  <2> QED
      BY <1>4, <2>1, <2>2, <2>3 DEF Restart, TypeOK
<1>5. CASE DelistRemoved \/ StoreStatus
  <2>1. PICK n : n \in Nodes
      BY <1>5, HandlerPlaces DEF DelistRemoved, StoreStatus
  <2> QED
      BY <1>5, <2>1, RequestTypes
<1> QED
    BY <1>1, <1>2, <1>3, <1>4, <1>5, RequestTypes, HeartbeatTypes DEF Next

-----------------------------------------------------------------------------
(* Removed nodes *)

(* Removed nodes stay away if the step gives none of them a way back. *)
LEMMA AwayKept ==
    ASSUME TypeOK, StaysAway,
           \A n \in removed' : n \in removed,
           \A n \in removed' : n \in raced => n \in raced' \/ Gone(n)' \/ Out(n)',
           \A n \in removed' : Gone(n) => Gone(n)',
           \A n \in removed' : Out(n) => Out(n)' \/ n \in raced'
    PROVE  StaysAway'
BY DEF StaysAway

(* The health check lists a removed node only if it held it before, and    *)
(* writes its record only if it found one.                                 *)
LEMMA CheckAway == ASSUME TypeOK, StaysAway, CheckNodeHealth PROVE StaysAway'
<1>1. \A n \in Nodes : Out(n) => ~HeldByCheck(n)'
    BY CheckSteps DEF CheckNodeHealth
<1>2. UNCHANGED <<heartbeat, request, admin, removed, raced>> /\ removed \subseteq Nodes
    BY DEF CheckNodeHealth, StartCheck, ReadForCheck, StoreVerdict, ListVerdict, Judge,
           ReadNode, JudgeSilent, Ping, TypeOK
<1>3. ASSUME NEW n \in Nodes, Out(n) PROVE n \notin listed'
  <2>1. CASE ListVerdict
    <3>1. check.then = "sAdd" => check.node # n
        BY <1>3, <2>1, CheckPlaces DEF ListVerdict, Out, HeldByCheck
    <3> QED
        BY <1>3, <2>1, <3>1 DEF ListVerdict, Out
  <2>2. CASE ~ListVerdict
    <3>1. listed' = listed
        BY <2>2 DEF CheckNodeHealth, StartCheck, ReadForCheck, StoreVerdict, Judge, ReadNode,
                    JudgeSilent, Ping
    <3> QED
        BY <1>3, <3>1 DEF Out
  <2> QED
      BY <2>1, <2>2
<1>4. ASSUME NEW n \in Nodes, Gone(n) PROVE ~Exists(n)' /\ ~(check'.pc = "set" /\ check'.node = n)
  <2>1. CASE StoreVerdict
    <3>1. check.node # n /\ check.node \in Nodes /\ check.copies \in Copies
        BY <1>4, <2>1, CheckPlaces DEF StoreVerdict, Gone, BeingWritten, TypeOK
    <3>2. ~Exists(n)'
        BY <1>4, <2>1, <3>1 DEF StoreVerdict, Gone, Exists, TypeOK
    <3>3. check'.pc # "set"
        BY <2>1, <3>1, CheckOnType DEF StoreVerdict
    <3> QED
        BY <3>2, <3>3
  <2>2. CASE ReadForCheck
    <3>1. check.copies \in Copies /\ record' = record
        BY <2>2, CheckPlaces DEF ReadForCheck, TypeOK
    <3>2. CASE Exists(check.node)
      <4>1. check \in [pc : {"get"}, copies : Copies, node : Nodes, new : Updates,
                       then : {"sAdd", "sRem", "next"}]
          BY <2>2, CheckPlaces DEF ReadForCheck, TypeOK
      <4>2. check'.node = check.node
          BY <2>2, <3>2, <4>1 DEF ReadForCheck
      <4> QED
          BY <1>4, <3>1, <3>2, <4>2 DEF Gone, Exists
    <3>3. CASE ~Exists(check.node)
      <4>1. check' = CheckOn(check.copies) \/ check' = Idle
          BY <2>2, <3>3 DEF ReadForCheck
      <4>2. check'.pc # "set"
          BY <3>1, <4>1, CheckOnType DEF Idle
      <4> QED
          BY <1>4, <3>1, <4>2 DEF Gone, Exists
    <3> QED
        BY <3>2, <3>3
  <2>3. CASE ListVerdict \/ StartCheck
    <3>1. record' = record /\ check'.pc # "set"
      <4>1. CASE ListVerdict
        <5>1. check.copies \in Copies
            BY <4>1, CheckPlaces DEF ListVerdict, TypeOK
        <5> QED
            BY <4>1, <5>1, CheckOnType DEF ListVerdict
      <4>2. CASE StartCheck
          BY <4>2 DEF StartCheck, Idle
      <4> QED
          BY <2>3, <4>1, <4>2
    <3> QED
        BY <1>4, <3>1 DEF Gone, Exists
  <2>4. ASSUME NEW k \in Nodes, Judge(k)
        PROVE  ~Exists(n)' /\ ~(check'.pc = "set" /\ check'.node = n)
    <3>1. record' = record
        BY <2>4 DEF Judge, ReadNode, JudgeSilent, Ping
    <3>2. check'.pc # "set"
      <4>1. CASE ReadNode(k)
        <5>1. check \in [pc : {"read"}, ids : SUBSET Nodes, copies : Copies] /\ check.pc = "read"
            BY <4>1, CheckPlaces DEF ReadNode, TypeOK
        <5>2. \/ \E c : check' = CheckOn(c)
              \/ \E i, c : check' = [check EXCEPT !.ids = i, !.copies = c]
            BY <4>1 DEF ReadNode
        <5>3. \A c : CheckOn(c).pc # "set"
            BY DEF CheckOn, Idle
        <5>4. \A i, c : [check EXCEPT !.ids = i, !.copies = c].pc = "read"
            BY <5>1
        <5> QED
            BY <5>2, <5>3, <5>4
      <4>2. CASE JudgeSilent(k) \/ Ping(k)
        <5>1. \E c : check' = CheckOn(c) \/ \E u, t : check' = UpdateNode(k, u, t)
            BY <4>2 DEF JudgeSilent, Ping
        <5> QED
            BY <5>1 DEF CheckOn, UpdateNode, Idle
      <4> QED
          BY <2>4, <4>1, <4>2 DEF Judge
    <3> QED
        BY <1>4, <3>1, <3>2 DEF Gone, Exists
  <2> QED
      BY <2>1, <2>2, <2>3, <2>4 DEF CheckNodeHealth
<1>5. ASSUME NEW n \in Nodes, Gone(n) PROVE Gone(n)'
    BY <1>2, <1>4, <1>5 DEF Gone, BeingWritten
<1>6. ASSUME NEW n \in Nodes, Out(n) PROVE Out(n)'
    BY <1>1, <1>3, <1>6 DEF Out
<1> QED
    BY <1>2, <1>5, <1>6, AwayKept

(* Requests give a removed node a way back only by registering it.  Where  *)
(* a removal meets handlers that hold the record it counts as raced, until *)
(* the node is delisted with no check about to list it.                    *)
LEMMA RequestAway ==
    ASSUME TypeOK, StaysAway, NEW k \in Nodes,
           \/ RegisterNode(k) \/ ListRegistered(k) \/ RemoveNode(k)
           \/ \E s \in {"active", "inactive"} : UpdateStatus(k, s)
           \/ DelistRemoved \/ StoreStatus
    PROVE  StaysAway'
<1>0. removed \subseteq Nodes /\ removed' \subseteq Nodes
    BY DEF RegisterNode, ListRegistered, RemoveNode, UpdateStatus, DelistRemoved, StoreStatus, TypeOK
<1>1. CASE RegisterNode(k) \/ ListRegistered(k)
  <2>1. /\ removed' = removed \ {k} /\ UNCHANGED <<check, heartbeat, admin, raced>>
        /\ \A n \in Nodes \ {k} : record'[n] = record[n] /\ request'[n] = request[n]
        /\ \A n \in Nodes \ {k} : n \in listed' => n \in listed
      BY <1>1 DEF RegisterNode, ListRegistered, TypeOK
  <2>2. \A n \in removed' : n \in removed /\ n # k /\ n \in Nodes
      BY <1>0, <2>1
  <2>3. \A n \in removed' : Gone(n) => Gone(n)'
      BY <2>1, <2>2 DEF Gone, BeingWritten, Exists
  <2>4. \A n \in removed' : Out(n) => Out(n)'
      BY <2>1, <2>2 DEF Out, HeldByCheck
  <2> QED
      BY <2>1, <2>2, <2>3, <2>4, AwayKept
<1>2. CASE RemoveNode(k)
  <2>1. /\ admin.pc = "idle" /\ record' = [record EXCEPT ![k] = None]
        /\ admin' = [pc |-> "sRem", node |-> k] /\ removed' = removed \cup {k}
        /\ raced' = (IF BeingWritten(k) THEN raced \union {k} ELSE raced \ {k})
        /\ UNCHANGED <<listed, heartbeat, check, request>>
      BY <1>2 DEF RemoveNode
  <2>2. k \in raced' \/ Gone(k)'
      BY <2>1 DEF Gone, BeingWritten, Exists, TypeOK
  <2>3. ASSUME NEW n \in removed, n # k PROVE n \in raced' \/ Gone(n)' \/ Out(n)'
    <3>1. n \in raced => n \in raced'
        BY <2>1, <2>3
    <3>2. Gone(n) => Gone(n)'
        BY <2>1, <2>3 DEF Gone, BeingWritten, Exists, TypeOK
    <3>3. Out(n) => Out(n)'
        BY <2>1 DEF Out, HeldByCheck
    <3> QED
        BY <3>1, <3>2, <3>3 DEF StaysAway
  <2> QED
      BY <2>1, <2>2, <2>3 DEF StaysAway
<1>3. ASSUME NEW s \in {"active", "inactive"}, UpdateStatus(k, s) PROVE StaysAway'
  <2>1. /\ UNCHANGED <<record, listed, heartbeat, check, request, removed, raced>>
        /\ admin'.pc = "set" => admin'.node = k /\ Exists(k)
      BY <1>3 DEF UpdateStatus, Idle
  <2>2. \A n \in removed' : Gone(n) => Gone(n)'
      BY <2>1 DEF Gone, BeingWritten, Exists
  <2>3. \A n \in removed' : Out(n) => Out(n)'
      BY <2>1 DEF Out, HeldByCheck
  <2> QED
      BY <2>1, <2>2, <2>3, AwayKept
<1>4. CASE StoreStatus
  <2>1. /\ admin.pc = "set" /\ admin.node \in Nodes /\ admin'.pc = "idle"
        /\ record' = [record EXCEPT ![admin.node] = admin.new]
        /\ UNCHANGED <<listed, heartbeat, check, request, removed, raced>>
      BY <1>4, HandlerPlaces DEF StoreStatus, Idle
  <2>2. \A n \in removed' : Gone(n) => Gone(n)'
    <3>1. \A n \in Nodes : Gone(n) => n # admin.node
        BY <2>1 DEF Gone, BeingWritten
    <3>2. \A n \in Nodes : n # admin.node => record'[n] = record[n]
        BY <2>1 DEF TypeOK
    <3> QED
        BY <1>0, <2>1, <3>1, <3>2 DEF Gone, BeingWritten, Exists
  <2>3. \A n \in removed' : Out(n) => Out(n)'
      BY <2>1 DEF Out, HeldByCheck
  <2> QED
      BY <2>1, <2>2, <2>3, AwayKept
<1>5. CASE DelistRemoved
  <2>1. /\ admin.pc = "sRem" /\ admin'.pc = "idle" /\ listed' = listed \ {admin.node}
        /\ raced' = {n \in raced : n # admin.node \/ HeldByCheck(n)}
        /\ UNCHANGED <<record, heartbeat, check, request, removed>>
      BY <1>5 DEF DelistRemoved, Idle
  <2>2. \A n \in removed' : n \in raced => n \in raced' \/ Out(n)'
      BY <2>1 DEF Out, HeldByCheck
  <2>3. \A n \in removed' : Gone(n) => Gone(n)'
      BY <2>1 DEF Gone, BeingWritten, Exists
  <2>4. \A n \in removed' : Out(n) => Out(n)'
      BY <2>1 DEF Out, HeldByCheck
  <2> QED
      BY <2>1, <2>2, <2>3, <2>4, AwayKept
<1> QED
    BY <1>1, <1>2, <1>3, <1>4, <1>5

(* Heartbeats, time and the environment bring no removed node back that    *)
(* has no record.                                                          *)
LEMMA OtherStepsAway ==
    ASSUME TypeOK, StaysAway,
           \/ \E k \in Nodes : \/ Heartbeat(k) \/ Recover(k)
                               \/ \E how \in {"busy", "sick", "cut off"} : Worsen(k, how)
           \/ Tick \/ Restart
    PROVE  StaysAway'
<1>1. ASSUME NEW k \in Nodes, Heartbeat(k) PROVE StaysAway'
  <2>1. UNCHANGED <<listed, check, request, admin, removed, raced>> /\ removed \subseteq Nodes
      BY <1>1 DEF Heartbeat, ReadForHeartbeat, ReadAgain, StoreHeartbeat, TypeOK
  <2>2. \A n \in removed' : Out(n) => Out(n)'
      BY <2>1 DEF Out, HeldByCheck
  <2>3. ASSUME NEW n \in Nodes, Gone(n) PROVE ~Exists(n)' /\ heartbeat'[n].pc # "set"
    <3>1. CASE n # k
      <4>1. heartbeat'[n] = heartbeat[n] /\ record'[n] = record[n]
          BY <1>1, <3>1 DEF Heartbeat, ReadForHeartbeat, ReadAgain, StoreHeartbeat, TypeOK
      <4> QED
          BY <2>3, <4>1 DEF Gone, BeingWritten, Exists
    <3>2. CASE n = k
      <4>1. ~StoreHeartbeat(k) /\ ~Exists(k)
          BY <2>3, <3>2 DEF Gone, BeingWritten, StoreHeartbeat
      <4>2. record' = record /\ heartbeat'[k] = Idle
          BY <1>1, <4>1 DEF Heartbeat, ReadForHeartbeat, ReadAgain, TypeOK
      <4>3. ~Exists(k)'
          BY <4>1, <4>2 DEF Exists
      <4>4. heartbeat'[k].pc # "set"
        <5>1. Idle.pc # "set"
            BY DEF Idle
        <5> QED
            BY <4>2, <5>1
      <4> QED
          BY <3>2, <4>3, <4>4
    <3> QED
        BY <3>1, <3>2
  <2>4. \A n \in removed' : Gone(n) => Gone(n)'
      BY <2>1, <2>3 DEF Gone, BeingWritten
  <2> QED
      BY <2>1, <2>2, <2>4, AwayKept
<1>2. ASSUME NEW k \in Nodes, Recover(k) \/ \E how \in {"busy", "sick", "cut off"} : Worsen(k, how)
      PROVE  StaysAway'
    BY <1>2 DEF Recover, Worsen, StaysAway, Gone, Out, Exists, BeingWritten, HeldByCheck
<1>3. CASE Tick
  <2>1. /\ UNCHANGED <<listed, heartbeat, check, request, admin, removed, raced>>
        /\ \A n \in Nodes : ~Exists(n) => ~Exists(n)' 
      BY <1>3 DEF Tick, Exists
  <2>2. \A n \in removed' : Gone(n) => Gone(n)'
      BY <2>1 DEF Gone, BeingWritten, TypeOK
  <2>3. \A n \in removed' : Out(n) => Out(n)'
      BY <2>1 DEF Out, HeldByCheck
  <2> QED
      BY <2>1, <2>2, <2>3, AwayKept
<1>4. CASE Restart
  <2>1. /\ UNCHANGED <<record, listed, raced>> /\ removed' \subseteq removed
        /\ \A n \in Nodes : heartbeat'[n].pc = "idle" /\ request'[n].pc = "idle"
        /\ check'.pc = "idle" /\ admin'.pc = "idle"
      BY <1>4 DEF Restart, Idle
  <2>2. \A n \in removed' : Gone(n) => Gone(n)'
      BY <2>1 DEF Gone, BeingWritten, Exists, TypeOK
  <2>3. \A n \in removed' : Out(n) => Out(n)'
      BY <2>1 DEF Out, HeldByCheck
  <2> QED
      BY <2>1, <2>2, <2>3, AwayKept
<1> QED
    BY <1>1, <1>2, <1>3, <1>4

-----------------------------------------------------------------------------
(* Theorems *)

(* Every handler keeps the shape of records, of its own copies and of the  *)
(* list, for any interleaving at the awaits of nodeManager.js and the      *)
(* scheduler, and removed nodes stay away as StaysAway says.               *)
THEOREM Invariance == Spec => [](TypeOK /\ StaysAway)
<1>1. Init => TypeOK /\ StaysAway
  <2> SUFFICES ASSUME Init PROVE TypeOK /\ StaysAway
      OBVIOUS
  <2>1. Fresh \in Records
      BY ZeroAge DEF Fresh, Records, Statuses, Healths
  <2>2. /\ record \in [Nodes -> Records \cup {None}] /\ listed \subseteq Nodes
        /\ machine \in [Nodes -> {"up", "busy", "sick", "cut off"}] /\ beat \subseteq Nodes
      BY <2>1 DEF Init
  <2>3. heartbeat \in [Nodes -> Beats] /\ request \in [Nodes -> [pc : {"idle", "sAdd"}]]
      BY DEF Init, Beats, Idle
  <2>4. check \in Checks /\ ReadOnce /\ admin \in Admins
      BY DEF Init, Checks, Admins, Idle, ReadOnce
  <2>5. events \in Nat /\ removed = {} /\ raced = {}
      BY DEF Init
  <2> QED
      BY <2>2, <2>3, <2>4, <2>5 DEF TypeOK, StaysAway
<1>2. TypeOK /\ StaysAway /\ [Next]_vars => (TypeOK /\ StaysAway)'
  <2>1. ASSUME TypeOK, StaysAway, Next PROVE TypeOK' /\ StaysAway'
    <3>1. CASE DelistRemoved \/ StoreStatus
      <4>1. PICK n : n \in Nodes
          BY <2>1, <3>1, HandlerPlaces DEF DelistRemoved, StoreStatus
      <4> QED
          BY <2>1, <3>1, <4>1, StepKeepsTypes, RequestAway
    <3> QED
        BY <2>1, <3>1, StepKeepsTypes, CheckAway, RequestAway, OtherStepsAway DEF Next
  <2>2. ASSUME TypeOK, StaysAway, UNCHANGED vars PROVE TypeOK' /\ StaysAway'
      BY <2>2 DEF vars, TypeOK, ReadOnce, StaysAway, Gone, Out, Exists, BeingWritten, HeldByCheck
  <2> QED
      BY <2>1, <2>2
<1> QED
    BY <1>1, <1>2, PTL DEF Spec

(* A removed node that did not register again gets no clients, unless its  *)
(* removal met a handler that was about to write its record back           *)
(* (removeNode(), updateNode(), updateHeartbeat(), checkNodeHealth()).     *)
THEOREM RemovedNodesStayAway == Spec => []RemovedNodeReturnsOnlyByRace
<1>1. TypeOK /\ StaysAway => RemovedNodeReturnsOnlyByRace
    BY DEF StaysAway, RemovedNodeReturnsOnlyByRace, Available, Gone, Out
<1> QED
    BY <1>1, Invariance, PTL

=============================================================================
