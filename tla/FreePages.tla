------------------------------- MODULE FreePages -------------------------------
(***************************************************************************)
(* What a PageStack promises its users: a page that pop() hands out is in   *)
(* use by nobody, and only a push() makes it free again.  A pop() that      *)
(* finds nothing changes nothing.                                           *)
(***************************************************************************)
CONSTANTS Procs, Ids
VARIABLE used    \* used[p]: pages popped by p and not pushed back, by whomever

Init == used = [p \in Procs |-> {}]

Take(p, id) ==
    /\ \A q \in Procs : id \notin used[q]
    /\ used' = [used EXCEPT ![p] = @ \cup {id}]

PutBack(p, id) ==
    /\ id \in used[p]
    /\ used' = [used EXCEPT ![p] = @ \ {id}]

Next == \E p \in Procs, id \in Ids : Take(p, id) \/ PutBack(p, id)

Spec == Init /\ [][Next]_used
=============================================================================
