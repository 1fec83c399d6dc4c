----------------------------- MODULE FifoChannels -----------------------------
(***************************************************************************)
(* What the queues of ipc/Queue.h promise to a reader and its writers: one *)
(* bounded first-in first-out channel per writer.                          *)
(***************************************************************************)
EXTENDS Integers, Sequences

CONSTANTS Writers, Capacity, Items
VARIABLE chan

Init == chan = [w \in Writers |-> <<>>]

Push(w, i) ==
    /\ Len(chan[w]) < Capacity
    /\ chan' = [chan EXCEPT ![w] = Append(@, i)]

Pop(w) ==
    /\ chan[w] # <<>>
    /\ chan' = [chan EXCEPT ![w] = Tail(@)]

Next == \E w \in Writers :
            /\ chan'[w] # chan[w]
            /\ Pop(w) \/ \E i \in Items : Push(w, i)

Spec == Init /\ [][Next]_chan
=============================================================================
