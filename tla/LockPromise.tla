----------------------------- MODULE LockPromise -----------------------------
(***************************************************************************)
(* What Ipc::ReadWriteLock promises to its users (ipc/ReadWriteLock.h): who *)
(* holds the lock and in which mode, with every operation a single step.    *)
(* The lock never makes anybody wait, and it may refuse any request, so     *)
(* refusals are stuttering steps.                                           *)
(***************************************************************************)
CONSTANT Users
VARIABLE held

Modes == {"idle", "shared", "headers", "exclusive", "appending", "halted"}

Init == held = [u \in Users |-> "idle"]

Others(u, modes) == \A v \in Users \ {u} : held[v] \in modes

Change(u, from, to) == held[u] = from /\ held' = [held EXCEPT ![u] = to]

\* Readers are let in unless a writer wants the entry for itself.
GrantShared(u) ==
    /\ Others(u, {"idle", "shared", "headers", "appending"})
    /\ Change(u, "idle", "shared")

\* The second half of lockHeaders() takes the only permission to update.
GrantHeaders(u) ==
    /\ Others(u, Modes \ {"headers"})
    /\ Change(u, "shared", "headers")

GrantExclusive(u) ==
    /\ Others(u, {"idle"})
    /\ Change(u, "idle", "exclusive")

StartAppending(u) == Change(u, "exclusive", "appending")

StopAppending(u) == Change(u, "appending", "halted")

RestoreExclusive(u) ==
    /\ Others(u, {"idle"})
    /\ Change(u, "halted", "exclusive")

StopWriting(u) ==
    \E from \in {"exclusive", "appending"} : Change(u, from, "shared")

Release(u) == \E from \in Modes \ {"idle"} : Change(u, from, "idle")

Next == \E u \in Users :
    \/ GrantShared(u) \/ GrantHeaders(u) \/ GrantExclusive(u)
    \/ StartAppending(u) \/ StopAppending(u) \/ RestoreExclusive(u)
    \/ StopWriting(u) \/ Release(u)

Spec == Init /\ [][Next]_held
=============================================================================
