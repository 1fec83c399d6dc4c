------------------------------ MODULE MCStoreMap ------------------------------
(* StoreMap for TLC: the purposes of the kids in the three runs *)
EXTENDS StoreMap, TLC

CONSTANTS a, b, c

MCNameByKey == [k \in Keys |-> 0]
MCCountFloor == -1

\* two updaters, one of which also writes entries, and a client
TwoUpdaters == a :> {"update"} @@ b :> {"update", "cache"} @@ c :> {"get", "evict"}
\* one updater and two clients
OneUpdater == a :> {"update"} @@ b :> {"get", "cache", "evict"} @@ c :> {"get", "cache", "evict"}

\* Bound: a run does not go on from an update that locked an anchor by an outdated name
NamesWereCurrent == overlap # "stale"

Symmetry == Permutations(Slices)
=============================================================================
