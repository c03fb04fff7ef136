--------------------------- MODULE MCDaemonServer ---------------------------
(* Small instances of DaemonServer for TLC. *)
EXTENDS DaemonServer, TLC

CONSTANTS c1, c2, k1, t1

ClientSymmetry == Permutations(Clients)
TwoClients == {c1, c2}
OneTest == {t1}
OneKey == {k1}

SameRepo == [k \in Keys |-> "repo"]
OneRepo == {"repo"}

AllRequests == {r \in Request : r.kind = "run" => r.nodes = Tests}

\* What every command but watch asks: Collect is always forced.
ForcedRequests == {r \in AllRequests : r.kind = "collect" => r.force}
=============================================================================
