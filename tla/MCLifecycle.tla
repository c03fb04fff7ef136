----------------------------- MODULE MCLifecycle -----------------------------
(* Small instances of Lifecycle for TLC. *)
EXTENDS Lifecycle, TLC

CONSTANTS d1, d2, d3

TwoDaemons == {d1, d2}
ThreeDaemons == {d1, d2, d3}
NoClients == {}
=============================================================================
