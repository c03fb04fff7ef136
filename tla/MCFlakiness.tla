----------------------------- MODULE MCFlakiness -----------------------------
(* Small instances of Flakiness for TLC. *)
EXTENDS Flakiness, TLC

CONSTANTS k1, k2, t1

TwoContexts == {k1, k2}
OneTest == {t1}
ThreeOutcomes == {"passed", "failed", "skipped"}
Symmetric == Permutations(TwoContexts)
=============================================================================
