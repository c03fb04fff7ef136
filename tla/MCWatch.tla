------------------------------ MODULE MCWatch ------------------------------
(* Small instances of Watch for TLC. *)
EXTENDS Watch, TLC

CONSTANTS watcher, ctx, t1, test_a, conftest

OneClient == {watcher}
OneKey == {ctx}
OneRepo == {"repo"}
InRepo == [x \in Keys |-> "repo"]
NoRequests == {}
OneFile == {test_a}
SameFile == [t \in Tests |-> test_a]
AnyFile == TestFiles \cup Sources \cup {Conftest}
Nothing == {}
OneTest == {t1}
NoUses == [t \in Tests |-> {}]
=============================================================================
