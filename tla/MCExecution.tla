----------------------------- MODULE MCExecution -----------------------------
(* Small instances of Execution for TLC. *)
EXTENDS Execution, TLC

CONSTANTS t1, t2, t3, t4

FourTests == {t1, t2, t3, t4}

\* Two functions of one name in two files, a method, and a function the
\* inventory has a skip marker for.
Names == (t1 :> "a") @@ (t2 :> "a") @@ (t3 :> "b") @@ (t4 :> "c")
OneMethod == {t3}
OneSkipped == {t4}
SomeRequests == {<<t4>>, <<t1>>, <<t1, t2, t4, t3>>, <<t3, t1, t2>>}
ThreeLong == {<<t1, t2, t3>>}
=============================================================================
