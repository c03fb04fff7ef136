----------------------------- MODULE MCScheduler -----------------------------
(* Small instances of Scheduler for TLC. *)
EXTENDS Scheduler, TLC

CONSTANTS t1, t2, t3

ThreeTests == {t1, t2, t3}
ShortAndLong == {1, 2}

\* Every list of distinct tests, and one that names tests more than once: with
\* estimates of 3 and 2 its split between two workers meets the bound exactly.
AllLists == UNION {SetToSeqs(s) : s \in SUBSET Tests} \cup {<<t1, t1, t2, t2, t2>>}
=============================================================================
