---------------------------- MODULE MCWorkerPool ----------------------------
(* Small instances of WorkerPool for TLC. *)
EXTENDS WorkerPoolProofs, TLC

CONSTANTS b1, b2, t1, t2, w1, w2, w3, w4

MCBatches == {b1, b2}
MCTests   == {t1, t2}
FourWorkers == {w1, w2, w3, w4}
=============================================================================
