------------------------------ MODULE UploadMC ------------------------------
(* Small instances of Upload for TLC. *)
EXTENDS Upload, TLC

CONSTANTS w1, w2

MCWorker == {w1, w2}

\* Which pool thread runs a task never matters.  The coroutines are started in
\* order, so they are not interchangeable.
WorkerSymmetry == Permutations(MCWorker)
=============================================================================
