------------------------------ MODULE FileDbMC ------------------------------
(* A small account for TLC: two contents of different sizes. *)
EXTENDS FileDb, TLC

CONSTANTS w1, w2, small, large

MCWorker == {w1, w2}

MCContent == {small, large}

MCSize == small :> 1 @@ large :> 2

WorkerSymmetry == Permutations(MCWorker)
=============================================================================
