------------------------------ MODULE MCOutbox ------------------------------
(* Instances of Outbox for TLC. *)
EXTENDS Outbox, TLC

CONSTANTS i1, i2, w1, w2

OneItem    == {i1}
TwoItems   == {i1, i2}
OneWorker  == {w1}
TwoWorkers == {w1, w2}

WorkerSymmetry == Permutations(Worker)
=============================================================================
