------------------------------ MODULE MCIntake ------------------------------
(* Instances of Intake for TLC. *)
EXTENDS Intake, TLC

CONSTANTS m1, u1, u2, w1, w2

OneMessage == {m1}
OneUser    == {u1}
TwoUsers   == {u1, u2}
OneWorker  == {w1}
TwoWorkers == {w1, w2}

(* u1 is mentioned by name, u2 (if at all) with everyone.                  *)
FirstDirect == [m \in Message |-> {u1}]

MessageEvents == Events \ {BotAdded}

SecondUser == {u2}
NoUser     == {}
NoMessage  == {}

Internal  == {"internal"}
AnyAnswer == {"internal", "external"}

WorkerSymmetry == Permutations(Worker)
=============================================================================
