----------------------------- MODULE MCCoverage -----------------------------
(* Instances of Coverage for TLC, see the MCCoverage*.cfg files. *)
EXTENDS Coverage

CONSTANTS u1, u2, c1, c2

OneUser  == {u1}
TwoUsers == {u1, u2}
OneChat  == {c1}
TwoChats == {c1, c2}
=============================================================================
