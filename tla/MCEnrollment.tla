---------------------------- MODULE MCEnrollment ----------------------------
(* Instances of Enrollment for TLC, see the MCEnrollment*.cfg files. *)
EXTENDS Enrollment

CONSTANTS u1, u2, x1, x2, s1, s2

OneUser     == {u1}
TwoUsers    == {u1, u2}
TwoCalls    == {x1, x2}
TwoScanners == {s1, s2}
=============================================================================
