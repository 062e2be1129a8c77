---------------------------- MODULE MCEnrollment ----------------------------
(* Instances of Enrollment for TLC. *)
EXTENDS Enrollment

CONSTANTS w1, w2

\* The enrollment volume approves whatever key the embedded worker has; the
\* other worker waits for an operator.
VolumeOfFirst == {w1} \X (0 .. MaxKeys)

=============================================================================
