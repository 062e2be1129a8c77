---------------------------- MODULE MCChrootPool ----------------------------
(* Instances of ChrootPool for TLC. *)
EXTENDS ChrootPool, TLC

CONSTANTS b1, b2, once

\* The builds of the worker are interchangeable.
BuildSymmetry == Permutations(Builds)

============================================================================
