--------------------------- MODULE MCPublication ---------------------------
(* Instances of Publication for TLC. *)
EXTENDS Publication

CONSTANTS b1, b2, b3, p1, p2, n1, n2, d1, d2, x86

OnePlatform == [n \in Names |-> x86]
OwnDirs == [n \in Names |-> IF n = n2 THEN d2 ELSE d1]
\* b1 and b2 build p1, b3 builds p2.
Package == [b \in Builds |-> IF b = b3 THEN p2 ELSE p1]
AllX86 == [b \in Builds |-> x86]

\* A new version: b2 replaces what b1 published; b3 publishes b1's name.
NewVersion == [b \in Builds |-> IF b = b2 THEN {n2} ELSE {n1}]
\* A rebuild at the same version, or the same file from another package.
SameName == [b \in Builds |-> {n1}]
NoDependencies == {}
FirstNeedsSecond == {<<p1, p2>>}

============================================================================
