---------------------------- MODULE MCBuildQueue ----------------------------
(* Instances of BuildQueue for TLC. *)
EXTENDS BuildQueue, TLC

CONSTANTS w1, w2, p1, p2, x86, arm

AllArches == [w \in Workers |-> Platforms]
NoAffinity == [w \in Workers |-> {}]
FirstReserves == [w \in Workers |-> IF w = w1 THEN {p2} ELSE {}]
EqualPriority == [w \in Workers |-> 0]
FirstPreferred == [w \in Workers |-> IF w = w1 THEN 1 ELSE 0]
OneAtATime == [w \in Workers |-> 1]
TwoAtATime == [w \in Workers |-> 2]
AgeTwo == [p \in Pkgs |-> 2]

WorkerSymmetry == Permutations(Workers)

============================================================================
