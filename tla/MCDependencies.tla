--------------------------- MODULE MCDependencies ---------------------------
(* Instances of Dependencies: an application, the library it needs and an  *)
(* alternative to that library.                                            *)
EXTENDS Dependencies, TLC

CONSTANTS app, lib, alt, t1, t2

None == [n \in {} |-> 0]

(* The library's first release needs the application back. *)
Cycle == (app :> << lib :> 1 >>) @@ (lib :> << app :> 1, None >>) @@ (alt :> << None >>)

TaskSymmetry == Permutations(Tasks)

(* A patched application needs the alternative as well. *)
Both == (app :> (lib :> 1 @@ alt :> 1)) @@ (lib :> None) @@ (alt :> None)

(* The alternative answers to the library's name. *)
Answers == (app :> {app}) @@ (lib :> {lib}) @@ (alt :> {alt, lib})
=============================================================================
