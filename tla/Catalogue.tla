----------------------------- MODULE Catalogue -----------------------------
(***************************************************************************)
(* What publishing promises, with no word of locks, plans, renames,        *)
(* retries, failed commits or crashes: the catalogue says for every file   *)
(* which package publishes it and which build it came from, and one step   *)
(* puts all of a build's files in, the files its package no longer         *)
(* produces out, or a removed package's files out.                         *)
(***************************************************************************)

CONSTANTS Builds, Pkgs, Names, Nobody, PkgOf, Produces, PlatformFiles

VARIABLE catalogue    \* [Names -> entry]

Empty == [owner |-> Nobody, build |-> Nobody]

Init == catalogue = [n \in Names |-> Empty]

Publish(b) ==
    catalogue' = [n \in Names |->
        IF n \in Produces[b] THEN [owner |-> PkgOf[b], build |-> b]
        ELSE IF n \in PlatformFiles[b] /\ catalogue[n].owner = PkgOf[b] THEN Empty
        ELSE catalogue[n]]

Remove(p) ==
    catalogue' = [n \in Names |-> IF catalogue[n].owner = p THEN Empty ELSE catalogue[n]]

Next == (\E b \in Builds : Publish(b)) \/ (\E p \in Pkgs : Remove(p))

Spec == Init /\ [][Next]_catalogue

============================================================================
