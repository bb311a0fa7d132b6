---------------------------- MODULE MCTerminals ----------------------------
(* Instances of Terminals for TLC. *)
EXTENDS Terminals, TLC

AllCallers == Turns \cup Openings
OpeningSymmetry == Permutations(Openings)
=============================================================================
