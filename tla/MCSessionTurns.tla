--------------------------- MODULE MCSessionTurns ---------------------------
(* Instances of SessionTurns for TLC. *)
EXTENDS SessionTurns, TLC

\* Every session works in the one folder of its project.
SharedRoot == [s \in Sessions |-> "folder"]

Interchangeable == Permutations(Turns)
=============================================================================
