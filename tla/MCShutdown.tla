----------------------------- MODULE MCShutdown -----------------------------
(* Instances of Shutdown for TLC. *)
EXTENDS Shutdown, TLC

SharedRoot == [s \in Sessions |-> "folder"]
Interchangeable == Permutations(Turns)
=============================================================================
