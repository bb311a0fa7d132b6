----------------------------- MODULE MCSubagents -----------------------------
(* Instances of SubagentDelivery for TLC. *)
EXTENDS SubagentDelivery, TLC

CONSTANTS claude, codex, npm, p, c1, c2

OneLock == [h \in Harnesses |-> npm]
OneParent == [c \in Children |-> p]
OwnHarness == [s \in Sessions |-> IF s = c1 THEN codex ELSE claude]
=============================================================================
