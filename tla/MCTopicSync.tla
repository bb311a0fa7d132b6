---------------------------- MODULE MCTopicSync ----------------------------
(***************************************************************************)
(* TopicSync for TLC: a topic with one entry holding one text field.       *)
(***************************************************************************)
EXTENDS TopicSync, TLC

CONSTANTS c1, c2, k1, k2, t1, t2, s1, s2

\* The text's length; Missing is a topic without the entry.
Missing == -1
MCData == -1 .. 2
MCEmptyData == Missing
MCInitialData == {Missing, 1}
MCOneInitial == {0}

Upsert == [d \in MCData |-> 0]
Remove == [d \in MCData |-> Missing]
AppendText == [d \in MCData |-> IF d \in {Missing, 2} THEN Drift ELSE d + 1]
AppendMore == [d \in MCData |-> IF d \in {Missing, 1, 2} THEN Drift ELSE d + 2]
MCAppending == {AppendText, AppendMore}
MCAppendOnly == {Upsert, AppendText}
MCRemoving == {Remove, AppendText}

\* For runs that tell neither clients, nor sockets, nor stores apart.
MCSymmetry == Permutations({c1, c2}) \cup Permutations({k1, k2}) \cup Permutations({s1, s2})
\* For one client that does not tell its sockets apart.
MCSockets == Permutations({k1, k2})
=============================================================================
