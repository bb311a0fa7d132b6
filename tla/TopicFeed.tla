----------------------------- MODULE TopicFeed -----------------------------
(***************************************************************************)
(* What live topics promise to a client, without sockets, stores or        *)
(* patches: a topic is a line of numbered contents, and a client shows     *)
(* nothing of it or one of these contents, under its number.  While it     *)
(* shows a topic it only moves forward along the line.                     *)
(*                                                                         *)
(* While nobody shows a topic its line may be rebuilt at its end or skip    *)
(* revs (a first subscriber makes the provider create its store anew, a    *)
(* store that nobody subscribes to may still publish); it starts again     *)
(* from 0, with nobody showing anything, when the server restarts.         *)
(***************************************************************************)
EXTENDS Integers

CONSTANTS Clients, Topics, Data, Revs, Nothing

VARIABLES
    line,       \* line[t][r]: the contents topic t had at rev r
    end,        \* end[t]: the latest rev of t
    shown       \* shown[c][t]: Nothing, or the rev and data client c shows

vars == <<line, end, shown>>

Init ==
    /\ line \in [Topics -> [Revs -> Data]]
    /\ end = [t \in Topics |-> 0]
    /\ shown = [c \in Clients |-> [t \in Topics |-> Nothing]]

Announce(t) ==
    /\ end'[t] = end[t] + 1
    /\ \E d \in Data : line'[t] = [line[t] EXCEPT ![end[t] + 1] = d]

Rebuild(t) ==
    /\ \A c \in Clients : shown[c][t] = Nothing
    /\ end'[t] >= end[t]
    /\ \E d \in Data : line'[t] = [line[t] EXCEPT ![end'[t]] = d]

Restart(t) ==
    /\ end'[t] = 0
    /\ \A c \in Clients : shown'[c][t] = Nothing

Hide(c, t) == shown'[c][t] = Nothing

\* Show, or go on to, a rev of the line.
Show(c, t) ==
    \E r \in 0 .. end[t] :
        /\ shown[c][t] = Nothing \/ shown[c][t].rev <= r
        /\ shown'[c][t] = [rev |-> r, data |-> line[t][r]]

LineStep(t) == Announce(t) \/ Rebuild(t) \/ Restart(t) \/ (line'[t] = line[t] /\ end'[t] = end[t])
ViewStep(c, t) == Hide(c, t) \/ Show(c, t) \/ shown'[c][t] = shown[c][t]

\* The topics and the clients move independently of one another.
Next == \A t \in Topics : LineStep(t) /\ \A c \in Clients : ViewStep(c, t)

Spec == Init /\ [][Next]_vars
=============================================================================
