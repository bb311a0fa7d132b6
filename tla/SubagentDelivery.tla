--------------------------- MODULE SubagentDelivery ---------------------------
(***************************************************************************)
(* Subagents and their results.  A session may have subagents, sessions of *)
(* their own whose turns end with a result.  SubagentDelivery starts a     *)
(* turn of the parent, a wake, that tells it the results it has not seen   *)
(* yet, when the parent is free.  An agent that asks for a result during   *)
(* its turn acknowledges it, and is not woken for that one any more.  A    *)
(* parent whose turn ended while subagents work waits for them and shows   *)
(* itself as working.                                                      *)
(***************************************************************************)
EXTENDS HarnessUpdates

CONSTANTS
    Parents,        \* top-level sessions
    Children,       \* subagents
    ParentOf,
    HarnessOf,      \* of every session
    MaxStarts,      \* bound: turns users and agents start
    MaxShutdowns,   \* bound
    MaxOutages      \* bound: updates and shutdowns together

Sessions == Parents \cup Children
TurnNo == 0..MaxStarts

ASSUME DeliveryAssumption ==
    /\ Parents \cap Children = {}
    /\ ParentOf \in [Children -> Parents]
    /\ HarnessOf \in [Sessions -> Harnesses]
    /\ MaxStarts \in Nat /\ MaxShutdowns \in Nat /\ MaxOutages \in Nat

VARIABLES
    turn,           \* of each session: "none", "starting" (pendingTurns) or "active"
    starts,         \* turns started so far
    asked,          \* and those of each subagent, of which the latest is the present one
    stopAsked,      \* StartingTurn.stopRequested
    closed,         \* resolved or archived
    waits,          \* SessionManager.subagentWaits
    result,         \* SessionMeta.subagent: the result of the latest turn
    wake,           \* SubagentDelivery.starting, with the results the prompt tells
    held,
    due,            \* parents a scheduled evaluation will look at
    shutdowns,
    told,           \* history: how often a result was told by a wake, or acknowledged first
    noticed,        \* history: parents that were told a wake failed, and not woken since
    userStopped     \* history: parents the user stopped and did not set to work again

deliveryVars == <<turn, starts, asked, stopAsked, closed, waits, result, wake, held, due, shutdowns, told, noticed, userStopped>>
subagentVars == <<updateVars, reserved, deliveryVars>>

Outcomes == {"none", "done", "interrupted"}
Result == [turn : TurnNo, outcome : Outcomes, delivered : BOOLEAN]
NoResult == [turn |-> 0, outcome |-> "none", delivered |-> FALSE]

DeliveryInit ==
    /\ turn = [s \in Sessions |-> "none"] /\ starts = 0 /\ asked = [c \in Children |-> 0]
    /\ stopAsked = {} /\ closed = {} /\ waits = {}
    /\ result = [c \in Children |-> NoResult]
    /\ wake = [p \in Parents |-> {}]
    /\ held = {} /\ due = {} /\ shutdowns = 0
    /\ told = [c \in Children |-> [n \in TurnNo |-> 0]]
    /\ noticed = {} /\ userStopped = {}

\* the parent an event of session s is about
About(s) == IF s \in Parents THEN s ELSE ParentOf[s]
ChildrenOf(p) == {c \in Children : ParentOf[c] = p}
WorkingChildren(p) == {c \in ChildrenOf(p) : turn[c] # "none"}
Busy == {HarnessOf[s] : s \in {t \in Sessions : turn[t] # "none"}}
Waking(p) == wake[p] # {}

\* assertCanStartTurn
CanStart(s) == ~reserved /\ s \notin closed /\ turn[s] = "none" /\ HarnessOf[s] \notin Gated

\* Reevaluations are asked for after every change of a session.
Reevaluate(ss) == due' = due \cup {About(s) : s \in ss}

-----------------------------------------------------------------------------
(* Turns *)

\* A turn of each session in ss is interrupted.
Interrupted(ss) ==
    /\ turn' = [s \in Sessions |-> IF s \in ss THEN "none" ELSE turn[s]]
    /\ result' = [c \in Children |->
                    IF c \in ss THEN [turn |-> asked[c], outcome |-> "interrupted", delivered |-> FALSE]
                    ELSE result[c]]

\* A user or an agent starts a turn; beginTurn and startTurn up to its first await.
StartTurn(s) ==
    /\ CanStart(s) /\ starts < MaxStarts
    /\ turn' = [turn EXCEPT ![s] = "starting"]
    /\ starts' = starts + 1
    /\ asked' = [c \in Children |-> IF c = s THEN asked[c] + 1 ELSE asked[c]]
    /\ Reevaluate({s})
    /\ UNCHANGED <<stopAsked, closed, waits, result, wake, held, shutdowns, told, noticed, userStopped>>

\* The driver has the turn, the earlier result of the session is gone, and a stop that
\* came meanwhile interrupts it at once (the rest of startTurn, TurnService.start).
Launch(s) ==
    /\ turn[s] = "starting" /\ ~reserved /\ HarnessOf[s] \notin Gated
    /\ s \in Parents => ~Waking(s)
    /\ turn' = [turn EXCEPT ![s] = IF s \in stopAsked THEN "none" ELSE "active"]
    /\ result' = [c \in Children |->
                    IF c # s THEN result[c]
                    ELSE IF s \in stopAsked THEN [turn |-> asked[c], outcome |-> "interrupted", delivered |-> FALSE]
                    ELSE NoResult]
    /\ waits' = waits \ {s}
    /\ held' = IF s \in Children THEN held ELSE IF s \in stopAsked THEN held \cup {s} ELSE held \ {s}
    /\ userStopped' = IF s \in stopAsked THEN userStopped ELSE userStopped \ {s}
    /\ stopAsked' = stopAsked \ {s}
    /\ Reevaluate({s})
    /\ UNCHANGED <<starts, asked, closed, wake, shutdowns, told, noticed>>

\* markDelivered of what the prompt told, unless the child has begun another turn
Marked(p) ==
    result' = [c \in Children |->
                 IF <<c, result[c].turn>> \in wake[p] THEN [result[c] EXCEPT !.delivered = TRUE] ELSE result[c]]

\* Faulty: does not ask whether the parent has a turn, so that one that is just being
\* woken acknowledges what the wake will tell.
AckAnyTime(c) ==
    /\ result[c].outcome # "none" /\ ~result[c].delivered
    /\ result' = [result EXCEPT ![c].delivered = TRUE]
    /\ told' = [told EXCEPT ![c][result[c].turn] = @ + 1]
    /\ Reevaluate({c})
    /\ UNCHANGED <<turn, starts, asked, stopAsked, closed, waits, wake, held, shutdowns, noticed, userStopped>>

\* subagents.ack: during its own turn a parent asked for the result its subagent has now.
\* Of a result that is marked already, nothing changes.
Ack(c) ==
    /\ turn[ParentOf[c]] = "active"
    /\ result[c].outcome # "none" /\ ~result[c].delivered
    /\ result' = [result EXCEPT ![c].delivered = TRUE]
    /\ told' = [told EXCEPT ![c][result[c].turn] = @ + 1]
    /\ Reevaluate({c})
    /\ UNCHANGED <<turn, starts, asked, stopAsked, closed, waits, wake, held, shutdowns, noticed, userStopped>>

\* The same for a wake.  What follows launching is done before anything else happens:
\* the evaluations it asks for still find the parent in starting.
WakeLaunches(p) ==
    /\ turn[p] = "starting" /\ Waking(p) /\ ~reserved /\ HarnessOf[p] \notin Gated
    /\ turn' = [turn EXCEPT ![p] = IF p \in stopAsked THEN "none" ELSE "active"]
    /\ Marked(p)
    /\ told' = [c \in Children |-> [n \in TurnNo |-> IF <<c, n>> \in wake[p] THEN told[c][n] + 1 ELSE told[c][n]]]
    /\ wake' = [wake EXCEPT ![p] = {}]
    /\ waits' = waits \ {p}
    /\ held' = IF p \in stopAsked THEN held \cup {p} ELSE held
    /\ stopAsked' = stopAsked \ {p}
    /\ noticed' = noticed \ {p}
    /\ due' = due \ {p}
    /\ UNCHANGED <<starts, asked, closed, shutdowns, userStopped>>

\* The start fails (worktree, folder, snapshot, reservation) and the status goes back.
StartFails(s) ==
    /\ turn[s] = "starting"
    /\ s \in Parents => ~Waking(s)
    /\ turn' = [turn EXCEPT ![s] = "none"]
    /\ held' = IF s \in Parents \cap stopAsked THEN held \cup {s} ELSE held
    /\ stopAsked' = stopAsked \ {s}
    /\ Reevaluate({s})
    /\ UNCHANGED <<starts, asked, closed, waits, result, wake, shutdowns, told, noticed, userStopped>>

\* Faulty: a stop that came during the start is not passed on when the start fails.
WakeFailsUnheld(p, refused) ==
    /\ turn[p] = "starting" /\ Waking(p)
    /\ refused => reserved
    /\ turn' = [turn EXCEPT ![p] = "none"]
    /\ wake' = [wake EXCEPT ![p] = {}]
    /\ stopAsked' = stopAsked \ {p}
    /\ noticed' = IF refused THEN noticed ELSE noticed \cup {p}
    /\ waits' = IF refused \/ WorkingChildren(p) # {} THEN waits ELSE waits \ {p}
    /\ due' = due \ {p}
    /\ UNCHANGED <<starts, asked, closed, result, held, shutdowns, told, userStopped>>

\* wake's catch: when the server refused it for a shutdown, the recovery asks again; for
\* any other reason the parent gets a notice, and waits no longer than its subagents
\* work.  Evaluations asked for meanwhile find the parent in starting and are spent.
WakeFails(p, refused) ==
    /\ turn[p] = "starting" /\ Waking(p)
    /\ refused => reserved
    /\ turn' = [turn EXCEPT ![p] = "none"]
    /\ wake' = [wake EXCEPT ![p] = {}]
    /\ held' = IF p \in stopAsked THEN held \cup {p} ELSE held
    /\ stopAsked' = stopAsked \ {p}
    /\ noticed' = IF refused THEN noticed ELSE noticed \cup {p}
    /\ waits' = IF refused \/ WorkingChildren(p) # {} THEN waits ELSE waits \ {p}
    /\ due' = due \ {p}
    /\ UNCHANGED <<starts, asked, closed, result, shutdowns, told, userStopped>>

\* turn.done and turn.error; the status of a parent that is done depends on its subagents.
TurnEnds(s, failed) ==
    /\ turn[s] = "active"
    /\ turn' = [turn EXCEPT ![s] = "none"]
    /\ waits' = IF s \in Parents /\ ~failed /\ WorkingChildren(s) # {} THEN waits \cup {s} ELSE waits
    /\ result' = [c \in Children |->
                    IF c = s THEN [turn |-> asked[c], outcome |-> "done", delivered |-> FALSE] ELSE result[c]]
    /\ Reevaluate({s})
    /\ UNCHANGED <<starts, asked, stopAsked, closed, wake, held, shutdowns, told, noticed, userStopped>>

\* TurnService.stop: the turn of s, the one it is starting, or the wait; and the turns of
\* its subagents.
Stop(s) ==
    /\ turn[s] # "none" \/ s \in waits
    /\ LET ss == {s} \cup {c \in Children : ParentOf[c] = s} IN
         /\ Interrupted({t \in ss : turn[t] = "active"})
         /\ stopAsked' = stopAsked \cup {t \in ss : turn[t] = "starting"}
         /\ Reevaluate({t \in ss : turn[t] = "active"} \cup (IF turn[s] = "none" THEN {s} ELSE {}))
    /\ waits' = IF turn[s] = "none" THEN waits \ {s} ELSE waits
    /\ held' = IF s \in Parents /\ turn[s] # "starting" THEN held \cup {s} ELSE held
    /\ userStopped' = IF s \in Parents THEN userStopped \cup {s} ELSE userStopped
    /\ UNCHANGED <<starts, asked, closed, wake, shutdowns, told, noticed>>

-----------------------------------------------------------------------------
(* Sessions *)

\* resolveSession: the subagents of a parent are stopped and resolved with it; one that
\* is starting is asked to stop, and resolved, by a Close of its own, once its start is over.
Close(s) ==
    /\ s \notin closed /\ turn[s] = "none"
    /\ LET cs == {c \in Children : ParentOf[c] = s /\ c \notin closed}
           late == {c \in cs : turn[c] = "starting"}
       IN  /\ closed' = closed \cup {s} \cup (cs \ late)
           /\ Interrupted({c \in cs : turn[c] = "active"})
           /\ stopAsked' = stopAsked \cup late
           /\ Reevaluate({s} \cup cs)
    /\ waits' = waits \ {s}
    /\ UNCHANGED <<starts, asked, wake, held, shutdowns, told, noticed, userStopped>>

\* restoreSession
Reopen(s) ==
    /\ s \in closed
    /\ closed' = closed \ {s}
    /\ Reevaluate({s})
    /\ UNCHANGED <<turn, starts, asked, stopAsked, waits, result, wake, held, shutdowns, told, noticed, userStopped>>

\* setSessionStatus, by a user, of a session that waits
SetStatus(p) ==
    /\ p \in waits
    /\ waits' = waits \ {p}
    /\ Reevaluate({p})
    /\ UNCHANGED <<turn, starts, asked, stopAsked, closed, result, wake, held, shutdowns, told, noticed, userStopped>>

-----------------------------------------------------------------------------
(* Evaluation *)

Undelivered(p) ==
    {c \in ChildrenOf(p) : result[c].outcome # "none" /\ ~result[c].delivered /\ c \notin closed}

ShouldWake(p) ==
    /\ p \notin held /\ p \notin closed /\ turn[p] = "none"
    /\ \E c \in Undelivered(p) : result[c].outcome # "interrupted"

\* Faulty: a parent that need not be woken goes on waiting.
SettlesNothing(p) == UNCHANGED waits

\* settleWait: nobody works for the parent any more.
SettleWait(p) == waits' = IF turn[p] = "none" /\ WorkingChildren(p) = {} THEN waits \ {p} ELSE waits

\* evaluate, for one parent.  A wake that the gate of an update refuses is tried again
\* when the update is over.
Evaluate(p) ==
    /\ p \in due
    /\ due' = due \ {p}
    /\ \/ /\ reserved \/ Waking(p)
          /\ UNCHANGED <<turn, wake, waits>>
       \/ /\ ~reserved /\ ~Waking(p) /\ ~ShouldWake(p)
          /\ SettleWait(p)
          /\ UNCHANGED <<turn, wake>>
       \/ /\ ~reserved /\ ~Waking(p) /\ ShouldWake(p)
          /\ IF CanStart(p)
             THEN /\ turn' = [turn EXCEPT ![p] = "starting"]
                  /\ wake' = [wake EXCEPT ![p] = {<<c, result[c].turn>> : c \in Undelivered(p)}]
             ELSE UNCHANGED <<turn, wake>>
          /\ UNCHANGED waits
    /\ UNCHANGED <<starts, asked, stopAsked, closed, result, held, shutdowns, told, noticed, userStopped>>

-----------------------------------------------------------------------------
(* Shutdown and updates *)

\* prepare: the server refuses work and the turns are interrupted.  (Whoever disposes
\* the services later finds nothing that the reservation does not stop already.)
Reserve ==
    /\ ~reserved /\ shutdowns < MaxShutdowns /\ updates + shutdowns < MaxOutages
    /\ reserved' = TRUE /\ shutdowns' = shutdowns + 1
    /\ Interrupted({s \in Sessions : turn[s] = "active"})
    /\ Reevaluate(Sessions)
    /\ UNCHANGED <<updateVars, starts, asked, stopAsked, closed, waits, wake, held, told, noticed, userStopped>>

\* A recovery: resume, reactivate.
Recover ==
    /\ reserved
    /\ reserved' = FALSE
    /\ due' = Parents
    /\ UNCHANGED <<updateVars, turn, starts, asked, stopAsked, closed, waits, result, wake, held, shutdowns, told, noticed, userStopped>>

\* Faulty: the end of an update asks for no evaluation.
UpdateEndsQuietly(h) == Ends(h) /\ UNCHANGED <<reserved, deliveryVars>>

\* onUpdateEnded
UpdateEnds(h) ==
    /\ Ends(h)
    /\ due' = Parents
    /\ UNCHANGED <<reserved, turn, starts, asked, stopAsked, closed, waits, result, wake, held, shutdowns, told, noticed, userStopped>>

TurnStep(s) ==
    \/ StartTurn(s) \/ Launch(s) \/ StartFails(s) \/ Stop(s) \/ Close(s) \/ Reopen(s)
    \/ \E failed \in BOOLEAN : TurnEnds(s, failed)

WakeStep(p) ==
    \/ Evaluate(p) \/ WakeLaunches(p) \/ SetStatus(p)
    \/ \E refused \in BOOLEAN : WakeFails(p, refused)

SubagentsNext ==
    \/ /\ \/ \E s \in Sessions : TurnStep(s)
          \/ \E p \in Parents : WakeStep(p)
          \/ \E c \in Children : Ack(c)
       /\ UNCHANGED <<updateVars, reserved>>
    \/ UpdateNext(Busy) /\ updates' + shutdowns <= MaxOutages /\ UNCHANGED <<reserved, deliveryVars>>
    \/ \E h \in Harnesses : UpdateEnds(h)
    \/ Reserve \/ Recover

SubagentsInit == UpdatesInit /\ reserved = FALSE /\ DeliveryInit

SubagentsSpec == SubagentsInit /\ [][SubagentsNext]_subagentVars

StartEnds ==
    \/ \E s \in Sessions : Launch(s) \/ StartFails(s)
    \/ \E p \in Parents : WakeLaunches(p) \/ \E refused \in BOOLEAN : WakeFails(p, refused)

\* Microtasks run, the awaits of a start end one way or the other, turns end, updates end,
\* and a shutdown that does not exit is recovered (Shutdown's ShutdownEnds).
Fairness ==
    /\ WF_subagentVars((\E p \in Parents : Evaluate(p)) /\ UNCHANGED <<updateVars, reserved>>)
    /\ WF_subagentVars(StartEnds /\ UNCHANGED <<updateVars, reserved>>)
    /\ WF_subagentVars((\E s \in Sessions : TurnEnds(s, FALSE)) /\ UNCHANGED <<updateVars, reserved>>)
    /\ WF_subagentVars(\E h \in Harnesses : UpdateEnds(h))
    /\ WF_subagentVars(Recover)

LiveSubagentsSpec == SubagentsSpec /\ Fairness

-----------------------------------------------------------------------------
(* What is promised *)

SubagentsTypeOK ==
    /\ UpdatesTypeOK
    /\ turn \in [Sessions -> {"none", "starting", "active"}]
    /\ starts \in 0..MaxStarts /\ asked \in [Children -> TurnNo]
    /\ stopAsked \subseteq {s \in Sessions : turn[s] = "starting"}
    /\ closed \subseteq Sessions /\ waits \subseteq Parents /\ held \subseteq Parents /\ due \subseteq Parents
    /\ result \in [Children -> Result]
    /\ wake \in [Parents -> SUBSET (Children \X TurnNo)]
    /\ shutdowns \in 0..MaxShutdowns
    /\ told \in [Children -> [TurnNo -> Nat]]
    /\ noticed \subseteq Parents /\ userStopped \subseteq Parents

\* A result is told by one wake at most, by none once its parent acknowledged it, and it
\* is marked as delivered exactly when one or the other happened: whatever a subagent or
\* its parent does between the prompt and the mark, a later result is neither taken for
\* the told one nor told with it.
ExactlyOnce ==
    \A c \in Children :
      /\ \A n \in TurnNo : told[c][n] <= 1
      /\ result[c].outcome # "none" => (result[c].delivered <=> told[c][result[c].turn] = 1)

\* While the command of an update runs, no turn of its harness runs or starts, and no
\* other update of the same installation is under way.
UpdatesAlone ==
    /\ Gated \cap Busy = {}
    /\ \A g, h \in Gated : g # h => LockOf[g] # LockOf[h]

\* What the user stopped is not set to work again by its subagents: no wake begins
\* before a turn of the user's was launched, even if the stop met a start that failed.
StopHolds == [][\A p \in userStopped : ~Waking(p) => wake'[p] = {}]_subagentVars

\* A result that is worth a turn reaches the parent, or is superseded by the next turn of
\* its subagent, unless the user stopped the parent, closed one of them, or the parent
\* was told that it could not be woken: no update, shutdown or busy parent leaves one for
\* good.
ResultsArrive ==
    \A c \in Children :
      []<>(\/ result[c].outcome # "done" \/ result[c].delivered
           \/ c \in closed \/ ParentOf[c] \in held \cup closed \cup noticed)

\* A parent does not show itself as working for ever: its wait ends.
WaitsEnd == \A p \in Parents : []<>(p \notin waits)
=============================================================================
