---------------------------- MODULE SessionTurns ----------------------------
(***************************************************************************)
(* Turns of the sessions of one server: SessionManager with TurnService,   *)
(* PendingRequests and the drivers of the CLIs.  A session has at most one *)
(* turn; starting one takes several awaits, during which stops, resolves,  *)
(* undos, branch switches, driver events and a shutdown come in between.   *)
(*                                                                         *)
(* Each action is one stretch of code between two awaits.  A driver is its *)
(* contract: a turn runs, asks requests, and ends with an event or, when it*)
(* was interrupted, without one.  A user may set any status by hand at any *)
(* time.  Folder contents, snapshots and titles are left out; of subagents *)
(* only the wait of their parent is there; "done" stands for "done" and    *)
(* "babysit", "resolved" for "resolved" and "archived".                    *)
(***************************************************************************)
EXTENDS Integers, FiniteSets

CONSTANTS
    Sessions, NoSession,
    Turns,          \* bound: the turn ids drivers give out
    Requests,       \* bound: requests one turn may have open at once
    Root,           \* the folder each session works in
    SlowStart,      \* Claude sessions: startTurn awaits a GitHub token last
    Opencode,       \* sessions whose driver can retry a connection
    Parents,        \* sessions that may have subagents at work
    Retries,        \* bound: retries under way at once
    MaxExtras,      \* bound: retries, requests of interrupted turns, statuses set by hand
    MaxDrivers      \* bound: generations of drivers

ASSUME SessionAssumption ==
    /\ NoSession \notin Sessions
    /\ DOMAIN Root = Sessions
    /\ SlowStart \subseteq Sessions /\ Opencode \subseteq Sessions /\ Parents \subseteq Sessions
    /\ SlowStart \cap Opencode = {}
ASSUME TurnBoundAssumption == MaxExtras \in Nat /\ MaxDrivers \in Nat \ {0}

VARIABLES
    status,         \* SessionMeta.status
    start,          \* pendingTurns, with what each startTurn under way holds
    retry,          \* retryConnection calls under way
    resolving,      \* pendingResolves
    restoring,      \* pendingRestores
    marking,        \* markWorking calls under way
    undoing,        \* pendingUndos
    switching,      \* pendingBranchSwitches
    active,         \* activeTurns: the session of a turn
    settled,        \* settledTurns
    request,        \* PendingRequests of a turn
    run,            \* the drivers' side of a turn
    drivers,        \* driverGeneration
    broken,         \* driverFailure
    reserved,       \* shutdownReserved
    extras,         \* retries, late requests and statuses set by hand so far
    waits,          \* subagentWaits
    marked          \* history: sessions whose status was set by hand since their
                    \* last turn began to start; start.hand is what it was before

workVars   == <<retry, resolving, restoring, marking, undoing, switching>>
driverVars == <<drivers, broken, reserved>>
waitVars   == <<waits, marked>>
turnVars   == <<active, settled, request, run>>
vars       == <<status, start, workVars, turnVars, driverVars, waitVars, extras>>

-----------------------------------------------------------------------------
Statuses == {"idle", "working", "input-required", "done", "holding", "resolved"}
Start == [stage : {"none", "opening", "launching"}, was : Statuses, hand : SUBSET Sessions,
          gen : 0..MaxDrivers, stop : BOOLEAN]
NoStart == [stage |-> "none", was |-> "idle", hand |-> {}, gen |-> 0, stop |-> FALSE]
Retry == [stage : {"none", "opening", "attaching"}, session : Sessions \cup {NoSession}, gen : 0..MaxDrivers]
NoRetry == [stage |-> "none", session |-> NoSession, gen |-> 0]
Run == [state : {"unused", "running", "stopping", "gone"}, session : Sessions \cup {NoSession}, gen : 0..MaxDrivers]
NoRun == [state |-> "unused", session |-> NoSession, gen |-> 0]
NoRequests == [q \in Requests |-> "none"]

\* hasTurnInFlight
TurnsOf(s) == {t \in Turns : active[t] = s}
Pending(s) == start[s].stage # "none"
InFlight(s) == Pending(s) \/ TurnsOf(s) # {}

\* sameRootSessions
OnRoot(s) == {o \in Sessions : Root[o] = Root[s]}
UndoOnRoot(s) == OnRoot(s) \cap undoing # {}
SwitchOnRoot(s) == OnRoot(s) \cap switching # {}

\* assertNotReserved
Refused == reserved \/ broken

Init ==
    /\ status \in [Sessions -> {"idle", "holding"}]
    /\ start = [s \in Sessions |-> NoStart]
    /\ retry = [r \in Retries |-> NoRetry]
    /\ resolving = [s \in Sessions |-> "none"]
    /\ restoring = {} /\ marking = {} /\ undoing = {} /\ switching = {}
    /\ active = [t \in Turns |-> NoSession]
    /\ settled = [t \in Turns |-> NoSession]
    /\ request = [t \in Turns |-> NoRequests]
    /\ run = [t \in Turns |-> NoRun]
    /\ drivers = 1 /\ broken = FALSE /\ reserved = FALSE
    /\ extras = 0
    /\ waits = {} /\ marked = {}

-----------------------------------------------------------------------------
(* Starting a turn *)

\* Faulty: does not look at the resolves, undos and switches.
CanStartUnlocked(s) ==
    /\ ~Refused
    /\ status[s] # "resolved"
    /\ ~InFlight(s)
    /\ s \notin restoring

\* Faulty: does not look at the resolves.
CanStartWhileResolving(s) ==
    /\ ~Refused
    /\ status[s] # "resolved"
    /\ ~InFlight(s)
    /\ s \notin restoring
    /\ ~UndoOnRoot(s) /\ ~SwitchOnRoot(s)

\* assertCanStartTurn
CanStart(s) ==
    /\ ~Refused
    /\ status[s] # "resolved"
    /\ ~InFlight(s)
    /\ resolving[s] = "none" /\ s \notin restoring
    /\ ~UndoOnRoot(s) /\ ~SwitchOnRoot(s)

\* startTurn up to its first await
StartTurn(s) ==
    /\ CanStart(s)
    /\ start' = [start EXCEPT ![s] =
                   [NoStart EXCEPT !.stage = "opening", !.was = status[s], !.hand = marked \cap {s}]]
    /\ status' = [status EXCEPT ![s] = "working"]
    /\ marked' = marked \ {s}
    /\ UNCHANGED <<workVars, turnVars, driverVars, waits, extras>>

\* settleTurn of the turns in T: a session remembers one settled turn.
Settle(T, owner) ==
    settled' = [t \in Turns |->
        IF t \in T THEN owner[t]
        ELSE IF \E u \in T : owner[u] = settled[t] THEN NoSession ELSE settled[t]]

Unanswered(T) == request' = [t \in Turns |-> IF t \in T THEN NoRequests ELSE request[t]]

\* Faulty: forgets the stop asked for during the start.
LaunchIgnoringStop(s, t, gen) ==
    /\ run[t] = NoRun
    /\ start' = [start EXCEPT ![s] = NoStart]
    /\ run' = [run EXCEPT ![t] = [state |-> "running", session |-> s, gen |-> gen]]
    /\ active' = [active EXCEPT ![t] = s]
    /\ status' = [status EXCEPT ![s] = "working"]
    /\ waits' = waits \ {s}
    /\ UNCHANGED <<settled, request, workVars, driverVars, marked, extras>>

\* driver.startTurn and what follows it.  A stop asked for meanwhile interrupts
\* the turn at once, through the drivers of the moment.
Launch(s, t, gen) ==
    LET stop == start[s].stop
    IN  /\ run[t] = NoRun
        /\ start' = [start EXCEPT ![s] = NoStart]
        /\ run' = [run EXCEPT ![t] = [state |-> IF stop /\ gen = drivers THEN "stopping" ELSE "running",
                                      session |-> s, gen |-> gen]]
        /\ IF stop
             THEN /\ Settle({t}, [active EXCEPT ![t] = s])
                  /\ UNCHANGED active
             ELSE /\ active' = [active EXCEPT ![t] = s]
                  /\ UNCHANGED settled
        /\ status' = [status EXCEPT ![s] = IF stop THEN "holding" ELSE "working"]
        /\ waits' = waits \ {s}
        /\ UNCHANGED <<request, workVars, driverVars, marked, extras>>

\* revertFailedTurnStart, after any error on the way
FailStart(s) ==
    /\ start' = [start EXCEPT ![s] = NoStart]
    /\ IF status[s] = "working" /\ TurnsOf(s) = {}
         THEN /\ status' = [status EXCEPT ![s] = start[s].was]
              /\ marked' = marked \cup start[s].hand
         ELSE UNCHANGED <<status, marked>>
    /\ UNCHANGED <<workVars, turnVars, driverVars, waits, extras>>

\* Faulty: does not check the reservation again.
OpenedUnchecked(s) ==
    /\ start[s].stage = "opening"
    /\ \E t \in Turns : Launch(s, t, drivers)

\* The worktree and the start snapshot are there; a Claude session picks its
\* driver and goes on to await the GitHub token.
Opened(s) ==
    /\ start[s].stage = "opening"
    /\ \/ FailStart(s)
       \/ /\ ~Refused /\ s \in SlowStart
          /\ start' = [start EXCEPT ![s].stage = "launching", ![s].gen = drivers]
          /\ UNCHANGED <<status, workVars, turnVars, driverVars, waitVars, extras>>
       \/ /\ ~Refused /\ s \notin SlowStart
          /\ \E t \in Turns : Launch(s, t, drivers)

TokenRefreshed(s) ==
    /\ start[s].stage = "launching"
    /\ \/ FailStart(s)
       \/ /\ ~Refused
          /\ \E t \in Turns : Launch(s, t, start[s].gen)

\* interrupt of the turns in T: the drivers of the moment are told, the turns
\* are settled and their requests dropped.
Interrupt(T) ==
    /\ active' = [t \in Turns |-> IF t \in T THEN NoSession ELSE active[t]]
    /\ Settle(T, active)
    /\ Unanswered(T)
    /\ run' = [t \in Turns |-> IF t \in T /\ run[t].state = "running" /\ run[t].gen = drivers
                 THEN [run[t] EXCEPT !.state = "stopping"] ELSE run[t]]
    /\ status' = [s \in Sessions |-> IF \E t \in T : active[t] = s THEN "holding" ELSE status[s]]

\* Faulty: ends the wait of a session that is busy too.
WaitOverAnyway(s, then) ==
    /\ s \in waits
    /\ waits' = waits \ {s}
    /\ status' = IF status[s] = "working" THEN [status EXCEPT ![s] = then] ELSE status

\* endSubagentWait, of a session that does nothing else
WaitOver(s, then) ==
    /\ s \in waits
    /\ ~InFlight(s) /\ resolving[s] = "none" /\ s \notin restoring
    /\ waits' = waits \ {s}
    /\ status' = IF status[s] = "working" THEN [status EXCEPT ![s] = then] ELSE status

\* TurnService.stop
Stop(s) ==
    /\ \/ /\ TurnsOf(s) # {}
          /\ Interrupt(TurnsOf(s))
          /\ UNCHANGED <<start, waits>>
       \/ /\ TurnsOf(s) = {} /\ Pending(s)
          /\ start' = [start EXCEPT ![s].stop = TRUE]
          /\ UNCHANGED <<status, turnVars, waits>>
       \/ /\ WaitOver(s, "holding")
          /\ UNCHANGED <<start, turnVars>>
    /\ UNCHANGED <<workVars, driverVars, marked, extras>>

-----------------------------------------------------------------------------
(* Retrying a connection *)

\* Only an active turn is in its way.
RetryConnection(r, s) ==
    /\ retry[r] = NoRetry
    /\ s \in Opencode /\ ~Refused /\ status[s] # "resolved"
    /\ TurnsOf(s) = {}
    /\ extras < MaxExtras /\ extras' = extras + 1
    /\ retry' = [retry EXCEPT ![r] = [stage |-> "opening", session |-> s, gen |-> drivers]]
    /\ UNCHANGED <<status, start, resolving, restoring, marking, undoing, switching, turnVars, driverVars, waitVars>>

\* The worktree is there, or the retry fails.
RetryOpened(r) ==
    /\ retry[r].stage = "opening"
    /\ \/ retry' = [retry EXCEPT ![r] = NoRetry]
       \/ /\ ~Refused
          /\ retry' = [retry EXCEPT ![r].stage = "attaching"]
    /\ UNCHANGED <<status, start, resolving, restoring, marking, undoing, switching, turnVars, driverVars, waitVars, extras>>

\* The driver found a turn running, found none, or failed.
RetryAttached(r) ==
    LET s == retry[r].session
    IN  /\ retry[r].stage = "attaching"
        /\ retry' = [retry EXCEPT ![r] = NoRetry]
        /\ \/ \E t \in Turns :
                /\ run[t] = NoRun
                /\ run' = [run EXCEPT ![t] = [state |-> "running", session |-> s, gen |-> retry[r].gen]]
                /\ active' = [active EXCEPT ![t] = s]
                /\ status' = [status EXCEPT ![s] = "working"]
           \/ /\ status' = [status EXCEPT ![s] = "idle"]
              /\ UNCHANGED <<active, run>>
           \/ UNCHANGED <<status, active, run>>
        /\ UNCHANGED <<start, resolving, restoring, marking, undoing, switching, settled, request, driverVars, waitVars, extras>>

-----------------------------------------------------------------------------
(* Driver events.  Those of an older generation are not routed. *)

Owner(t) == IF active[t] # NoSession THEN active[t] ELSE settled[t]
Routed(t) == run[t].gen = drivers
Alive(t) == run[t].state \in {"running", "stopping"}
Over(t) == run' = [run EXCEPT ![t].state = "gone"]

\* turn.done without background tasks: unless another turn of it is active, the
\* session is done, or is shown at work while it waits for its subagents; a turn
\* that was not active changes no status.
Done(t) ==
    LET s == run[t].session
    IN  /\ active' = [active EXCEPT ![t] = NoSession]
        /\ Settle({t}, [u \in Turns |-> s])
        /\ Unanswered({t})
        /\ \/ /\ active[t] # NoSession /\ TurnsOf(s) \ {t} = {}
              /\ \/ status' = [status EXCEPT ![s] = "done"] /\ UNCHANGED waits
                 \/ /\ s \in Parents
                    /\ status' = [status EXCEPT ![s] = "working"]
                    /\ waits' = waits \cup {s}
           \/ /\ active[t] = NoSession \/ TurnsOf(s) \ {t} # {}
              /\ UNCHANGED <<status, waits>>

\* turn.error: a session keeps the turn as its settled one if the turn is known.
Errored(t) ==
    /\ active' = [active EXCEPT ![t] = NoSession]
    /\ IF Owner(t) # NoSession THEN Settle({t}, [u \in Turns |-> Owner(t)]) ELSE UNCHANGED settled
    /\ Unanswered({t})
    /\ status' = IF active[t] # NoSession THEN [status EXCEPT ![active[t]] = "holding"] ELSE status
    /\ UNCHANGED waits

TurnEnds(t) ==
    /\ Alive(t)
    /\ Over(t)
    /\ \/ Routed(t) /\ (Done(t) \/ Errored(t))
       \/ /\ ~Routed(t) \/ run[t].state = "stopping"
          /\ UNCHANGED <<status, active, settled, request, waits>>
    /\ UNCHANGED <<start, workVars, driverVars, marked, extras>>

\* turn.done while background tasks go on
TurnGoesOn(t) ==
    /\ run[t].state = "running" /\ run[t].session \notin Opencode
    /\ Routed(t) /\ active[t] # NoSession
    /\ status' = [status EXCEPT ![active[t]] = "working"]
    /\ UNCHANGED <<start, workVars, turnVars, driverVars, waitVars, extras>>

\* approval.request or question.request, of an interrupted turn too
Ask(t, q) ==
    /\ Alive(t) /\ Routed(t) /\ Owner(t) # NoSession
    /\ request[t][q] = "none"
    /\ \/ run[t].state = "running" /\ UNCHANGED extras
       \/ /\ run[t].state = "stopping" /\ run[t].session \notin Opencode
          /\ extras < MaxExtras /\ extras' = extras + 1
    /\ request' = [request EXCEPT ![t][q] = "open"]
    /\ status' = [status EXCEPT ![Owner(t)] = "input-required"]
    /\ UNCHANGED <<start, workVars, active, settled, run, driverVars, waitVars>>

\* approval.resolved or question.resolved: answered or given up
OpenElsewhere(t, q) ==
    \E u \in Turns, p \in Requests :
        run[u].session = run[t].session /\ <<u, p>> # <<t, q>> /\ request[u][p] = "open"

AskSettled(t, q) ==
    /\ Alive(t) /\ Routed(t)
    /\ request[t][q] # "none"
    /\ request' = [request EXCEPT ![t][q] = "none"]
    /\ status' = IF active[t] # NoSession
                   THEN [status EXCEPT ![active[t]] = IF OpenElsewhere(t, q) THEN "input-required" ELSE "working"]
                   ELSE status
    /\ UNCHANGED <<start, workVars, active, settled, run, driverVars, waitVars, extras>>

\* answerPendingRequest: claimed while the driver is told, released when that fails
Claim(t, q) ==
    /\ request[t][q] = "open"
    /\ request' = [request EXCEPT ![t][q] = "claimed"]
    /\ UNCHANGED <<status, start, workVars, active, settled, run, driverVars, waitVars, extras>>

ReleaseClaim(t, q) ==
    /\ request[t][q] = "claimed"
    /\ request' = [request EXCEPT ![t][q] = "open"]
    /\ UNCHANGED <<status, start, workVars, active, settled, run, driverVars, waitVars, extras>>

-----------------------------------------------------------------------------
(* What else happens to a session or its folder *)

\* setSessionStatus: any status, whatever the session is doing, unless it is
\* being restored
SetStatus(s, v) ==
    /\ s \notin restoring
    /\ extras < MaxExtras /\ extras' = extras + 1
    /\ status' = [status EXCEPT ![s] = v]
    /\ waits' = IF v = "working" THEN waits ELSE waits \ {s}
    /\ marked' = marked \cup {s}
    /\ UNCHANGED <<start, workVars, turnVars, driverVars>>

\* Seen by the user, no longer followed, or held for long enough
Ages(s) ==
    /\ \/ status[s] = "done" /\ status' = [status EXCEPT ![s] = "holding"]
       \/ status[s] = "holding" /\ status' = [status EXCEPT ![s] = "idle"]
    /\ UNCHANGED <<start, workVars, turnVars, driverVars, waitVars, extras>>

\* Nothing of its subagents is left to wait for.
WaitSettles(s) ==
    /\ WaitOver(s, "done")
    /\ UNCHANGED <<start, workVars, turnVars, driverVars, marked, extras>>

\* resolveSession up to the awaits of runResolve
Resolve(s) ==
    /\ resolving[s] = "none"
    /\ ~InFlight(s) /\ s \notin restoring /\ ~UndoOnRoot(s)
    /\ resolving' = [resolving EXCEPT ![s] = "waiting"]
    /\ UNCHANGED <<status, start, retry, restoring, marking, undoing, switching, turnVars, driverVars, waitVars, extras>>

\* resolveSessionInner, or a resolve that gives up before it
ResolveDecides(s) ==
    /\ resolving[s] = "waiting"
    /\ \/ /\ resolving' = [resolving EXCEPT ![s] = "stopping"]
          /\ status' = [status EXCEPT ![s] = "resolved"]
          /\ waits' = waits \ {s}
          /\ Unanswered({t \in Turns : run[t].session = s})
       \/ /\ resolving' = [resolving EXCEPT ![s] = "none"]
          /\ UNCHANGED <<status, request, waits>>
    /\ UNCHANGED <<start, retry, restoring, marking, undoing, switching, active, settled, run, driverVars, marked, extras>>

\* The driver's session and the worktree are gone, or could not be removed.
ResolveEnds(s) ==
    /\ resolving[s] = "stopping"
    /\ resolving' = [resolving EXCEPT ![s] = "none"]
    /\ UNCHANGED <<status, start, retry, restoring, marking, undoing, switching, turnVars, driverVars, waitVars, extras>>

Restore(s) ==
    /\ ~Refused /\ status[s] = "resolved"
    /\ s \notin restoring /\ resolving[s] = "none"
    /\ restoring' = restoring \cup {s}
    /\ UNCHANGED <<status, start, retry, resolving, marking, undoing, switching, turnVars, driverVars, waitVars, extras>>

RestoreEnds(s) ==
    /\ s \in restoring
    /\ restoring' = restoring \ {s}
    /\ \/ ~Refused /\ status[s] = "resolved" /\ status' = [status EXCEPT ![s] = "idle"]
       \/ UNCHANGED status
    /\ UNCHANGED <<start, retry, resolving, marking, undoing, switching, turnVars, driverVars, waitVars, extras>>

\* markWorking, around the await that refreshes the session's pull requests
MarkWorking(s) ==
    /\ status[s] = "idle" /\ s \notin marking
    /\ marking' = marking \cup {s}
    /\ UNCHANGED <<status, start, retry, resolving, restoring, undoing, switching, turnVars, driverVars, waitVars, extras>>

MarkEnds(s) ==
    /\ s \in marking
    /\ marking' = marking \ {s}
    /\ status' = IF status[s] = "idle" /\ ~InFlight(s) /\ resolving[s] = "none" /\ s \notin restoring
                   THEN [status EXCEPT ![s] = "holding"] ELSE status
    /\ UNCHANGED <<start, retry, resolving, restoring, undoing, switching, turnVars, driverVars, waitVars, extras>>

\* undoTurn, from its checks to the restored files
Undo(s) ==
    /\ ~SwitchOnRoot(s) /\ ~UndoOnRoot(s)
    /\ \A o \in OnRoot(s) : ~InFlight(o) /\ resolving[o] = "none"
    /\ undoing' = undoing \cup {s}
    /\ UNCHANGED <<status, start, retry, resolving, restoring, marking, switching, turnVars, driverVars, waitVars, extras>>

UndoEnds(s) ==
    /\ s \in undoing
    /\ undoing' = undoing \ {s}
    /\ UNCHANGED <<status, start, retry, resolving, restoring, marking, switching, turnVars, driverVars, waitVars, extras>>

\* runBranchSwitch
SwitchBranch(s) ==
    /\ ~UndoOnRoot(s) /\ ~SwitchOnRoot(s)
    /\ \A o \in OnRoot(s) : ~InFlight(o)
    /\ switching' = switching \cup {s}
    /\ UNCHANGED <<status, start, retry, resolving, restoring, marking, undoing, turnVars, driverVars, waitVars, extras>>

SwitchEnds(s) ==
    /\ s \in switching
    /\ switching' = switching \ {s}
    /\ UNCHANGED <<status, start, retry, resolving, restoring, marking, undoing, turnVars, driverVars, waitVars, extras>>

-----------------------------------------------------------------------------
SessionNext(s) ==
    \/ StartTurn(s) \/ Opened(s) \/ TokenRefreshed(s) \/ Stop(s)
    \/ \E r \in Retries : RetryConnection(r, s)
    \/ \E v \in Statuses : SetStatus(s, v)
    \/ Ages(s) \/ WaitSettles(s)
    \/ Resolve(s) \/ ResolveDecides(s) \/ ResolveEnds(s)
    \/ Restore(s) \/ RestoreEnds(s)
    \/ MarkWorking(s) \/ MarkEnds(s)
    \/ Undo(s) \/ UndoEnds(s)
    \/ SwitchBranch(s) \/ SwitchEnds(s)

TurnNext(t) ==
    \/ TurnEnds(t) \/ TurnGoesOn(t)
    \/ \E q \in Requests : Ask(t, q) \/ AskSettled(t, q) \/ Claim(t, q) \/ ReleaseClaim(t, q)

TurnsNext ==
    \/ \E s \in Sessions : SessionNext(s)
    \/ \E r \in Retries : RetryOpened(r) \/ RetryAttached(r)
    \/ \E t \in Turns : TurnNext(t)

Spec == Init /\ [][TurnsNext]_vars

-----------------------------------------------------------------------------
(* Correctness *)

\* Every variable holds a value of its type.
TypeOK ==
    /\ status \in [Sessions -> Statuses]
    /\ start \in [Sessions -> Start]
    /\ retry \in [Retries -> Retry]
    /\ resolving \in [Sessions -> {"none", "waiting", "stopping"}]
    /\ restoring \subseteq Sessions /\ marking \subseteq Sessions
    /\ undoing \subseteq Sessions /\ switching \subseteq Sessions
    /\ active \in [Turns -> Sessions \cup {NoSession}]
    /\ settled \in [Turns -> Sessions \cup {NoSession}]
    /\ request \in [Turns -> [Requests -> {"none", "open", "claimed"}]]
    /\ run \in [Turns -> Run]
    /\ drivers \in 1..MaxDrivers /\ broken \in BOOLEAN /\ reserved \in BOOLEAN
    /\ extras \in 0..MaxExtras
    /\ waits \subseteq Sessions /\ marked \subseteq Sessions

\* A session is doing one thing: it starts one turn or runs one, and it does
\* neither while it is being resolved, whatever came in between the awaits of
\* each.  It is not resolved or being restored either, unless somebody set its
\* status by hand since that turn began to start: setSessionStatus asks for
\* nothing, and only a session with status "resolved" can be restored.
OneThing(s) ==
    /\ \A t, u \in TurnsOf(s) : t = u
    /\ Pending(s) => TurnsOf(s) = {}
    /\ InFlight(s) => resolving[s] = "none"
    /\ InFlight(s) => s \in marked \/ (status[s] # "resolved" /\ s \notin restoring)
    /\ s \in restoring => resolving[s] = "none"
OneThingAtATime == \A s \in Sessions \ Opencode : OneThing(s)

\* An undo and a branch switch have the folder to themselves.
FolderExclusive ==
    \A s \in undoing \cup switching :
        /\ \A o \in OnRoot(s) \ Opencode : ~InFlight(o)
        /\ \A o \in OnRoot(s) \cap (undoing \cup switching) : o = s
        /\ ~(s \in undoing /\ s \in switching)
        /\ s \in undoing => \A o \in OnRoot(s) : resolving[o] = "none"

\* A session that shows a turn at work has one, or waits for its subagents, and
\* a session with a turn shows it, unless its status was set by hand since:
\* nothing stays "working" after its turn was stopped, failed to start or ended
\* or its wait was over, and no await writes an older status over a newer turn.
StatusTellsTurns ==
    /\ \A s \in Sessions : status[s] = "working" => InFlight(s) \/ s \in waits \cup marked
    /\ \A s \in Sessions \ Opencode :
          InFlight(s) => status[s] \in {"working", "input-required"} \/ s \in marked

\* A session whose connection can be retried has one turn at a time too:
\* retryConnection refuses with "session busy (turn in progress)".
OneTurnWhenRetried == \A s \in Opencode : \A t, u \in TurnsOf(s) : t = u

\* A stop asked for while a turn starts is not forgotten: whatever the start
\* comes to, the next thing it does leaves no turn running.
StopWins ==
    [][\A s \in Sessions \ Opencode : start[s].stop => TurnsOf(s)' = {}]_vars
=============================================================================
