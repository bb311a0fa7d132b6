------------------------------ MODULE Shutdown ------------------------------
(***************************************************************************)
(* The ShutdownCoordinator over the sessions of module SessionTurns: quit  *)
(* and update reserve the server, stop turns and drivers, hold a token for *)
(* a while, and end in a commit or in a recovery that rebuilds the drivers.*)
(* Driver shutdowns, leases and commits are awaits that outlive the flow   *)
(* that began them; the generation and the lease id tell late ones apart.  *)
(***************************************************************************)
EXTENDS SessionTurns

CONSTANT MaxPrepares    \* bound: flows that get past "blocked"

ASSUME PrepareAssumption == MaxPrepares \in Nat /\ MaxPrepares < MaxDrivers

VARIABLES
    phase,          \* ShutdownCoordinator.phase
    token,          \* the token of the flow; 0 is null
    generation,
    leaseId,
    leases,         \* lease timers that have not fired
    preparing,      \* prepare calls awaiting the drivers
    committing,     \* commit calls awaiting their action or the exit
    terminals,      \* PtyPool: "open" or "closed"
    stopped,        \* driver generations that were told to shut down or disposed
    prepares,       \* bound, and the source of tokens
    exited          \* the process is gone

coordVars == <<phase, token, generation, leaseId, leases, preparing, committing, terminals, stopped, prepares, exited>>
allVars == <<vars, coordVars>>

Phases == {"idle", "preparing", "prepared", "timeout", "committing"}
Lease == [lease : Nat, generation : Nat, token : Nat, phase : Phases]
Preparing == [generation : Nat, waits : SUBSET Turns]
Committing == [generation : Nat, stage : {"action", "exit"}]

ShutdownInit ==
    /\ Init
    /\ phase = "idle" /\ token = 0 /\ generation = 0 /\ leaseId = 0
    /\ leases = {} /\ preparing = {} /\ committing = {}
    /\ terminals = "open" /\ stopped = {}
    /\ prepares = 0 /\ exited = FALSE

-----------------------------------------------------------------------------
(* What the coordinator asks of the sessions *)

ActiveTurns == {t \in Turns : active[t] # NoSession}

\* listShutdownTurns: active turns, and sessions whose driver is busy otherwise
BusyTurns == {t \in Turns : Alive(t) /\ Routed(t)}
Assessment == ActiveTurns \cup BusyTurns

\* Disposing the current drivers kills what they run.
KilledRuns == [t \in Turns |-> IF Alive(t) /\ Routed(t) THEN [run[t] EXCEPT !.state = "gone"] ELSE run[t]]

\* Faulty: releases everything and rebuilds nothing.
RecoverKeepsDrivers ==
    /\ generation' = generation + 1
    /\ phase' = "idle" /\ token' = 0
    /\ terminals' = "open" /\ reserved' = FALSE
    /\ UNCHANGED <<run, drivers, broken, stopped>>

\* recover, of any flow under way: its services were stopped, so the drivers are
\* disposed and rebuilt, or cannot be rebuilt; then everything is released.
Recover ==
    /\ generation' = generation + 1
    /\ phase' = "idle" /\ token' = 0
    /\ run' = KilledRuns
    /\ stopped' = stopped \cup {drivers}
    /\ drivers' = drivers + 1
    /\ broken' \in BOOLEAN
    /\ terminals' = "open" /\ reserved' = FALSE

SessionsKept == UNCHANGED <<status, start, workVars, active, settled, request, waitVars, extras>>

\* startLease
StartLease(p) ==
    /\ leaseId' = leaseId + 1
    /\ leases' = leases \cup {[lease |-> leaseId + 1, generation |-> generation, token |-> token', phase |-> p]}

-----------------------------------------------------------------------------
(* The coordinator's calls *)

\* prepare up to its await.  With turns it may not stop it changes nothing.
Prepare(mayStop, approved) ==
    /\ phase = "idle" /\ prepares < MaxPrepares
    /\ Assessment # {} => mayStop /\ Assessment \subseteq approved
    /\ prepares' = prepares + 1
    /\ phase' = "preparing"
    /\ reserved' = TRUE
    /\ Interrupt(ActiveTurns)
    /\ preparing' = preparing \cup {[generation |-> generation, waits |-> BusyTurns]}
    /\ stopped' = stopped \cup {drivers}
    /\ UNCHANGED <<start, workVars, drivers, broken, waitVars, extras>>
    /\ UNCHANGED <<token, generation, leaseId, leases, committing, terminals, exited>>

Prepared(p) ==
    /\ token' = prepares
    /\ \/ /\ phase' = "timeout" /\ StartLease("timeout")
          /\ UNCHANGED terminals
       \/ /\ \A t \in p.waits : run[t].state = "gone"
          /\ terminals' = "closed"
          /\ phase' = "prepared" /\ StartLease("prepared")

\* Faulty: a late prepare does not see that its flow is over.
PrepareSettlesLate(p) ==
    /\ p \in preparing
    /\ preparing' = preparing \ {p}
    /\ Prepared(p)
    /\ UNCHANGED <<vars, generation, committing, stopped, prepares, exited>>

\* The drivers stopped, did not in time, or a step threw.  A flow that was
\* recovered meanwhile is over.
PrepareSettles(p) ==
    /\ p \in preparing
    /\ preparing' = preparing \ {p}
    /\ \/ /\ p.generation # generation
          /\ UNCHANGED <<vars, phase, token, generation, leaseId, leases, terminals, stopped>>
       \/ /\ p.generation = generation
          /\ Prepared(p)
          /\ UNCHANGED <<vars, generation, stopped>>
       \/ /\ p.generation = generation
          /\ Recover /\ SessionsKept
          /\ UNCHANGED <<leaseId, leases>>
    /\ UNCHANGED <<committing, prepares, exited>>

\* Faulty: the old lease goes on.
ForceKeepsLease(tk) ==
    /\ tk = token /\ phase = "timeout"
    /\ run' = KilledRuns
    /\ terminals' = "closed" /\ phase' = "prepared"
    /\ UNCHANGED <<driverVars, leaseId, leases>> /\ SessionsKept
    /\ UNCHANGED <<token, generation, preparing, committing, stopped, prepares, exited>>

\* force of a flow that timed out; one that is prepared needs none.
ForceFlow(tk) ==
    /\ tk = token /\ phase = "timeout"
    /\ run' = KilledRuns
    /\ terminals' = "closed"
    /\ phase' = "prepared"
    /\ UNCHANGED token
    /\ StartLease("prepared")
    /\ UNCHANGED driverVars /\ SessionsKept
    /\ UNCHANGED <<generation, preparing, committing, stopped, prepares, exited>>

Cancel(tk) ==
    /\ tk = token /\ phase \in {"timeout", "prepared"}
    /\ Recover /\ SessionsKept
    /\ UNCHANGED <<leaseId, leases, preparing, committing, prepares, exited>>

\* Faulty: recovers under a commit too.
AbandonAny ==
    /\ phase # "idle"
    /\ Recover /\ SessionsKept
    /\ UNCHANGED <<leaseId, leases, preparing, committing, prepares, exited>>

\* recoverAbandonedShutdown: the last window is gone.
Abandon ==
    /\ phase \notin {"idle", "committing"}
    /\ Recover /\ SessionsKept
    /\ UNCHANGED <<leaseId, leases, preparing, committing, prepares, exited>>

\* Faulty: the lease of a flow that timed out never ends.
ExpiredWhenPrepared(l) == l.lease = leaseId /\ l.generation = generation /\ phase = "prepared"

Expired(l) == l.lease = leaseId /\ l.generation = generation /\ phase \in {"prepared", "timeout"}

\* A lease timer fires.
LeaseFires(l) ==
    /\ l \in leases
    /\ leases' = leases \ {l}
    /\ IF Expired(l)
         THEN Recover /\ SessionsKept
         ELSE UNCHANGED <<vars, phase, token, generation, terminals, stopped>>
    /\ UNCHANGED <<leaseId, preparing, committing, prepares, exited>>

\* commit, with the token of the flow
Commit(tk) ==
    /\ tk = token /\ phase = "prepared"
    /\ phase' = "committing"
    /\ committing' = committing \cup {[generation |-> generation, stage |-> "action"]}
    /\ UNCHANGED <<vars, token, generation, leaseId, leases, preparing, terminals, stopped, prepares, exited>>

\* The action fails, or services are disposed and the exit is awaited.
CommitActs(k) ==
    /\ k \in committing /\ k.stage = "action"
    /\ \/ /\ committing' = committing \ {k}
          /\ IF k.generation = generation
               THEN Recover /\ SessionsKept
               ELSE UNCHANGED <<vars, phase, token, generation, terminals, stopped>>
       \/ /\ committing' = (committing \ {k}) \cup {[k EXCEPT !.stage = "exit"]}
          /\ UNCHANGED <<vars, phase, token, generation, terminals, stopped>>
    /\ UNCHANGED <<leaseId, leases, preparing, prepares, exited>>

\* The process ends, or is still alive when the wait for its exit is over.
CommitExits(k) ==
    /\ k \in committing /\ k.stage = "exit"
    /\ committing' = committing \ {k}
    /\ \/ /\ exited' = TRUE
          /\ UNCHANGED <<vars, phase, token, generation, terminals, stopped>>
       \/ /\ UNCHANGED exited
          /\ IF k.generation = generation
               THEN Recover /\ SessionsKept
               ELSE UNCHANGED <<vars, phase, token, generation, terminals, stopped>>
    /\ UNCHANGED <<leaseId, leases, preparing, prepares>>

-----------------------------------------------------------------------------
CoordinatorNext ==
    \/ \E mayStop \in BOOLEAN, approved \in SUBSET Turns : Prepare(mayStop, approved)
    \/ \E p \in preparing : PrepareSettles(p)
    \/ \E tk \in 1..MaxPrepares : ForceFlow(tk) \/ Cancel(tk) \/ Commit(tk)
    \/ Abandon
    \/ \E l \in leases : LeaseFires(l)
    \/ \E k \in committing : CommitActs(k) \/ CommitExits(k)

ShutdownNext ==
    /\ ~exited
    /\ \/ CoordinatorNext
       \/ TurnsNext /\ UNCHANGED coordVars

ShutdownSpec == ShutdownInit /\ [][ShutdownNext]_allVars

\* prepare bounds the wait for the drivers, the lease and the exit timers fire
\* and a commit's action is synchronous.  Nobody has to force, cancel or commit.
ShutdownFairness ==
    /\ WF_allVars(~exited /\ \E p \in preparing : PrepareSettles(p))
    /\ WF_allVars(~exited /\ \E l \in leases : LeaseFires(l))
    /\ WF_allVars(~exited /\ \E k \in committing : CommitActs(k) \/ CommitExits(k))
FairShutdownSpec == ShutdownSpec /\ ShutdownFairness

-----------------------------------------------------------------------------
(* Correctness *)

\* Every variable holds a value of its type.
ShutdownTypeOK ==
    /\ TypeOK
    /\ phase \in Phases
    /\ token \in 0..MaxPrepares /\ prepares \in 0..MaxPrepares
    /\ generation \in Nat /\ leaseId \in Nat
    /\ leases \subseteq Lease
    /\ preparing \subseteq Preparing
    /\ committing \subseteq Committing
    /\ terminals \in {"open", "closed"}
    /\ stopped \subseteq 1..MaxDrivers
    /\ exited \in BOOLEAN

\* From the first interrupt to the end of the flow no turn becomes active, and
\* once a flow is prepared no driver runs anything: a turn that was already
\* starting when the reservation came cannot slip in between two awaits.
QuietWhileStopping ==
    \A t \in Turns : run[t].session \in Sessions \ (SlowStart \cup Opencode) =>
        /\ phase # "idle" => active[t] = NoSession
        /\ phase \in {"prepared", "committing"} => ~Alive(t)

\* When no flow is under way the server works again, and while one is, it
\* refuses work: nothing that was late restores, reserves or closes anything.
IdleMeansRestored ==
    /\ phase # "idle" <=> reserved
    /\ terminals = "closed" => phase \in {"prepared", "committing"}
    /\ phase = "idle" => broken \/ drivers \notin stopped
    /\ phase \in {"idle", "preparing"} <=> token = 0

\* A session's turn is run by the drivers SessionManager listens to: the events
\* that end it will be routed.
ListensTo(t) == active[t] # NoSession => Alive(t) /\ Routed(t)
TurnsAreHeard == \A t \in Turns : run[t].session \notin SlowStart \cup Opencode => ListensTo(t)

\* The same for Claude sessions.  docs/operations/shutdown.md: startTurn checks
\* the reservation again after every await, "so work that was already starting
\* cannot slip in".
NothingSlipsIn == \A t \in Turns : run[t].session \in SlowStart => ListensTo(t)

\* A lease ends the token it was started for, as long as nobody decided
\* anything: after a force, or a new flow, the old timer does nothing.
LeaseEndsItsOwn ==
    [][\A l \in leases \ leases' :
         phase' = "idle" /\ phase # "idle" => l.token = token /\ l.phase = phase]_allVars

\* What is being committed is taken back only because that commit failed.
CommitIsFinal ==
    [][phase = "committing" /\ phase' # "committing" => committing' # committing]_allVars

\* No flow holds the server for good: it is recovered or the process exits.
ShutdownEnds == phase # "idle" ~> (phase = "idle" \/ exited)
=============================================================================
