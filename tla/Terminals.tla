------------------------------ MODULE Terminals ------------------------------
(***************************************************************************)
(* Terminals and turns over one opencode server.  A terminal of the CLI is *)
(* launched against the shared server and leases it until it is gone, so   *)
(* the pool of terminals decides how long the pool of servers keeps one.   *)
(* A shutdown disposes both, one after the other, and a recovery opens the *)
(* terminals again over new drivers.                                       *)
(***************************************************************************)
EXTENDS PtyPool, ServerPool

CONSTANTS
    Turns,          \* turns of opencode sessions
    TurnEnvs        \* the environments they run in

ASSUME TerminalsAssumption ==
    /\ Callers = Turns \cup Openings /\ Turns \cap Openings = {}
    /\ TurnEnvs \subseteq Envs

terminalVars == <<ptyVars, poolVars>>

TerminalsInit == PtyInit /\ PoolInit

\* The release of each lease that this step gives up
ReleaseLeases ==
    LET released == leases \ leases' IN
      IF released = {} THEN UNCHANGED poolVars ELSE End(released)

-----------------------------------------------------------------------------
(* Terminals *)

\* terminalLaunch of a CLI on v2: pool.lease, up to its await
AskLease(t) ==
    /\ task[t].stage = "launching" /\ task[t].pty \in Leasing
    /\ Ask(t, NoEnv)
    /\ UNCHANGED ptyVars

Leased(t) == Launched(t, TRUE) /\ Begin(t)

\* Nothing to attach: another CLI, or the pool refused, or the server is not v2 after all
NothingLeased(t) ==
    /\ Launched(t, FALSE)
    /\ IF call[t].phase = "none" THEN UNCHANGED poolVars ELSE Take(t)

TerminalNext ==
    \/ \E p \in Ptys, t \in Openings : Open(p, t) /\ UNCHANGED poolVars
    \/ \E t \in Openings :
         \/ AskLease(t) \/ Leased(t) \/ NothingLeased(t)
         \/ call[t].phase = "none" /\ OpenFails(t) /\ ReleaseLeases
         \/ Spawned(t) /\ ReleaseLeases
         \/ Exited(t) /\ ReleaseLeases
    \/ \E p \in Ptys : Kill(p) /\ ReleaseLeases
    \/ KillSession /\ ReleaseLeases

-----------------------------------------------------------------------------
(* Turns, and what happens to servers *)

TurnNext ==
    \E u \in Turns :
      \/ \E env \in TurnEnvs : Ask(u, env)
      \/ Begin(u) \/ Take(u) \/ Reconnect(u)
      \/ call[u].counted /\ call[u].phase = "none" /\ End({u})

ServerNext ==
    \/ \E c \in Callers : AskAgain(c) \/ Refuse(c)
    \/ \E survives \in BOOLEAN : Started(survives)
    \/ \E exits \in BOOLEAN : StartFails(exits)
    \/ \E release \in BOOLEAN : OutOfDate(release)
    \/ \E p \in alive : Exits(p)
    \/ StopIdle

-----------------------------------------------------------------------------
(* A shutdown, as far as these two see it *)

\* The coordinator reserves the server, the drivers stop, the terminals are closed, in
\* that order; from any point on a recovery may rebuild everything, or open the terminals
\* although the drivers cannot be rebuilt.
ShutdownNext ==
    \/ BeginReservation /\ UNCHANGED poolVars
    \/ ptyReserved /\ DisposePool /\ UNCHANGED ptyVars
    \/ ptyReserved /\ poolDisposed /\ Dispose /\ ReleaseLeases
    \/ Reopen /\ RenewPool
    \/ Reopen /\ (DisposePool \/ (poolDisposed /\ UNCHANGED poolVars))

TerminalsNext ==
    \/ TerminalNext
    \/ (TurnNext \/ ServerNext) /\ UNCHANGED ptyVars
    \/ ShutdownNext

TerminalsSpec == TerminalsInit /\ [][TerminalsNext]_terminalVars

-----------------------------------------------------------------------------
TerminalsTypeOK == PtyTypeOK /\ PoolTypeOK

\* The pool counts exactly the turns that began and did not end, and the terminals and
\* openings that hold a lease; every lease is released once, whichever way its terminal
\* or opening ends, and never one of another generation of drivers.
LeasesBalance ==
    /\ LeasesAreHeld
    /\ inFlight = Cardinality({c \in Turns : call[c].counted /\ Present(c)} \cup {t \in leases : Present(t)})
=============================================================================
