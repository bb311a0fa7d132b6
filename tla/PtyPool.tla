------------------------------- MODULE PtyPool -------------------------------
(***************************************************************************)
(* The terminals of the server: at most one per session and kind.  Opening *)
(* one takes two awaits (the CLI's launch, loading node-pty), during which *)
(* its session may be resolved, a shutdown may reserve the server, or the  *)
(* pool may be disposed and opened again.  An opening and the terminal it  *)
(* becomes have the same id, which stands for the token.                   *)
(***************************************************************************)
EXTENDS Naturals, FiniteSets

CONSTANTS
    Ptys,           \* ptyIds: a session and a kind each
    Leasing,        \* those whose launch leases a server of the CLI (opencode on protocol v2)
    Openings,       \* ids of openings and terminals; bound
    NoPty, None,    \* no ptyId; no opening
    MaxDisposals    \* bound

ASSUME PtyAssumption ==
    /\ Leasing \subseteq Ptys /\ NoPty \notin Ptys
    /\ None \notin Openings /\ IsFiniteSet(Openings)
    /\ MaxDisposals \in Nat

VARIABLES
    opening,        \* PtyPool.openings
    task,           \* an opening: its ptyId, the generation it began in, the await it is in
    ptys,           \* PtyPool.ptys: the listed terminal of each ptyId
    pendingKills,
    ptyDisposed,
    ptyGeneration,
    ptyReserved,    \* PtyPool.shutdownReserved
    running,        \* terminals whose process lives
    exiting,        \* terminals that were killed and whose exit event is still to come
    leases,         \* openings and terminals that have something to release
    unwanted        \* history: openings their session's kill found on their way

ptyVars == <<opening, task, ptys, pendingKills, ptyDisposed, ptyGeneration, ptyReserved, running, exiting, leases, unwanted>>

Stages == {"new", "launching", "loading", "over"}
Task == [pty : Ptys \cup {NoPty}, generation : 0..MaxDisposals, stage : Stages]
NewTask == [pty |-> NoPty, generation |-> 0, stage |-> "new"]

PtyInit ==
    /\ opening = [p \in Ptys |-> None]
    /\ task = [t \in Openings |-> NewTask]
    /\ ptys = [p \in Ptys |-> None]
    /\ pendingKills = {}
    /\ ptyDisposed = FALSE /\ ptyGeneration = 0 /\ ptyReserved = FALSE
    /\ running = {} /\ exiting = {} /\ leases = {} /\ unwanted = {}

InFlight(t) == task[t].stage \in {"launching", "loading"}

\* assertCanOpen
CanOpen(generation) == ~ptyReserved /\ ~ptyDisposed /\ generation = ptyGeneration

\* list: what the pool knows of
Listed == {ptys[p] : p \in Ptys} \ {None}

\* Faulty: kills and forgets the lease.
KillAllKeepsLeases(ts) ==
    /\ ptys' = [p \in Ptys |-> IF ptys[p] \in ts THEN None ELSE ptys[p]]
    /\ running' = running \ ts
    /\ exiting' = exiting \cup (ts \cap running)
    /\ UNCHANGED leases

\* kill of several terminals, whose leases are released with them
KillAll(ts) ==
    /\ ptys' = [p \in Ptys |-> IF ptys[p] \in ts THEN None ELSE ptys[p]]
    /\ running' = running \ ts
    /\ exiting' = exiting \cup (ts \cap running)
    /\ leases' = leases \ ts

-----------------------------------------------------------------------------
(* Opening *)

\* open of a terminal that neither exists nor is on its way.  (The others attach
\* to what there is, or wait for the opening, and change nothing.)
Open(p, t) ==
    /\ ptys[p] = None /\ opening[p] = None
    /\ CanOpen(ptyGeneration)
    /\ task[t].stage = "new"
    /\ opening' = [opening EXCEPT ![p] = t]
    /\ task' = [task EXCEPT ![t] = [pty |-> p, generation |-> ptyGeneration, stage |-> "launching"]]
    /\ UNCHANGED <<ptys, pendingKills, ptyDisposed, ptyGeneration, ptyReserved, running, exiting, leases, unwanted>>

\* spawn, after launch: what is attached must be released one day.
Launched(t, attached) ==
    /\ task[t].stage = "launching"
    /\ attached => task[t].pty \in Leasing
    /\ task' = [task EXCEPT ![t].stage = "loading"]
    /\ leases' = IF attached THEN leases \cup {t} ELSE leases
    /\ UNCHANGED <<opening, ptys, pendingKills, ptyDisposed, ptyGeneration, ptyReserved, running, exiting, unwanted>>

\* The opening is over: it is no longer listed, and a pending kill that meets no
\* terminal is dropped, whichever opening it was meant for.
Settle(t) ==
    /\ task' = [task EXCEPT ![t].stage = "over"]
    /\ opening' = [opening EXCEPT ![task[t].pty] = IF @ = t THEN None ELSE @]

\* launch or loading node-pty or the spawn failed, or assertCanOpen threw
OpenFails(t) ==
    /\ InFlight(t)
    /\ Settle(t)
    /\ leases' = leases \ {t}
    /\ pendingKills' = IF ptys[task[t].pty] = None THEN pendingKills \ {task[t].pty} ELSE pendingKills
    /\ UNCHANGED <<ptys, ptyDisposed, ptyGeneration, ptyReserved, running, exiting, unwanted>>

\* Faulty: a disposal and a reopening in between go unnoticed.
SpawnedWhenever(t) ==
    /\ task[t].stage = "loading"
    /\ ~ptyReserved /\ ~ptyDisposed
    /\ Settle(t)
    /\ LET p == task[t].pty IN
         IF p \in pendingKills
         THEN /\ exiting' = exiting \cup {t} /\ leases' = leases \ {t}
              /\ UNCHANGED <<ptys, running>>
         ELSE /\ ptys' = [ptys EXCEPT ![p] = t] /\ running' = running \cup {t}
              /\ UNCHANGED <<exiting, leases>>
    /\ pendingKills' = pendingKills \ {task[t].pty}
    /\ UNCHANGED <<ptyDisposed, ptyGeneration, ptyReserved, unwanted>>

\* node-pty is loaded, the process starts, and the caller attaches: a kill that came
\* meanwhile is carried out now.
Spawned(t) ==
    /\ task[t].stage = "loading"
    /\ CanOpen(task[t].generation)
    /\ Settle(t)
    /\ LET p == task[t].pty IN
         IF p \in pendingKills
         THEN /\ exiting' = exiting \cup {t} /\ leases' = leases \ {t}
              /\ UNCHANGED <<ptys, running>>
         ELSE /\ ptys' = [ptys EXCEPT ![p] = t] /\ running' = running \cup {t}
              /\ UNCHANGED <<exiting, leases>>
    /\ pendingKills' = pendingKills \ {task[t].pty}
    /\ UNCHANGED <<ptyDisposed, ptyGeneration, ptyReserved, unwanted>>

-----------------------------------------------------------------------------
(* The end of terminals *)

\* Faulty: the late exit of a killed terminal removes its successor.
ExitedTakesAny(t) ==
    /\ t \in running \cup exiting
    /\ running' = running \ {t} /\ exiting' = exiting \ {t}
    /\ ptys' = [ptys EXCEPT ![task[t].pty] = None]
    /\ leases' = leases \ {t}
    /\ UNCHANGED <<opening, task, pendingKills, ptyDisposed, ptyGeneration, ptyReserved, unwanted>>

\* proc.onExit, of a process that ended by itself or was killed
Exited(t) ==
    /\ t \in running \cup exiting
    /\ running' = running \ {t} /\ exiting' = exiting \ {t}
    /\ ptys' = [ptys EXCEPT ![task[t].pty] = IF @ = t THEN None ELSE @]
    /\ leases' = leases \ {t}
    /\ UNCHANGED <<opening, task, pendingKills, ptyDisposed, ptyGeneration, ptyReserved, unwanted>>

\* kill, of one terminal by its window
Kill(p) ==
    /\ ptys[p] # None
    /\ KillAll({ptys[p]})
    /\ UNCHANGED <<opening, task, pendingKills, ptyDisposed, ptyGeneration, ptyReserved, unwanted>>

OnTheirWay == {opening[p] : p \in Ptys} \ {None}

\* Openings no older one of the same terminal, from before a disposal, competes with
Alone(t) == \A u \in Openings \ {t} : ~(InFlight(u) /\ task[u].pty = task[t].pty)

\* Faulty: only what runs already is killed.
KillSessionNow ==
    /\ Listed \cup OnTheirWay # {}
    /\ KillAll(Listed)
    /\ unwanted' = unwanted \cup {t \in OnTheirWay : Alone(t)}
    /\ UNCHANGED <<opening, task, pendingKills, ptyDisposed, ptyGeneration, ptyReserved>>

\* killSession: the session was resolved, archived, or lost its folder.
KillSession ==
    /\ Listed \cup OnTheirWay # {}
    /\ KillAll(Listed)
    /\ pendingKills' = pendingKills \cup {p \in Ptys : opening[p] # None}
    /\ unwanted' = unwanted \cup {t \in OnTheirWay : Alone(t)}
    /\ UNCHANGED <<opening, task, ptyDisposed, ptyGeneration, ptyReserved>>

-----------------------------------------------------------------------------
(* What a shutdown does to the pool *)

BeginReservation ==
    /\ ~ptyReserved
    /\ ptyReserved' = TRUE
    /\ UNCHANGED <<opening, task, ptys, pendingKills, ptyDisposed, ptyGeneration, running, exiting, leases, unwanted>>

\* dispose: what runs is killed, what is on its way is of an older generation.
Dispose ==
    /\ ~ptyDisposed /\ ptyGeneration < MaxDisposals
    /\ ptyDisposed' = TRUE /\ ptyGeneration' = ptyGeneration + 1
    /\ KillAll(Listed)
    /\ opening' = [p \in Ptys |-> None]
    /\ pendingKills' = {}
    /\ UNCHANGED <<task, ptyReserved, unwanted>>

\* reopen and clearShutdownReservation, which a recovery calls one after the other
Reopen ==
    /\ ptyReserved
    /\ ptyDisposed' = FALSE /\ ptyReserved' = FALSE
    /\ UNCHANGED <<opening, task, ptys, pendingKills, ptyGeneration, running, exiting, leases, unwanted>>

PtyNext ==
    \/ \E p \in Ptys, t \in Openings : Open(p, t)
    \/ \E t \in Openings : \/ \E attached \in BOOLEAN : Launched(t, attached)
                           \/ OpenFails(t) \/ Spawned(t) \/ Exited(t)
    \/ \E p \in Ptys : Kill(p)
    \/ KillSession \/ BeginReservation \/ Dispose \/ Reopen

-----------------------------------------------------------------------------
(* What the pool promises *)

PtyTypeOK ==
    /\ opening \in [Ptys -> Openings \cup {None}]
    /\ task \in [Openings -> Task]
    /\ ptys \in [Ptys -> Openings \cup {None}]
    /\ pendingKills \subseteq Ptys
    /\ ptyDisposed \in BOOLEAN /\ ptyReserved \in BOOLEAN
    /\ ptyGeneration \in 0..MaxDisposals
    /\ running \subseteq Openings /\ exiting \subseteq Openings
    /\ leases \subseteq Openings /\ unwanted \subseteq Openings

\* Every terminal process that lives is the one the pool lists under its ptyId, so a
\* window can find and kill it: no late exit, old opening or disposal loses one.
NoStrayTerminal ==
    /\ running = Listed
    /\ \A p \in Ptys : ptys[p] # None => task[ptys[p]].pty = p

\* A terminal belongs to the present generation of the pool, and a disposed pool has
\* none: an opening that a shutdown overtook never becomes a terminal, although the
\* pool may be open again when it goes on.
NothingOutlivesDisposal ==
    \A t \in running : ~ptyDisposed /\ task[t].generation = ptyGeneration

\* A session that was resolved while its terminal was opening does not end up with
\* that terminal.
KillIsKept == unwanted \cap running = {}

\* Only an opening that goes on or a terminal that runs holds a lease of a server.
LeasesAreHeld == \A t \in leases : task[t].stage = "loading" \/ t \in running
=============================================================================
