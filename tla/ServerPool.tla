------------------------------ MODULE ServerPool ------------------------------
(***************************************************************************)
(* OpencodeServerPool: turns and terminals share one opencode server, which *)
(* is started on demand, kept while somebody is counted as using it, and    *)
(* stopped when it is idle, invalid, out of date or wanted with another     *)
(* environment.  All working directories share one key (sharedRoot), so the *)
(* pool holds at most one server and its capacity limit is never reached.   *)
(* A pool belongs to a generation of drivers; a recovery makes a new one.   *)
(***************************************************************************)
EXTENDS Naturals, FiniteSets

CONSTANTS
    Callers,        \* who asks for a server
    Envs, NoEnv,    \* poolEnvKeys; NoEnv is that of a call that gives no environment
    NoProc,         \* no process
    MaxProcs,       \* bound: server processes
    MaxPools,       \* bound: pools
    MaxEditions     \* bound: releases and changes of the binary, per pool

ASSUME PoolAssumption ==
    /\ IsFiniteSet(Callers) /\ NoEnv \in Envs
    /\ MaxProcs \in Nat /\ MaxPools \in Nat \ {0} /\ MaxEditions \in Nat
    /\ NoProc \notin Nat

VARIABLES
    pool,           \* number of the present pool
    server,         \* its entry in OpencodeServerPool.servers; its process may be dead
    starting,       \* OpencodeServerPool.pending
    inFlight,
    edition,        \* what an entry's binary and generation are compared with
    poolDisposed,
    alive,          \* server processes of all pools that live
    leaving,        \* those no pool knows and somebody is about to kill
    procs,          \* processes so far
    call            \* of each caller: its await, what it wants, what it got

poolVars == <<pool, server, starting, inFlight, edition, poolDisposed, alive, leaving, procs, call>>

Proc == 1..MaxProcs
Entry == [proc : Proc, env : Envs, edition : 0..MaxEditions]
NoEntry == [proc |-> NoProc, env |-> NoEnv, edition |-> 0]

\* A call awaits the start it began or joined ("joined"), or awaits one for another
\* environment to ask again ("waiting"); it has a server's handle ("handed"), or was
\* refused.  Between beginTurn and endTurn its caller is counted.
CallPhases == {"none", "joined", "waiting", "handed", "refused"}
Call == [phase : CallPhases, env : Envs, proc : Proc \cup {NoProc}, pool : 1..MaxPools, counted : BOOLEAN]
NoCall == [phase |-> "none", env |-> NoEnv, proc |-> NoProc, pool |-> 1, counted |-> FALSE]

PoolInit ==
    /\ pool = 1 /\ poolDisposed = FALSE
    /\ server = NoEntry /\ starting = NoEntry
    /\ inFlight = 0 /\ edition = 0
    /\ alive = {} /\ leaving = {} /\ procs = 0
    /\ call = [c \in Callers |-> NoCall]

Up == server # NoEntry
Dead(entry) == entry.proc \notin alive
Present(c) == call[c].pool = pool

\* who is counted in this pool's inFlight
Counted == {c \in Callers : call[c].counted /\ Present(c)}

\* stop: the server is interrupted and killed, which takes a while.
Leaving(entry) == IF entry = NoEntry THEN leaving ELSE leaving \cup ({entry.proc} \cap alive)

\* Faulty: the process of a server nobody lists any more is forgotten.
StopForgets == server' = NoEntry /\ UNCHANGED leaving

Stop == server' = NoEntry /\ leaving' = Leaving(server)

-----------------------------------------------------------------------------
(* ensure *)

\* Faulty: a server that is in use is replaced as well.
ServesOnlyMatching(entry, env) ==
    /\ entry # NoEntry /\ ~Dead(entry)
    /\ entry.edition = edition /\ (env = NoEnv \/ entry.env = env)

\* A listed server serves this call as it is, or has to because somebody uses it.
Serves(entry, env) ==
    /\ entry # NoEntry /\ ~Dead(entry)
    /\ \/ entry.edition = edition /\ (env = NoEnv \/ entry.env = env)
       \/ inFlight > 0

Answer(c, env, phase, proc) ==
    call' = [call EXCEPT ![c] = [@ EXCEPT !.phase = phase, !.env = env, !.proc = proc, !.pool = pool]]

\* ensure and ensureUncached up to their first await, given the entry a sweep or an
\* invalidation left.
Ensure(c, env, entry) ==
    \/ /\ starting # NoEntry
       /\ Answer(c, env, IF starting.env = env THEN "joined" ELSE "waiting", starting.proc)
       /\ UNCHANGED <<server, leaving, starting, alive, procs>>
    \/ /\ starting = NoEntry /\ Serves(entry, env)
       /\ Answer(c, env, "handed", entry.proc)
       /\ UNCHANGED <<server, leaving, starting, alive, procs>>
    \/ /\ starting = NoEntry /\ ~Serves(entry, env)
       /\ procs < MaxProcs
       /\ Stop
       /\ procs' = procs + 1 /\ alive' = alive \cup {procs + 1}
       /\ starting' = [proc |-> procs + 1, env |-> env, edition |-> edition]
       /\ Answer(c, env, "joined", procs + 1)

\* What a sweep leaves: an idle server may go if nobody is counted.
Swept == IF inFlight = 0 THEN {server, NoEntry} ELSE {server}

\* What invalidate leaves
Invalidated == IF inFlight = 0 THEN NoEntry ELSE server

\* A turn or a terminal asks for a server.
Ask(c, env) ==
    /\ ~poolDisposed
    /\ call[c].phase = "none" /\ ~call[c].counted
    /\ \E entry \in Swept : Ensure(c, env, entry)
    /\ UNCHANGED <<pool, inFlight, edition, poolDisposed>>

\* The start this call had to wait for is over: it asks anew.
AskAgain(c) ==
    /\ ~poolDisposed
    /\ call[c].phase = "waiting" /\ Present(c)
    /\ starting.proc # call[c].proc
    /\ \E entry \in Swept : Ensure(c, call[c].env, entry)
    /\ UNCHANGED <<pool, inFlight, edition, poolDisposed>>

\* A request through a handle failed to connect: the server is invalidated and asked
\* for once more (runTurn, fetchViaPool).
Reconnect(c) ==
    /\ ~poolDisposed
    /\ call[c].phase = "handed" \/ (call[c].phase = "none" /\ call[c].counted)
    /\ Present(c)
    /\ Ensure(c, call[c].env, Invalidated)
    /\ UNCHANGED <<pool, inFlight, edition, poolDisposed>>

Resolve(phase) ==
    call' = [c \in Callers |->
               IF call[c].phase = "joined" /\ Present(c) /\ call[c].proc = starting.proc
               THEN [call[c] EXCEPT !.phase = phase] ELSE call[c]]

\* The server answers.  It may have died before anybody listens for its exit.
Started(survives) ==
    /\ starting # NoEntry
    /\ server' = starting /\ starting' = NoEntry
    /\ alive' = IF survives THEN alive ELSE alive \ {starting.proc}
    /\ Resolve("handed")
    /\ UNCHANGED <<pool, inFlight, edition, poolDisposed, leaving, procs>>

\* It exits, or does not answer in STARTUP_TIMEOUT_MS and is killed.
StartFails(exits) ==
    /\ starting # NoEntry
    /\ starting' = NoEntry
    /\ IF exits THEN alive' = alive \ {starting.proc} /\ UNCHANGED leaving
       ELSE leaving' = leaving \cup {starting.proc} /\ UNCHANGED alive
    /\ Resolve("refused")
    /\ UNCHANGED <<pool, server, inFlight, edition, poolDisposed, procs>>

\* A call on a pool that was disposed meanwhile throws.
Refuse(c) ==
    /\ call[c].phase \in {"joined", "waiting"}
    /\ poolDisposed \/ ~Present(c)
    /\ call' = [call EXCEPT ![c].phase = "refused"]
    /\ UNCHANGED <<pool, server, starting, inFlight, edition, poolDisposed, alive, leaving, procs>>

-----------------------------------------------------------------------------
(* Turns and leases *)

\* beginTurn, on the pool the handle came from
Begin(c) ==
    /\ call[c].phase = "handed" /\ ~call[c].counted
    /\ call' = [call EXCEPT ![c].phase = "none", ![c].counted = TRUE]
    /\ inFlight' = IF Present(c) THEN inFlight + 1 ELSE inFlight
    /\ UNCHANGED <<pool, server, starting, edition, poolDisposed, alive, leaving, procs>>

\* The caller takes its answer and goes on without being counted.
Take(c) ==
    /\ call[c].phase \in {"handed", "refused"}
    /\ call' = [call EXCEPT ![c] = IF @.counted THEN [@ EXCEPT !.phase = "none"] ELSE NoCall]
    /\ UNCHANGED <<pool, server, starting, inFlight, edition, poolDisposed, alive, leaving, procs>>

\* endTurn of every caller in cs, each on the pool it began in
End(cs) ==
    /\ call' = [c \in Callers |-> IF c \in cs THEN NoCall ELSE call[c]]
    /\ LET ended == Cardinality(cs \cap Counted) IN
         inFlight' = IF ended >= inFlight THEN 0 ELSE inFlight - ended
    /\ UNCHANGED <<pool, server, starting, edition, poolDisposed, alive, leaving, procs>>

-----------------------------------------------------------------------------
(* What stops a server *)

\* the sweep's timer, and invalidate when a session's work is stopped
StopIdle ==
    /\ ~poolDisposed /\ Up /\ inFlight = 0
    /\ Stop
    /\ UNCHANGED <<pool, starting, inFlight, edition, poolDisposed, alive, procs, call>>

\* releaseIdle and a change of the binary: what runs is out of date; a release also
\* stops it if nobody is counted.
OutOfDate(release) ==
    /\ ~poolDisposed /\ edition < MaxEditions
    /\ edition' = edition + 1
    /\ IF release /\ inFlight = 0 THEN Stop ELSE UNCHANGED <<server, leaving>>
    /\ UNCHANGED <<pool, starting, inFlight, poolDisposed, alive, procs, call>>

\* The process of the listed server or of one on its way out ends; its exit unlists it.
Exits(p) ==
    /\ p \in alive /\ p # starting.proc
    /\ alive' = alive \ {p} /\ leaving' = leaving \ {p}
    /\ server' = IF server.proc = p THEN NoEntry ELSE server
    /\ UNCHANGED <<pool, starting, inFlight, edition, poolDisposed, procs, call>>

\* dispose: a start under way is killed when it answers.
DisposePool ==
    /\ ~poolDisposed
    /\ poolDisposed' = TRUE
    /\ server' = NoEntry /\ starting' = NoEntry
    /\ leaving' = Leaving(server) \cup (IF starting = NoEntry THEN {} ELSE {starting.proc})
    /\ UNCHANGED <<pool, inFlight, edition, alive, procs, call>>

\* reinitializeDrivers disposes the old driver and makes a new one with its pool.
RenewPool ==
    /\ pool < MaxPools
    /\ pool' = pool + 1 /\ poolDisposed' = FALSE
    /\ inFlight' = 0 /\ edition' = 0
    /\ server' = NoEntry /\ starting' = NoEntry
    /\ leaving' = Leaving(server) \cup (IF starting = NoEntry THEN {} ELSE {starting.proc})
    /\ UNCHANGED <<alive, procs, call>>

-----------------------------------------------------------------------------
(* What the pool promises *)

PoolTypeOK ==
    /\ pool \in 1..MaxPools /\ poolDisposed \in BOOLEAN
    /\ server \in Entry \cup {NoEntry} /\ starting \in Entry \cup {NoEntry}
    /\ inFlight \in Nat /\ edition \in 0..MaxEditions
    /\ alive \subseteq Proc /\ leaving \subseteq Proc /\ procs \in 0..MaxProcs
    /\ call \in [Callers -> Call]

\* Every server process that lives is the listed one, the one being started, or one
\* that somebody is about to kill: neither a start that outlives its pool, nor a
\* replaced or evicted server, is forgotten.
NoStrayServer ==
    /\ alive \subseteq leaving \cup {server.proc, starting.proc}
    /\ leaving \subseteq alive
    /\ Up => starting = NoEntry /\ server.proc \notin leaving

\* A server that a counted turn or a terminal works with is not stopped under it: it
\* is there until it dies, or its pool is disposed.
UsedServerStays ==
    [][\A c \in Callers :
         /\ call[c].counted /\ Present(c) /\ call[c].phase = "none"
         /\ Up /\ call[c].proc = server.proc
         /\ server' # server
         => server.proc \notin alive' \/ poolDisposed' \/ pool' # pool]_poolVars
=============================================================================
