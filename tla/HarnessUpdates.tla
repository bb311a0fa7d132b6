---------------------------- MODULE HarnessUpdates ----------------------------
(***************************************************************************)
(* Updating the CLIs (harnesses) while sessions use them.  An update waits *)
(* until no session of its harness is busy, takes the lock of the          *)
(* installation it is part of (two harnesses may be installed by one       *)
(* package manager), looks again, and from then on no turn of the harness  *)
(* may start until it is over.  What is busy is said by whoever extends    *)
(* this module.                                                            *)
(***************************************************************************)
EXTENDS Naturals, FiniteSets

CONSTANTS
    Harnesses,      \* DriverKinds
    Locks,
    LockOf,         \* InstallPlan.lockKey of each harness
    MaxUpdates      \* bound: updates asked for

ASSUME UpdatesAssumption == LockOf \in [Harnesses -> Locks] /\ MaxUpdates \in Nat

VARIABLES
    update,         \* of each harness: the await its update is in
    cancelled,      \* updates whose ticket was cancelled
    ahead,          \* HarnessUpdateService.locks: those an update follows in the chain of its lock
    updates,        \* asked for so far
    reserved        \* SessionManager.shutdownReserved

updateVars == <<update, cancelled, ahead, updates>>

\* "planning" is the second look at how the harness is installed, "waiting" is
\* waitForIdle, "locking" the wait for the lock, "running" what follows running.add:
\* release of the binary, the command, the recheck.
UpdateStage == {"none", "planning", "waiting", "locking", "running"}

UpdatesInit ==
    /\ update = [h \in Harnesses |-> "none"]
    /\ cancelled = {}
    /\ ahead = [h \in Harnesses |-> {}]
    /\ updates = 0

\* turnGate: no turn of these may start.
Gated == {h \in Harnesses : update[h] = "running"}

Queued == {h \in Harnesses : update[h] \in {"waiting", "locking"}}

Stage(h, stage) == update' = [update EXCEPT ![h] = stage]

\* An update that asked for a lock follows all who did and have not let go of it.
InChain(h) == update[h] \in {"locking", "running"}

\* Faulty: follows only the one that has the lock.
EnterBehindHolder(h) == ahead' = [ahead EXCEPT ![h] = {g \in Harnesses : update[g] = "running" /\ LockOf[g] = LockOf[h]}]

Enter(h) == ahead' = [ahead EXCEPT ![h] = {g \in Harnesses : InChain(g) /\ LockOf[g] = LockOf[h]}]
Leave(h) == ahead' = [g \in Harnesses |-> IF g = h THEN {} ELSE ahead[g] \ {h}]

\* update: a second request for an update under way is ignored.
AskUpdate(h) ==
    /\ ~reserved /\ update[h] = "none"
    /\ updates < MaxUpdates
    /\ updates' = updates + 1
    /\ Stage(h, "planning")
    /\ UNCHANGED <<cancelled, ahead>>

\* start and enqueue: a ticket that is issued when the server is reserved is cancelled at once.
Planned(h) ==
    /\ update[h] = "planning"
    /\ Stage(h, "waiting")
    /\ cancelled' = IF reserved THEN cancelled \cup {h} ELSE cancelled
    /\ UNCHANGED <<ahead, updates>>

\* The installation changed or could not be resolved.
PlanFails(h) ==
    /\ update[h] = "planning"
    /\ Stage(h, "none")
    /\ UNCHANGED <<cancelled, ahead, updates>>

\* waitForIdle is over and acquire begins
Acquire(h, busy) ==
    /\ update[h] = "waiting" /\ h \notin cancelled /\ h \notin busy
    /\ Stage(h, "locking") /\ Enter(h)
    /\ UNCHANGED <<cancelled, updates>>

HasLock(h) == update[h] = "locking" /\ ahead[h] = {}

\* acquire returns: the harness may be busy again, then all is to do once more.
Locked(h, busy) ==
    /\ HasLock(h) /\ h \notin cancelled /\ ~reserved
    /\ \/ h \notin busy /\ Stage(h, "running") /\ UNCHANGED ahead
       \/ h \in busy /\ Stage(h, "waiting") /\ Leave(h)
    /\ UNCHANGED <<cancelled, updates>>

\* execute's finally: after the recheck, after any failure, and, while it waits, once it
\* is cancelled or finds the server reserved when it has the lock.
Ends(h) ==
    /\ \/ h \in Gated
       \/ h \in Queued /\ h \in cancelled
       \/ HasLock(h) /\ reserved
    /\ Stage(h, "none") /\ Leave(h)
    /\ cancelled' = cancelled \ {h}
    /\ UNCHANGED updates

\* cancel, dispose, and every change of activity while the server is reserved
CancelQueued(hs) ==
    /\ hs \cap (Queued \ cancelled) # {}
    /\ cancelled' = cancelled \cup (hs \cap Queued)
    /\ UNCHANGED <<update, ahead, updates>>

UpdateNext(busy) ==
    \E h \in Harnesses : \/ AskUpdate(h) \/ Planned(h) \/ PlanFails(h)
                         \/ Acquire(h, busy) \/ Locked(h, busy)
                         \/ CancelQueued({h})

UpdatesTypeOK ==
    /\ update \in [Harnesses -> UpdateStage]
    /\ cancelled \subseteq Queued
    /\ ahead \in [Harnesses -> SUBSET Harnesses]
    /\ updates \in 0..MaxUpdates
    /\ reserved \in BOOLEAN
=============================================================================
