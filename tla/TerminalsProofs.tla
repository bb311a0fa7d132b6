--------------------------- MODULE TerminalsProofs ---------------------------
(***************************************************************************)
(* The safety properties of PtyPool, ServerPool and their composition, for *)
(* every number of terminals, turns, servers, disposals and renewals.      *)
(***************************************************************************)
EXTENDS Terminals, FiniteSetTheorems, TLAPS

USE PtyAssumption, PoolAssumption, TerminalsAssumption

-----------------------------------------------------------------------------
(* The terminals *)

\* An opening that still counts is the one its ptyId lists, and nothing runs there.
OpeningsListed ==
    /\ \A p \in Ptys : opening[p] # None =>
         /\ InFlight(opening[p]) /\ task[opening[p]].pty = p
         /\ task[opening[p]].generation = ptyGeneration /\ ~ptyDisposed
         /\ ptys[p] = None
    /\ \A t \in Openings : InFlight(t) /\ task[t].generation = ptyGeneration => opening[task[t].pty] = t

\* What began has a ptyId and is of a generation that was; what became a process is over.
TasksKnown ==
    /\ \A t \in Openings : task[t].stage # "new" => task[t].pty \in Ptys /\ task[t].generation <= ptyGeneration
    /\ \A t \in running \cup exiting : task[t].stage = "over"
    /\ running \cap exiting = {}

\* An opening that its session's kill found still has that kill before it, unless a
\* disposal has made it an old one.
KillsAwait ==
    \A t \in unwanted :
        /\ task[t].stage # "new"
        /\ InFlight(t) /\ task[t].generation = ptyGeneration =>
             /\ task[t].pty \in pendingKills
             /\ \A u \in Openings \ {t} : ~(InFlight(u) /\ task[u].pty = task[t].pty)

PtyInv ==
    /\ PtyTypeOK /\ NoStrayTerminal /\ NothingOutlivesDisposal /\ KillIsKept /\ LeasesAreHeld
    /\ OpeningsListed /\ TasksKnown /\ KillsAwait

LEMMA PtyInvInit == PtyInit => PtyInv
<1> SUFFICES ASSUME PtyInit PROVE PtyInv
  OBVIOUS
<1> USE DEF PtyInit
<1>1. NewTask \in Task
  BY DEF NewTask, Task, Stages
<1>2. PtyTypeOK
  <2>1. task \in [Openings -> Task]
    BY <1>1
  <2>2. /\ opening \in [Ptys -> Openings \cup {None}] /\ ptys \in [Ptys -> Openings \cup {None}]
        /\ ptyGeneration \in 0..MaxDisposals
    OBVIOUS
  <2>3. QED BY <2>1, <2>2 DEF PtyTypeOK
<1>3. NoStrayTerminal /\ NothingOutlivesDisposal /\ KillIsKept /\ LeasesAreHeld
  BY DEF NoStrayTerminal, Listed, NothingOutlivesDisposal, KillIsKept, LeasesAreHeld
<1>4. OpeningsListed /\ TasksKnown /\ KillsAwait
  BY DEF OpeningsListed, TasksKnown, KillsAwait, InFlight, NewTask
<1>5. QED BY <1>2, <1>3, <1>4 DEF PtyInv

LEMMA OpenInv ==
  ASSUME PtyInv, NEW p \in Ptys, NEW t \in Openings, Open(p, t)
  PROVE  PtyInv'
<1>1. PtyTypeOK
  BY DEF PtyInv
<1>2. /\ task' = [task EXCEPT ![t] = [pty |-> p, generation |-> ptyGeneration, stage |-> "launching"]]
      /\ opening' = [opening EXCEPT ![p] = t]
      /\ task[t].stage = "new" /\ opening[p] = None /\ ptys[p] = None /\ ~ptyDisposed
      /\ UNCHANGED <<ptys, pendingKills, ptyDisposed, ptyGeneration, ptyReserved, running, exiting, leases, unwanted>>
  BY DEF Open, CanOpen
<1>3. PtyTypeOK'
  BY <1>1, <1>2 DEF PtyTypeOK, Task, Stages
<1>4. \A u \in Openings : u # t => task'[u] = task[u]
  BY <1>1, <1>2 DEF PtyTypeOK
<1>5. task'[t] = [pty |-> p, generation |-> ptyGeneration, stage |-> "launching"]
  BY <1>1, <1>2 DEF PtyTypeOK
<1>6. t \notin running \cup exiting \cup leases \cup unwanted
  BY <1>2 DEF PtyInv, TasksKnown, KillsAwait, LeasesAreHeld
<1>7. \A q \in Ptys : ptys[q] # t
  BY <1>6 DEF PtyInv, NoStrayTerminal, Listed, PtyTypeOK
<1>8. NoStrayTerminal'
  BY <1>1, <1>2, <1>4, <1>7 DEF PtyInv, NoStrayTerminal, Listed, PtyTypeOK
<1>9. NothingOutlivesDisposal' /\ KillIsKept' /\ LeasesAreHeld'
  BY <1>1, <1>2, <1>4, <1>6 DEF PtyInv, NothingOutlivesDisposal, KillIsKept, LeasesAreHeld, PtyTypeOK
<1>10. OpeningsListed'
  BY <1>1, <1>2, <1>4, <1>5 DEF PtyInv, OpeningsListed, InFlight, PtyTypeOK
<1>11. TasksKnown'
  BY <1>1, <1>2, <1>4, <1>5, <1>6 DEF PtyInv, TasksKnown, PtyTypeOK
<1>12. KillsAwait'
  <2> SUFFICES ASSUME NEW u \in unwanted
               PROVE  /\ task'[u].stage # "new"
                      /\ InFlight(u)' /\ task'[u].generation = ptyGeneration =>
                           /\ task'[u].pty \in pendingKills
                           /\ \A v \in Openings \ {u} : ~(InFlight(v)' /\ task'[v].pty = task'[u].pty)
    BY <1>2 DEF KillsAwait, InFlight
  <2>1. u \in Openings /\ u # t /\ task'[u] = task[u]
    BY <1>1, <1>4, <1>6 DEF PtyTypeOK
  <2>2. InFlight(u) /\ task[u].generation = ptyGeneration => task[u].pty # p
    BY <1>2, <2>1 DEF PtyInv, OpeningsListed, PtyTypeOK
  <2>3. QED BY <1>4, <1>5, <2>1, <2>2 DEF PtyInv, KillsAwait, InFlight
<1>13. QED BY <1>3, <1>8, <1>9, <1>10, <1>11, <1>12 DEF PtyInv

LEMMA LaunchedInv ==
  ASSUME PtyInv, NEW t \in Openings, NEW attached \in BOOLEAN, Launched(t, attached)
  PROVE  PtyInv'
<1>1. PtyTypeOK
  BY DEF PtyInv
<1>2. /\ task[t].stage = "launching"
      /\ task' = [task EXCEPT ![t].stage = "loading"]
      /\ leases' \subseteq leases \cup {t}
      /\ UNCHANGED <<opening, ptys, pendingKills, ptyDisposed, ptyGeneration, ptyReserved, running, exiting, unwanted>>
  BY DEF Launched
<1>3. /\ \A u \in Openings : /\ task'[u].pty = task[u].pty /\ task'[u].generation = task[u].generation
                             /\ task'[u].stage = IF u = t THEN "loading" ELSE task[u].stage
      /\ task' \in [Openings -> Task]
  BY <1>1, <1>2 DEF PtyTypeOK, Task, Stages
<1>4. \A u \in Openings : InFlight(u)' = InFlight(u) /\ (task'[u].stage = "over" <=> task[u].stage = "over")
      /\ (task'[u].stage = "new" <=> task[u].stage = "new")
  BY <1>2, <1>3 DEF InFlight
<1>5. PtyTypeOK'
  BY <1>1, <1>2, <1>3 DEF PtyTypeOK
<1>6. NoStrayTerminal'
  BY <1>1, <1>2, <1>3 DEF PtyInv, NoStrayTerminal, Listed, PtyTypeOK
<1>7. NothingOutlivesDisposal' /\ KillIsKept' /\ LeasesAreHeld'
  BY <1>1, <1>2, <1>3 DEF PtyInv, NothingOutlivesDisposal, KillIsKept, LeasesAreHeld, PtyTypeOK
<1>8. OpeningsListed'
  BY <1>1, <1>2, <1>3, <1>4 DEF PtyInv, OpeningsListed, PtyTypeOK
<1>9. TasksKnown'
  BY <1>1, <1>2, <1>3, <1>4 DEF PtyInv, TasksKnown, PtyTypeOK
<1>10. KillsAwait'
  BY <1>1, <1>2, <1>3, <1>4 DEF PtyInv, KillsAwait, PtyTypeOK
<1>11. QED BY <1>5, <1>6, <1>7, <1>8, <1>9, <1>10 DEF PtyInv

\* What an opening that is over leaves behind
LEMMA Settled ==
  ASSUME PtyTypeOK, NEW t \in Openings, InFlight(t), task[t].pty \in Ptys, Settle(t)
  PROVE  /\ task' \in [Openings -> Task]
         /\ \A u \in Openings : /\ task'[u].pty = task[u].pty /\ task'[u].generation = task[u].generation
                                /\ task'[u].stage = IF u = t THEN "over" ELSE task[u].stage
                                /\ InFlight(u)' <=> InFlight(u) /\ u # t
         /\ opening' \in [Ptys -> Openings \cup {None}]
         /\ \A p \in Ptys : opening'[p] = IF opening[p] = t /\ p = task[t].pty THEN None ELSE opening[p]
<1>1. task' = [task EXCEPT ![t].stage = "over"]
      /\ opening' = [opening EXCEPT ![task[t].pty] = IF opening[task[t].pty] = t THEN None ELSE opening[task[t].pty]]
  BY DEF Settle
<1>2. /\ task' \in [Openings -> Task]
      /\ \A u \in Openings : /\ task'[u].pty = task[u].pty /\ task'[u].generation = task[u].generation
                             /\ task'[u].stage = IF u = t THEN "over" ELSE task[u].stage
  BY <1>1 DEF PtyTypeOK, Task, Stages
<1>3. \A u \in Openings : InFlight(u)' <=> InFlight(u) /\ u # t
  BY <1>2 DEF InFlight
<1>4. /\ opening' \in [Ptys -> Openings \cup {None}]
      /\ \A p \in Ptys : opening'[p] = IF opening[p] = t /\ p = task[t].pty THEN None ELSE opening[p]
  BY <1>1 DEF PtyTypeOK
<1>5. QED BY <1>2, <1>3, <1>4

\* What both ends of an opening keep
LEMMA SettleInv ==
  ASSUME PtyInv, NEW t \in Openings, InFlight(t), Settle(t),
         UNCHANGED <<ptyDisposed, ptyGeneration, unwanted>>,
         \A p \in Ptys : ptys'[p] # ptys[p] => p = task[t].pty /\ opening[p] = t,
         pendingKills \ {task[t].pty} \subseteq pendingKills',
         pendingKills' # pendingKills => ptys[task[t].pty] = None
  PROVE  OpeningsListed' /\ KillsAwait' /\ task[t].pty \in Ptys
<1>1. PtyTypeOK /\ task[t].pty \in Ptys
  BY DEF PtyInv, TasksKnown, InFlight
<1>2. /\ \A u \in Openings : /\ task'[u].pty = task[u].pty /\ task'[u].generation = task[u].generation
                             /\ task'[u].stage = IF u = t THEN "over" ELSE task[u].stage
                             /\ InFlight(u)' <=> InFlight(u) /\ u # t
      /\ \A p \in Ptys : opening'[p] = IF opening[p] = t /\ p = task[t].pty THEN None ELSE opening[p]
  BY <1>1, Settled
<1>3. OpeningsListed'
  <2>1. ASSUME NEW p \in Ptys, opening'[p] # None
        PROVE  (/\ InFlight(opening[p]) /\ task[opening[p]].pty = p
                /\ task[opening[p]].generation = ptyGeneration /\ ~ptyDisposed
                /\ ptys[p] = None)'
    <3>1. opening'[p] = opening[p] /\ opening[p] \in Openings
      BY <1>1, <1>2, <2>1 DEF PtyTypeOK
    <3>2. /\ InFlight(opening[p]) /\ task[opening[p]].pty = p
          /\ task[opening[p]].generation = ptyGeneration /\ ~ptyDisposed
          /\ ptys[p] = None
      BY <3>1, <2>1 DEF PtyInv, OpeningsListed
    <3>3. opening[p] # t
      BY <1>2, <2>1, <3>1, <3>2
    <3>4. ptys'[p] = None
      BY <3>2, <3>3
    <3>5. InFlight(opening[p])'
      BY <1>2, <3>1, <3>2, <3>3 DEF InFlight
    <3>6. QED BY <1>2, <3>1, <3>2, <3>4, <3>5 DEF InFlight
  <2>2. ASSUME NEW u \in Openings, InFlight(u)', task'[u].generation = ptyGeneration
        PROVE  opening'[task'[u].pty] = u
    BY <1>1, <1>2, <2>2 DEF PtyInv, OpeningsListed, TasksKnown, InFlight
  <2>3. QED BY <2>1, <2>2 DEF OpeningsListed
<1>4. KillsAwait'
  <2> SUFFICES ASSUME NEW u \in unwanted
               PROVE  /\ task'[u].stage # "new"
                      /\ InFlight(u)' /\ task'[u].generation = ptyGeneration =>
                           /\ task'[u].pty \in pendingKills'
                           /\ \A v \in Openings \ {u} : ~(InFlight(v)' /\ task'[v].pty = task'[u].pty)
    BY DEF KillsAwait, InFlight
  <2>1. u \in Openings /\ task[u].stage # "new"
    BY <1>1 DEF PtyInv, KillsAwait, PtyTypeOK
  <2>2. CASE InFlight(u)' /\ task'[u].generation = ptyGeneration
    <3>1. u # t /\ InFlight(u) /\ task[u].generation = ptyGeneration
      BY <1>2, <2>1, <2>2
    <3>2. task[u].pty \in pendingKills /\ \A v \in Openings \ {u} : ~(InFlight(v) /\ task[v].pty = task[u].pty)
      BY <3>1 DEF PtyInv, KillsAwait
    <3>3. task[t].pty # task[u].pty
      BY <3>1, <3>2
    <3>4. QED BY <1>2, <2>1, <3>2, <3>3
  <2>3. QED BY <1>2, <2>1, <2>2
<1>5. QED BY <1>1, <1>3, <1>4

LEMMA OpenFailsInv ==
  ASSUME PtyInv, NEW t \in Openings, OpenFails(t)
  PROVE  PtyInv'
<1>1. /\ InFlight(t) /\ Settle(t) /\ leases' = leases \ {t}
      /\ pendingKills' = IF ptys[task[t].pty] = None THEN pendingKills \ {task[t].pty} ELSE pendingKills
      /\ UNCHANGED <<ptys, ptyDisposed, ptyGeneration, ptyReserved, running, exiting, unwanted>>
  BY DEF OpenFails
<1>2. OpeningsListed' /\ KillsAwait' /\ task[t].pty \in Ptys
  BY <1>1, SettleInv
<1>3. PtyTypeOK
  BY DEF PtyInv
<1>4. /\ task' \in [Openings -> Task] /\ opening' \in [Ptys -> Openings \cup {None}]
      /\ \A u \in Openings : /\ task'[u].pty = task[u].pty /\ task'[u].generation = task[u].generation
                             /\ task'[u].stage = IF u = t THEN "over" ELSE task[u].stage
  BY <1>1, <1>2, <1>3, Settled
<1>5. PtyTypeOK'
  BY <1>1, <1>3, <1>4 DEF PtyTypeOK
<1>6. NoStrayTerminal'
  BY <1>1, <1>3, <1>4 DEF PtyInv, NoStrayTerminal, Listed, PtyTypeOK
<1>7. NothingOutlivesDisposal' /\ KillIsKept' /\ LeasesAreHeld' /\ TasksKnown'
  BY <1>1, <1>3, <1>4 DEF PtyInv, NothingOutlivesDisposal, KillIsKept, LeasesAreHeld, TasksKnown, PtyTypeOK, InFlight
<1>8. QED BY <1>2, <1>5, <1>6, <1>7 DEF PtyInv

LEMMA SpawnedInv ==
  ASSUME PtyInv, NEW t \in Openings, Spawned(t)
  PROVE  PtyInv'
<1>1. /\ InFlight(t) /\ task[t].stage = "loading" /\ Settle(t)
      /\ ~ptyDisposed /\ task[t].generation = ptyGeneration
      /\ pendingKills' = pendingKills \ {task[t].pty}
      /\ UNCHANGED <<ptyDisposed, ptyGeneration, ptyReserved, unwanted>>
  BY DEF Spawned, CanOpen, InFlight
<1> DEFINE p == task[t].pty
<1>2. PtyTypeOK /\ p \in Ptys
  BY <1>1 DEF PtyInv, TasksKnown
<1>3. opening[p] = t /\ ptys[p] = None /\ t \notin running \cup exiting /\ None # t
  BY <1>1, <1>2 DEF PtyInv, OpeningsListed, TasksKnown
<1>4. /\ task' \in [Openings -> Task] /\ opening' \in [Ptys -> Openings \cup {None}]
      /\ \A u \in Openings : /\ task'[u].pty = task[u].pty /\ task'[u].generation = task[u].generation
                             /\ task'[u].stage = IF u = t THEN "over" ELSE task[u].stage
  BY <1>1, <1>2, Settled
<1>5. CASE p \in pendingKills
  <2>1. exiting' = exiting \cup {t} /\ leases' = leases \ {t} /\ UNCHANGED <<ptys, running>>
    BY <1>5 DEF Spawned
  <2>2. OpeningsListed' /\ KillsAwait'
    BY <1>1, <1>3, <2>1, SettleInv
  <2>3. PtyTypeOK'
    BY <1>1, <1>2, <1>4, <2>1 DEF PtyTypeOK
  <2>4. NoStrayTerminal'
    BY <1>2, <1>4, <2>1 DEF PtyInv, NoStrayTerminal, Listed, PtyTypeOK
  <2>5. NothingOutlivesDisposal' /\ KillIsKept' /\ LeasesAreHeld' /\ TasksKnown'
    BY <1>1, <1>2, <1>3, <1>4, <2>1 DEF PtyInv, NothingOutlivesDisposal, KillIsKept, LeasesAreHeld, TasksKnown, PtyTypeOK
  <2>6. QED BY <2>2, <2>3, <2>4, <2>5 DEF PtyInv
<1>6. CASE p \notin pendingKills
  <2>1. /\ ptys' = [ptys EXCEPT ![p] = t] /\ running' = running \cup {t} /\ UNCHANGED <<exiting, leases>>
    BY <1>6 DEF Spawned
  <2>2. \A q \in Ptys : ptys'[q] = IF q = p THEN t ELSE ptys[q]
    BY <1>2, <2>1 DEF PtyTypeOK
  <2>3. OpeningsListed' /\ KillsAwait'
    BY <1>1, <1>3, <2>2, SettleInv
  <2>4. PtyTypeOK'
    BY <1>1, <1>2, <1>4, <2>1 DEF PtyTypeOK
  <2>5. Listed' = Listed \cup {t}
    BY <1>2, <1>3, <2>2 DEF Listed
  <2>6. NoStrayTerminal'
    BY <1>2, <1>4, <2>1, <2>2, <2>5 DEF PtyInv, NoStrayTerminal, PtyTypeOK
  <2>7. t \notin unwanted
    BY <1>1, <1>6 DEF PtyInv, KillsAwait
  <2>8. NothingOutlivesDisposal' /\ KillIsKept' /\ LeasesAreHeld' /\ TasksKnown'
    BY <1>1, <1>2, <1>3, <1>4, <2>1, <2>7
    DEF PtyInv, NothingOutlivesDisposal, KillIsKept, LeasesAreHeld, TasksKnown, PtyTypeOK
  <2>9. QED BY <2>3, <2>4, <2>6, <2>8 DEF PtyInv
<1>7. QED BY <1>5, <1>6

\* What ends terminals and begins none keeps everything: the listed ones of ts are
\* listed and run no more.
LEMMA TerminalsEnd ==
  ASSUME PtyInv, NEW ts,
         running' = running \ ts, exiting' \subseteq exiting \cup (ts \cap running), leases' = leases \ ts,
         ptys' \in [Ptys -> Openings \cup {None}],
         \A p \in Ptys : ptys'[p] = IF ptys[p] \in ts THEN None ELSE ptys[p],
         task' = task, UNCHANGED <<ptyDisposed, ptyGeneration>>, ptyReserved' \in BOOLEAN
  PROVE  /\ NoStrayTerminal' /\ NothingOutlivesDisposal' /\ LeasesAreHeld' /\ TasksKnown'
         /\ unwanted' \cap running' \subseteq unwanted' \cap running
         /\ opening' = opening /\ pendingKills \subseteq pendingKills' /\ pendingKills' \subseteq Ptys
            /\ unwanted' \subseteq Openings => PtyTypeOK' /\ OpeningsListed'
<1>1. PtyTypeOK
  BY DEF PtyInv
<1>2. Listed' = Listed \ ts
  BY <1>1 DEF Listed, PtyTypeOK
<1>3. NoStrayTerminal'
  BY <1>2 DEF PtyInv, NoStrayTerminal
<1>4. NothingOutlivesDisposal' /\ LeasesAreHeld'
  BY DEF PtyInv, NothingOutlivesDisposal, LeasesAreHeld
<1>5. TasksKnown'
  BY DEF PtyInv, TasksKnown
<1>6. ASSUME opening' = opening, pendingKills' \subseteq Ptys, unwanted' \subseteq Openings
      PROVE  PtyTypeOK' /\ OpeningsListed'
  <2>1. PtyTypeOK'
    BY <1>1, <1>6 DEF PtyTypeOK
  <2>2. OpeningsListed'
    BY <1>6 DEF PtyInv, OpeningsListed, InFlight
  <2>3. QED BY <2>1, <2>2
<1>7. QED BY <1>3, <1>4, <1>5, <1>6

LEMMA ExitedInv ==
  ASSUME PtyInv, NEW t \in Openings, Exited(t)
  PROVE  PtyInv'
<1>1. /\ running' = running \ {t} /\ exiting' = exiting \ {t} /\ leases' = leases \ {t}
      /\ ptys' = [ptys EXCEPT ![task[t].pty] = IF ptys[task[t].pty] = t THEN None ELSE ptys[task[t].pty]]
      /\ UNCHANGED <<opening, task, pendingKills, ptyDisposed, ptyGeneration, ptyReserved, unwanted>>
  BY DEF Exited
<1>2. PtyTypeOK
  BY DEF PtyInv
<1>3. \A p \in Ptys : ptys[p] = t => p = task[t].pty
  BY DEF PtyInv, NoStrayTerminal, PtyTypeOK
<1>4. /\ ptys' \in [Ptys -> Openings \cup {None}]
      /\ \A p \in Ptys : ptys'[p] = IF ptys[p] \in {t} THEN None ELSE ptys[p]
  BY <1>1, <1>2, <1>3 DEF PtyTypeOK
<1>5. /\ NoStrayTerminal' /\ NothingOutlivesDisposal' /\ LeasesAreHeld' /\ TasksKnown'
      /\ PtyTypeOK' /\ OpeningsListed'
  <2> HIDE <1>3
  <2>1. exiting' \subseteq exiting \cup ({t} \cap running) /\ ptyReserved' \in BOOLEAN
    BY <1>1, <1>2 DEF PtyTypeOK
  <2>2. pendingKills' \subseteq Ptys /\ unwanted' \subseteq Openings
    BY <1>1, <1>2 DEF PtyTypeOK
  <2>3. QED BY <1>1, <1>4, <2>1, <2>2, TerminalsEnd
<1>6. KillIsKept' /\ KillsAwait'
  BY <1>1, <1>2 DEF PtyInv, KillIsKept, KillsAwait, InFlight, PtyTypeOK
<1>7. QED BY <1>5, <1>6 DEF PtyInv

LEMMA KilledAll ==
  ASSUME PtyTypeOK, NEW ts, KillAll(ts)
  PROVE  /\ running' = running \ ts /\ exiting' = exiting \cup (ts \cap running) /\ leases' = leases \ ts
         /\ ptys' \in [Ptys -> Openings \cup {None}]
         /\ \A p \in Ptys : ptys'[p] = IF ptys[p] \in ts THEN None ELSE ptys[p]
BY DEF KillAll, PtyTypeOK

LEMMA KillInv ==
  ASSUME PtyInv, NEW p \in Ptys, Kill(p)
  PROVE  PtyInv'
<1>1. /\ KillAll({ptys[p]})
      /\ UNCHANGED <<opening, task, pendingKills, ptyDisposed, ptyGeneration, ptyReserved, unwanted>>
  BY DEF Kill
<1>2. PtyTypeOK
  BY DEF PtyInv
<1>3. /\ running' = running \ {ptys[p]} /\ exiting' = exiting \cup ({ptys[p]} \cap running) /\ leases' = leases \ {ptys[p]}
      /\ ptys' \in [Ptys -> Openings \cup {None}]
      /\ \A q \in Ptys : ptys'[q] = IF ptys[q] \in {ptys[p]} THEN None ELSE ptys[q]
  BY <1>1, <1>2, KilledAll
<1>4. pendingKills' \subseteq Ptys /\ unwanted' \subseteq Openings /\ ptyReserved' \in BOOLEAN
  BY <1>1, <1>2 DEF PtyTypeOK
<1>5. /\ NoStrayTerminal' /\ NothingOutlivesDisposal' /\ LeasesAreHeld' /\ TasksKnown'
      /\ PtyTypeOK' /\ OpeningsListed'
  BY <1>1, <1>3, <1>4, TerminalsEnd
<1>6. KillIsKept' /\ KillsAwait'
  BY <1>1, <1>3 DEF PtyInv, KillIsKept, KillsAwait, InFlight
<1>7. QED BY <1>5, <1>6 DEF PtyInv

LEMMA KillSessionInv ==
  ASSUME PtyInv, KillSession
  PROVE  PtyInv'
<1>1. /\ KillAll(Listed)
      /\ pendingKills' = pendingKills \cup {p \in Ptys : opening[p] # None}
      /\ unwanted' = unwanted \cup {t \in OnTheirWay : Alone(t)}
      /\ UNCHANGED <<opening, task, ptyDisposed, ptyGeneration, ptyReserved>>
  BY DEF KillSession
<1>2. PtyTypeOK
  BY DEF PtyInv
<1>3. /\ running' = running \ Listed /\ exiting' = exiting \cup (Listed \cap running) /\ leases' = leases \ Listed
      /\ ptys' \in [Ptys -> Openings \cup {None}]
      /\ \A q \in Ptys : ptys'[q] = IF ptys[q] \in Listed THEN None ELSE ptys[q]
  BY <1>1, <1>2, KilledAll
<1>4. pendingKills' \subseteq Ptys /\ unwanted' \subseteq Openings /\ ptyReserved' \in BOOLEAN
  BY <1>1, <1>2 DEF PtyTypeOK, OnTheirWay
<1>5. /\ NoStrayTerminal' /\ NothingOutlivesDisposal' /\ LeasesAreHeld' /\ TasksKnown'
      /\ PtyTypeOK' /\ OpeningsListed'
  BY <1>1, <1>3, <1>4, TerminalsEnd
<1>6. KillIsKept'
  BY <1>3 DEF PtyInv, NoStrayTerminal, KillIsKept
<1>7. KillsAwait'
  <2> SUFFICES ASSUME NEW u \in unwanted'
               PROVE  /\ task[u].stage # "new"
                      /\ InFlight(u) /\ task[u].generation = ptyGeneration =>
                           /\ task[u].pty \in pendingKills'
                           /\ \A v \in Openings \ {u} : ~(InFlight(v) /\ task[v].pty = task[u].pty)
    BY <1>1 DEF KillsAwait, InFlight
  <2>1. CASE u \in unwanted
    BY <1>1, <2>1 DEF PtyInv, KillsAwait
  <2>2. CASE u \in OnTheirWay /\ Alone(u)
    <3>1. PICK p \in Ptys : opening[p] = u /\ u # None
      BY <2>2 DEF OnTheirWay
    <3>2. InFlight(u) /\ task[u].pty = p /\ u \in Openings
      BY <1>2, <3>1 DEF PtyInv, OpeningsListed, PtyTypeOK
    <3>3. QED BY <1>1, <2>2, <3>1, <3>2 DEF Alone, InFlight
  <2>3. QED BY <1>1, <2>1, <2>2
<1>8. QED BY <1>5, <1>6, <1>7 DEF PtyInv

LEMMA DisposeInv ==
  ASSUME PtyInv, Dispose
  PROVE  PtyInv'
<1>1. /\ ~ptyDisposed /\ ptyGeneration < MaxDisposals
      /\ ptyDisposed' = TRUE /\ ptyGeneration' = ptyGeneration + 1
      /\ KillAll(Listed)
      /\ opening' = [p \in Ptys |-> None]
      /\ pendingKills' = {}
      /\ UNCHANGED <<task, ptyReserved, unwanted>>
  BY DEF Dispose
<1>2. PtyTypeOK
  BY DEF PtyInv
<1>3. /\ running' = running \ Listed /\ exiting' = exiting \cup (Listed \cap running) /\ leases' = leases \ Listed
      /\ ptys' \in [Ptys -> Openings \cup {None}]
      /\ \A q \in Ptys : ptys'[q] = IF ptys[q] \in Listed THEN None ELSE ptys[q]
  BY <1>1, <1>2, KilledAll
<1>4. running = Listed
  BY DEF PtyInv, NoStrayTerminal
<1>5. running' = {}
  BY <1>3, <1>4
<1>6. \A p \in Ptys : ptys'[p] = None
  BY <1>2, <1>3 DEF Listed, PtyTypeOK
<1>7. PtyTypeOK'
  <2>1. ptyGeneration' \in 0..MaxDisposals
    BY <1>1, <1>2 DEF PtyTypeOK
  <2>2. QED BY <1>1, <1>2, <1>3, <1>5, <2>1 DEF PtyTypeOK
<1>8. NoStrayTerminal' /\ NothingOutlivesDisposal' /\ KillIsKept'
  BY <1>5, <1>6 DEF NoStrayTerminal, NothingOutlivesDisposal, KillIsKept, Listed
<1>9. LeasesAreHeld'
  BY <1>1, <1>3, <1>4 DEF PtyInv, LeasesAreHeld
<1>10. TasksKnown'
  <2>1. \A t \in Openings : task[t].generation \in 0..MaxDisposals
    BY <1>2 DEF PtyTypeOK, Task
  <2>2. QED BY <1>1, <1>2, <1>3, <1>4, <1>5, <2>1 DEF PtyInv, TasksKnown, PtyTypeOK
<1>11. \A t \in Openings : InFlight(t)' => task[t].generation # ptyGeneration'
  <2>1. \A t \in Openings : task[t].generation \in 0..MaxDisposals /\ (InFlight(t)' => task[t].stage # "new")
    BY <1>1, <1>2 DEF PtyTypeOK, Task, InFlight
  <2>2. QED BY <1>1, <1>2, <2>1 DEF PtyInv, TasksKnown, PtyTypeOK
<1>12. OpeningsListed'
  BY <1>1, <1>11 DEF OpeningsListed
<1>13. KillsAwait'
  BY <1>1, <1>2, <1>11 DEF PtyInv, KillsAwait, PtyTypeOK
<1>14. QED BY <1>7, <1>8, <1>9, <1>10, <1>12, <1>13 DEF PtyInv

LEMMA ReopenInv ==
  ASSUME PtyInv, Reopen \/ BeginReservation
  PROVE  PtyInv'
<1>1. /\ ptyReserved' \in BOOLEAN
      /\ UNCHANGED <<opening, task, ptys, pendingKills, ptyGeneration, running, exiting, leases, unwanted>>
  BY DEF Reopen, BeginReservation
<1>2. PtyTypeOK /\ ptyDisposed' \in BOOLEAN /\ (ptyDisposed' => ptyDisposed)
  <2>1. PtyTypeOK /\ ptyDisposed \in BOOLEAN
    BY DEF PtyInv, PtyTypeOK
  <2>2. CASE ptyDisposed' = FALSE
    BY <2>1, <2>2
  <2>3. CASE ptyDisposed' = ptyDisposed
    BY <2>1, <2>3
  <2>4. QED BY <2>2, <2>3 DEF Reopen, BeginReservation
<1>3. PtyTypeOK' /\ NoStrayTerminal' /\ KillIsKept' /\ LeasesAreHeld'
  BY <1>1, <1>2 DEF PtyInv, PtyTypeOK, NoStrayTerminal, Listed, KillIsKept, LeasesAreHeld
<1>4. NothingOutlivesDisposal' /\ TasksKnown'
  BY <1>1, <1>2 DEF PtyInv, NothingOutlivesDisposal, TasksKnown
<1>5. OpeningsListed' /\ KillsAwait'
  BY <1>1, <1>2 DEF PtyInv, OpeningsListed, KillsAwait, InFlight
<1>6. QED BY <1>3, <1>4, <1>5 DEF PtyInv

LEMMA PtyStepInv == PtyInv /\ [PtyNext]_ptyVars => PtyInv'
<1> SUFFICES ASSUME PtyInv, [PtyNext]_ptyVars PROVE PtyInv'
  OBVIOUS
<1>1. CASE UNCHANGED ptyVars
  BY <1>1 DEF ptyVars, PtyInv, PtyTypeOK, NoStrayTerminal, NothingOutlivesDisposal, KillIsKept, LeasesAreHeld,
     OpeningsListed, TasksKnown, KillsAwait, Listed, InFlight
<1>2. CASE PtyNext
  BY <1>2, OpenInv, LaunchedInv, OpenFailsInv, SpawnedInv, ExitedInv, KillInv, KillSessionInv, DisposeInv, ReopenInv DEF PtyNext
<1>3. QED BY <1>1, <1>2

-----------------------------------------------------------------------------
(* The servers *)

\* A server that is starting lives, and processes are numbered.
StartsLive ==
    /\ starting # NoEntry => starting.proc \in alive /\ starting.proc \notin leaving
    /\ alive \subseteq 1..procs
    /\ Up => server.proc \in 1..procs

\* Everybody counted is, by the pool that counted them or a later one.
CountsMatch == inFlight = Cardinality(Counted) /\ \A c \in Callers : call[c].pool <= pool

PoolInv == PoolTypeOK /\ NoStrayServer /\ StartsLive /\ CountsMatch

\* Everything that happens to the pool
PoolStep ==
    \/ \E c \in Callers : \/ \E env \in Envs : Ask(c, env)
                          \/ AskAgain(c) \/ Reconnect(c) \/ Refuse(c) \/ Begin(c) \/ Take(c)
    \/ \E cs \in SUBSET Callers : End(cs)
    \/ \E b \in BOOLEAN : Started(b) \/ StartFails(b) \/ OutOfDate(b)
    \/ \E p \in alive : Exits(p)
    \/ StopIdle \/ DisposePool \/ RenewPool

LEMMA Entries ==
  /\ NoProc \notin Proc /\ NoEntry.proc = NoProc /\ NoEntry \notin Entry
  /\ \A e \in Entry : e.proc \in Proc /\ e.env \in Envs /\ e.edition \in 0..MaxEditions
  /\ NoCall \in Call /\ ~NoCall.counted
BY DEF Proc, Entry, NoEntry, Call, NoCall, CallPhases

LEMMA PoolInitInv == PoolInit => PoolInv
<1> SUFFICES ASSUME PoolInit PROVE PoolInv
  OBVIOUS
<1> USE DEF PoolInit
<1>1. PoolTypeOK
  <2>1. call \in [Callers -> Call]
    BY Entries
  <2>2. pool \in 1..MaxPools /\ inFlight \in Nat /\ edition \in 0..MaxEditions /\ procs \in 0..MaxProcs
    OBVIOUS
  <2>3. poolDisposed \in BOOLEAN /\ server \in {NoEntry} /\ starting \in {NoEntry} /\ alive \subseteq Proc /\ leaving \subseteq Proc
    OBVIOUS
  <2>4. QED BY <2>1, <2>2, <2>3 DEF PoolTypeOK
<1>2. NoStrayServer /\ StartsLive
  BY DEF NoStrayServer, StartsLive, Up
<1>3. Counted = {}
  BY Entries DEF Counted
<1>4. CountsMatch
  BY <1>3, FS_EmptySet DEF CountsMatch, NoCall
<1>5. QED BY <1>1, <1>2, <1>4 DEF PoolInv

\* Who is counted does not change unless somebody begins, ends or the pool is renewed.
LEMMA CountKept ==
  ASSUME PoolInv, call' \in [Callers -> Call], UNCHANGED <<pool, inFlight>>,
         \A c \in Callers : /\ call'[c].counted = call[c].counted
                            /\ call[c].counted => call'[c].pool = call[c].pool
                            /\ call'[c].pool \in {call[c].pool, pool, 1}
  PROVE  CountsMatch'
<1>1. Counted' = Counted
  BY DEF Counted, Present
<1>2. \A c \in Callers : call'[c].pool <= pool
  <2>1. pool \in Nat /\ 1 <= pool /\ \A c \in Callers : call[c].pool <= pool
    BY DEF PoolInv, PoolTypeOK, CountsMatch
  <2>2. QED BY <2>1
<1>3. QED BY <1>1, <1>2 DEF PoolInv, CountsMatch

LEMMA Answered ==
  ASSUME PoolTypeOK, NEW c \in Callers, NEW env \in Envs, NEW phase \in CallPhases, NEW proc \in Proc \cup {NoProc},
         Answer(c, env, phase, proc), call[c].counted => Present(c)
  PROVE  /\ call' \in [Callers -> Call]
         /\ \A d \in Callers : call'[d].counted = call[d].counted /\ (call[d].counted => call'[d].pool = call[d].pool)
         /\ \A d \in Callers : call'[d].pool \in {call[d].pool, pool}
<1>1. call[c] \in Call /\ pool \in 1..MaxPools
  BY DEF PoolTypeOK
<1> DEFINE answer == [call[c] EXCEPT !.phase = phase, !.env = env, !.proc = proc, !.pool = pool]
<1>2. answer \in Call /\ answer.pool = pool /\ answer.counted = call[c].counted /\ (call[c].counted => answer.pool = call[c].pool)
  BY <1>1 DEF Call, Present
<1>3. call' = [call EXCEPT ![c] = answer]
  BY DEF Answer
<1>4. QED BY <1>2, <1>3 DEF PoolTypeOK

LEMMA Stopped ==
  ASSUME PoolInv, Stop, starting = NoEntry
  PROVE  server' = NoEntry /\ leaving' = alive /\ leaving' \subseteq Proc
<1>1. server' = NoEntry /\ leaving' = Leaving(server)
  BY DEF Stop
<1>2. alive \subseteq leaving \cup {server.proc, NoProc} /\ leaving \subseteq alive /\ alive \subseteq Proc
  BY Entries DEF PoolInv, NoStrayServer, PoolTypeOK
<1>3. CASE server = NoEntry
  BY <1>1, <1>2, <1>3, Entries DEF Leaving
<1>4. CASE server # NoEntry
  BY <1>1, <1>2, <1>4, Entries DEF Leaving
<1>5. QED BY <1>3, <1>4

LEMMA EnsureInv ==
  ASSUME PoolInv, NEW c \in Callers, NEW env \in Envs, NEW entry \in {server, NoEntry}, Ensure(c, env, entry),
         UNCHANGED <<pool, inFlight, edition, poolDisposed>>, call[c].counted => Present(c)
  PROVE  PoolInv' /\ \A d \in Callers : call'[d].counted = call[d].counted
<1>1. PoolTypeOK /\ server.proc \in Proc \cup {NoProc} /\ starting.proc \in Proc \cup {NoProc}
  BY Entries DEF PoolInv, PoolTypeOK
<1>2. entry.proc \in Proc \cup {NoProc}
  BY <1>1, Entries
<1>3. CASE UNCHANGED <<server, leaving, starting, alive, procs>> /\ \E phase \in CallPhases, proc \in Proc \cup {NoProc} : Answer(c, env, phase, proc)
  <2>1. /\ call' \in [Callers -> Call]
        /\ \A d \in Callers : call'[d].counted = call[d].counted /\ (call[d].counted => call'[d].pool = call[d].pool)
        /\ \A d \in Callers : call'[d].pool \in {call[d].pool, pool}
    BY <1>1, <1>3, Answered
  <2>2. CountsMatch'
    BY <2>1, CountKept
  <2>3. PoolTypeOK' /\ NoStrayServer' /\ StartsLive'
    BY <1>3, <2>1 DEF PoolInv, PoolTypeOK, NoStrayServer, StartsLive, Up
  <2>4. QED BY <2>1, <2>2, <2>3 DEF PoolInv
<1>4. CASE /\ starting = NoEntry /\ procs < MaxProcs /\ Stop
           /\ procs' = procs + 1 /\ alive' = alive \cup {procs + 1}
           /\ starting' = [proc |-> procs + 1, env |-> env, edition |-> edition]
           /\ Answer(c, env, "joined", procs + 1)
  <2>1. procs + 1 \in Proc /\ edition \in 0..MaxEditions /\ procs \in Nat
    BY <1>1, <1>4 DEF PoolTypeOK, Proc
  <2>2. /\ call' \in [Callers -> Call]
        /\ \A d \in Callers : call'[d].counted = call[d].counted /\ (call[d].counted => call'[d].pool = call[d].pool)
        /\ \A d \in Callers : call'[d].pool \in {call[d].pool, pool}
    <3>1. "joined" \in CallPhases
      BY DEF CallPhases
    <3>2. QED BY <1>1, <1>4, <2>1, <3>1, Answered
  <2>3. CountsMatch'
    BY <2>2, CountKept
  <2>4. server' = NoEntry /\ leaving' = alive /\ alive \subseteq Proc /\ alive \subseteq 1..procs
    BY <1>4, Stopped DEF PoolInv, PoolTypeOK, StartsLive
  <2>5. starting' \in Entry /\ starting'.proc = procs + 1
    BY <1>4, <2>1 DEF Entry
  <2>6. PoolTypeOK'
    BY <1>1, <1>4, <2>1, <2>2, <2>4, <2>5 DEF PoolTypeOK, Proc
  <2>7. NoStrayServer'
    BY <1>4, <2>4, <2>5 DEF NoStrayServer, Up
  <2>8. StartsLive'
    <3>1. procs + 1 \notin 1..procs /\ 1..procs \subseteq 1..(procs + 1) /\ procs + 1 \in 1..(procs + 1)
      BY <2>1
    <3>2. QED BY <1>4, <2>4, <2>5, <3>1 DEF StartsLive, Up
  <2>9. QED BY <2>2, <2>3, <2>6, <2>7, <2>8 DEF PoolInv
<1>5. "joined" \in CallPhases /\ "waiting" \in CallPhases /\ "handed" \in CallPhases
  BY DEF CallPhases
<1>6. QED BY <1>1, <1>2, <1>3, <1>4, <1>5 DEF Ensure

\* The calls that ask for a server, and what they ask with
LEMMA AskInv ==
  ASSUME PoolInv, NEW c \in Callers, (\E env \in Envs : Ask(c, env)) \/ AskAgain(c) \/ Reconnect(c)
  PROVE  /\ PoolInv'
         /\ \A d \in Callers : call'[d].counted = call[d].counted
         /\ \E env \in Envs, entry \in {server, NoEntry} :
              /\ Ensure(c, env, entry) /\ UNCHANGED <<pool, inFlight, edition, poolDisposed>>
              /\ inFlight > 0 => entry = server
<1>1. call[c] \in Call /\ call[c].env \in Envs
  BY DEF PoolInv, PoolTypeOK, Call
<1>2. Swept \subseteq {server, NoEntry} /\ Invalidated \in {server, NoEntry} /\ inFlight \in Nat
  BY DEF Swept, Invalidated, PoolInv, PoolTypeOK
<1>3. /\ \E env \in Envs, entry \in {server, NoEntry} :
           /\ Ensure(c, env, entry) /\ UNCHANGED <<pool, inFlight, edition, poolDisposed>>
           /\ inFlight > 0 => entry = server
      /\ call[c].counted => Present(c)
  <2>1. CASE \E env \in Envs : Ask(c, env)
    BY <1>2, <2>1 DEF Ask, Swept
  <2>2. CASE AskAgain(c)
    BY <1>1, <1>2, <2>2 DEF AskAgain, Swept
  <2>3. CASE Reconnect(c)
    BY <1>1, <1>2, <2>3 DEF Reconnect, Invalidated
  <2>4. QED BY <2>1, <2>2, <2>3
<1>4. PoolInv' /\ \A d \in Callers : call'[d].counted = call[d].counted
  BY <1>3, EnsureInv
<1>5. QED BY <1>3, <1>4

LEMMA BeginInv ==
  ASSUME PoolInv, NEW c \in Callers, Begin(c)
  PROVE  /\ PoolInv'
         /\ \A d \in Callers : call'[d].counted = (d = c \/ call[d].counted)
<1>1. /\ call[c].phase = "handed" /\ ~call[c].counted
      /\ call' = [call EXCEPT ![c].phase = "none", ![c].counted = TRUE]
      /\ inFlight' = IF Present(c) THEN inFlight + 1 ELSE inFlight
      /\ UNCHANGED <<pool, server, starting, edition, poolDisposed, alive, leaving, procs>>
  BY DEF Begin
<1>2. PoolTypeOK /\ inFlight \in Nat /\ call \in [Callers -> Call]
  BY DEF PoolInv, PoolTypeOK
<1>3. /\ call' \in [Callers -> Call]
      /\ \A d \in Callers : call'[d].counted = (d = c \/ call[d].counted) /\ call'[d].pool = call[d].pool
  BY <1>1, <1>2 DEF Call, CallPhases
<1>4. CountsMatch'
  <2>1. IsFiniteSet(Counted) /\ c \notin Counted
    BY <1>1, FS_Subset DEF Counted
  <2>2. Counted' = IF Present(c) THEN Counted \cup {c} ELSE Counted
    BY <1>1, <1>3 DEF Counted, Present
  <2>3. \A d \in Callers : call'[d].pool <= pool
    BY <1>3 DEF PoolInv, CountsMatch
  <2>4. QED BY <1>1, <2>1, <2>2, <2>3, FS_AddElement DEF PoolInv, CountsMatch
<1>5. PoolTypeOK' /\ NoStrayServer' /\ StartsLive'
  BY <1>1, <1>2, <1>3 DEF PoolInv, PoolTypeOK, NoStrayServer, StartsLive, Up
<1>6. QED BY <1>3, <1>4, <1>5 DEF PoolInv

LEMMA TakeInv ==
  ASSUME PoolInv, NEW c \in Callers, Take(c) \/ Refuse(c)
  PROVE  /\ PoolInv'
         /\ \A d \in Callers : call'[d].counted = call[d].counted
<1>1. /\ call' = [call EXCEPT ![c] = call'[c]]
      /\ call'[c] \in {NoCall, [call[c] EXCEPT !.phase = "none"], [call[c] EXCEPT !.phase = "refused"]}
      /\ call[c].counted => call'[c] # NoCall
      /\ UNCHANGED <<pool, server, starting, inFlight, edition, poolDisposed, alive, leaving, procs>>
  <2>1. call[c] \in Call /\ call \in [Callers -> Call]
    BY DEF PoolInv, PoolTypeOK
  <2>2. CASE Take(c)
    BY <2>1, <2>2, Entries DEF Take, Call
  <2>3. CASE Refuse(c)
    BY <2>1, <2>3, Entries DEF Refuse, Call
  <2>4. QED BY <2>2, <2>3
<1>2. PoolTypeOK /\ call \in [Callers -> Call]
  BY DEF PoolInv, PoolTypeOK
<1>3. /\ call' \in [Callers -> Call]
      /\ \A d \in Callers : call'[d].counted = call[d].counted /\ (call[d].counted => call'[d].pool = call[d].pool)
      /\ \A d \in Callers : call'[d].pool \in {call[d].pool, 1}
  <2>1. /\ call'[c] \in Call /\ call'[c].counted = call[c].counted /\ (call[c].counted => call'[c].pool = call[c].pool)
        /\ call'[c].pool \in {call[c].pool, 1}
    <3>1. call[c] \in Call
      BY <1>2
    <3>2. CASE call'[c] = NoCall
      <4>1. call[c].counted = FALSE /\ NoCall.counted = FALSE /\ NoCall.pool = 1
        BY <1>1, <3>1, <3>2 DEF Call, NoCall
      <4>2. QED BY <3>2, <4>1, Entries
    <3>3. CASE call'[c] = [call[c] EXCEPT !.phase = "none"]
      BY <3>1, <3>3 DEF Call, CallPhases
    <3>4. CASE call'[c] = [call[c] EXCEPT !.phase = "refused"]
      BY <3>1, <3>4 DEF Call, CallPhases
    <3>5. QED BY <1>1, <3>2, <3>3, <3>4
  <2>2. \A d \in Callers : d # c => call'[d] = call[d]
    BY <1>1, <1>2
  <2>3. QED BY <1>1, <1>2, <2>1, <2>2
<1>4. CountsMatch'
  BY <1>1, <1>3, CountKept
<1>5. PoolTypeOK' /\ NoStrayServer' /\ StartsLive'
  BY <1>1, <1>2, <1>3 DEF PoolInv, PoolTypeOK, NoStrayServer, StartsLive, Up
<1>6. QED BY <1>3, <1>4, <1>5 DEF PoolInv

LEMMA EndInv ==
  ASSUME PoolInv, NEW cs \in SUBSET Callers, End(cs)
  PROVE  /\ PoolInv'
         /\ \A d \in Callers : call'[d].counted = (d \notin cs /\ call[d].counted)
<1>1. /\ call' = [c \in Callers |-> IF c \in cs THEN NoCall ELSE call[c]]
      /\ inFlight' = IF Cardinality(cs \cap Counted) >= inFlight THEN 0 ELSE inFlight - Cardinality(cs \cap Counted)
      /\ UNCHANGED <<pool, server, starting, edition, poolDisposed, alive, leaving, procs>>
  BY DEF End
<1>2. PoolTypeOK /\ inFlight \in Nat /\ call \in [Callers -> Call]
  BY DEF PoolInv, PoolTypeOK
<1>3. /\ call' \in [Callers -> Call]
      /\ \A d \in Callers : call'[d].counted = (d \notin cs /\ call[d].counted) /\ (d \notin cs => call'[d] = call[d])
  <2>1. \A d \in Callers : call[d].counted \in BOOLEAN /\ NoCall.counted = FALSE
    BY <1>2 DEF Call, NoCall
  <2>2. QED BY <1>1, <1>2, <2>1, Entries
<1>4. CountsMatch' /\ inFlight' \in Nat
  <2>1. IsFiniteSet(Counted) /\ IsFiniteSet(cs) /\ IsFiniteSet(cs \cap Counted)
    BY FS_Subset DEF Counted
  <2>2. Counted' = Counted \ (cs \cap Counted)
    BY <1>1, <1>3 DEF Counted, Present
  <2>3. /\ Cardinality(cs \cap Counted) \in Nat /\ Cardinality(cs \cap Counted) <= Cardinality(Counted)
        /\ Cardinality(Counted \ (cs \cap Counted)) = Cardinality(Counted) - Cardinality(cs \cap Counted)
    <3>1. Counted \cap (cs \cap Counted) = cs \cap Counted
      OBVIOUS
    <3>2. Cardinality(Counted \ (cs \cap Counted)) = Cardinality(Counted) - Cardinality(Counted \cap (cs \cap Counted))
      BY <2>1, FS_Difference
    <3>3. Cardinality(cs \cap Counted) \in Nat
      BY <2>1, FS_CardinalityType
    <3>4. Cardinality(cs \cap Counted) <= Cardinality(Counted)
      BY <2>1, FS_Subset
    <3>5. QED BY <3>1, <3>2, <3>3, <3>4
  <2>4. inFlight = Cardinality(Counted)
    BY DEF PoolInv, CountsMatch
  <2>5. inFlight' = Cardinality(Counted) - Cardinality(cs \cap Counted)
    BY <1>1, <1>2, <2>3, <2>4
  <2>6. \A d \in Callers : call'[d].pool <= pool
    <3>1. NoCall.pool = 1 /\ 1 <= pool /\ pool \in Nat
      BY <1>2 DEF NoCall, PoolTypeOK
    <3>2. QED BY <1>1, <3>1 DEF PoolInv, CountsMatch
  <2>7. inFlight' \in Nat
    BY <1>2, <2>3, <2>4, <2>5
  <2>8. inFlight' = Cardinality(Counted)'
    BY <2>2, <2>3, <2>5
  <2>9. QED BY <1>1, <2>6, <2>7, <2>8 DEF CountsMatch
<1>5. PoolTypeOK' /\ NoStrayServer' /\ StartsLive'
  BY <1>1, <1>2, <1>3, <1>4 DEF PoolInv, PoolTypeOK, NoStrayServer, StartsLive, Up
<1>6. QED BY <1>3, <1>4, <1>5 DEF PoolInv

LEMMA Resolved ==
  ASSUME PoolInv, NEW phase \in CallPhases, Resolve(phase), UNCHANGED <<pool, inFlight>>
  PROVE  /\ call' \in [Callers -> Call] /\ CountsMatch'
         /\ \A d \in Callers : call'[d].counted = call[d].counted
<1>1. call \in [Callers -> Call]
  BY DEF PoolInv, PoolTypeOK
<1>2. /\ call' \in [Callers -> Call]
      /\ \A d \in Callers : call'[d].counted = call[d].counted /\ call'[d].pool = call[d].pool
  BY <1>1 DEF Resolve, Call
<1>3. QED BY <1>2, CountKept

LEMMA ServerInv ==
  ASSUME PoolInv,
         \/ \E b \in BOOLEAN : Started(b) \/ StartFails(b) \/ OutOfDate(b)
         \/ \E p \in alive : Exits(p)
         \/ StopIdle \/ DisposePool
  PROVE  /\ PoolInv'
         /\ \A d \in Callers : call'[d].counted = call[d].counted
<1>1. /\ PoolTypeOK /\ alive \subseteq Proc /\ leaving \subseteq alive
      /\ alive \subseteq leaving \cup {server.proc, starting.proc}
      /\ alive \subseteq 1..procs /\ NoProc \notin Proc
      /\ Up => starting = NoEntry /\ server.proc \notin leaving /\ server.proc \in 1..procs
      /\ starting # NoEntry => starting.proc \in alive /\ starting.proc \notin leaving /\ server = NoEntry
      /\ server = NoEntry => server.proc = NoProc
      /\ starting = NoEntry => starting.proc = NoProc
      /\ call \in [Callers -> Call]
  BY Entries DEF PoolInv, PoolTypeOK, NoStrayServer, StartsLive, Up
<1>2. ASSUME UNCHANGED <<call, pool, inFlight>>
      PROVE  CountsMatch' /\ \A d \in Callers : call'[d].counted = call[d].counted
  BY <1>2 DEF PoolInv, CountsMatch, Counted, Present
<1>3. ASSUME NEW b \in BOOLEAN, Started(b)
      PROVE  PoolInv' /\ \A d \in Callers : call'[d].counted = call[d].counted
  <2>1. /\ starting # NoEntry /\ server' = starting /\ starting' = NoEntry
        /\ alive' \subseteq alive /\ alive \subseteq alive' \cup {starting.proc}
        /\ UNCHANGED <<pool, inFlight, edition, poolDisposed, leaving, procs>> /\ Resolve("handed")
    BY <1>3 DEF Started
  <2>2. call' \in [Callers -> Call] /\ CountsMatch' /\ \A d \in Callers : call'[d].counted = call[d].counted
    BY <2>1, Resolved DEF CallPhases
  <2>3. PoolTypeOK'
    BY <1>1, <2>1, <2>2 DEF PoolTypeOK
  <2>4. NoStrayServer' /\ StartsLive'
    BY <1>1, <2>1 DEF NoStrayServer, StartsLive, Up
  <2>5. QED BY <2>2, <2>3, <2>4 DEF PoolInv
<1>4. ASSUME NEW b \in BOOLEAN, StartFails(b)
      PROVE  PoolInv' /\ \A d \in Callers : call'[d].counted = call[d].counted
  <2>1. /\ starting # NoEntry /\ starting' = NoEntry
        /\ \/ alive' = alive \ {starting.proc} /\ leaving' = leaving
           \/ leaving' = leaving \cup {starting.proc} /\ alive' = alive
        /\ UNCHANGED <<pool, server, inFlight, edition, poolDisposed, procs>> /\ Resolve("refused")
    BY <1>4 DEF StartFails
  <2>2. call' \in [Callers -> Call] /\ CountsMatch' /\ \A d \in Callers : call'[d].counted = call[d].counted
    BY <2>1, Resolved DEF CallPhases
  <2>3. PoolTypeOK'
    BY <1>1, <2>1, <2>2 DEF PoolTypeOK
  <2>4. NoStrayServer' /\ StartsLive'
    BY <1>1, <2>1 DEF NoStrayServer, StartsLive, Up
  <2>5. QED BY <2>2, <2>3, <2>4 DEF PoolInv
<1>5. ASSUME (Stop /\ UNCHANGED <<starting, alive, procs>>) \/ UNCHANGED <<server, leaving, starting, alive, procs>>,
             UNCHANGED <<pool, inFlight, poolDisposed, call>>, edition' \in 0..MaxEditions
      PROVE  PoolInv' /\ \A d \in Callers : call'[d].counted = call[d].counted
  <2>1. CASE Stop /\ UNCHANGED <<starting, alive, procs>>
    <3>1. server' = NoEntry /\ leaving' = IF server = NoEntry THEN leaving ELSE leaving \cup ({server.proc} \cap alive)
      BY <2>1 DEF Stop, Leaving
    <3>2. PoolTypeOK'
      BY <1>1, <1>5, <2>1, <3>1 DEF PoolTypeOK
    <3>3. NoStrayServer' /\ StartsLive'
      BY <1>1, <2>1, <3>1 DEF NoStrayServer, StartsLive, Up
    <3>4. QED BY <1>2, <1>5, <3>2, <3>3 DEF PoolInv
  <2>2. CASE UNCHANGED <<server, leaving, starting, alive, procs>>
    <3>1. PoolTypeOK' /\ NoStrayServer' /\ StartsLive'
      BY <1>1, <1>5, <2>2 DEF PoolInv, PoolTypeOK, NoStrayServer, StartsLive, Up
    <3>2. QED BY <1>2, <1>5, <3>1 DEF PoolInv
  <2>3. QED BY <1>5, <2>1, <2>2
<1>6. CASE StopIdle
  BY <1>1, <1>5, <1>6 DEF StopIdle, PoolTypeOK
<1>7. ASSUME NEW b \in BOOLEAN, OutOfDate(b)
      PROVE  PoolInv' /\ \A d \in Callers : call'[d].counted = call[d].counted
  <2>1. edition + 1 \in 0..MaxEditions /\ edition' = edition + 1
    BY <1>1, <1>7 DEF OutOfDate, PoolTypeOK
  <2>2. (Stop /\ UNCHANGED <<starting, alive, procs>>) \/ UNCHANGED <<server, leaving, starting, alive, procs>>
    BY <1>7 DEF OutOfDate
  <2>3. UNCHANGED <<pool, inFlight, poolDisposed, call>>
    BY <1>7 DEF OutOfDate
  <2>4. QED BY <1>5, <2>1, <2>2, <2>3
<1>8. ASSUME NEW p \in alive, Exits(p)
      PROVE  PoolInv' /\ \A d \in Callers : call'[d].counted = call[d].counted
  <2>1. /\ p # starting.proc /\ alive' = alive \ {p} /\ leaving' = leaving \ {p}
        /\ server' = IF server.proc = p THEN NoEntry ELSE server
        /\ UNCHANGED <<pool, starting, inFlight, edition, poolDisposed, procs, call>>
    BY <1>8 DEF Exits
  <2>2. PoolTypeOK'
    BY <1>1, <2>1 DEF PoolTypeOK
  <2>3. NoStrayServer' /\ StartsLive'
    BY <1>1, <2>1 DEF NoStrayServer, StartsLive, Up
  <2>4. QED BY <1>2, <2>1, <2>2, <2>3 DEF PoolInv
<1>9. CASE DisposePool
  <2>1. /\ poolDisposed' = TRUE /\ server' = NoEntry /\ starting' = NoEntry
        /\ leaving' = Leaving(server) \cup (IF starting = NoEntry THEN {} ELSE {starting.proc})
        /\ UNCHANGED <<pool, inFlight, edition, alive, procs, call>>
    BY <1>9 DEF DisposePool
  <2>2. leaving' = alive
    BY <1>1, <2>1 DEF Leaving, Up
  <2>3. PoolTypeOK'
    BY <1>1, <2>1, <2>2 DEF PoolTypeOK
  <2>4. NoStrayServer' /\ StartsLive'
    BY <1>1, <2>1, <2>2 DEF NoStrayServer, StartsLive, Up
  <2>5. QED BY <1>2, <2>1, <2>3, <2>4 DEF PoolInv
<1>10. QED BY <1>3, <1>4, <1>6, <1>7, <1>8, <1>9

LEMMA RenewInv ==
  ASSUME PoolInv, RenewPool
  PROVE  /\ PoolInv'
         /\ \A d \in Callers : call'[d].counted = call[d].counted
<1>1. /\ pool < MaxPools /\ pool' = pool + 1 /\ poolDisposed' = FALSE
      /\ inFlight' = 0 /\ edition' = 0
      /\ server' = NoEntry /\ starting' = NoEntry
      /\ leaving' = Leaving(server) \cup (IF starting = NoEntry THEN {} ELSE {starting.proc})
      /\ UNCHANGED <<alive, procs, call>>
  BY DEF RenewPool
<1>2. /\ PoolTypeOK /\ alive \subseteq leaving \cup {server.proc, starting.proc}
      /\ leaving \subseteq alive /\ alive \subseteq Proc /\ NoProc \notin Proc
      /\ server = NoEntry => server.proc = NoProc
      /\ starting = NoEntry => starting.proc = NoProc
      /\ starting # NoEntry => starting.proc \in alive
  BY Entries DEF PoolInv, PoolTypeOK, NoStrayServer, StartsLive
<1>3. leaving' = alive
  BY <1>1, <1>2 DEF Leaving
<1>4. PoolTypeOK'
  <2>1. pool' \in 1..MaxPools /\ inFlight' \in Nat /\ edition' \in 0..MaxEditions
    BY <1>1, <1>2 DEF PoolTypeOK
  <2>2. poolDisposed' \in BOOLEAN /\ server' \in Entry \cup {NoEntry} /\ starting' \in Entry \cup {NoEntry}
    BY <1>1
  <2>3. leaving' \subseteq Proc /\ UNCHANGED <<alive, procs, call>>
    BY <1>1, <1>2, <1>3
  <2>4. QED BY <1>2, <2>1, <2>2, <2>3 DEF PoolTypeOK
<1>5. NoStrayServer' /\ StartsLive'
  BY <1>1, <1>3, Entries DEF PoolInv, NoStrayServer, StartsLive, Up
<1>6. Counted' = {}
  <2>1. \A c \in Callers : call[c].pool \in 1..MaxPools
    BY <1>2 DEF PoolTypeOK, Call
  <2>2. pool \in Nat /\ \A c \in Callers : call[c].pool <= pool
    BY <1>2 DEF PoolInv, CountsMatch, PoolTypeOK
  <2>3. QED BY <1>1, <2>1, <2>2 DEF Counted, Present
<1>7. CountsMatch'
  <2>1. pool \in Nat /\ \A c \in Callers : call[c].pool \in Nat /\ call[c].pool <= pool
    BY <1>2 DEF PoolInv, CountsMatch, PoolTypeOK, Call
  <2>2. QED BY <1>1, <1>6, <2>1, FS_EmptySet DEF CountsMatch
<1>8. QED BY <1>1, <1>4, <1>5, <1>7 DEF PoolInv
-----------------------------------------------------------------------------
(* Both together *)

\* The openings and terminals that hold a lease are the ones a pool counts.
LeasesCounted == \A t \in Openings : call[t].counted <=> t \in leases

TerminalsInv == PtyInv /\ PoolInv /\ LeasesCounted

LEMMA ReleaseInv ==
  ASSUME PoolInv, LeasesCounted, leases \subseteq Openings, leases' \subseteq leases, ReleaseLeases
  PROVE  PoolInv' /\ LeasesCounted'
<1> DEFINE released == leases \ leases'
<1>1. released \subseteq Callers
  OBVIOUS
<1>2. CASE released = {}
  <2>1. UNCHANGED poolVars /\ leases' = leases
    BY <1>2 DEF ReleaseLeases
  <2>2. QED BY <2>1 DEF poolVars, PoolInv, PoolTypeOK, NoStrayServer, StartsLive, CountsMatch, Counted, Present, Up, LeasesCounted
<1>3. CASE released # {}
  <2>1. End(released)
    BY <1>3 DEF ReleaseLeases
  <2>2. PoolInv' /\ \A d \in Callers : call'[d].counted = (d \notin released /\ call[d].counted)
    BY <1>1, <2>1, EndInv
  <2>3. QED BY <2>2 DEF LeasesCounted
<1>4. QED BY <1>2, <1>3

LEMMA PoolUnchanged == PoolInv /\ UNCHANGED poolVars => PoolInv'
BY DEF poolVars, PoolInv, PoolTypeOK, NoStrayServer, StartsLive, CountsMatch, Counted, Present, Up

\* Steps that leave the leases alone and count nobody
LEMMA LeasesKept ==
  ASSUME LeasesCounted, leases' = leases, \A d \in Openings : call'[d].counted = call[d].counted
  PROVE  LeasesCounted'
BY DEF LeasesCounted

\* What the terminals do, seen from either pool
LEMMA TerminalStep ==
  ASSUME TerminalsInv, TerminalNext
  PROVE  [PtyNext]_ptyVars /\ PoolInv' /\ LeasesCounted' /\ (PoolStep \/ UNCHANGED poolVars)
<1>1. PtyTypeOK /\ leases \subseteq Openings /\ PoolInv /\ LeasesCounted
  BY DEF TerminalsInv, PtyInv, PtyTypeOK
<1>2. ASSUME ReleaseLeases, PtyNext, leases' \subseteq leases
      PROVE  [PtyNext]_ptyVars /\ PoolInv' /\ LeasesCounted' /\ (PoolStep \/ UNCHANGED poolVars)
  <2>1. PoolStep \/ UNCHANGED poolVars
    <3>1. leases \ leases' \in SUBSET Callers
      BY <1>1
    <3>2. QED BY <1>2, <3>1 DEF ReleaseLeases, PoolStep
  <2>2. QED BY <1>1, <1>2, <2>1, ReleaseInv
<1>3. ASSUME NEW p \in Ptys, NEW t \in Openings, Open(p, t), UNCHANGED poolVars
      PROVE  [PtyNext]_ptyVars /\ PoolInv' /\ LeasesCounted' /\ (PoolStep \/ UNCHANGED poolVars)
  BY <1>1, <1>3, PoolUnchanged, LeasesKept DEF PtyNext, Open, poolVars
<1>4. ASSUME NEW t \in Openings, AskLease(t)
      PROVE  [PtyNext]_ptyVars /\ PoolInv' /\ LeasesCounted' /\ (PoolStep \/ UNCHANGED poolVars)
  <2>1. Ask(t, NoEnv) /\ UNCHANGED ptyVars /\ t \in Callers /\ leases' = leases
    BY <1>4 DEF AskLease, ptyVars
  <2>2. PoolInv' /\ \A d \in Callers : call'[d].counted = call[d].counted
    BY <1>1, <2>1, AskInv
  <2>3. QED BY <1>1, <2>1, <2>2, LeasesKept DEF PoolStep
<1>5. ASSUME NEW t \in Openings, Leased(t)
      PROVE  [PtyNext]_ptyVars /\ PoolInv' /\ LeasesCounted' /\ (PoolStep \/ UNCHANGED poolVars)
  <2>1. Launched(t, TRUE) /\ Begin(t) /\ t \in Callers /\ leases' = leases \cup {t}
    BY <1>5 DEF Leased, Launched
  <2>2. PoolInv' /\ \A d \in Callers : call'[d].counted = (d = t \/ call[d].counted)
    BY <1>1, <2>1, BeginInv
  <2>3. LeasesCounted'
    BY <1>1, <2>1, <2>2 DEF LeasesCounted
  <2>4. QED BY <2>1, <2>2, <2>3 DEF PoolStep, PtyNext
<1>6. ASSUME NEW t \in Openings, NothingLeased(t)
      PROVE  [PtyNext]_ptyVars /\ PoolInv' /\ LeasesCounted' /\ (PoolStep \/ UNCHANGED poolVars)
  <2>1. Launched(t, FALSE) /\ t \in Callers /\ leases' = leases
    BY <1>6 DEF NothingLeased, Launched
  <2>2. CASE Take(t)
    BY <1>1, <2>1, <2>2, TakeInv, LeasesKept DEF PoolStep, PtyNext
  <2>3. CASE UNCHANGED poolVars
    BY <1>1, <2>1, <2>3, PoolUnchanged, LeasesKept DEF PtyNext, poolVars
  <2>4. QED BY <1>6, <2>2, <2>3 DEF NothingLeased
<1>7. ASSUME NEW t \in Openings, OpenFails(t) \/ Spawned(t) \/ Exited(t), ReleaseLeases
      PROVE  [PtyNext]_ptyVars /\ PoolInv' /\ LeasesCounted' /\ (PoolStep \/ UNCHANGED poolVars)
  <2>1. leases' \subseteq leases
    BY <1>7 DEF OpenFails, Spawned, Exited
  <2>2. PtyNext
    BY <1>7 DEF PtyNext
  <2>3. QED BY <1>2, <1>7, <2>1, <2>2
<1>8. ASSUME KillSession \/ \E p \in Ptys : Kill(p), ReleaseLeases
      PROVE  [PtyNext]_ptyVars /\ PoolInv' /\ LeasesCounted' /\ (PoolStep \/ UNCHANGED poolVars)
  <2>1. leases' \subseteq leases
    BY <1>8 DEF KillSession, Kill, KillAll
  <2>2. PtyNext
    BY <1>8 DEF PtyNext
  <2>3. QED BY <1>2, <1>8, <2>1, <2>2
<1>9. QED BY <1>3, <1>4, <1>5, <1>6, <1>7, <1>8 DEF TerminalNext

LEMMA ServerStep ==
  ASSUME TerminalsInv, TurnNext \/ ServerNext, UNCHANGED ptyVars
  PROVE  PoolInv' /\ LeasesCounted' /\ PoolStep
<1>1. PoolInv /\ LeasesCounted /\ leases' = leases
  BY DEF TerminalsInv, ptyVars
<1>2. ASSUME NEW u \in Turns, \/ \E env \in TurnEnvs : Ask(u, env)
                              \/ Begin(u) \/ Take(u) \/ Reconnect(u) \/ End({u})
      PROVE  PoolInv' /\ LeasesCounted' /\ PoolStep
  <2>1. u \in Callers /\ u \notin Openings /\ {u} \in SUBSET Callers
    OBVIOUS
  <2>2. PoolInv' /\ \A d \in Callers : d # u => call'[d].counted = call[d].counted
    <3>1. CASE (\E env \in TurnEnvs : Ask(u, env)) \/ Reconnect(u)
      BY <1>1, <2>1, <3>1, AskInv
    <3>2. CASE Begin(u)
      <4>1. PoolInv' /\ \A d \in Callers : call'[d].counted = (d = u \/ call[d].counted)
        BY <1>1, <2>1, <3>2, BeginInv
      <4>2. \A d \in Callers : call[d].counted \in BOOLEAN
        BY <1>1 DEF PoolInv, PoolTypeOK, Call
      <4>3. QED BY <4>1, <4>2
    <3>3. CASE Take(u)
      BY <1>1, <2>1, <3>3, TakeInv
    <3>4. CASE End({u})
      <4>1. PoolInv' /\ \A d \in Callers : call'[d].counted = (d \notin {u} /\ call[d].counted)
        BY <1>1, <2>1, <3>4, EndInv
      <4>2. \A d \in Callers : call[d].counted \in BOOLEAN
        BY <1>1 DEF PoolInv, PoolTypeOK, Call
      <4>3. QED BY <4>1, <4>2
    <3>5. QED BY <1>2, <3>1, <3>2, <3>3, <3>4
  <2>3. LeasesCounted'
    BY <1>1, <2>1, <2>2, LeasesKept
  <2>4. PoolStep
    BY <1>2, <2>1 DEF PoolStep
  <2>5. QED BY <2>2, <2>3, <2>4
<1>3. CASE ServerNext
  <2>1. PoolStep
    BY <1>3 DEF ServerNext, PoolStep
  <2>2. PoolInv' /\ \A d \in Callers : call'[d].counted = call[d].counted
    BY <1>1, <1>3, AskInv, TakeInv, ServerInv DEF ServerNext
  <2>3. QED BY <1>1, <2>1, <2>2, LeasesKept
<1>4. QED BY <1>2, <1>3 DEF TurnNext

LEMMA ShutdownStep ==
  ASSUME TerminalsInv, ShutdownNext
  PROVE  [PtyNext]_ptyVars /\ PoolInv' /\ LeasesCounted' /\ (PoolStep \/ UNCHANGED poolVars)
<1>1. PoolInv /\ LeasesCounted /\ leases \subseteq Openings
  BY DEF TerminalsInv, PtyInv, PtyTypeOK
<1>2. CASE Dispose /\ ReleaseLeases
  <2>1. leases' \subseteq leases /\ PtyNext
    BY <1>2 DEF Dispose, KillAll, PtyNext
  <2>2. PoolInv' /\ LeasesCounted'
    BY <1>1, <1>2, <2>1, ReleaseInv
  <2>3. PoolStep \/ UNCHANGED poolVars
    <3>1. leases \ leases' \in SUBSET Callers
      BY <1>1
    <3>2. QED BY <1>2, <3>1 DEF ReleaseLeases, PoolStep
  <2>4. QED BY <2>1, <2>2, <2>3
<1>3. ASSUME UNCHANGED ptyVars \/ BeginReservation \/ Reopen, DisposePool \/ RenewPool \/ UNCHANGED poolVars
      PROVE  [PtyNext]_ptyVars /\ PoolInv' /\ LeasesCounted' /\ (PoolStep \/ UNCHANGED poolVars)
  <2>1. leases' = leases /\ [PtyNext]_ptyVars
    BY <1>3 DEF ptyVars, BeginReservation, Reopen, PtyNext
  <2>2. PoolInv' /\ \A d \in Callers : call'[d].counted = call[d].counted
    BY <1>1, <1>3, ServerInv, RenewInv, PoolUnchanged DEF poolVars
  <2>3. QED BY <1>1, <1>3, <2>1, <2>2, LeasesKept DEF PoolStep
<1>4. QED BY <1>2, <1>3 DEF ShutdownNext

LEMMA TerminalsStep ==
  ASSUME TerminalsInv, [TerminalsNext]_terminalVars
  PROVE  TerminalsInv' /\ (PoolStep \/ UNCHANGED poolVars)
<1>1. [PtyNext]_ptyVars /\ PoolInv' /\ LeasesCounted' /\ (PoolStep \/ UNCHANGED poolVars)
  <2>1. CASE TerminalNext
    BY <2>1, TerminalStep
  <2>2. CASE (TurnNext \/ ServerNext) /\ UNCHANGED ptyVars
    BY <2>2, ServerStep
  <2>3. CASE ShutdownNext
    BY <2>3, ShutdownStep
  <2>4. CASE UNCHANGED terminalVars
    BY <2>4, PoolUnchanged, LeasesKept DEF terminalVars, ptyVars, poolVars, TerminalsInv
  <2>5. QED BY <2>1, <2>2, <2>3, <2>4 DEF TerminalsNext
<1>2. PtyInv'
  BY <1>1, PtyStepInv DEF TerminalsInv
<1>3. QED BY <1>1, <1>2 DEF TerminalsInv

LEMMA TerminalsInvariant == TerminalsSpec => []TerminalsInv
<1>1. TerminalsInit => TerminalsInv
  <2> SUFFICES ASSUME TerminalsInit PROVE TerminalsInv
    OBVIOUS
  <2>1. PtyInv /\ PoolInv
    BY PtyInvInit, PoolInitInv DEF TerminalsInit
  <2>2. LeasesCounted
    BY Entries DEF TerminalsInit, PtyInit, PoolInit, LeasesCounted
  <2>3. QED BY <2>1, <2>2 DEF TerminalsInv
<1>2. TerminalsInv /\ [TerminalsNext]_terminalVars => TerminalsInv'
  BY TerminalsStep
<1>3. QED BY <1>1, <1>2, PTL DEF TerminalsSpec

-----------------------------------------------------------------------------
(* The theorems *)

\* Both pools keep their types.
THEOREM TerminalTypes == TerminalsSpec => []TerminalsTypeOK
<1>1. TerminalsInv => TerminalsTypeOK
  BY DEF TerminalsInv, PtyInv, PoolInv, TerminalsTypeOK
<1>2. QED BY <1>1, TerminalsInvariant, PTL

\* Every terminal that lives can be found and killed.
THEOREM TerminalsFound == TerminalsSpec => []NoStrayTerminal
<1>1. TerminalsInv => NoStrayTerminal
  BY DEF TerminalsInv, PtyInv
<1>2. QED BY <1>1, TerminalsInvariant, PTL

\* No opening of before a disposal becomes a terminal.
THEOREM DisposalsAreFinal == TerminalsSpec => []NothingOutlivesDisposal
<1>1. TerminalsInv => NothingOutlivesDisposal
  BY DEF TerminalsInv, PtyInv
<1>2. QED BY <1>1, TerminalsInvariant, PTL

\* A kill that found an opening on its way is carried out.
THEOREM KillsAreKept == TerminalsSpec => []KillIsKept
<1>1. TerminalsInv => KillIsKept
  BY DEF TerminalsInv, PtyInv
<1>2. QED BY <1>1, TerminalsInvariant, PTL

\* Every server process that lives is known to somebody who will stop it.
THEOREM ServersKnown == TerminalsSpec => []NoStrayServer
<1>1. TerminalsInv => NoStrayServer
  BY DEF TerminalsInv, PoolInv
<1>2. QED BY <1>1, TerminalsInvariant, PTL

\* The pool's count is the turns and leases that there are.
THEOREM LeasesAdd == TerminalsSpec => []LeasesBalance
<1>1. TerminalsInv => LeasesBalance
  <2> SUFFICES ASSUME TerminalsInv PROVE LeasesBalance
    OBVIOUS
  <2>1. LeasesAreHeld /\ inFlight = Cardinality(Counted)
    BY DEF TerminalsInv, PtyInv, PoolInv, CountsMatch
  <2>2. Counted = {c \in Turns : call[c].counted /\ Present(c)} \cup {t \in leases : Present(t)}
    BY DEF TerminalsInv, PtyInv, PtyTypeOK, LeasesCounted, Counted
  <2>3. QED BY <2>1, <2>2 DEF LeasesBalance
<1>2. QED BY <1>1, TerminalsInvariant, PTL

\* A server somebody works with is replaced only when it is dead or its pool ends.
THEOREM UsedServersStay == TerminalsSpec => UsedServerStays
<1> DEFINE Stays == \A c \in Callers :
                      /\ call[c].counted /\ Present(c) /\ call[c].phase = "none"
                      /\ Up /\ call[c].proc = server.proc
                      /\ server' # server
                      => server.proc \notin alive' \/ poolDisposed' \/ pool' # pool
<1>1. TerminalsInv /\ [TerminalsNext]_terminalVars => Stays
  <2> SUFFICES ASSUME TerminalsInv, [TerminalsNext]_terminalVars, NEW c \in Callers,
                      call[c].counted, Present(c), Up, server' # server
               PROVE  server.proc \notin alive' \/ poolDisposed' \/ pool' # pool
    OBVIOUS
  <2>1. PoolInv /\ PoolStep
    BY TerminalsStep DEF TerminalsInv, poolVars
  <2>2. inFlight > 0
    <3>1. c \in Counted /\ IsFiniteSet(Counted)
      BY FS_Subset DEF Counted
    <3>2. Cardinality(Counted) \in Nat /\ Cardinality(Counted) # 0
      BY <3>1, FS_EmptySet, FS_CardinalityType
    <3>3. QED BY <2>1, <3>2 DEF PoolInv, CountsMatch
  <2>3. starting = NoEntry /\ server.proc \in 1..procs /\ procs \in Nat
    BY <2>1 DEF PoolInv, NoStrayServer, StartsLive, PoolTypeOK
  <2>4. ASSUME NEW d \in Callers, (\E env \in Envs : Ask(d, env)) \/ AskAgain(d) \/ Reconnect(d)
        PROVE  server.proc \notin alive'
    <3>1. PICK env \in Envs, entry \in {server, NoEntry} :
            Ensure(d, env, entry) /\ (inFlight > 0 => entry = server)
      BY <2>1, <2>4, AskInv
    <3>2. entry = server
      BY <2>2, <3>1
    <3>3. ~Serves(server, env) /\ alive' = alive \cup {procs + 1}
      BY <2>3, <3>1, <3>2 DEF Ensure
    <3>4. QED BY <2>2, <2>3, <3>3 DEF Serves, Dead, Up
  <2>5. ASSUME NEW d \in Callers, Refuse(d) \/ Begin(d) \/ Take(d)
        PROVE  FALSE
    BY <2>5 DEF Refuse, Begin, Take
  <2>6. ASSUME NEW cs \in SUBSET Callers, End(cs)
        PROVE  FALSE
    BY <2>6 DEF End
  <2>7. ASSUME NEW b \in BOOLEAN, Started(b) \/ StartFails(b) \/ OutOfDate(b)
        PROVE  FALSE
    <3>1. ~Started(b)
      BY <2>3 DEF Started
    <3>2. ~StartFails(b)
      BY DEF StartFails
    <3>3. ~OutOfDate(b)
      BY <2>2, <2>1 DEF OutOfDate, PoolInv, PoolTypeOK
    <3>4. QED BY <2>7, <3>1, <3>2, <3>3
  <2>8. ASSUME NEW p \in alive, Exits(p)
        PROVE  server.proc \notin alive'
    BY <2>8 DEF Exits
  <2>9. ~StopIdle
    BY <2>2, <2>1 DEF StopIdle, PoolInv, PoolTypeOK
  <2>10. DisposePool \/ RenewPool => poolDisposed' \/ pool' # pool
    BY <2>1 DEF DisposePool, RenewPool, PoolInv, PoolTypeOK
  <2>11. QED BY <2>1, <2>4, <2>5, <2>6, <2>7, <2>8, <2>9, <2>10 DEF PoolStep
<1>2. QED BY <1>1, TerminalsInvariant, PTL DEF TerminalsSpec, UsedServerStays
=============================================================================
