--------------------------- MODULE ShutdownProofs ---------------------------
(***************************************************************************)
(* The safety properties of SessionTurns and of Shutdown, for every set of *)
(* sessions, turns, folders and retries and every number of flows.  One    *)
(* induction over what SessionManager does between two awaits proves those *)
(* of the sessions; their invariant goes on to hold under the coordinator, *)
(* and what is added there says that whatever outlived its flow knows it,  *)
(* and where the drivers of each turn are.                                 *)
(***************************************************************************)
EXTENDS Shutdown, TLAPS

-----------------------------------------------------------------------------
(* The sessions by themselves *)

\* A retry belongs to a session whose driver can retry.
RetriesKnown == \A r \in Retries : retry[r] # NoRetry => retry[r].session \in Opencode

\* Only a start under way remembers a stop, the status it would restore is that
\* of a session without a turn, no resolve begins meanwhile, and only a Claude
\* session awaits a token.
StartsClean ==
    \A s \in Sessions :
        /\ start[s].stop => Pending(s)
        /\ start[s].hand \subseteq {s}
        /\ Pending(s) /\ start[s].was = "working" => s \in start[s].hand \cup waits \cup marked
        /\ Pending(s) => resolving[s] = "none"
        /\ start[s].stage = "launching" => s \in SlowStart

\* A turn is active for the session its driver runs it for.
ActiveRuns == \A t \in Turns : active[t] \in {NoSession, run[t].session}

TurnInv ==
    /\ RetriesKnown /\ StartsClean /\ ActiveRuns
    /\ OneThingAtATime /\ FolderExclusive /\ StatusTellsTurns

SInv == TypeOK /\ TurnInv

USE SessionAssumption, TurnBoundAssumption

-----------------------------------------------------------------------------
LEMMA Constants ==
    /\ NoStart \in Start /\ NoRetry \in Retry /\ NoRun \in Run
    /\ NoRequests \in [Requests -> {"none", "open", "claimed"}]
    /\ NoStart.stage = "none" /\ NoStart.hand = {} /\ NoStart.stop = FALSE /\ NoStart.was = "idle"
    /\ NoRun.session = NoSession
  BY DEF NoStart, Start, NoRetry, Retry, NoRun, Run, NoRequests, Statuses

LEMMA StartTypes ==
    /\ \A b \in Start, w \in Statuses, h \in SUBSET Sessions :
         [b EXCEPT !.stage = "opening", !.was = w, !.hand = h] \in Start
    /\ \A b \in Start, g \in 0..MaxDrivers :
         LET n == [b EXCEPT !.stage = "launching", !.gen = g]
         IN  n \in Start /\ n.stage = "launching" /\ n.was = b.was /\ n.hand = b.hand /\ n.stop = b.stop
    /\ \A b \in Start :
         LET n == [b EXCEPT !.stop = TRUE]
         IN  n \in Start /\ n.stage = b.stage /\ n.was = b.was /\ n.hand = b.hand /\ n.stop = TRUE
  BY DEF Start

LEMMA InitInv == Init => SInv
<1> SUFFICES ASSUME Init PROVE SInv
  OBVIOUS
<1>1. TypeOK
  <2>1. status \in [Sessions -> Statuses]
    BY DEF Init, Statuses
  <2>2. /\ start \in [Sessions -> Start] /\ retry \in [Retries -> Retry]
        /\ request \in [Turns -> [Requests -> {"none", "open", "claimed"}]] /\ run \in [Turns -> Run]
    BY Constants DEF Init
  <2>3. drivers \in 1..MaxDrivers /\ extras \in 0..MaxExtras
    BY DEF Init
  <2>4. waits \subseteq Sessions /\ marked \subseteq Sessions
    BY DEF Init
  <2>5. QED BY <2>1, <2>2, <2>3, <2>4 DEF Init, TypeOK
<1>2. TurnInv
  BY Constants DEF Init, TurnInv, RetriesKnown, StartsClean, ActiveRuns, OneThingAtATime, OneThing, FolderExclusive,
     StatusTellsTurns, TurnsOf, InFlight, Pending
<1>3. QED BY <1>1, <1>2 DEF SInv

LEMMA StartTurnType == ASSUME TypeOK, NEW s \in Sessions, StartTurn(s) PROVE TypeOK'
<1> DEFINE n == [NoStart EXCEPT !.stage = "opening", !.was = status[s], !.hand = marked \cap {s}]
<1>1. start' = [start EXCEPT ![s] = n]
  BY DEF StartTurn
<1>2. n \in Start
  BY Constants, StartTypes DEF TypeOK
<1>3. start' \in [Sessions -> Start]
  BY <1>1, <1>2 DEF TypeOK
<1>4. QED BY <1>3 DEF TypeOK, StartTurn, vars, workVars, turnVars, driverVars, waitVars, Statuses

LEMMA StartTurnInv == ASSUME SInv, NEW s \in Sessions, StartTurn(s) PROVE SInv'
<1> USE DEF SInv, TurnInv
<1>1. TypeOK'
  BY StartTurnType
<1>0. start' = [start EXCEPT ![s] =
                  [NoStart EXCEPT !.stage = "opening", !.was = status[s], !.hand = marked \cap {s}]]
  BY DEF StartTurn
<1>2. /\ status' = [status EXCEPT ![s] = "working"]
      /\ marked' = marked \ {s} /\ waits' = waits
      /\ UNCHANGED <<workVars, turnVars>>
      /\ CanStart(s)
  BY DEF StartTurn
<1>3. /\ start'[s].stage = "opening" /\ start'[s].was = status[s] /\ start'[s].stop = FALSE
      /\ start'[s].hand = marked \cap {s}
  BY <1>0 DEF TypeOK, NoStart
<1>4. \A o \in Sessions \ {s} : start'[o] = start[o] /\ status'[o] = status[o]
  BY <1>0, <1>2 DEF TypeOK
<1>5. status'[s] = "working"
  BY <1>2 DEF TypeOK
<1>6. \A o \in Sessions : TurnsOf(o)' = TurnsOf(o)
  BY <1>2 DEF TurnsOf, turnVars
<1>7. RetriesKnown' /\ ActiveRuns'
  BY <1>2 DEF RetriesKnown, ActiveRuns, workVars, turnVars
<1>8. StartsClean'
  BY <1>2, <1>3, <1>4 DEF StartsClean, Pending, CanStart, StatusTellsTurns, workVars
<1>9. OneThingAtATime'
  BY <1>2, <1>3, <1>4, <1>5, <1>6 DEF OneThingAtATime, OneThing, InFlight, Pending, CanStart, workVars
<1>10. FolderExclusive'
  <2>1. \A o \in Sessions \ {s} : InFlight(o)' = InFlight(o)
    BY <1>4, <1>6 DEF InFlight, Pending
  <2>2. UNCHANGED <<resolving, undoing, switching>>
    BY <1>2 DEF workVars
  <2>3. \A u \in undoing \cup switching : s \notin OnRoot(u)
    BY <1>2 DEF CanStart, UndoOnRoot, SwitchOnRoot, OnRoot, TypeOK
  <2>4. QED BY <2>1, <2>2, <2>3 DEF FolderExclusive, OnRoot
<1>11. StatusTellsTurns'
  BY <1>2, <1>3, <1>4, <1>5, <1>6 DEF StatusTellsTurns, InFlight, Pending
<1>12. QED BY <1>1, <1>7, <1>8, <1>9, <1>10, <1>11

\* What is exclusive stays so when nothing new begins: turns end, starts end,
\* and the sessions still at work say so.
LEMMA NothingBegins ==
  ASSUME OneThingAtATime, FolderExclusive, StatusTellsTurns',
         UNCHANGED <<resolving, restoring, undoing, switching>>, marked \subseteq marked',
         \A o \in Sessions \ Opencode : /\ TurnsOf(o)' \subseteq TurnsOf(o)
                                        /\ Pending(o)' => Pending(o)
  PROVE  OneThingAtATime' /\ FolderExclusive'
<1>1. \A o \in Sessions \ Opencode : InFlight(o)' => InFlight(o)
  BY DEF InFlight
<1>2. ASSUME NEW s \in Sessions \ Opencode PROVE OneThing(s)'
  <2>1. OneThing(s)
    BY DEF OneThingAtATime
  <2>2. InFlight(s)' => status'[s] # "resolved" \/ s \in marked'
    BY DEF StatusTellsTurns
  <2>3. QED BY <1>1, <2>1, <2>2 DEF OneThing
<1>3. FolderExclusive'
  BY <1>1 DEF FolderExclusive, OnRoot
<1>4. QED BY <1>2, <1>3 DEF OneThingAtATime

LEMMA FailStartInv == ASSUME SInv, NEW s \in Sessions, FailStart(s), Pending(s) PROVE SInv'
<1> USE DEF SInv, TurnInv
<1>1. /\ start' = [start EXCEPT ![s] = NoStart]
      /\ UNCHANGED <<workVars, turnVars, driverVars, waits, extras>>
      /\ IF status[s] = "working" /\ TurnsOf(s) = {}
           THEN /\ status' = [status EXCEPT ![s] = start[s].was]
                /\ marked' = marked \cup start[s].hand
           ELSE UNCHANGED <<status, marked>>
  BY DEF FailStart
<1>2. /\ start'[s] = NoStart
      /\ \A o \in Sessions \ {s} : start'[o] = start[o] /\ status'[o] = status[o]
      /\ start[s].was \in Statuses
      /\ start[s].was = "working" => s \in start[s].hand \cup waits \cup marked
      /\ marked \subseteq marked' /\ marked' \subseteq marked \cup {s}
  BY <1>1 DEF TypeOK, Start, StartsClean
<1>3. \A o \in Sessions : TurnsOf(o)' = TurnsOf(o)
  BY <1>1 DEF TurnsOf, turnVars
<1>4. TypeOK'
  <2>1. start' \in [Sessions -> Start] /\ status' \in [Sessions -> Statuses]
    BY <1>1, <1>2, Constants DEF TypeOK
  <2>2. waits' \subseteq Sessions /\ marked' \subseteq Sessions
    BY <1>1, <1>2 DEF TypeOK
  <2>3. QED BY <1>1, <2>1, <2>2 DEF TypeOK, workVars, turnVars, driverVars
<1>5. RetriesKnown' /\ ActiveRuns'
  BY <1>1 DEF RetriesKnown, ActiveRuns, workVars, turnVars
<1>6. StartsClean'
  BY <1>1, <1>2, Constants DEF StartsClean, Pending, workVars
<1>7. StatusTellsTurns'
  <2>1. Pending(s)' = FALSE /\ \A o \in Sessions \ {s} : Pending(o)' = Pending(o)
    BY <1>2, Constants DEF Pending
  <2>2. status'[s] = "working" => TurnsOf(s) # {} \/ s \in waits' \cup marked'
    BY <1>1, <1>2 DEF TypeOK
  <2>3. s \notin Opencode => ~InFlight(s)'
    BY <1>3, <2>1 DEF OneThingAtATime, OneThing, InFlight
  <2>4. waits' = waits
    BY <1>1
  <2>5. QED BY <1>2, <1>3, <2>1, <2>2, <2>3, <2>4 DEF StatusTellsTurns, InFlight
<1>8. OneThingAtATime' /\ FolderExclusive'
  <2>1. \A o \in Sessions \ Opencode : Pending(o)' => Pending(o)
    BY <1>2, Constants DEF Pending
  <2>2. UNCHANGED <<resolving, restoring, undoing, switching>>
    BY <1>1 DEF workVars
  <2>3. QED BY <1>2, <1>3, <1>7, <2>1, <2>2, NothingBegins
<1>9. QED BY <1>4, <1>5, <1>6, <1>7, <1>8

LEMMA RunTypes ==
    \A st \in {"running", "stopping", "gone"}, s \in Sessions, g \in 0..MaxDrivers :
        [state |-> st, session |-> s, gen |-> g] \in Run
  BY DEF Run

LEMMA LaunchInv ==
  ASSUME SInv, NEW s \in Sessions, NEW t \in Turns, NEW gen \in 0..MaxDrivers, Pending(s), Launch(s, t, gen)
  PROVE  SInv'
<1> USE DEF SInv, TurnInv
<1> DEFINE stop == start[s].stop
           state == IF stop /\ gen = drivers THEN "stopping" ELSE "running"
<1>1. /\ run[t] = NoRun
      /\ start' = [start EXCEPT ![s] = NoStart]
      /\ run' = [run EXCEPT ![t] = [state |-> state, session |-> s, gen |-> gen]]
      /\ status' = [status EXCEPT ![s] = IF stop THEN "holding" ELSE "working"]
      /\ waits' = waits \ {s}
      /\ UNCHANGED <<request, workVars, driverVars, marked, extras>>
      /\ stop => Settle({t}, [active EXCEPT ![t] = s]) /\ active' = active
      /\ ~stop => active' = [active EXCEPT ![t] = s] /\ settled' = settled
  BY DEF Launch
<1>2. /\ start'[s] = NoStart
      /\ status'[s] = IF stop THEN "holding" ELSE "working"
      /\ \A o \in Sessions \ {s} : start'[o] = start[o] /\ status'[o] = status[o]
  BY <1>1 DEF TypeOK
<1>3. Pending(s)' = FALSE /\ \A o \in Sessions \ {s} : Pending(o)' = Pending(o)
  BY <1>2, Constants DEF Pending
<1>4. stop => \A o \in Sessions : TurnsOf(o)' = TurnsOf(o)
  BY <1>1 DEF TurnsOf
<1>5. active[t] = NoSession
  BY <1>1, Constants DEF ActiveRuns
<1>6. ~stop => /\ TurnsOf(s)' = TurnsOf(s) \cup {t}
               /\ \A o \in Sessions \ {s} : TurnsOf(o)' = TurnsOf(o)
  BY <1>1, <1>5 DEF TurnsOf, TypeOK
<1>7. TypeOK'
  <2>1. start' \in [Sessions -> Start] /\ status' \in [Sessions -> Statuses]
    BY <1>1, Constants DEF TypeOK, Statuses
  <2>2. run' \in [Turns -> Run]
    BY <1>1, RunTypes DEF TypeOK
  <2>3. active' \in [Turns -> Sessions \cup {NoSession}]
    BY <1>1 DEF TypeOK
  <2>4. settled' \in [Turns -> Sessions \cup {NoSession}]
    BY <1>1 DEF TypeOK, Settle
  <2>5. QED BY <1>1, <2>1, <2>2, <2>3, <2>4 DEF TypeOK, workVars, driverVars, waitVars
<1>8. RetriesKnown'
  BY <1>1 DEF RetriesKnown, workVars
<1>9. ActiveRuns'
  BY <1>1, <1>5 DEF ActiveRuns, TypeOK
<1>10. StartsClean'
  <2>1. /\ resolving' = resolving /\ marked' = marked
        /\ \A o \in Sessions \ {s} : (o \in waits <=> o \in waits')
    BY <1>1 DEF workVars
  <2>2. QED BY <1>2, <1>3, <2>1, Constants DEF StartsClean
<1>11. StatusTellsTurns'
  <2>1. s \notin Opencode => TurnsOf(s) = {}
    BY DEF OneThingAtATime, OneThing
  <2>2. marked' = marked /\ \A o \in Sessions \ {s} : (o \in waits <=> o \in waits')
    BY <1>1
  <2>3. CASE stop
    BY <1>2, <1>3, <1>4, <2>1, <2>2, <2>3 DEF StatusTellsTurns, InFlight
  <2>4. CASE ~stop
    BY <1>2, <1>3, <1>6, <2>2, <2>4 DEF StatusTellsTurns, InFlight
  <2>5. QED BY <2>3, <2>4
<1>12. OneThingAtATime' /\ FolderExclusive'
  <2>1. UNCHANGED <<resolving, restoring, undoing, switching, marked>>
    BY <1>1 DEF workVars
  <2>2. CASE stop \/ s \in Opencode
    BY <1>3, <1>4, <1>6, <1>11, <2>1, <2>2, NothingBegins
  <2>3. CASE ~stop /\ s \notin Opencode
    <3>1. InFlight(s)
      BY DEF InFlight
    <3>2. \A o \in Sessions : InFlight(o)' => InFlight(o)
      BY <1>3, <1>6, <2>3, <3>1 DEF InFlight
    <3>3. OneThing(s)'
      <4>1. OneThing(s)
        BY <2>3 DEF OneThingAtATime
      <4>2. TurnsOf(s)' = {t}
        BY <1>6, <2>3, <4>1 DEF OneThing
      <4>3. QED BY <1>2, <1>3, <2>1, <2>3, <3>1, <4>1, <4>2 DEF OneThing
    <3>4. \A o \in Sessions \ (Opencode \cup {s}) : OneThing(o)'
      BY <1>2, <1>3, <1>6, <2>1, <2>3 DEF OneThingAtATime, OneThing, InFlight
    <3>5. FolderExclusive'
      BY <2>1, <3>2 DEF FolderExclusive, OnRoot
    <3>6. QED BY <3>3, <3>4, <3>5 DEF OneThingAtATime
  <2>4. QED BY <2>2, <2>3
<1>13. QED BY <1>7, <1>8, <1>9, <1>10, <1>11, <1>12

LEMMA OpenedInv == ASSUME SInv, NEW s \in Sessions, Opened(s) PROVE SInv'
<1>1. Pending(s)
  BY DEF Opened, Pending
<1>2. CASE FailStart(s)
  BY <1>1, <1>2, FailStartInv
<1>3. ASSUME s \in SlowStart, start' = [start EXCEPT ![s].stage = "launching", ![s].gen = drivers],
             UNCHANGED <<status, workVars, turnVars, driverVars, waitVars, extras>>
      PROVE  SInv'
  <2> USE DEF SInv, TurnInv
  <2>1. start'[s] = [start[s] EXCEPT !.stage = "launching", !.gen = drivers]
    BY <1>3 DEF TypeOK
  <2>2. /\ start'[s] \in Start /\ start'[s].stage = "launching" /\ start'[s].stop = start[s].stop
        /\ start'[s].was = start[s].was /\ start'[s].hand = start[s].hand
    <3>1. start[s] \in Start /\ drivers \in 0..MaxDrivers
      BY DEF TypeOK
    <3>2. \A b \in Start : LET n == [b EXCEPT !.stage = "launching", !.gen = drivers]
                           IN  n \in Start /\ n.stage = "launching" /\ n.was = b.was /\ n.hand = b.hand /\ n.stop = b.stop
      BY <3>1, StartTypes
    <3>3. QED BY <2>1, <3>1, <3>2
  <2>3. \A o \in Sessions \ {s} : start'[o] = start[o]
    BY <1>3 DEF TypeOK
  <2>4. \A o \in Sessions : Pending(o)' = Pending(o) /\ TurnsOf(o)' = TurnsOf(o)
    BY <1>1, <1>3, <2>2, <2>3 DEF Pending, TurnsOf, turnVars
  <2>5. TypeOK'
    <3>1. start' \in [Sessions -> Start]
      BY <1>3, <2>2, <2>3 DEF TypeOK
    <3>2. QED BY <1>3, <3>1 DEF TypeOK, workVars, turnVars, driverVars, waitVars
  <2>6. RetriesKnown' /\ ActiveRuns'
    BY <1>3 DEF RetriesKnown, ActiveRuns, workVars, turnVars
  <2>7. StartsClean'
    <3>1. UNCHANGED <<resolving, waits, marked>>
      BY <1>3 DEF workVars, waitVars
    <3>2. /\ start[s].hand \subseteq {s}
          /\ Pending(s) => resolving[s] = "none"
          /\ Pending(s) /\ start[s].was = "working" => s \in start[s].hand \cup waits \cup marked
          /\ start[s].stop => Pending(s)
      BY DEF StartsClean
    <3>3. \A o \in Sessions \ {s} :
             /\ start[o].stop => Pending(o)
             /\ start[o].hand \subseteq {o}
             /\ Pending(o) /\ start[o].was = "working" => o \in start[o].hand \cup waits \cup marked
             /\ Pending(o) => resolving[o] = "none"
             /\ start[o].stage = "launching" => o \in SlowStart
      BY DEF StartsClean
    <3>4. \A o \in Sessions : Pending(o)' = Pending(o)
      BY <2>4
    <3>5. /\ start'[s].hand \subseteq {s}
          /\ Pending(s)' => resolving'[s] = "none"
          /\ Pending(s)' /\ start'[s].was = "working" => s \in start'[s].hand \cup waits' \cup marked'
          /\ start'[s].stop => Pending(s)'
          /\ start'[s].stage = "launching" => s \in SlowStart
      BY ONLY <1>3, <2>2, <3>1, <3>2, <3>4
    <3>6. ASSUME NEW o \in Sessions \ {s}
          PROVE  /\ start'[o].stop => Pending(o)'
                 /\ start'[o].hand \subseteq {o}
                 /\ Pending(o)' /\ start'[o].was = "working" => o \in start'[o].hand \cup waits' \cup marked'
                 /\ Pending(o)' => resolving'[o] = "none"
                 /\ start'[o].stage = "launching" => o \in SlowStart
      BY ONLY <2>3, <3>1, <3>3, <3>4, <3>6
    <3>7. QED BY ONLY <3>5, <3>6 DEF StartsClean
  <2>8. StatusTellsTurns'
    BY <1>3, <2>4 DEF StatusTellsTurns, InFlight, waitVars
  <2>9. OneThingAtATime' /\ FolderExclusive'
    BY <1>3, <2>4, <2>8, NothingBegins DEF workVars, waitVars
  <2>10. QED BY <2>5, <2>6, <2>7, <2>8, <2>9
<1>4. ASSUME NEW t \in Turns, Launch(s, t, drivers)
      PROVE  SInv'
  <2>1. drivers \in 0..MaxDrivers
    BY DEF SInv, TypeOK
  <2>2. QED BY <1>1, <1>4, <2>1, LaunchInv
<1>5. QED BY <1>2, <1>3, <1>4 DEF Opened

LEMMA TokenRefreshedInv == ASSUME SInv, NEW s \in Sessions, TokenRefreshed(s) PROVE SInv'
<1>1. Pending(s)
  BY DEF TokenRefreshed, Pending
<1>2. start[s].gen \in 0..MaxDrivers
  BY DEF SInv, TypeOK, Start
<1>3. QED BY <1>1, <1>2, FailStartInv, LaunchInv DEF TokenRefreshed

\* Interrupting turns, whether to stop one session or to shut the server down.
LEMMA InterruptTypes ==
  ASSUME TypeOK, NEW T \in SUBSET Turns, Interrupt(T)
  PROVE  /\ active' \in [Turns -> Sessions \cup {NoSession}]
         /\ settled' \in [Turns -> Sessions \cup {NoSession}]
         /\ request' \in [Turns -> [Requests -> {"none", "open", "claimed"}]]
         /\ run' \in [Turns -> Run]
         /\ status' \in [Sessions -> Statuses]
<1>1. active' \in [Turns -> Sessions \cup {NoSession}]
  BY DEF TypeOK, Interrupt
<1>2. settled' \in [Turns -> Sessions \cup {NoSession}]
  BY DEF TypeOK, Interrupt, Settle
<1>3. request' \in [Turns -> [Requests -> {"none", "open", "claimed"}]]
  BY Constants DEF TypeOK, Interrupt, Unanswered
<1>4. run' \in [Turns -> Run]
  <2>1. \A b \in Run : [b EXCEPT !.state = "stopping"] \in Run
    BY DEF Run
  <2>2. QED BY <2>1 DEF TypeOK, Interrupt
<1>5. status' \in [Sessions -> Statuses]
  BY DEF TypeOK, Interrupt, Statuses
<1>6. QED BY <1>1, <1>2, <1>3, <1>4, <1>5

LEMMA InterruptInv ==
  ASSUME SInv, NEW T \in SUBSET Turns, Interrupt(T),
         UNCHANGED <<start, workVars, waitVars>>,
         \A s \in Sessions : (\E t \in T : active[t] = s) => TurnsOf(s) \subseteq T
  PROVE  TurnInv'
<1> USE DEF SInv, TurnInv
<1>1. /\ active' = [t \in Turns |-> IF t \in T THEN NoSession ELSE active[t]]
      /\ run' = [t \in Turns |-> IF t \in T /\ run[t].state = "running" /\ run[t].gen = drivers
                 THEN [run[t] EXCEPT !.state = "stopping"] ELSE run[t]]
      /\ status' = [s \in Sessions |-> IF \E t \in T : active[t] = s THEN "holding" ELSE status[s]]
  BY DEF Interrupt
<1>2. \A s \in Sessions : TurnsOf(s)' = TurnsOf(s) \ T /\ Pending(s)' = Pending(s)
  BY <1>1 DEF TurnsOf, Pending
<1>3. \A s \in Sessions : (\E t \in T : active[t] = s) => TurnsOf(s)' = {} /\ TurnsOf(s) # {}
  BY <1>2 DEF TurnsOf
<1>4. \A s \in Sessions : ~(\E t \in T : active[t] = s) => TurnsOf(s)' = TurnsOf(s) /\ status'[s] = status[s]
  BY <1>1, <1>2 DEF TurnsOf
<1>5. RetriesKnown'
  BY DEF RetriesKnown, workVars
<1>6. StartsClean'
  BY <1>2 DEF StartsClean, workVars, waitVars
<1>7. ActiveRuns'
  <2>1. \A t \in Turns : run'[t].session = run[t].session
    BY <1>1 DEF TypeOK, Run
  <2>2. QED BY <1>1, <2>1 DEF ActiveRuns
<1>8. StatusTellsTurns'
  <2>1. ASSUME NEW s \in Sessions, \E t \in T : active[t] = s
        PROVE  status'[s] = "holding" /\ (s \notin Opencode => ~InFlight(s)')
    BY <1>1, <1>2, <1>3, <2>1 DEF OneThingAtATime, OneThing, InFlight
  <2>2. QED BY <1>2, <1>4, <2>1 DEF StatusTellsTurns, InFlight, waitVars
<1>9. OneThingAtATime' /\ FolderExclusive'
  BY <1>2, <1>8, NothingBegins DEF workVars, waitVars
<1>10. QED BY <1>5, <1>6, <1>7, <1>8, <1>9

\* Steps that leave turns and starts alone.
LEMMA WorkFrame ==
  ASSUME SInv, UNCHANGED <<start, active, run, retry>>
  PROVE  /\ RetriesKnown' /\ ActiveRuns'
         /\ \A o \in Sessions : /\ Pending(o)' = Pending(o) /\ TurnsOf(o)' = TurnsOf(o)
                                /\ InFlight(o)' = InFlight(o)
<1>1. \A o \in Sessions : Pending(o)' = Pending(o) /\ TurnsOf(o)' = TurnsOf(o)
  BY DEF Pending, TurnsOf
<1>2. \A o \in Sessions : InFlight(o)' = InFlight(o)
  BY <1>1 DEF InFlight
<1>3. RetriesKnown' /\ ActiveRuns'
  BY <1>1 DEF SInv, TurnInv, RetriesKnown, ActiveRuns
<1>4. QED BY <1>1, <1>2, <1>3

\* Steps that write one session's status, and touch neither starts nor what goes
\* on beside turns: the session has no turn in flight, its status was set by
\* hand before this turn was over, or is set so now.
LEMMA StatusInv ==
  ASSUME SInv, NEW s \in Sessions, NEW v \in Statuses,
         UNCHANGED <<start, workVars, turnVars, driverVars>>, extras' \in 0..MaxExtras,
         status' = [status EXCEPT ![s] = v],
         waits' \in {waits, waits \ {s}}, marked' \in {marked, marked \cup {s}},
         s \in Opencode \/ s \in marked' \/ ~InFlight(s),
         v = "working" => s \in marked',
         waits' # waits => s \in marked' \/ ~Pending(s)
  PROVE  SInv'
<1> USE DEF SInv, TurnInv
<1>1. TypeOK'
  BY DEF TypeOK, workVars, turnVars, driverVars
<1>2. /\ RetriesKnown' /\ ActiveRuns'
      /\ \A o \in Sessions : /\ Pending(o)' = Pending(o) /\ TurnsOf(o)' = TurnsOf(o)
                             /\ InFlight(o)' = InFlight(o)
  BY WorkFrame DEF workVars, turnVars
<1>3. /\ \A o \in Sessions \ {s} : /\ status'[o] = status[o]
                                   /\ (o \in waits <=> o \in waits')
                                   /\ (o \in marked <=> o \in marked')
      /\ status'[s] = v /\ marked \subseteq marked'
  BY DEF TypeOK
<1>4. StartsClean'
  BY <1>2, <1>3 DEF StartsClean, workVars
<1>5. StatusTellsTurns'
  BY <1>2, <1>3 DEF StatusTellsTurns
<1>6. OneThingAtATime' /\ FolderExclusive'
  BY <1>2, <1>3, <1>5, NothingBegins DEF workVars
<1>7. QED BY <1>1, <1>2, <1>4, <1>5, <1>6

\* The end of a wait, whatever the session is then shown as
LEMMA WaitOverInv ==
  ASSUME SInv, NEW s \in Sessions, NEW v \in Statuses \ {"working"}, WaitOver(s, v),
         UNCHANGED <<start, workVars, turnVars, driverVars, marked, extras>>
  PROVE  SInv'
<1>1. /\ ~InFlight(s) /\ waits' = waits \ {s}
      /\ status' = IF status[s] = "working" THEN [status EXCEPT ![s] = v] ELSE status
  BY DEF WaitOver
<1>2. /\ status \in [Sessions -> Statuses] /\ extras \in 0..MaxExtras
      /\ ~Pending(s)
  BY <1>1 DEF SInv, TypeOK, InFlight
<1>3. CASE status[s] = "working"
  BY <1>1, <1>2, <1>3, StatusInv
<1>4. CASE status[s] # "working"
  <2>1. status' = [status EXCEPT ![s] = status[s]] /\ status[s] \in Statuses \ {"working"}
    BY <1>1, <1>2, <1>4
  <2>2. QED BY <1>1, <1>2, <2>1, StatusInv
<1>5. QED BY <1>3, <1>4

LEMMA SetInv ==
  ASSUME SInv, NEW s \in Sessions, Ages(s) \/ WaitSettles(s) \/ \E v \in Statuses : SetStatus(s, v)
  PROVE  SInv'
<1>1. extras \in 0..MaxExtras
  BY DEF SInv, TypeOK
<1>2. CASE WaitSettles(s)
  BY <1>2, WaitOverInv DEF WaitSettles, Statuses
<1>3. ASSUME NEW v \in Statuses, SetStatus(s, v)
      PROVE  SInv'
  <2>1. /\ status' = [status EXCEPT ![s] = v]
        /\ waits' \in {waits, waits \ {s}} /\ marked' = marked \cup {s}
        /\ UNCHANGED <<start, workVars, turnVars, driverVars>>
        /\ extras' \in 0..MaxExtras
    BY <1>1, <1>3 DEF SetStatus
  <2>2. QED BY <2>1, StatusInv
<1>4. CASE Ages(s)
  <2>1. PICK v \in {"holding", "idle"} : status' = [status EXCEPT ![s] = v]
    BY <1>4 DEF Ages
  <2>2. /\ UNCHANGED <<start, workVars, turnVars, driverVars, waits, marked, extras>>
        /\ status[s] \in {"done", "holding"}
    BY <1>4 DEF Ages, waitVars
  <2>3. s \in Opencode \/ s \in marked \/ ~InFlight(s)
    BY <2>2 DEF SInv, TurnInv, StatusTellsTurns
  <2>4. v \in Statuses /\ v # "working"
    BY DEF Statuses
  <2>5. QED BY <1>1, <2>1, <2>2, <2>3, <2>4, StatusInv
<1>5. QED BY <1>2, <1>3, <1>4

LEMMA StopInv == ASSUME SInv, NEW s \in Sessions, Stop(s) PROVE SInv'
<1>1. CASE Interrupt(TurnsOf(s)) /\ UNCHANGED <<start, waits>>
  <2>1. TurnsOf(s) \in SUBSET Turns
    BY DEF TurnsOf
  <2>2. UNCHANGED <<start, workVars, driverVars, waitVars, extras>>
    BY <1>1 DEF Stop, waitVars
  <2>3. \A o \in Sessions : (\E t \in TurnsOf(s) : active[t] = o) => TurnsOf(o) \subseteq TurnsOf(s)
    BY DEF TurnsOf
  <2>4. TurnInv'
    BY <1>1, <2>1, <2>2, <2>3, InterruptInv
  <2>5. TypeOK'
    BY <1>1, <2>1, <2>2, InterruptTypes DEF SInv, TypeOK, workVars, driverVars, waitVars
  <2>6. QED BY <2>4, <2>5 DEF SInv
<1>2. ASSUME Pending(s), start' = [start EXCEPT ![s].stop = TRUE],
             UNCHANGED <<status, turnVars, waits>>
      PROVE  SInv'
  <2> USE DEF SInv, TurnInv
  <2>1. UNCHANGED <<workVars, driverVars, waitVars, extras>>
    BY <1>2 DEF Stop, waitVars
  <2>2. /\ start'[s] \in Start /\ start'[s].stage = start[s].stage
        /\ start'[s].was = start[s].was /\ start'[s].hand = start[s].hand
    <3>1. start[s] \in Start /\ start'[s] = [start[s] EXCEPT !.stop = TRUE]
      BY <1>2 DEF TypeOK
    <3>2. QED BY <3>1, StartTypes
  <2>3. \A o \in Sessions \ {s} : start'[o] = start[o]
    BY <1>2 DEF TypeOK
  <2>4. \A o \in Sessions : Pending(o)' = Pending(o) /\ TurnsOf(o)' = TurnsOf(o)
    BY <1>2, <2>2, <2>3 DEF Pending, TurnsOf, turnVars
  <2>5. TypeOK'
    <3>1. start' \in [Sessions -> Start]
      BY <1>2, <2>2, <2>3 DEF TypeOK
    <3>2. QED BY <1>2, <2>1, <3>1 DEF TypeOK, workVars, turnVars, driverVars, waitVars
  <2>6. RetriesKnown' /\ ActiveRuns'
    BY <1>2, <2>1 DEF RetriesKnown, ActiveRuns, workVars, turnVars
  <2>7. StartsClean'
    BY <1>2, <2>1, <2>2, <2>3, <2>4 DEF StartsClean, workVars, waitVars
  <2>8. StatusTellsTurns'
    BY <1>2, <2>1, <2>4 DEF StatusTellsTurns, InFlight, waitVars
  <2>9. OneThingAtATime' /\ FolderExclusive'
    BY <2>1, <2>4, <2>8, NothingBegins DEF workVars, waitVars
  <2>10. QED BY <2>5, <2>6, <2>7, <2>8, <2>9
<1>3. CASE WaitOver(s, "holding") /\ UNCHANGED <<start, turnVars>>
  BY <1>3, WaitOverInv DEF Stop, Statuses
<1>4. QED BY <1>1, <1>2, <1>3 DEF Stop

\* Retries: what they may start belongs to a session that can retry.
LEMMA RetryStepInv ==
  ASSUME SInv, NEW r \in Retries,
         (\E s \in Sessions : RetryConnection(r, s)) \/ RetryOpened(r)
  PROVE  SInv'
<1> USE DEF SInv, TurnInv
<1>1. UNCHANGED <<status, start, resolving, restoring, marking, undoing, switching, turnVars, driverVars, waitVars>>
  BY DEF RetryConnection, RetryOpened
<1>0. extras' \in 0..MaxExtras
  BY DEF TypeOK, RetryConnection, RetryOpened
<1>2. PICK n \in Retry : /\ retry' = [retry EXCEPT ![r] = n]
                         /\ n = NoRetry \/ n.session \in Opencode
  <2>1. ASSUME NEW s \in Sessions, RetryConnection(r, s)
        PROVE  \E n \in Retry : retry' = [retry EXCEPT ![r] = n] /\ n.session \in Opencode
    <3>1. [stage |-> "opening", session |-> s, gen |-> drivers] \in Retry
      BY DEF TypeOK, Retry
    <3>2. [stage |-> "opening", session |-> s, gen |-> drivers].session \in Opencode
      BY <2>1 DEF RetryConnection
    <3>3. QED BY <2>1, <3>1, <3>2 DEF RetryConnection
  <2>2. CASE RetryOpened(r) /\ retry' = [retry EXCEPT ![r] = NoRetry]
    BY <2>2, Constants
  <2>3. CASE RetryOpened(r) /\ retry' = [retry EXCEPT ![r].stage = "attaching"]
    <3>1. retry[r] \in Retry /\ retry' = [retry EXCEPT ![r] = [retry[r] EXCEPT !.stage = "attaching"]]
      BY <2>3 DEF TypeOK
    <3>2. [retry[r] EXCEPT !.stage = "attaching"] \in Retry
      BY <3>1 DEF Retry
    <3>3. [retry[r] EXCEPT !.stage = "attaching"].session = retry[r].session
      BY <3>1 DEF Retry
    <3>4. retry[r].session \in Opencode
      BY <2>3, Constants DEF RetryOpened, RetriesKnown, NoRetry
    <3>5. QED BY <3>1, <3>2, <3>3, <3>4
  <2>4. QED BY <2>1, <2>2, <2>3 DEF RetryOpened
<1>3. TypeOK'
  BY <1>0, <1>1, <1>2 DEF TypeOK, turnVars, driverVars, waitVars
<1>4. RetriesKnown'
  BY <1>2 DEF RetriesKnown, TypeOK
<1>5. \A o \in Sessions : Pending(o)' = Pending(o) /\ TurnsOf(o)' = TurnsOf(o)
  BY <1>1 DEF Pending, TurnsOf, turnVars
<1>6. StartsClean' /\ ActiveRuns' /\ StatusTellsTurns'
  BY <1>1, <1>5 DEF StartsClean, ActiveRuns, StatusTellsTurns, InFlight, turnVars, waitVars
<1>7. OneThingAtATime' /\ FolderExclusive'
  BY <1>1, <1>5, <1>6, NothingBegins DEF waitVars
<1>8. QED BY <1>3, <1>4, <1>6, <1>7

LEMMA RetryAttachedInv == ASSUME SInv, NEW r \in Retries, RetryAttached(r) PROVE SInv'
<1> USE DEF SInv, TurnInv
<1>0. PICK s : s = retry[r].session
  OBVIOUS
<1>1. /\ retry[r].stage = "attaching"
      /\ retry' = [retry EXCEPT ![r] = NoRetry]
      /\ UNCHANGED <<start, resolving, restoring, marking, undoing, switching, settled, request, driverVars, waitVars, extras>>
  BY DEF RetryAttached
<1>2. s \in Opencode /\ s \in Sessions /\ retry[r].gen \in 0..MaxDrivers
  <2>1. retry[r] # NoRetry
    BY <1>1, Constants DEF NoRetry
  <2>2. retry[r] \in Retry
    BY DEF TypeOK
  <2>3. QED BY <1>0, <2>1, <2>2 DEF RetriesKnown, Retry
<1>3. /\ retry' \in [Retries -> Retry]
      /\ RetriesKnown'
  BY <1>1, Constants DEF TypeOK, RetriesKnown
<1>4. \A o \in Sessions : Pending(o)' = Pending(o)
  BY <1>1 DEF Pending
<1>5. StartsClean'
  BY <1>1, <1>4 DEF StartsClean, waitVars
<1>6. \A o \in Sessions \ {s} : TurnsOf(o)' \subseteq TurnsOf(o)
  BY <1>0, <1>2 DEF RetryAttached, TurnsOf, TypeOK
<1>7. /\ status' \in [Sessions -> Statuses]
      /\ active' \in [Turns -> Sessions \cup {NoSession}]
      /\ run' \in [Turns -> Run]
      /\ ActiveRuns'
      /\ StatusTellsTurns'
  <2>1. CASE \E t \in Turns :
               /\ run[t] = NoRun
               /\ run' = [run EXCEPT ![t] = [state |-> "running", session |-> s, gen |-> retry[r].gen]]
               /\ active' = [active EXCEPT ![t] = s]
               /\ status' = [status EXCEPT ![s] = "working"]
    <3>1. PICK t \in Turns :
               /\ run[t] = NoRun
               /\ run' = [run EXCEPT ![t] = [state |-> "running", session |-> s, gen |-> retry[r].gen]]
               /\ active' = [active EXCEPT ![t] = s]
               /\ status' = [status EXCEPT ![s] = "working"]
      BY <2>1
    <3>2. status' \in [Sessions -> Statuses]
      BY <3>1 DEF TypeOK, Statuses
    <3>3. active' \in [Turns -> Sessions \cup {NoSession}]
      BY <1>2, <3>1 DEF TypeOK
    <3>4. run' \in [Turns -> Run]
      BY <1>2, <3>1, RunTypes DEF TypeOK
    <3>5. run'[t].session = s /\ active'[t] = s /\ \A u \in Turns \ {t} : run'[u] = run[u] /\ active'[u] = active[u]
      BY <3>1 DEF TypeOK
    <3>6. ActiveRuns'
      BY <3>5 DEF ActiveRuns
    <3>7. t \in TurnsOf(s)' /\ \A o \in Sessions \ {s} : TurnsOf(o)' = TurnsOf(o)
      BY <1>2, <3>1, <3>5, Constants DEF TurnsOf, ActiveRuns
    <3>8. StatusTellsTurns'
      BY <1>1, <1>2, <1>4, <3>1, <3>7 DEF StatusTellsTurns, InFlight, TypeOK, waitVars
    <3>9. QED BY <3>2, <3>3, <3>4, <3>6, <3>8
  <2>2. CASE status' = [status EXCEPT ![s] = "idle"] /\ UNCHANGED <<active, run>>
    BY <1>1, <1>2, <1>4, <2>2 DEF StatusTellsTurns, InFlight, TypeOK, Statuses, TurnsOf, ActiveRuns, waitVars
  <2>3. CASE UNCHANGED <<status, active, run>>
    BY <1>1, <1>4, <2>3 DEF StatusTellsTurns, InFlight, TypeOK, TurnsOf, ActiveRuns, waitVars
  <2>4. QED BY <1>0, <2>1, <2>2, <2>3 DEF RetryAttached
<1>8. TypeOK'
  BY <1>1, <1>3, <1>7 DEF TypeOK, driverVars, waitVars
<1>9. OneThingAtATime' /\ FolderExclusive'
  BY <1>1, <1>2, <1>4, <1>6, <1>7, NothingBegins DEF waitVars
<1>10. QED BY <1>3, <1>5, <1>7, <1>8, <1>9

-----------------------------------------------------------------------------
(* Driver events *)

\* Events of a turn end turns and say so; none begins one.
LEMMA EventInv ==
  ASSUME SInv, UNCHANGED <<start, workVars, marked>>, waits \subseteq waits',
         \A t \in Turns : /\ active'[t] \in {active[t], NoSession}
                          /\ run'[t].session = run[t].session,
         StatusTellsTurns'
  PROVE  TurnInv'
<1> USE DEF SInv, TurnInv
<1>1. \A o \in Sessions : Pending(o)' = Pending(o) /\ TurnsOf(o)' \subseteq TurnsOf(o)
  BY DEF Pending, TurnsOf
<1>2. RetriesKnown' /\ StartsClean'
  BY <1>1 DEF RetriesKnown, StartsClean, workVars
<1>3. ActiveRuns'
  BY DEF ActiveRuns
<1>4. OneThingAtATime' /\ FolderExclusive'
  BY <1>1, NothingBegins DEF workVars
<1>5. QED BY <1>2, <1>3, <1>4

LEMMA TurnEndsInv == ASSUME SInv, NEW t \in Turns, TurnEnds(t) PROVE SInv'
<1> USE DEF SInv, TurnInv
<1>0. PICK s : s = run[t].session
  OBVIOUS
<1>1. /\ run' = [run EXCEPT ![t].state = "gone"]
      /\ UNCHANGED <<start, workVars, driverVars, marked, extras>>
  BY DEF TurnEnds, Over
<1>2. /\ run' \in [Turns -> Run]
      /\ \A u \in Turns : run'[u].session = run[u].session
  <2>1. \A b \in Run : /\ [b EXCEPT !.state = "gone"] \in Run
                        /\ [b EXCEPT !.state = "gone"].session = b.session
    BY DEF Run
  <2>2. run' = [run EXCEPT ![t] = [run[t] EXCEPT !.state = "gone"]] /\ run[t] \in Run
    BY <1>1 DEF TypeOK
  <2>3. QED BY <2>1, <2>2 DEF TypeOK
<1>3. s \in Sessions \cup {NoSession}
  BY <1>0 DEF TypeOK, Run
<1>4. \A o \in Sessions : Pending(o)' = Pending(o)
  BY <1>1 DEF Pending
<1>5. /\ status' \in [Sessions -> Statuses]
      /\ active' \in [Turns -> Sessions \cup {NoSession}]
      /\ settled' \in [Turns -> Sessions \cup {NoSession}]
      /\ request' \in [Turns -> [Requests -> {"none", "open", "claimed"}]]
      /\ \A u \in Turns : active'[u] \in {active[u], NoSession}
      /\ waits \subseteq waits' /\ waits' \subseteq Sessions
      /\ StatusTellsTurns'
  <2>1. CASE Done(t)
    <3>1. /\ active' = [active EXCEPT ![t] = NoSession]
          /\ Settle({t}, [u \in Turns |-> s])
          /\ Unanswered({t})
          /\ \/ /\ active[t] # NoSession /\ TurnsOf(s) \ {t} = {}
                /\ \E v \in {"done", "working"} :
                      /\ status' = [status EXCEPT ![s] = v]
                      /\ v = "working" => s \in waits'
                /\ waits' \in {waits, waits \cup {s}}
             \/ /\ active[t] = NoSession \/ TurnsOf(s) \ {t} # {}
                /\ UNCHANGED <<status, waits>>
      <4>1. /\ active' = [active EXCEPT ![t] = NoSession]
            /\ Settle({t}, [u \in Turns |-> s])
            /\ Unanswered({t})
        BY <1>0, <2>1 DEF Done
      <4>2. CASE /\ active[t] # NoSession /\ TurnsOf(s) \ {t} = {}
                 /\ status' = [status EXCEPT ![s] = "done"] /\ UNCHANGED waits
        BY <4>1, <4>2
      <4>3. CASE /\ active[t] # NoSession /\ TurnsOf(s) \ {t} = {}
                 /\ status' = [status EXCEPT ![s] = "working"] /\ waits' = waits \cup {s}
        BY <4>1, <4>3
      <4>4. QED BY <1>0, <2>1, <4>1, <4>2, <4>3 DEF Done
    <3>2. /\ status' \in [Sessions -> Statuses]
          /\ waits \subseteq waits' /\ waits' \subseteq Sessions
      <4>1. active[t] # NoSession => s \in Sessions
        BY <1>0 DEF ActiveRuns, TypeOK
      <4>2. QED BY <3>1, <4>1 DEF TypeOK, Statuses
    <3>3. active' \in [Turns -> Sessions \cup {NoSession}] /\ \A u \in Turns : active'[u] \in {active[u], NoSession}
      BY <3>1 DEF TypeOK
    <3>4. settled' \in [Turns -> Sessions \cup {NoSession}]
      BY <1>3, <3>1 DEF TypeOK, Settle
    <3>5. request' \in [Turns -> [Requests -> {"none", "open", "claimed"}]]
      BY <3>1, Constants DEF TypeOK, Unanswered
    <3>6. StatusTellsTurns'
      <4>1. CASE active[t] = NoSession
        <5>1. active' = active /\ status' = status /\ waits' = waits
          BY <3>1, <4>1 DEF TypeOK
        <5>2. QED BY <1>1, <1>4, <5>1 DEF StatusTellsTurns, InFlight, TurnsOf
      <4>2. CASE active[t] # NoSession
        <5>1. active[t] = s /\ s \in Sessions /\ t \in TurnsOf(s)
          BY <1>0, <4>2 DEF ActiveRuns, TypeOK, TurnsOf
        <5>2. TurnsOf(s)' = TurnsOf(s) \ {t} /\ \A o \in Sessions \ {s} : TurnsOf(o)' = TurnsOf(o)
          BY <3>1, <5>1 DEF TurnsOf, TypeOK
        <5>3. s \notin Opencode => ~Pending(s) /\ TurnsOf(s) \ {t} = {}
          BY <5>1 DEF OneThingAtATime, OneThing
        <5>4. CASE TurnsOf(s) \ {t} # {}
          BY <1>1, <1>4, <3>1, <4>2, <5>1, <5>2, <5>3, <5>4 DEF StatusTellsTurns, InFlight
        <5>5. CASE TurnsOf(s) \ {t} = {}
          <6>1. PICK v \in {"done", "working"} :
                  status' = [status EXCEPT ![s] = v] /\ (v = "working" => s \in waits')
            BY <3>1, <4>2, <5>5
          <6>2. status'[s] = v /\ \A o \in Sessions \ {s} : status'[o] = status[o]
            BY <5>1, <6>1 DEF TypeOK
          <6>3. QED BY <1>1, <1>4, <3>2, <5>1, <5>2, <5>3, <5>5, <6>1, <6>2 DEF StatusTellsTurns, InFlight
        <5>6. QED BY <5>4, <5>5
      <4>3. QED BY <4>1, <4>2
    <3>7. QED BY <3>2, <3>3, <3>4, <3>5, <3>6
  <2>2. CASE Errored(t)
    <3>1. /\ active' = [active EXCEPT ![t] = NoSession]
          /\ waits' = waits
          /\ IF Owner(t) # NoSession THEN Settle({t}, [u \in Turns |-> Owner(t)]) ELSE UNCHANGED settled
          /\ Unanswered({t})
          /\ status' = IF active[t] # NoSession THEN [status EXCEPT ![active[t]] = "holding"] ELSE status
      BY <2>2 DEF Errored
    <3>2. status' \in [Sessions -> Statuses]
      BY <3>1 DEF TypeOK, Statuses
    <3>3. active' \in [Turns -> Sessions \cup {NoSession}] /\ \A u \in Turns : active'[u] \in {active[u], NoSession}
      BY <3>1 DEF TypeOK
    <3>4. settled' \in [Turns -> Sessions \cup {NoSession}]
      <4>1. Owner(t) \in Sessions \cup {NoSession}
        BY DEF Owner, TypeOK
      <4>2. QED BY <3>1, <4>1 DEF TypeOK, Settle
    <3>5. request' \in [Turns -> [Requests -> {"none", "open", "claimed"}]]
      BY <3>1, Constants DEF TypeOK, Unanswered
    <3>6. StatusTellsTurns'
      <4>1. CASE active[t] = NoSession
        <5>1. active' = active /\ status' = status /\ waits' = waits
          BY <3>1, <4>1 DEF TypeOK
        <5>2. QED BY <1>1, <1>4, <5>1 DEF StatusTellsTurns, InFlight, TurnsOf
      <4>2. CASE active[t] # NoSession
        <5>0. PICK o : o = active[t]
          OBVIOUS
        <5>1. o \in Sessions /\ t \in TurnsOf(o)
          BY <4>2, <5>0 DEF TypeOK, TurnsOf
        <5>2. TurnsOf(o)' = TurnsOf(o) \ {t} /\ \A p \in Sessions \ {o} : TurnsOf(p)' = TurnsOf(p)
          BY <3>1, <5>0, <5>1 DEF TurnsOf, TypeOK
        <5>3. o \notin Opencode => ~Pending(o) /\ TurnsOf(o) \ {t} = {}
          BY <5>1 DEF OneThingAtATime, OneThing
        <5>4. status'[o] = "holding" /\ \A p \in Sessions \ {o} : status'[p] = status[p]
          BY <3>1, <4>2, <5>0, <5>1 DEF TypeOK
        <5>5. QED BY <1>1, <1>4, <3>1, <5>2, <5>3, <5>4 DEF StatusTellsTurns, InFlight
      <4>3. QED BY <4>1, <4>2
    <3>7. waits \subseteq waits' /\ waits' \subseteq Sessions
      BY <3>1 DEF TypeOK
    <3>8. QED BY <3>2, <3>3, <3>4, <3>5, <3>6, <3>7
  <2>3. CASE UNCHANGED <<status, active, settled, request, waits>>
    BY <1>1, <1>4, <2>3 DEF TypeOK, StatusTellsTurns, InFlight, TurnsOf
  <2>4. QED BY <2>1, <2>2, <2>3 DEF TurnEnds
<1>6. TypeOK'
  BY <1>1, <1>2, <1>5 DEF TypeOK, workVars, driverVars
<1>7. TurnInv'
  BY <1>1, <1>2, <1>5, EventInv
<1>8. QED BY <1>6, <1>7

LEMMA RequestInv ==
  ASSUME SInv, NEW t \in Turns, NEW q \in Requests,
         Ask(t, q) \/ AskSettled(t, q) \/ Claim(t, q) \/ ReleaseClaim(t, q)
  PROVE  SInv'
<1> USE DEF SInv, TurnInv
<1>1. /\ UNCHANGED <<start, workVars, active, settled, run, driverVars, waitVars>>
      /\ \E v \in {"none", "open", "claimed"} : request' = [request EXCEPT ![t][q] = v]
      /\ extras' \in 0..MaxExtras
  BY DEF Ask, AskSettled, Claim, ReleaseClaim, TypeOK
<1>2. request' \in [Turns -> [Requests -> {"none", "open", "claimed"}]]
  BY <1>1 DEF TypeOK
<1>3. \A o \in Sessions : Pending(o)' = Pending(o) /\ TurnsOf(o)' = TurnsOf(o)
  BY <1>1 DEF Pending, TurnsOf
<1>4. status' \in [Sessions -> Statuses] /\ StatusTellsTurns'
  <2>1. CASE Ask(t, q)
    <3>1. Owner(t) \in Sessions /\ status' = [status EXCEPT ![Owner(t)] = "input-required"]
      BY <2>1 DEF Ask, Owner, TypeOK
    <3>2. QED BY <1>1, <1>3, <3>1 DEF TypeOK, Statuses, StatusTellsTurns, InFlight, waitVars
  <2>2. CASE AskSettled(t, q) /\ active[t] # NoSession
    <3>1. active[t] \in Sessions /\ TurnsOf(active[t]) # {}
      BY <2>2 DEF TypeOK, TurnsOf
    <3>2. \E v \in {"input-required", "working"} : status' = [status EXCEPT ![active[t]] = v]
      BY <2>2 DEF AskSettled
    <3>3. QED BY <1>1, <1>3, <3>1, <3>2 DEF TypeOK, Statuses, StatusTellsTurns, InFlight, waitVars
  <2>3. CASE UNCHANGED status
    BY <1>1, <1>3, <2>3 DEF TypeOK, StatusTellsTurns, InFlight, waitVars
  <2>4. QED BY <2>1, <2>2, <2>3 DEF AskSettled, Claim, ReleaseClaim
<1>5. TypeOK'
  BY <1>1, <1>2, <1>4 DEF TypeOK, workVars, driverVars, waitVars
<1>6. TurnInv'
  BY <1>1, <1>4, EventInv DEF waitVars
<1>7. QED BY <1>5, <1>6

LEMMA TurnGoesOnInv == ASSUME SInv, NEW t \in Turns, TurnGoesOn(t) PROVE SInv'
<1> USE DEF SInv, TurnInv
<1>1. /\ UNCHANGED <<start, workVars, turnVars, driverVars, waitVars, extras>>
      /\ active[t] \in Sessions
      /\ status' = [status EXCEPT ![active[t]] = "working"]
  BY DEF TurnGoesOn, TypeOK
<1>2. \A o \in Sessions : Pending(o)' = Pending(o) /\ TurnsOf(o)' = TurnsOf(o)
  BY <1>1 DEF Pending, TurnsOf, turnVars
<1>3. status' \in [Sessions -> Statuses] /\ StatusTellsTurns'
  <2>1. TurnsOf(active[t]) # {}
    BY <1>1 DEF TurnsOf
  <2>2. QED BY <1>1, <1>2, <2>1 DEF TypeOK, Statuses, StatusTellsTurns, InFlight, waitVars
<1>4. TypeOK'
  BY <1>1, <1>3 DEF TypeOK, workVars, turnVars, driverVars, waitVars
<1>5. TurnInv'
  BY <1>1, <1>3, EventInv DEF turnVars, waitVars
<1>6. QED BY <1>4, <1>5

-----------------------------------------------------------------------------
(* What else happens to a session or its folder *)

LEMMA ResolveInv ==
  ASSUME SInv, NEW s \in Sessions, Resolve(s) \/ ResolveDecides(s) \/ ResolveEnds(s)
  PROVE  SInv'
<1> USE DEF SInv, TurnInv
<1>1. /\ UNCHANGED <<start, retry, restoring, marking, undoing, switching, active, settled, run, driverVars, marked, extras>>
      /\ waits' = waits \/ (waits' = waits \ {s} /\ resolving[s] # "none")
      /\ resolving'[s] # "none" => ~Pending(s) \/ resolving[s] # "none"
      /\ \E v \in {"none", "waiting", "stopping"} : resolving' = [resolving EXCEPT ![s] = v]
      /\ status' = status \/ status' = [status EXCEPT ![s] = "resolved"]
      /\ request' = request \/ Unanswered({t \in Turns : run[t].session = s})
  <2>1. CASE Resolve(s)
    BY <2>1 DEF Resolve, turnVars, waitVars, InFlight
  <2>2. CASE ResolveDecides(s)
    BY <2>2 DEF ResolveDecides, TypeOK
  <2>3. CASE ResolveEnds(s)
    BY <2>3 DEF ResolveEnds, turnVars, waitVars, TypeOK
  <2>4. QED BY <2>1, <2>2, <2>3
<1>2. s \notin Opencode => /\ ~InFlight(s) /\ s \notin restoring
                           /\ status' # status => resolving[s] # "none"
  BY DEF Resolve, ResolveDecides, ResolveEnds, OneThingAtATime, OneThing
<1>3. TypeOK'
  <2>1. request' \in [Turns -> [Requests -> {"none", "open", "claimed"}]]
    BY <1>1, Constants DEF TypeOK, Unanswered
  <2>2. QED BY <1>1, <2>1 DEF TypeOK, Statuses, driverVars
<1>4. /\ RetriesKnown' /\ ActiveRuns'
      /\ \A o \in Sessions : /\ Pending(o)' = Pending(o) /\ TurnsOf(o)' = TurnsOf(o)
                             /\ InFlight(o)' = InFlight(o)
  BY <1>1, WorkFrame
<1>5. \A o \in Sessions \ {s} : /\ status'[o] = status[o] /\ resolving'[o] = resolving[o]
                               /\ (o \in waits <=> o \in waits')
  BY <1>1 DEF TypeOK
<1>0. StartsClean'
  BY <1>1, <1>4, <1>5 DEF StartsClean
<1>6. status'[s] \in {status[s], "resolved"} /\ (waits' # waits => status'[s] = "resolved")
  BY <1>1 DEF TypeOK, ResolveDecides, Resolve, ResolveEnds, waitVars
<1>7. StatusTellsTurns'
  <2>1. marked' = marked
    BY <1>1
  <2>2. s \notin Opencode => ~InFlight(s)'
    BY <1>2, <1>4
  <2>3. status'[s] = "working" => InFlight(s)' \/ s \in waits' \cup marked'
    BY <1>4, <1>6, <2>1 DEF StatusTellsTurns
  <2>4. ASSUME NEW o \in Sessions, o # s
        PROVE  /\ status'[o] = "working" => InFlight(o)' \/ o \in waits' \cup marked'
               /\ o \notin Opencode /\ InFlight(o)' => status'[o] \in {"working", "input-required"} \/ o \in marked'
    BY <1>4, <1>5, <2>1, <2>4 DEF StatusTellsTurns
  <2>5. QED BY <2>2, <2>3, <2>4 DEF StatusTellsTurns
<1>8. OneThingAtATime'
  <2>1. UNCHANGED <<marked, restoring>>
    BY <1>1
  <2>2. ASSUME NEW o \in Sessions \ Opencode, o # s
        PROVE  OneThing(o)'
    <3>1. OneThing(o)
      BY DEF OneThingAtATime
    <3>2. /\ Pending(o)' = Pending(o) /\ TurnsOf(o)' = TurnsOf(o) /\ InFlight(o)' = InFlight(o)
          /\ status'[o] = status[o] /\ resolving'[o] = resolving[o]
      BY <1>4, <1>5, <2>2
    <3>3. QED BY ONLY <2>1, <3>1, <3>2 DEF OneThing
  <2>3. s \notin Opencode => OneThing(s)'
    BY <1>2, <1>4, <2>1 DEF OneThingAtATime, OneThing
  <2>4. QED BY <2>2, <2>3 DEF OneThingAtATime
<1>9. FolderExclusive'
  <2>1. resolving[s] # "none" \/ ~UndoOnRoot(s)
    BY DEF Resolve, ResolveDecides, ResolveEnds
  <2>2. \A u \in undoing : s \in OnRoot(u) => u \in OnRoot(s)
    BY DEF OnRoot, TypeOK
  <2>3. \A u \in undoing : s \notin OnRoot(u)
    BY <2>1, <2>2 DEF UndoOnRoot, FolderExclusive
  <2>4. \A u \in undoing : \A o \in OnRoot(u) : o # s /\ o \in Sessions
    BY <2>3 DEF OnRoot
  <2>5. QED BY <1>1, <1>4, <1>5, <2>4 DEF FolderExclusive, OnRoot
<1>10. QED BY <1>0, <1>3, <1>4, <1>7, <1>8, <1>9

LEMMA RestoreInv ==
  ASSUME SInv, NEW s \in Sessions, Restore(s) \/ RestoreEnds(s)
  PROVE  SInv'
<1> USE DEF SInv, TurnInv
<1>1. /\ UNCHANGED <<start, retry, resolving, marking, undoing, switching, turnVars, driverVars, waitVars, extras>>
      /\ restoring' \in {restoring \cup {s}, restoring \ {s}}
      /\ \/ status' = status
         \/ status' = [status EXCEPT ![s] = "idle"] /\ status[s] = "resolved"
      /\ s \in restoring' => status' = status /\ status[s] = "resolved" /\ resolving[s] = "none"
  BY DEF Restore, RestoreEnds
<1>2. s \notin Opencode /\ (status' # status \/ s \in restoring') => ~InFlight(s) \/ s \in marked
  BY <1>1 DEF OneThingAtATime, OneThing
<1>3. TypeOK'
  BY <1>1 DEF TypeOK, Statuses, turnVars, driverVars, waitVars
<1>4. /\ RetriesKnown' /\ ActiveRuns'
      /\ \A o \in Sessions : /\ Pending(o)' = Pending(o) /\ TurnsOf(o)' = TurnsOf(o)
                             /\ InFlight(o)' = InFlight(o)
  BY <1>1, WorkFrame DEF turnVars
<1>5. \A o \in Sessions \ {s} : status'[o] = status[o]
  BY <1>1 DEF TypeOK
<1>6. status'[s] \in {status[s], "idle"} /\ (status'[s] # status[s] => status' # status)
  BY <1>1 DEF TypeOK
<1>0. UNCHANGED <<waits, marked>>
  BY <1>1 DEF waitVars
<1>7. StatusTellsTurns'
  BY <1>0, <1>2, <1>4, <1>5, <1>6 DEF StatusTellsTurns
<1>8. OneThingAtATime'
  BY <1>0, <1>1, <1>2, <1>4, <1>5, <1>6 DEF OneThingAtATime, OneThing
<1>9. FolderExclusive'
  BY <1>1, <1>4 DEF FolderExclusive, OnRoot
<1>10. StartsClean'
  BY <1>0, <1>1, <1>4 DEF StartsClean
<1>11. QED BY <1>3, <1>4, <1>7, <1>8, <1>9, <1>10

LEMMA MarkInv ==
  ASSUME SInv, NEW s \in Sessions, MarkWorking(s) \/ MarkEnds(s)
  PROVE  SInv'
<1> USE DEF SInv, TurnInv
<1>1. /\ UNCHANGED <<start, retry, resolving, restoring, undoing, switching, turnVars, driverVars, waitVars, extras>>
      /\ marking' \subseteq Sessions
      /\ status' = status \/ (~InFlight(s) /\ status' = [status EXCEPT ![s] = "holding"])
  BY DEF MarkWorking, MarkEnds, TypeOK
<1>2. TypeOK'
  BY <1>1 DEF TypeOK, Statuses, turnVars, driverVars, waitVars
<1>3. /\ RetriesKnown' /\ ActiveRuns'
      /\ \A o \in Sessions : /\ Pending(o)' = Pending(o) /\ TurnsOf(o)' = TurnsOf(o)
                             /\ InFlight(o)' = InFlight(o)
  BY <1>1, WorkFrame DEF turnVars
<1>4. StatusTellsTurns'
  BY <1>1, <1>3 DEF StatusTellsTurns, TypeOK, waitVars
<1>5. OneThingAtATime' /\ FolderExclusive'
  BY <1>1, <1>3, <1>4, NothingBegins DEF waitVars
<1>6. StartsClean'
  BY <1>1, <1>3 DEF StartsClean, waitVars
<1>7. QED BY <1>2, <1>3, <1>4, <1>5, <1>6

LEMMA FolderInv ==
  ASSUME SInv, NEW s \in Sessions, Undo(s) \/ UndoEnds(s) \/ SwitchBranch(s) \/ SwitchEnds(s)
  PROVE  SInv'
<1> USE DEF SInv, TurnInv
<1>1. UNCHANGED <<status, start, retry, resolving, restoring, marking, turnVars, driverVars, waitVars, extras>>
  BY DEF Undo, UndoEnds, SwitchBranch, SwitchEnds
<1>2. undoing' \subseteq Sessions /\ switching' \subseteq Sessions
  BY DEF Undo, UndoEnds, SwitchBranch, SwitchEnds, TypeOK
<1>3. TypeOK'
  BY <1>1, <1>2 DEF TypeOK, turnVars, driverVars, waitVars
<1>4. /\ RetriesKnown' /\ ActiveRuns'
      /\ \A o \in Sessions : /\ Pending(o)' = Pending(o) /\ TurnsOf(o)' = TurnsOf(o)
                             /\ InFlight(o)' = InFlight(o)
  BY <1>1, WorkFrame DEF turnVars
<1>5. OneThingAtATime' /\ StatusTellsTurns' /\ StartsClean'
  BY <1>1, <1>4 DEF OneThingAtATime, OneThing, StatusTellsTurns, StartsClean, waitVars
<1>6. FolderExclusive'
  <2>1. CASE UndoEnds(s) \/ SwitchEnds(s)
    <3>1. undoing' \subseteq undoing /\ switching' \subseteq switching
      BY <2>1 DEF UndoEnds, SwitchEnds
    <3>2. QED BY <1>1, <1>4, <3>1 DEF FolderExclusive, OnRoot
  <2>2. CASE Undo(s) \/ SwitchBranch(s)
    <3>1. /\ ~UndoOnRoot(s) /\ ~SwitchOnRoot(s)
          /\ \A o \in OnRoot(s) : ~InFlight(o)
          /\ \/ /\ undoing' = undoing \cup {s} /\ switching' = switching
                /\ \A o \in OnRoot(s) : resolving[o] = "none"
             \/ undoing' = undoing /\ switching' = switching \cup {s}
      BY <2>2 DEF Undo, SwitchBranch
    <3>2. /\ s \in OnRoot(s)
          /\ \A u \in undoing \cup switching : u \notin OnRoot(s) /\ s \notin OnRoot(u)
      BY <3>1 DEF UndoOnRoot, SwitchOnRoot, OnRoot, TypeOK
    <3>3. \A u \in undoing' \cup switching' : u = s \/ u \in undoing \cup switching
      BY <3>1
    <3>4. undoing' \cup switching' = undoing \cup switching \cup {s}
      BY <3>1
    <3>5. s \notin undoing \cup switching
      BY <3>2
    <3>6. ASSUME NEW u \in undoing \cup switching
          PROVE  /\ \A o \in OnRoot(u) \ Opencode : ~InFlight(o)'
                 /\ \A o \in OnRoot(u) \cap (undoing' \cup switching') : o = u
                 /\ ~(u \in undoing' /\ u \in switching')
                 /\ u \in undoing' => \A o \in OnRoot(u) : resolving'[o] = "none"
      <4>1. \A o \in OnRoot(u) \ Opencode : ~InFlight(o)'
        BY <1>4 DEF FolderExclusive, OnRoot
      <4>2. \A o \in OnRoot(u) \cap (undoing' \cup switching') : o = u
        BY <3>2, <3>4 DEF FolderExclusive
      <4>3. /\ ~(u \in undoing' /\ u \in switching')
            /\ u \in undoing' => u \in undoing
        BY <3>1, <3>5 DEF FolderExclusive
      <4>4. u \in undoing' => \A o \in OnRoot(u) : resolving'[o] = "none"
        BY <1>1, <4>3 DEF FolderExclusive
      <4>5. QED BY <4>1, <4>2, <4>3, <4>4
    <3>7. /\ \A o \in OnRoot(s) \ Opencode : ~InFlight(o)'
          /\ \A o \in OnRoot(s) \cap (undoing' \cup switching') : o = s
          /\ ~(s \in undoing' /\ s \in switching')
          /\ s \in undoing' => \A o \in OnRoot(s) : resolving'[o] = "none"
      <4>1. \A o \in OnRoot(s) \ Opencode : ~InFlight(o)'
        BY <1>4, <3>1 DEF OnRoot
      <4>2. QED BY <1>1, <3>1, <3>2, <3>4, <3>5, <4>1
    <3>8. QED BY <3>3, <3>6, <3>7 DEF FolderExclusive, OnRoot
  <2>3. QED BY <2>1, <2>2
<1>7. QED BY <1>3, <1>4, <1>5, <1>6

-----------------------------------------------------------------------------
(* The theorems *)

LEMMA TurnsStep == SInv /\ TurnsNext => SInv'
<1> SUFFICES ASSUME SInv, TurnsNext PROVE SInv'
  OBVIOUS
<1>1. ASSUME NEW s \in Sessions, SessionNext(s)
      PROVE  SInv'
  <2>1. CASE \E r \in Retries : RetryConnection(r, s)
    BY <2>1, RetryStepInv
  <2>2. QED BY <1>1, <2>1, StartTurnInv, OpenedInv, TokenRefreshedInv, StopInv, SetInv, ResolveInv, RestoreInv, MarkInv, FolderInv
       DEF SessionNext
<1>2. ASSUME NEW r \in Retries, RetryOpened(r) \/ RetryAttached(r)
      PROVE  SInv'
  BY <1>2, RetryStepInv, RetryAttachedInv
<1>3. ASSUME NEW t \in Turns, TurnNext(t)
      PROVE  SInv'
  BY <1>3, TurnEndsInv, TurnGoesOnInv, RequestInv DEF TurnNext
<1>4. QED BY <1>1, <1>2, <1>3 DEF TurnsNext

LEMMA StutterInv == SInv /\ UNCHANGED vars => SInv'
<1> SUFFICES ASSUME SInv, UNCHANGED vars PROVE SInv'
  OBVIOUS
<1>1. UNCHANGED <<status, start, retry, resolving, restoring, marking, undoing, switching, active, settled, request, run,
                  drivers, broken, reserved, waits, marked, extras>>
  BY DEF vars, workVars, turnVars, driverVars, waitVars
<1>2. TypeOK'
  BY <1>1 DEF SInv, TypeOK
<1>3. TurnInv'
  <2>1. /\ RetriesKnown' /\ ActiveRuns'
        /\ \A o \in Sessions : /\ Pending(o)' = Pending(o) /\ TurnsOf(o)' = TurnsOf(o)
                               /\ InFlight(o)' = InFlight(o)
    BY <1>1, WorkFrame
  <2>2. StatusTellsTurns'
    BY <1>1, <2>1 DEF SInv, TurnInv, StatusTellsTurns
  <2>3. StartsClean'
    BY <1>1, <2>1 DEF SInv, TurnInv, StartsClean
  <2>4. QED BY <1>1, <2>1, <2>2, <2>3, NothingBegins DEF SInv, TurnInv
<1>4. QED BY <1>2, <1>3 DEF SInv

LEMMA SessionsInvariant == Spec => []SInv
  BY InitInv, TurnsStep, StutterInv, PTL DEF Spec

\* Every variable of SessionTurns keeps its type.
THEOREM SessionTypes == Spec => []TypeOK
<1>1. SInv => TypeOK
  BY DEF SInv
<1>2. QED BY <1>1, SessionsInvariant, PTL

\* For any number of sessions and turns, and whatever comes between the awaits of
\* startTurn, resolveSession and restoreSession, a session is doing one thing; only
\* a status set by hand during a turn shows it resolved, and may have it restored.
THEOREM OneThingHolds == Spec => []OneThingAtATime
<1>1. SInv => OneThingAtATime
  BY DEF SInv, TurnInv
<1>2. QED BY <1>1, SessionsInvariant, PTL

\* For any sharing of folders among sessions, an undo and a branch switch have
\* their folder to themselves.
THEOREM FoldersShared == Spec => []FolderExclusive
<1>1. SInv => FolderExclusive
  BY DEF SInv, TurnInv
<1>2. QED BY <1>1, SessionsInvariant, PTL

\* A session that shows a turn at work has one or waits for its subagents, and one
\* with a turn shows it, whatever the subagents, retries, resolves and driver events
\* do; only a status set by hand since the turn began to start says otherwise.
THEOREM StatusIsTrue == Spec => []StatusTellsTurns
<1>1. SInv => StatusTellsTurns
  BY DEF SInv, TurnInv
<1>2. QED BY <1>1, SessionsInvariant, PTL

\* A turn becomes active when a start without a stop launches it, or when the
\* connection of an opencode session was retried.
LEMMA OnlyLaunchesBegin ==
  ASSUME SInv, TurnsNext, NEW s \in Sessions \ Opencode, NEW t \in Turns, active'[t] = s, active[t] # s
  PROVE  ~start[s].stop
<1> USE DEF SInv, TurnInv
<1>1. ASSUME NEW o \in Sessions, NEW u \in Turns, NEW g, Launch(o, u, g)
      PROVE  ~start[s].stop
  <2>1. /\ start[o].stop => active' = active
        /\ ~start[o].stop => active' = [active EXCEPT ![u] = o]
    BY <1>1 DEF Launch
  <2>2. active \in [Turns -> Sessions \cup {NoSession}]
    BY DEF TypeOK
  <2>3. QED BY <2>1, <2>2
<1>2. ASSUME NEW o \in Sessions, SessionNext(o)
      PROVE  ~start[s].stop
  <2>1. CASE Opened(o) \/ TokenRefreshed(o)
    BY <1>1, <2>1 DEF Opened, TokenRefreshed, FailStart, turnVars
  <2>2. CASE Stop(o)
    BY <2>2 DEF Stop, Interrupt, turnVars
  <2>3. CASE StartTurn(o) \/ (\E r \in Retries : RetryConnection(r, o))
    BY <2>3 DEF StartTurn, RetryConnection, turnVars
  <2>4. CASE \/ (\E v \in Statuses : SetStatus(o, v)) \/ Ages(o) \/ WaitSettles(o)
             \/ Resolve(o) \/ ResolveDecides(o) \/ ResolveEnds(o)
             \/ Restore(o) \/ RestoreEnds(o) \/ MarkWorking(o) \/ MarkEnds(o)
             \/ Undo(o) \/ UndoEnds(o) \/ SwitchBranch(o) \/ SwitchEnds(o)
    BY <2>4 DEF SetStatus, Ages, WaitSettles, Resolve, ResolveDecides, ResolveEnds, Restore, RestoreEnds, MarkWorking, MarkEnds,
       Undo, UndoEnds, SwitchBranch, SwitchEnds, turnVars
  <2>5. QED BY <1>2, <2>1, <2>2, <2>3, <2>4 DEF SessionNext
<1>3. ASSUME NEW r \in Retries, RetryOpened(r) \/ RetryAttached(r)
      PROVE  ~start[s].stop
  <2>1. CASE RetryOpened(r)
    BY <2>1 DEF RetryOpened, turnVars
  <2>2. CASE RetryAttached(r)
    <3>1. retry[r].session \in Opencode
      BY <2>2, Constants DEF RetryAttached, RetriesKnown, NoRetry
    <3>2. QED BY <2>2, <3>1 DEF RetryAttached, TypeOK
  <2>3. QED BY <1>3, <2>1, <2>2
<1>4. ASSUME NEW u \in Turns, TurnNext(u)
      PROVE  ~start[s].stop
  <2>1. active' = [active EXCEPT ![u] = NoSession] \/ active' = active
    BY <1>4 DEF TurnNext, TurnEnds, Done, Errored, TurnGoesOn, Ask, AskSettled, Claim, ReleaseClaim, turnVars
  <2>2. QED BY <2>1 DEF TypeOK
<1>5. QED BY <1>2, <1>3, <1>4 DEF TurnsNext

\* No step after a stop that came during a start leaves a turn of the session
\* running: not the launch, nor any event, answer or retry that comes before it.
THEOREM StopIsKept == Spec => StopWins
<1> DEFINE Kept == \A s \in Sessions \ Opencode : start[s].stop => TurnsOf(s)' = {}
<1>1. SInv /\ [TurnsNext]_vars => Kept
  <2> SUFFICES ASSUME SInv, [TurnsNext]_vars, NEW s \in Sessions \ Opencode, start[s].stop
               PROVE  TurnsOf(s)' = {}
    OBVIOUS
  <2> USE DEF SInv, TurnInv
  <2>1. Pending(s) /\ TurnsOf(s) = {}
    BY DEF StartsClean, OneThingAtATime, OneThing
  <2>2. ASSUME NEW t \in Turns, active'[t] = s
        PROVE  FALSE
    <3>1. active[t] # s
      BY <2>1 DEF TurnsOf
    <3>2. start[s].stop
      OBVIOUS
    <3>3. TurnsNext /\ active' # active
      BY <2>2, <3>1 DEF vars, turnVars
    <3>4. QED BY <2>2, <3>1, <3>2, <3>3, OnlyLaunchesBegin
  <2>3. QED BY <2>2 DEF TurnsOf
<1>2. QED BY <1>1, SessionsInvariant, PTL DEF Spec, StopWins

-----------------------------------------------------------------------------
(* The sessions under the coordinator *)

\* Each flow uses up one generation of drivers, so there is always a next one.
FlowsCounted ==
    /\ drivers = IF phase = "idle" THEN prepares + 1 ELSE prepares
    /\ stopped \subseteq 1..drivers
    /\ phase = "idle" => drivers \notin stopped

\* A continuation of the present flow is the one its phase waits for, and the
\* only one; the others belong to flows that are over.
LateOnesKnown ==
    /\ \A p \in preparing : p.generation <= generation /\ (p.generation = generation => phase = "preparing")
    /\ \A p, q \in preparing : p.generation = generation /\ q.generation = generation => p = q
    /\ \A k \in committing : k.generation <= generation /\ (k.generation = generation => phase = "committing")
    /\ \A k, m \in committing : k.generation = generation /\ m.generation = generation => k = m

\* The timer of the latest lease, while it still counts, is the present token's.
LeaseIsCurrent ==
    \A l \in leases :
        /\ l.lease <= leaseId
        /\ Expired(l) => l.token = token /\ l.phase = phase

\* The turns of sessions that start in one piece, where nothing slips in.
Plain(t) == run[t].session \in Sessions \ (SlowStart \cup Opencode)

\* Their drivers are the current ones, an interrupted one is not active, and the
\* present flow waits for each that still runs.
DriversKnown ==
    \A t \in Turns : Plain(t) =>
        /\ Alive(t) => Routed(t)
        /\ run[t].state = "stopping" => active[t] = NoSession
        /\ active[t] # NoSession => Alive(t)
        /\ \A p \in preparing : p.generation = generation /\ Alive(t) => t \in p.waits

CInv ==
    /\ SInv /\ ShutdownTypeOK
    /\ IdleMeansRestored /\ QuietWhileStopping
    /\ FlowsCounted /\ LateOnesKnown /\ LeaseIsCurrent /\ DriversKnown

USE PrepareAssumption

-----------------------------------------------------------------------------
LEMMA CoordInit == ShutdownInit => CInv
<1> SUFFICES ASSUME ShutdownInit PROVE CInv
  OBVIOUS
<1> USE DEF ShutdownInit
<1>1. SInv
  BY InitInv
<1>2. ShutdownTypeOK
  <2>1. TypeOK
    BY <1>1 DEF SInv
  <2>2. token \in 0..MaxPrepares /\ prepares \in 0..MaxPrepares
    OBVIOUS
  <2>3. QED BY <2>1, <2>2 DEF ShutdownTypeOK, Phases
<1>3. /\ active = [t \in Turns |-> NoSession] /\ run = [t \in Turns |-> NoRun]
      /\ drivers = 1 /\ broken = FALSE /\ reserved = FALSE
  BY DEF Init
<1>4. IdleMeansRestored /\ FlowsCounted /\ LateOnesKnown /\ LeaseIsCurrent
  BY <1>3 DEF IdleMeansRestored, FlowsCounted, LateOnesKnown, LeaseIsCurrent
<1>5. \A t \in Turns : ~Plain(t)
  BY <1>3, Constants DEF Plain
<1>6. DriversKnown /\ QuietWhileStopping
  BY <1>5 DEF DriversKnown, QuietWhileStopping, Plain
<1>7. QED BY <1>1, <1>2, <1>4, <1>6 DEF CInv

-----------------------------------------------------------------------------
(* What the coordinator does to the sessions *)

LEMMA KilledTypes ==
  ASSUME TypeOK
  PROVE  /\ KilledRuns \in [Turns -> Run]
         /\ \A t \in Turns : /\ KilledRuns[t].session = run[t].session
                             /\ KilledRuns[t].gen = run[t].gen
                             /\ KilledRuns[t].state = IF Alive(t) /\ Routed(t) THEN "gone" ELSE run[t].state
<1>1. \A b \in Run : LET n == [b EXCEPT !.state = "gone"]
                     IN  n \in Run /\ n.session = b.session /\ n.gen = b.gen /\ n.state = "gone"
  BY DEF Run
<1>2. \A t \in Turns : run[t] \in Run
  BY DEF TypeOK
<1>3. QED BY <1>1, <1>2 DEF KilledRuns

\* Recovering ends turns of the drivers and no turn of a session.
LEMMA RecoverSessions ==
  ASSUME CInv, phase # "idle", Recover, SessionsKept
  PROVE  SInv'
<1>1. /\ UNCHANGED <<status, start, workVars, active, settled, request, waits, marked, extras>>
      /\ run' = KilledRuns
      /\ drivers' = drivers + 1 /\ broken' \in BOOLEAN /\ reserved' = FALSE
  BY DEF Recover, SessionsKept, waitVars
<1>2. TypeOK
  BY DEF CInv, SInv
<1>3. drivers' \in 1..MaxDrivers
  <2>1. drivers = prepares /\ prepares \in 0..MaxPrepares
    BY DEF CInv, FlowsCounted, ShutdownTypeOK
  <2>2. QED BY <1>1, <2>1
<1>4. TypeOK'
  BY <1>1, <1>2, <1>3, KilledTypes DEF TypeOK, workVars
<1>5. StatusTellsTurns'
  BY <1>1 DEF CInv, SInv, TurnInv, StatusTellsTurns, InFlight, Pending, TurnsOf
<1>6. \A t \in Turns : active'[t] \in {active[t], NoSession} /\ run'[t].session = run[t].session
  BY <1>1, <1>2, KilledTypes
<1>7. TurnInv'
  BY <1>1, <1>5, <1>6, EventInv DEF CInv
<1>8. QED BY <1>4, <1>7 DEF SInv

\* Ending any flow restores everything.
LEMMA RecoverInv ==
  ASSUME CInv, phase # "idle", Recover, SessionsKept,
         preparing' \subseteq preparing, committing' \subseteq committing, leases' \subseteq leases,
         UNCHANGED <<leaseId, prepares>>, exited' \in BOOLEAN
  PROVE  CInv'
<1>1. SInv'
  BY RecoverSessions
<1>2. /\ generation' = generation + 1
      /\ phase' = "idle" /\ token' = 0
      /\ run' = KilledRuns
      /\ stopped' = stopped \cup {drivers}
      /\ drivers' = drivers + 1
      /\ terminals' = "open" /\ reserved' = FALSE
      /\ active' = active
  BY DEF Recover, SessionsKept
<1>3. TypeOK /\ ShutdownTypeOK
  BY DEF CInv, ShutdownTypeOK
<1>4. FlowsCounted'
  BY <1>2, <1>3 DEF CInv, FlowsCounted, ShutdownTypeOK, TypeOK
<1>5. ShutdownTypeOK'
  <2>1. stopped' \subseteq 1..MaxDrivers
    BY <1>2, <1>3 DEF ShutdownTypeOK, TypeOK
  <2>2. QED BY <1>1, <1>2, <1>3, <2>1 DEF ShutdownTypeOK, SInv, Phases
<1>6. IdleMeansRestored'
  BY <1>2, <1>4 DEF IdleMeansRestored, FlowsCounted
<1>7. QuietWhileStopping'
  BY <1>2 DEF QuietWhileStopping
<1>8. LateOnesKnown'
  <2>1. \A p \in preparing' : p.generation \in Nat /\ p.generation < generation'
    BY <1>2, <1>3 DEF CInv, LateOnesKnown, ShutdownTypeOK, Preparing
  <2>2. \A k \in committing' : k.generation \in Nat /\ k.generation < generation'
    BY <1>2, <1>3 DEF CInv, LateOnesKnown, ShutdownTypeOK, Committing
  <2>3. generation' \in Nat
    BY <1>2, <1>3 DEF ShutdownTypeOK
  <2>4. QED BY <2>1, <2>2, <2>3 DEF LateOnesKnown
<1>9. LeaseIsCurrent'
  BY <1>2 DEF CInv, LeaseIsCurrent, Expired
<1>10. DriversKnown'
  <2>1. ASSUME NEW t \in Turns, Plain(t)'
        PROVE  /\ ~Alive(t)' /\ run'[t].state # "stopping" /\ active'[t] = NoSession
    <3>1. Plain(t)
      BY <1>2, <1>3, <2>1, KilledTypes DEF Plain
    <3>2. active[t] = NoSession
      BY <3>1 DEF CInv, QuietWhileStopping, Plain
    <3>3. Alive(t) => Routed(t)
      BY <3>1 DEF CInv, DriversKnown
    <3>4. QED BY <1>2, <1>3, <3>2, <3>3, KilledTypes DEF Alive
  <2>2. QED BY <2>1 DEF DriversKnown
<1>11. QED BY <1>1, <1>4, <1>5, <1>6, <1>7, <1>8, <1>9, <1>10 DEF CInv

\* Steps that leave the sessions and the flow alone, but for continuations and
\* timers of flows that are over.
LEMMA LateInv ==
  ASSUME CInv, UNCHANGED <<vars, phase, token, generation, leaseId, terminals, stopped, prepares>>,
         preparing' \subseteq preparing, committing' \subseteq committing, leases' \subseteq leases,
         exited' \in BOOLEAN
  PROVE  CInv'
<1>1. SInv'
  BY StutterInv DEF CInv
<1>2. /\ UNCHANGED <<active, run, drivers, broken, reserved>>
      /\ TypeOK'
  BY <1>1 DEF vars, turnVars, driverVars, waitVars, SInv
<1>3. ShutdownTypeOK'
  BY <1>2 DEF CInv, ShutdownTypeOK
<1>4. IdleMeansRestored' /\ FlowsCounted' /\ LateOnesKnown'
  BY <1>2 DEF CInv, IdleMeansRestored, FlowsCounted, LateOnesKnown
<1>5. LeaseIsCurrent'
  BY DEF CInv, LeaseIsCurrent, Expired
<1>6. QuietWhileStopping' /\ DriversKnown'
  BY <1>2 DEF CInv, QuietWhileStopping, DriversKnown, Plain, Alive, Routed
<1>7. QED BY <1>1, <1>3, <1>4, <1>5, <1>6 DEF CInv

LEMMA PrepareInv ==
  ASSUME CInv, NEW mayStop \in BOOLEAN, NEW approved \in SUBSET Turns, Prepare(mayStop, approved)
  PROVE  CInv'
<1>1. /\ phase = "idle" /\ prepares < MaxPrepares
      /\ prepares' = prepares + 1
      /\ phase' = "preparing" /\ reserved' = TRUE
      /\ Interrupt(ActiveTurns)
      /\ preparing' = preparing \cup {[generation |-> generation, waits |-> BusyTurns]}
      /\ stopped' = stopped \cup {drivers}
      /\ UNCHANGED <<start, workVars, drivers, broken, waits, marked, extras>>
      /\ UNCHANGED <<token, generation, leaseId, leases, committing, terminals, exited>>
  BY DEF Prepare, waitVars
<1>2. SInv /\ TypeOK /\ ShutdownTypeOK
  BY DEF CInv, ShutdownTypeOK
<1>3. ActiveTurns \in SUBSET Turns
  BY DEF ActiveTurns
<1>4. SInv'
  <2>1. \A s \in Sessions : (\E t \in ActiveTurns : active[t] = s) => TurnsOf(s) \subseteq ActiveTurns
    BY DEF TurnsOf, ActiveTurns
  <2>2. TurnInv'
    BY <1>1, <1>2, <1>3, <2>1, InterruptInv DEF waitVars
  <2>3. TypeOK'
    BY <1>1, <1>2, <1>3, InterruptTypes DEF TypeOK, workVars
  <2>4. QED BY <2>2, <2>3 DEF SInv
<1>5. \A t \in Turns : active'[t] = NoSession
  BY <1>1, <1>2 DEF Interrupt, ActiveTurns, TypeOK
<1>6. \A t \in Turns : /\ run'[t].session = run[t].session /\ run'[t].gen = run[t].gen
                       /\ Alive(t)' <=> Alive(t)
  <2>1. ASSUME NEW t \in Turns
        PROVE  /\ run'[t].session = run[t].session /\ run'[t].gen = run[t].gen
               /\ run'[t].state = run[t].state \/ (run[t].state = "running" /\ run'[t].state = "stopping")
    <3>1. run[t] \in Run
      BY <1>2 DEF TypeOK
    <3>2. CASE run'[t] = run[t]
      BY <3>2
    <3>3. CASE run[t].state = "running" /\ run'[t] = [run[t] EXCEPT !.state = "stopping"]
      BY <3>1, <3>3 DEF Run
    <3>4. run'[t] = run[t] \/ (run[t].state = "running" /\ run'[t] = [run[t] EXCEPT !.state = "stopping"])
      BY <1>1 DEF Interrupt
    <3>5. QED BY <3>2, <3>3, <3>4
  <2>2. QED BY <2>1 DEF Alive
<1>7. FlowsCounted'
  BY <1>1, <1>2 DEF CInv, FlowsCounted, ShutdownTypeOK, TypeOK
<1>8. \A p \in preparing : p.generation # generation
  BY <1>1 DEF CInv, LateOnesKnown
<1>9. LateOnesKnown'
  <2>1. \A p \in preparing' : p \in preparing \/ p.generation = generation
    BY <1>1
  <2>2. \A p, q \in preparing' : p.generation = generation /\ q.generation = generation => p = q
    BY <1>1, <1>8
  <2>3. \A k \in committing : k.generation # generation
    BY <1>1 DEF CInv, LateOnesKnown
  <2>4. QED BY <1>1, <1>2, <2>1, <2>2, <2>3 DEF CInv, LateOnesKnown, ShutdownTypeOK
<1>10. ShutdownTypeOK'
  <2>1. [generation |-> generation, waits |-> BusyTurns] \in Preparing
    BY <1>2 DEF ShutdownTypeOK, Preparing, BusyTurns
  <2>2. prepares' \in 0..MaxPrepares
    BY <1>1, <1>2 DEF ShutdownTypeOK
  <2>3. stopped' \subseteq 1..MaxDrivers
    BY <1>1, <1>2 DEF ShutdownTypeOK, TypeOK
  <2>4. TypeOK'
    BY <1>4 DEF SInv
  <2>5. QED BY <1>1, <1>2, <2>1, <2>2, <2>3, <2>4 DEF ShutdownTypeOK, Phases
<1>11. IdleMeansRestored'
  BY <1>1 DEF CInv, IdleMeansRestored
<1>12. QuietWhileStopping'
  BY <1>1, <1>5 DEF QuietWhileStopping
<1>13. LeaseIsCurrent'
  BY <1>1 DEF CInv, LeaseIsCurrent, Expired
<1>14. DriversKnown'
  <2>1. ASSUME NEW t \in Turns, Plain(t)'
        PROVE  /\ Alive(t)' => Routed(t)'
               /\ \A p \in preparing' : p.generation = generation' /\ Alive(t)' => t \in p.waits
    <3>1. Plain(t)
      BY <1>6, <2>1 DEF Plain
    <3>2. Alive(t) => Routed(t)
      BY <3>1 DEF CInv, DriversKnown
    <3>3. Alive(t)' => Routed(t)'
      BY <1>1, <1>6, <3>2 DEF Routed
    <3>4. \A p \in preparing' : p.generation = generation => p.waits = BusyTurns
      BY <1>1, <1>8
    <3>5. Alive(t)' => t \in BusyTurns
      BY <1>6, <3>2 DEF BusyTurns
    <3>6. QED BY <1>1, <3>3, <3>4, <3>5
  <2>2. QED BY <1>5, <2>1 DEF DriversKnown
<1>15. QED BY <1>4, <1>7, <1>9, <1>10, <1>11, <1>12, <1>13, <1>14 DEF CInv

\* A lease begun for the token of this moment becomes the latest one.
LEMMA LeaseStarts ==
  ASSUME ShutdownTypeOK, LeaseIsCurrent, NEW p \in Phases, StartLease(p),
         token' \in 0..MaxPrepares, phase' = p, generation' = generation
  PROVE  /\ LeaseIsCurrent'
         /\ leases' \subseteq Lease /\ leaseId' \in Nat
<1> DEFINE new == [lease |-> leaseId + 1, generation |-> generation, token |-> token', phase |-> p]
<1>1. leaseId' = leaseId + 1 /\ leases' = leases \cup {new}
  BY DEF StartLease
<1>2. leaseId \in Nat /\ generation \in Nat /\ leases \subseteq Lease
  BY DEF ShutdownTypeOK
<1>3. new \in Lease
  BY <1>2 DEF Lease
<1>4. new.lease = leaseId + 1 /\ new.token = token' /\ new.phase = p
  OBVIOUS
<1>5. \A l \in leases : l.lease \in Nat /\ l.lease <= leaseId
  BY <1>2 DEF LeaseIsCurrent, Lease
<1>6. LeaseIsCurrent'
  <2> HIDE DEF new
  <2>1. \A l \in leases : l.lease <= leaseId' /\ l.lease # leaseId'
    BY <1>1, <1>2, <1>5
  <2>2. \A l \in leases' : l \in leases \/ l = new
    BY <1>1
  <2>3. ASSUME NEW l \in leases' PROVE l.lease <= leaseId' /\ (Expired(l)' => l.token = token' /\ l.phase = phase')
    <3>1. CASE l \in leases
      BY <2>1, <3>1 DEF Expired
    <3>2. CASE l = new
      BY <1>1, <1>2, <1>4, <3>2
    <3>3. QED BY <2>2, <3>1, <3>2
  <2>4. QED BY <2>3 DEF LeaseIsCurrent
<1>7. QED BY <1>1, <1>2, <1>3, <1>6

LEMMA PrepareSettlesInv == ASSUME CInv, NEW p \in preparing, PrepareSettles(p) PROVE CInv'
<1>1. /\ preparing' = preparing \ {p}
      /\ UNCHANGED <<committing, prepares, exited>>
  BY DEF PrepareSettles
<1>2. ShutdownTypeOK
  BY DEF CInv
<1>3. CASE UNCHANGED <<vars, phase, token, generation, leaseId, leases, terminals, stopped>>
  BY <1>1, <1>2, <1>3, LateInv DEF ShutdownTypeOK
<1>4. CASE p.generation = generation /\ Recover /\ SessionsKept /\ UNCHANGED <<leaseId, leases>>
  <2>1. phase # "idle"
    BY <1>4 DEF CInv, LateOnesKnown
  <2>2. QED BY <1>1, <1>2, <1>4, <2>1, RecoverInv DEF ShutdownTypeOK
<1>5. ASSUME p.generation = generation, Prepared(p), UNCHANGED <<vars, generation, stopped>>
      PROVE  CInv'
  <2>1. phase = "preparing" /\ \A q \in preparing' : q.generation # generation
    BY <1>1, <1>5 DEF CInv, LateOnesKnown
  <2>2. SInv'
    BY <1>5, StutterInv DEF CInv
  <2>3. UNCHANGED <<active, run, drivers, broken, reserved>>
    BY <1>5 DEF vars, turnVars, driverVars, waitVars
  <2>4. /\ token' = prepares /\ prepares \in 1..MaxPrepares
        /\ phase' \in {"timeout", "prepared"} /\ StartLease(phase')
        /\ terminals' = terminals \/ (terminals' = "closed" /\ phase' = "prepared")
    BY <1>2, <1>5, <2>1 DEF Prepared, CInv, FlowsCounted, ShutdownTypeOK, TypeOK
  <2>5. /\ LeaseIsCurrent'
        /\ leases' \subseteq Lease /\ leaseId' \in Nat
    BY <1>2, <1>5, <2>4, LeaseStarts DEF CInv, Phases
  <2>6. ShutdownTypeOK'
    BY <1>1, <1>2, <1>5, <2>2, <2>3, <2>4, <2>5 DEF ShutdownTypeOK, SInv, Phases
  <2>7. FlowsCounted' /\ IdleMeansRestored'
    BY <1>1, <1>5, <2>1, <2>3, <2>4 DEF CInv, FlowsCounted, IdleMeansRestored
  <2>8. LateOnesKnown'
    BY <1>1, <1>5, <2>1, <2>4 DEF CInv, LateOnesKnown
  <2>9. QuietWhileStopping'
    <3>1. ASSUME NEW t \in Turns, Plain(t), phase' = "prepared"
          PROVE  ~Alive(t)
      <4>1. \A w \in p.waits : run[w].state = "gone"
        BY <1>5, <2>4, <3>1 DEF Prepared
      <4>2. Alive(t) => t \in p.waits
        BY <1>5, <3>1 DEF CInv, DriversKnown
      <4>3. QED BY <4>1, <4>2 DEF Alive
    <3>2. QED BY <2>1, <2>3, <2>4, <3>1 DEF CInv, QuietWhileStopping, Plain, Alive
  <2>10. DriversKnown'
    BY <1>5, <2>1, <2>3 DEF CInv, DriversKnown, Plain, Alive, Routed
  <2>11. QED BY <2>2, <2>5, <2>6, <2>7, <2>8, <2>9, <2>10 DEF CInv
<1>6. QED BY <1>3, <1>4, <1>5 DEF PrepareSettles

LEMMA ForceInv == ASSUME CInv, NEW tk \in 1..MaxPrepares, ForceFlow(tk) PROVE CInv'
<1>1. /\ phase = "timeout" /\ phase' = "prepared"
      /\ run' = KilledRuns
      /\ terminals' = "closed"
      /\ StartLease("prepared")
      /\ UNCHANGED driverVars /\ SessionsKept
      /\ UNCHANGED <<token, generation, preparing, committing, stopped, prepares, exited>>
  BY DEF ForceFlow
<1>2. TypeOK /\ ShutdownTypeOK /\ SInv
  BY DEF CInv, SInv
<1>3. UNCHANGED <<status, start, workVars, active, settled, request, waits, marked, extras, drivers, broken, reserved>>
  BY <1>1 DEF SessionsKept, driverVars, waitVars
<1>4. SInv'
  <2>1. TypeOK'
    BY <1>1, <1>2, <1>3, KilledTypes DEF TypeOK, workVars
  <2>2. StatusTellsTurns'
    <3>1. StatusTellsTurns
      BY <1>2 DEF SInv, TurnInv
    <3>2. QED BY ONLY <1>3, <3>1 DEF StatusTellsTurns, InFlight, Pending, TurnsOf
  <2>3. \A t \in Turns : active'[t] \in {active[t], NoSession} /\ run'[t].session = run[t].session
    BY <1>1, <1>2, <1>3, KilledTypes
  <2>4. QED BY <1>2, <1>3, <2>1, <2>2, <2>3, EventInv DEF SInv
<1>5. /\ LeaseIsCurrent'
      /\ leases' \subseteq Lease /\ leaseId' \in Nat
  <2>1. token' \in 0..MaxPrepares
    BY <1>1, <1>2 DEF ShutdownTypeOK
  <2>2. QED BY <1>1, <1>2, <2>1, LeaseStarts DEF CInv, Phases
<1>6. ShutdownTypeOK'
  BY <1>1, <1>2, <1>4, <1>5 DEF ShutdownTypeOK, SInv, Phases
<1>7. FlowsCounted' /\ IdleMeansRestored' /\ LateOnesKnown'
  BY <1>1, <1>3 DEF CInv, FlowsCounted, IdleMeansRestored, LateOnesKnown
<1>8. ASSUME NEW t \in Turns, Plain(t)'
      PROVE  ~Alive(t)' /\ run'[t].state # "stopping" /\ active'[t] = NoSession
  <2>1. Plain(t)
    BY <1>1, <1>2, <1>8, KilledTypes DEF Plain
  <2>2. active'[t] = NoSession
    BY <1>1, <1>3, <2>1 DEF CInv, QuietWhileStopping, Plain
  <2>3. Alive(t) => Routed(t)
    BY <2>1 DEF CInv, DriversKnown
  <2>4. QED BY <1>1, <1>2, <2>2, <2>3, KilledTypes DEF Alive
<1>9. QuietWhileStopping' /\ DriversKnown'
  BY <1>8 DEF QuietWhileStopping, DriversKnown, Plain
<1>10. QED BY <1>4, <1>5, <1>6, <1>7, <1>9 DEF CInv

LEMMA RecoveriesInv ==
  ASSUME CInv,
         \/ \E tk \in 1..MaxPrepares : Cancel(tk)
         \/ Abandon
         \/ \E l \in leases : LeaseFires(l)
  PROVE  CInv'
<1>1. ShutdownTypeOK
  BY DEF CInv
<1>2. ASSUME NEW tk \in 1..MaxPrepares, Cancel(tk)
      PROVE  CInv'
  BY <1>1, <1>2, RecoverInv DEF Cancel, ShutdownTypeOK
<1>3. CASE Abandon
  BY <1>1, <1>3, RecoverInv DEF Abandon, ShutdownTypeOK
<1>4. ASSUME NEW l \in leases, LeaseFires(l)
      PROVE  CInv'
  <2>1. leases' \subseteq leases /\ UNCHANGED <<leaseId, preparing, committing, prepares, exited>>
    BY <1>4 DEF LeaseFires
  <2>2. CASE Expired(l)
    BY <1>1, <1>4, <2>1, <2>2, RecoverInv DEF LeaseFires, Expired, ShutdownTypeOK
  <2>3. CASE ~Expired(l)
    BY <1>1, <1>4, <2>1, <2>3, LateInv DEF LeaseFires, ShutdownTypeOK
  <2>4. QED BY <2>2, <2>3
<1>5. QED BY <1>2, <1>3, <1>4

LEMMA CommitInv == ASSUME CInv, NEW tk \in 1..MaxPrepares, Commit(tk) PROVE CInv'
<1> DEFINE new == [generation |-> generation, stage |-> "action"]
<1>1. /\ phase = "prepared" /\ phase' = "committing"
      /\ committing' = committing \cup {new}
      /\ UNCHANGED <<vars, token, generation, leaseId, leases, preparing, terminals, stopped, prepares, exited>>
  BY DEF Commit
<1>2. SInv' /\ UNCHANGED <<active, run, drivers, broken, reserved>>
  BY <1>1, StutterInv DEF CInv, vars, turnVars, driverVars, waitVars
<1>3. ShutdownTypeOK
  BY DEF CInv
<1>4. new \in Committing /\ new.generation = generation
  BY <1>3 DEF Committing, ShutdownTypeOK
<1> HIDE DEF new
<1>5. ShutdownTypeOK'
  BY <1>1, <1>2, <1>3, <1>4 DEF ShutdownTypeOK, SInv, Phases
<1>6. FlowsCounted' /\ IdleMeansRestored'
  BY <1>1, <1>2 DEF CInv, FlowsCounted, IdleMeansRestored
<1>7. LateOnesKnown'
  <2>1. \A k \in committing : k.generation # generation
    BY <1>1 DEF CInv, LateOnesKnown
  <2>2. \A p \in preparing : p.generation # generation
    BY <1>1 DEF CInv, LateOnesKnown
  <2>3. QED BY <1>1, <1>3, <1>4, <2>1, <2>2 DEF CInv, LateOnesKnown, ShutdownTypeOK
<1>8. LeaseIsCurrent'
  BY <1>1 DEF CInv, LeaseIsCurrent, Expired
<1>9. QuietWhileStopping' /\ DriversKnown'
  BY <1>1, <1>2 DEF CInv, QuietWhileStopping, DriversKnown, Plain, Alive, Routed
<1>10. QED BY <1>2, <1>5, <1>6, <1>7, <1>8, <1>9 DEF CInv

LEMMA CommitStepInv ==
  ASSUME CInv, NEW k \in committing, CommitActs(k) \/ CommitExits(k)
  PROVE  CInv'
<1>1. ShutdownTypeOK
  BY DEF CInv
<1>2. UNCHANGED <<leaseId, leases, preparing, prepares>> /\ exited' \in BOOLEAN
  BY <1>1 DEF CommitActs, CommitExits, ShutdownTypeOK
<1>3. CASE committing' = committing \ {k} /\ k.generation = generation /\ Recover /\ SessionsKept
  <2>1. phase # "idle"
    BY <1>3 DEF CInv, LateOnesKnown
  <2>2. QED BY <1>2, <1>3, <2>1, RecoverInv
<1>4. CASE committing' = committing \ {k} /\ UNCHANGED <<vars, phase, token, generation, terminals, stopped>>
  BY <1>2, <1>4, LateInv
<1>5. ASSUME committing' = (committing \ {k}) \cup {[k EXCEPT !.stage = "exit"]},
             UNCHANGED <<vars, phase, token, generation, terminals, stopped, exited>>
      PROVE  CInv'
  <2>1. PICK n : n = [k EXCEPT !.stage = "exit"]
    OBVIOUS
  <2>2. k \in Committing
    BY <1>1 DEF ShutdownTypeOK
  <2>3. n \in Committing /\ n.generation = k.generation
    BY <2>1, <2>2 DEF Committing
  <2>4. committing' = (committing \ {k}) \cup {n}
    BY <1>5, <2>1
  <2>5. SInv' /\ UNCHANGED <<active, run, drivers, broken, reserved>>
    BY <1>5, StutterInv DEF CInv, vars, turnVars, driverVars, waitVars
  <2>6. ShutdownTypeOK'
    BY <1>1, <1>2, <1>5, <2>3, <2>4, <2>5 DEF ShutdownTypeOK, SInv
  <2>7. FlowsCounted' /\ IdleMeansRestored'
    BY <1>2, <1>5, <2>5 DEF CInv, FlowsCounted, IdleMeansRestored
  <2>8. LateOnesKnown'
    BY <1>2, <1>5, <2>3, <2>4 DEF CInv, LateOnesKnown
  <2>9. LeaseIsCurrent'
    BY <1>2, <1>5 DEF CInv, LeaseIsCurrent, Expired
  <2>10. QuietWhileStopping' /\ DriversKnown'
    BY <1>2, <1>5, <2>5 DEF CInv, QuietWhileStopping, DriversKnown, Plain, Alive, Routed
  <2>11. QED BY <2>5, <2>6, <2>7, <2>8, <2>9, <2>10 DEF CInv
<1>6. QED BY <1>3, <1>4, <1>5 DEF CommitActs, CommitExits

LEMMA CoordinatorInv == CInv /\ CoordinatorNext => CInv'
  BY PrepareInv, PrepareSettlesInv, ForceInv, RecoveriesInv, CommitInv, CommitStepInv DEF CoordinatorNext

-----------------------------------------------------------------------------
(* What the sessions do while a flow is under way *)

LEMMA TurnsKeepDrivers == TurnsNext => UNCHANGED driverVars
<1>1. ASSUME NEW s \in Sessions, SessionNext(s) PROVE UNCHANGED driverVars
  BY <1>1 DEF SessionNext, StartTurn, Opened, TokenRefreshed, FailStart, Launch, Stop, RetryConnection,
     SetStatus, Ages, WaitSettles, Resolve, ResolveDecides, ResolveEnds, Restore, RestoreEnds, MarkWorking, MarkEnds,
     Undo, UndoEnds, SwitchBranch, SwitchEnds
<1>2. ASSUME NEW r \in Retries, RetryOpened(r) \/ RetryAttached(r) PROVE UNCHANGED driverVars
  BY <1>2 DEF RetryOpened, RetryAttached
<1>3. ASSUME NEW t \in Turns, TurnNext(t) PROVE UNCHANGED driverVars
  BY <1>3 DEF TurnNext, TurnEnds, TurnGoesOn, Ask, AskSettled, Claim, ReleaseClaim
<1>4. QED BY <1>1, <1>2, <1>3 DEF TurnsNext

\* What a step may do to a turn: nothing, end or interrupt it,
Calms(t) ==
    /\ run'[t].session = run[t].session /\ run'[t].gen = run[t].gen
    /\ Alive(t)' => Alive(t)
    /\ active'[t] \in {active[t], NoSession}
    /\ run'[t].state = "stopping" => run[t].state = "stopping" \/ active'[t] = NoSession
    /\ active'[t] # NoSession => Alive(t)' = Alive(t)

\* or put it on the drivers of the moment, which no flow is stopping.
Begins(t) ==
    /\ phase = "idle"
    /\ run'[t].gen = drivers /\ Alive(t)'
    /\ run'[t].state = "stopping" => active'[t] = NoSession

LEMMA LaunchBegins ==
  ASSUME CInv, NEW s \in Sessions, NEW u \in Turns, NEW gen \in 0..MaxDrivers, Launch(s, u, gen),
         s \in SlowStart \/ (~reserved /\ gen = drivers), NEW t \in Turns, Plain(t)'
  PROVE  (Plain(t) /\ Calms(t)) \/ Begins(t)
<1>1. TypeOK /\ SInv
  BY DEF CInv, SInv
<1>2. PICK st \in {"running", "stopping"} :
          /\ run' = [run EXCEPT ![u] = [state |-> st, session |-> s, gen |-> gen]]
          /\ st = "stopping" => active' = active
  BY DEF Launch
<1>3. active' \in {active, [active EXCEPT ![u] = s]}
  BY DEF Launch
<1>4. CASE t # u
  <2>1. run'[t] = run[t] /\ active'[t] = active[t]
    BY <1>1, <1>2, <1>3, <1>4 DEF TypeOK
  <2>2. QED BY <2>1 DEF Calms, Alive, Plain
<1>5. CASE t = u
  <2>1. run'[t].state = st /\ run'[t].session = s /\ run'[t].gen = gen
    BY <1>1, <1>2, <1>5 DEF TypeOK
  <2>2. ~reserved /\ gen = drivers
    BY <2>1 DEF Plain
  <2>3. phase = "idle"
    BY <2>2 DEF CInv, IdleMeansRestored
  <2>4. active[t] = NoSession
    BY <1>1, <1>5, Constants DEF Launch, SInv, TurnInv, ActiveRuns
  <2>5. QED BY <1>2, <2>1, <2>2, <2>3, <2>4 DEF Begins, Alive
<1>6. QED BY <1>4, <1>5

LEMMA TurnSteps ==
  ASSUME CInv, TurnsNext, NEW t \in Turns, Plain(t)'
  PROVE  (Plain(t) /\ Calms(t)) \/ Begins(t)
<1>0. TypeOK /\ SInv
  BY DEF CInv, SInv
<1>1. CASE UNCHANGED <<active, run>>
  BY <1>1 DEF Calms, Alive, Plain
<1>2. ASSUME NEW s \in Sessions, SessionNext(s)
      PROVE  (Plain(t) /\ Calms(t)) \/ Begins(t)
  <2>1. CASE Opened(s)
    <3>1. drivers \in 0..MaxDrivers
      BY <1>0 DEF TypeOK
    <3>2. CASE \E u \in Turns : Launch(s, u, drivers) /\ ~Refused
      BY <3>1, <3>2, LaunchBegins DEF Refused
    <3>3. QED BY <1>1, <2>1, <3>2 DEF Opened, FailStart, turnVars
  <2>2. CASE TokenRefreshed(s)
    <3>1. start[s].gen \in 0..MaxDrivers
      BY <1>0 DEF TypeOK, Start
    <3>2. CASE s \in SlowStart /\ \E u \in Turns : Launch(s, u, start[s].gen)
      BY <3>1, <3>2, LaunchBegins
    <3>3. s \in SlowStart
      BY <1>0, <2>2 DEF TokenRefreshed, SInv, TurnInv, StartsClean
    <3>4. QED BY <1>1, <2>2, <3>2, <3>3 DEF TokenRefreshed, FailStart, turnVars
  <2>3. CASE Stop(s)
    <3>1. CASE Interrupt(TurnsOf(s))
      <4>1. TurnsOf(s) \in SUBSET Turns
        BY DEF TurnsOf
      <4>2. active'[t] = IF t \in TurnsOf(s) THEN NoSession ELSE active[t]
        BY <3>1 DEF Interrupt
      <4>3. run'[t] = run[t] \/ (t \in TurnsOf(s) /\ run[t].state = "running" /\ run'[t] = [run[t] EXCEPT !.state = "stopping"])
        BY <3>1 DEF Interrupt
      <4>4. CASE run'[t] = run[t]
        BY <4>2, <4>4 DEF Calms, Alive, Plain
      <4>5. CASE t \in TurnsOf(s) /\ run[t].state = "running" /\ run'[t] = [run[t] EXCEPT !.state = "stopping"]
        <5>1. run'[t].session = run[t].session /\ run'[t].gen = run[t].gen /\ run'[t].state = "stopping"
          <6>1. run[t] \in Run
            BY <1>0 DEF TypeOK
          <6>2. QED BY <4>5, <6>1 DEF Run
        <5>2. QED BY <4>2, <4>5, <5>1 DEF Calms, Alive, Plain
      <4>6. QED BY <4>3, <4>4, <4>5
    <3>2. QED BY <1>1, <2>3, <3>1 DEF Stop, turnVars
  <2>4. CASE \/ StartTurn(s) \/ (\E r \in Retries : RetryConnection(r, s))
             \/ (\E v \in Statuses : SetStatus(s, v)) \/ Ages(s) \/ WaitSettles(s)
             \/ Resolve(s) \/ ResolveDecides(s) \/ ResolveEnds(s)
             \/ Restore(s) \/ RestoreEnds(s) \/ MarkWorking(s) \/ MarkEnds(s)
             \/ Undo(s) \/ UndoEnds(s) \/ SwitchBranch(s) \/ SwitchEnds(s)
    BY <1>1, <2>4 DEF StartTurn, RetryConnection, SetStatus, Ages, WaitSettles, Resolve, ResolveDecides, ResolveEnds, Restore, RestoreEnds, MarkWorking,
       MarkEnds, Undo, UndoEnds, SwitchBranch, SwitchEnds, turnVars
  <2>5. QED BY <1>2, <2>1, <2>2, <2>3, <2>4 DEF SessionNext
<1>3. ASSUME NEW r \in Retries, RetryOpened(r) \/ RetryAttached(r)
      PROVE  (Plain(t) /\ Calms(t)) \/ Begins(t)
  <2>1. CASE RetryAttached(r) /\ \E u \in Turns :
                /\ run' = [run EXCEPT ![u] = [state |-> "running", session |-> retry[r].session, gen |-> retry[r].gen]]
                /\ active' = [active EXCEPT ![u] = retry[r].session]
    <3>1. retry[r].session \in Opencode
      BY <1>0, <2>1, Constants DEF RetryAttached, SInv, TurnInv, RetriesKnown, NoRetry
    <3>2. PICK u \in Turns :
                /\ run' = [run EXCEPT ![u] = [state |-> "running", session |-> retry[r].session, gen |-> retry[r].gen]]
                /\ active' = [active EXCEPT ![u] = retry[r].session]
      BY <2>1
    <3>3. run'[u].session = retry[r].session
      BY <1>0, <3>2 DEF TypeOK
    <3>4. t # u
      BY <3>1, <3>3 DEF Plain
    <3>5. run'[t] = run[t] /\ active'[t] = active[t]
      BY <1>0, <3>2, <3>4 DEF TypeOK
    <3>6. QED BY <3>5 DEF Calms, Alive, Plain
  <2>2. QED BY <1>1, <1>3, <2>1 DEF RetryOpened, RetryAttached, turnVars
<1>4. ASSUME NEW u \in Turns, TurnNext(u)
      PROVE  (Plain(t) /\ Calms(t)) \/ Begins(t)
  <2>1. CASE TurnEnds(u)
    <3>1. run' = [run EXCEPT ![u].state = "gone"]
      BY <2>1 DEF TurnEnds, Over
    <3>2. /\ run'[t].session = run[t].session /\ run'[t].gen = run[t].gen
          /\ run'[t].state = IF t = u THEN "gone" ELSE run[t].state
      <4>1. run[t] \in Run
        BY <1>0 DEF TypeOK
      <4>2. CASE t = u
        BY <1>0, <3>1, <4>1, <4>2 DEF TypeOK, Run
      <4>3. CASE t # u
        BY <1>0, <3>1, <4>3 DEF TypeOK
      <4>4. QED BY <4>2, <4>3
    <3>3. \/ active' = [active EXCEPT ![u] = NoSession]
          \/ active' = active /\ (~Routed(u) \/ run[u].state = "stopping") /\ Alive(u)
      BY <2>1 DEF TurnEnds, Done, Errored
    <3>4. Plain(t)
      BY <3>2 DEF Plain
    <3>5. t = u => active'[t] = NoSession
      BY <1>0, <3>3, <3>4 DEF CInv, DriversKnown, TypeOK
    <3>6. active'[t] \in {active[t], NoSession} /\ (t # u => active'[t] = active[t])
      BY <1>0, <3>3 DEF TypeOK
    <3>7. QED BY <3>2, <3>4, <3>5, <3>6 DEF Calms, Alive
  <2>2. QED BY <1>1, <1>4, <2>1 DEF TurnNext, TurnGoesOn, Ask, AskSettled, Claim, ReleaseClaim, turnVars
<1>5. QED BY <1>2, <1>3, <1>4 DEF TurnsNext

LEMMA TurnsInv == ASSUME CInv, TurnsNext, UNCHANGED coordVars PROVE CInv'
<1>1. SInv'
  BY TurnsStep DEF CInv
<1>2. UNCHANGED <<drivers, broken, reserved>>
  BY TurnsKeepDrivers DEF driverVars, waitVars
<1>3. UNCHANGED <<phase, token, generation, leaseId, leases, preparing, committing, terminals, stopped, prepares, exited>>
  BY DEF coordVars
<1>4. ShutdownTypeOK'
  BY <1>1, <1>3 DEF CInv, ShutdownTypeOK, SInv
<1>5. IdleMeansRestored' /\ FlowsCounted' /\ LateOnesKnown' /\ LeaseIsCurrent'
  BY <1>2, <1>3 DEF CInv, IdleMeansRestored, FlowsCounted, LateOnesKnown, LeaseIsCurrent, Expired
<1>6. ASSUME NEW t \in Turns, Plain(t)'
      PROVE  /\ phase' # "idle" => active'[t] = NoSession
             /\ phase' \in {"prepared", "committing"} => ~Alive(t)'
             /\ Alive(t)' => Routed(t)'
             /\ run'[t].state = "stopping" => active'[t] = NoSession
             /\ active'[t] # NoSession => Alive(t)'
             /\ \A p \in preparing' : p.generation = generation' /\ Alive(t)' => t \in p.waits
  <2>1. CASE Begins(t)
    <3>1. \A p \in preparing' : p.generation # generation'
      BY <1>3, <2>1 DEF CInv, LateOnesKnown, Begins
    <3>2. QED BY <1>2, <1>3, <2>1, <3>1 DEF Begins, Routed
  <2>2. CASE Plain(t) /\ Calms(t)
    <3>1. /\ phase # "idle" => active[t] = NoSession
          /\ phase \in {"prepared", "committing"} => ~Alive(t)
      BY <2>2 DEF CInv, QuietWhileStopping, Plain
    <3>2. /\ Alive(t) => Routed(t)
          /\ run[t].state = "stopping" => active[t] = NoSession
          /\ active[t] # NoSession => Alive(t)
          /\ \A p \in preparing : p.generation = generation /\ Alive(t) => t \in p.waits
      BY <2>2 DEF CInv, DriversKnown
    <3>3. QED BY <1>2, <1>3, <2>2, <3>1, <3>2 DEF Calms, Routed
  <2>3. QED BY <1>6, <2>1, <2>2, TurnSteps
<1>7. QuietWhileStopping' /\ DriversKnown'
  BY <1>6 DEF QuietWhileStopping, DriversKnown, Plain
<1>8. QED BY <1>1, <1>4, <1>5, <1>7 DEF CInv

-----------------------------------------------------------------------------
(* The theorems *)

LEMMA CoordStep == CInv /\ [ShutdownNext]_allVars => CInv'
<1> SUFFICES ASSUME CInv, [ShutdownNext]_allVars PROVE CInv'
  OBVIOUS
<1>1. CASE ShutdownNext
  BY <1>1, CoordinatorInv, TurnsInv DEF ShutdownNext
<1>2. CASE UNCHANGED allVars
  <2>1. UNCHANGED <<vars, phase, token, generation, leaseId, leases, preparing, committing, terminals, stopped, prepares, exited>>
    BY <1>2 DEF allVars, coordVars
  <2>2. exited' \in BOOLEAN
    BY <2>1 DEF CInv, ShutdownTypeOK
  <2>3. QED BY <2>1, <2>2, LateInv
<1>3. QED BY <1>1, <1>2

LEMMA CoordInvariant == ShutdownSpec => []CInv
  BY CoordInit, CoordStep, PTL DEF ShutdownSpec

\* Every variable of coordinator and sessions keeps its type.
THEOREM ShutdownTypes == ShutdownSpec => []ShutdownTypeOK
<1>1. CInv => ShutdownTypeOK
  BY DEF CInv
<1>2. QED BY <1>1, CoordInvariant, PTL

\* From the first interrupt to the end of a flow no plain session gets a turn,
\* and once the flow is prepared no driver runs anything for one.
THEOREM NoTurnSlipsIn == ShutdownSpec => []QuietWhileStopping
<1>1. CInv => QuietWhileStopping
  BY DEF CInv
<1>2. QED BY <1>1, CoordInvariant, PTL

\* Reservation, terminals, token and drivers are those of the phase, whatever
\* drivers, timers and commits of earlier flows still come to an end.
THEOREM Restored == ShutdownSpec => []IdleMeansRestored
<1>1. CInv => IdleMeansRestored
  BY DEF CInv
<1>2. QED BY <1>1, CoordInvariant, PTL

\* The drivers that run a plain session's turn are those the server listens to.
THEOREM Heard == ShutdownSpec => []TurnsAreHeard
<1>1. CInv => TurnsAreHeard
  <2> SUFFICES ASSUME CInv, NEW t \in Turns, run[t].session \notin SlowStart \cup Opencode, active[t] # NoSession
               PROVE  Alive(t) /\ Routed(t)
    BY DEF TurnsAreHeard, ListensTo
  <2>1. active[t] = run[t].session /\ active[t] \in Sessions
    BY DEF CInv, SInv, TypeOK, TurnInv, ActiveRuns
  <2>2. Plain(t)
    BY <2>1 DEF Plain
  <2>3. QED BY <2>2 DEF CInv, DriversKnown
<1>2. QED BY <1>1, CoordInvariant, PTL

\* Each recovery by a lease timer ends the token that timer was started for.
THEOREM LeasesEndTheirOwn == ShutdownSpec => LeaseEndsItsOwn
<1> DEFINE Own == \A l \in leases \ leases' :
                     phase' = "idle" /\ phase # "idle" => l.token = token /\ l.phase = phase
<1>1. CInv /\ [ShutdownNext]_allVars => Own
  <2> SUFFICES ASSUME CInv, [ShutdownNext]_allVars, NEW l \in leases \ leases', phase' = "idle", phase # "idle"
               PROVE  l.token = token /\ l.phase = phase
    OBVIOUS
  <2>1. CASE CoordinatorNext
    <3>1. ASSUME NEW m \in leases, LeaseFires(m)
          PROVE  Expired(l)
      BY <3>1 DEF LeaseFires
    <3>2. (\E m \in leases : LeaseFires(m)) \/ leases \subseteq leases'
      BY <2>1 DEF CoordinatorNext, Prepare, PrepareSettles, Prepared, ForceFlow, StartLease, Cancel, Commit, Abandon,
         CommitActs, CommitExits
    <3>3. Expired(l)
      BY <3>1, <3>2
    <3>4. QED BY <3>3 DEF CInv, LeaseIsCurrent
  <2>2. CASE UNCHANGED coordVars
    BY <2>2 DEF coordVars
  <2>3. QED BY <2>1, <2>2 DEF ShutdownNext, allVars
<1>2. QED BY <1>1, CoordInvariant, PTL DEF ShutdownSpec, LeaseEndsItsOwn

\* Only the end of a commit itself takes back what is being committed.
THEOREM CommitsAreFinal == ShutdownSpec => CommitIsFinal
<1> DEFINE Final == phase = "committing" /\ phase' # "committing" => committing' # committing
<1>1. CInv /\ [ShutdownNext]_allVars => Final
  <2> SUFFICES ASSUME CInv, [ShutdownNext]_allVars, phase = "committing", phase' # "committing"
               PROVE  committing' # committing
    OBVIOUS
  <2>1. CASE CoordinatorNext
    <3>1. PICK k \in committing : CommitActs(k) \/ CommitExits(k)
      <4>1. \A p \in preparing : PrepareSettles(p) => FALSE
        BY DEF PrepareSettles, CInv, LateOnesKnown
      <4>2. \A l \in leases : LeaseFires(l) => FALSE
        BY DEF LeaseFires, Expired
      <4>3. QED BY <2>1, <4>1, <4>2 DEF CoordinatorNext, Prepare, ForceFlow, Cancel, Commit, Abandon
    <3>2. k \in committing /\ (k \notin committing' \/ phase' = phase)
      BY <3>1 DEF CommitActs, CommitExits
    <3>3. QED BY <3>2
  <2>2. CASE UNCHANGED coordVars
    BY <2>2 DEF coordVars
  <2>3. QED BY <2>1, <2>2 DEF ShutdownNext, allVars
<1>2. QED BY <1>1, CoordInvariant, PTL DEF ShutdownSpec, CommitIsFinal
=============================================================================
