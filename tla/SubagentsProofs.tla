--------------------------- MODULE SubagentsProofs ---------------------------
(***************************************************************************)
(* The safety properties of SubagentDelivery and of the updates it lives   *)
(* with, for every number of sessions, turns, updates and shutdowns.       *)
(***************************************************************************)
EXTENDS SubagentDelivery, TLAPS

USE UpdatesAssumption, DeliveryAssumption

-----------------------------------------------------------------------------
(* The invariant *)

\* Of two updates in the chain of one lock, one follows the other; who runs follows
\* nobody.
ChainsOrdered ==
    /\ \A g, h \in Harnesses :
         InChain(g) /\ InChain(h) /\ g # h /\ LockOf[g] = LockOf[h] => g \in ahead[h] \/ h \in ahead[g]
    /\ \A h \in Gated : ahead[h] = {}

GatedFree == \A s \in Sessions : turn[s] # "none" => HarnessOf[s] \notin Gated

\* What a wake tells is its own subagents' results, which nobody told yet and which are
\* not those of turns that still go on.
WakesKnown ==
    \A p \in Parents, c \in Children, n \in TurnNo : <<c, n>> \in wake[p] =>
        /\ ParentOf[c] = p /\ told[c][n] = 0
        /\ n <= asked[c] /\ (turn[c] # "none" => n # asked[c])

\* A turn that goes on has no result and none was told.
TurnsKnown ==
    \A c \in Children :
        /\ asked[c] <= starts
        /\ \A n \in TurnNo : told[c][n] # 0 => n <= asked[c] /\ (turn[c] # "none" => n # asked[c])
        /\ result[c].outcome # "none" =>
             result[c].turn <= asked[c] /\ (turn[c] # "none" => result[c].turn # asked[c])

\* A stop is kept as a hold, or as a request to the turn that is starting.
StopsKept == userStopped \subseteq held \cup stopAsked

\* Who is being woken is starting a turn.
WakesStart == \A p \in Parents : Waking(p) => turn[p] = "starting"

SubInv ==
    /\ SubagentsTypeOK /\ ChainsOrdered /\ GatedFree
    /\ ExactlyOnce /\ WakesKnown /\ TurnsKnown /\ StopsKept

LEMMA Constants ==
  /\ Parents \subseteq Sessions /\ Children \subseteq Sessions
  /\ \A p \in Parents : p \notin Children
  /\ \A c \in Children : ParentOf[c] \in Parents
  /\ \A s \in Sessions : About(s) \in Parents
  /\ NoResult \in Result /\ NoResult.outcome = "none"
BY DEF Sessions, About, NoResult, Result, Outcomes, TurnNo

LEMMA SubInit == SubagentsInit => SubInv
<1> SUFFICES ASSUME SubagentsInit PROVE SubInv
  OBVIOUS
<1> USE DEF SubagentsInit, UpdatesInit, DeliveryInit
<1>1. UpdatesTypeOK
  <2>1. update \in [Harnesses -> UpdateStage] /\ ahead \in [Harnesses -> SUBSET Harnesses]
    BY DEF UpdateStage
  <2>2. cancelled \subseteq Queued /\ updates \in 0..MaxUpdates
    OBVIOUS
  <2>3. QED BY <2>1, <2>2 DEF UpdatesTypeOK
<1>2. SubagentsTypeOK
  <2>1. turn \in [Sessions -> {"none", "starting", "active"}]
    OBVIOUS
  <2>2. asked \in [Children -> TurnNo] /\ result \in [Children -> Result]
    BY Constants DEF TurnNo
  <2>3. told \in [Children -> [TurnNo -> Nat]] /\ wake \in [Parents -> SUBSET (Children \X TurnNo)]
    OBVIOUS
  <2>4. starts \in 0..MaxStarts /\ shutdowns \in 0..MaxShutdowns
    OBVIOUS
  <2>5. QED BY <1>1, <2>1, <2>2, <2>3, <2>4 DEF SubagentsTypeOK
<1>3. Gated = {} /\ \A h \in Harnesses : ~InChain(h)
  BY DEF Gated, InChain
<1>4. ChainsOrdered /\ GatedFree
  BY <1>3 DEF ChainsOrdered, GatedFree
<1>5. ExactlyOnce /\ WakesKnown /\ TurnsKnown
  BY Constants DEF ExactlyOnce, WakesKnown, TurnsKnown
<1>6. StopsKept
  BY DEF StopsKept
<1>7. QED BY <1>2, <1>4, <1>5, <1>6 DEF SubInv

-----------------------------------------------------------------------------
(* Updates *)

LEMMA UpdateStepInv ==
  ASSUME SubInv, UpdateNext(Busy) \/ (\E h \in Harnesses : Ends(h)), reserved' = reserved
  PROVE  UpdatesTypeOK' /\ ChainsOrdered' /\ Gated' \subseteq Gated \cup (Harnesses \ Busy)
<1>1. UpdatesTypeOK /\ ChainsOrdered /\ update \in [Harnesses -> UpdateStage] /\ ahead \in [Harnesses -> SUBSET Harnesses]
  BY DEF SubInv, SubagentsTypeOK, UpdatesTypeOK
<1>2. PICK h \in Harnesses : \/ AskUpdate(h) \/ Planned(h) \/ PlanFails(h)
                             \/ Acquire(h, Busy) \/ Locked(h, Busy)
                             \/ CancelQueued({h}) \/ Ends(h)
  BY DEF UpdateNext
<1>3. ASSUME NEW stage \in UpdateStage, Stage(h, stage)
      PROVE  /\ update' \in [Harnesses -> UpdateStage] /\ update'[h] = stage
             /\ \A g \in Harnesses \ {h} : update'[g] = update[g]
  BY <1>1, <1>3 DEF Stage
<1>4. "none" \in UpdateStage /\ "planning" \in UpdateStage /\ "waiting" \in UpdateStage /\ "locking" \in UpdateStage
      /\ "running" \in UpdateStage
  BY DEF UpdateStage
<1>14. ASSUME ahead' \in [Harnesses -> SUBSET Harnesses], ~InChain(h)', h \notin Gated',
             \A g \in Harnesses \ {h} : ahead'[g] = ahead[g] \ {h} /\ update'[g] = update[g]
      PROVE  ChainsOrdered'
  <2>1. \A g \in Harnesses \ {h} : (InChain(g)' <=> InChain(g)) /\ (g \in Gated' <=> g \in Gated)
    BY <1>14 DEF InChain, Gated
  <2>2. ASSUME NEW f \in Harnesses, NEW g \in Harnesses, InChain(f)', InChain(g)', f # g, LockOf[f] = LockOf[g]
        PROVE  f \in ahead'[g] \/ g \in ahead'[f]
    <3>1. f # h /\ g # h
      BY <1>14, <2>2
    <3>2. f \in ahead[g] \/ g \in ahead[f]
      BY <1>1, <2>1, <2>2, <3>1 DEF ChainsOrdered
    <3>3. QED BY <1>14, <3>1, <3>2
  <2>3. ASSUME NEW g \in Gated'
        PROVE  ahead'[g] = {}
    <3>1. g \in Harnesses \ {h} /\ g \in Gated
      BY <1>14, <2>1, <2>3 DEF Gated
    <3>2. QED BY <1>1, <1>14, <3>1 DEF ChainsOrdered
  <2>4. QED BY <2>2, <2>3 DEF ChainsOrdered
<1>5. ASSUME Leave(h)
      PROVE  /\ ahead' \in [Harnesses -> SUBSET Harnesses]
             /\ \A g \in Harnesses \ {h} : ahead'[g] = ahead[g] \ {h}
  BY <1>1, <1>5 DEF Leave
<1>6. CASE AskUpdate(h)
  <2>1. /\ update[h] = "none" /\ Stage(h, "planning") /\ updates' \in 0..MaxUpdates /\ UNCHANGED <<cancelled, ahead>>
    BY <1>1, <1>6 DEF AskUpdate, UpdatesTypeOK
  <2>2. /\ update' \in [Harnesses -> UpdateStage] /\ update'[h] = "planning"
        /\ \A g \in Harnesses \ {h} : update'[g] = update[g]
    BY <1>3, <1>4, <2>1
  <2>3. QED BY <1>1, <2>1, <2>2 DEF UpdatesTypeOK, ChainsOrdered, InChain, Gated, Queued
<1>7. CASE Planned(h)
  <2>1. /\ update[h] = "planning" /\ Stage(h, "waiting") /\ cancelled' \subseteq cancelled \cup {h}
        /\ UNCHANGED <<ahead, updates>>
    BY <1>7 DEF Planned
  <2>2. /\ update' \in [Harnesses -> UpdateStage] /\ update'[h] = "waiting"
        /\ \A g \in Harnesses \ {h} : update'[g] = update[g]
    BY <1>3, <1>4, <2>1
  <2>3. QED BY <1>1, <2>1, <2>2 DEF UpdatesTypeOK, ChainsOrdered, InChain, Gated, Queued
<1>8. CASE PlanFails(h)
  <2>1. update[h] = "planning" /\ Stage(h, "none") /\ UNCHANGED <<cancelled, ahead, updates>>
    BY <1>8 DEF PlanFails
  <2>2. /\ update' \in [Harnesses -> UpdateStage] /\ update'[h] = "none"
        /\ \A g \in Harnesses \ {h} : update'[g] = update[g]
    BY <1>3, <1>4, <2>1
  <2>3. QED BY <1>1, <2>1, <2>2 DEF UpdatesTypeOK, ChainsOrdered, InChain, Gated, Queued
<1>9. CASE Acquire(h, Busy)
  <2>1. /\ update[h] = "waiting" /\ Stage(h, "locking") /\ UNCHANGED <<cancelled, updates>>
        /\ ahead' = [ahead EXCEPT ![h] = {g \in Harnesses : InChain(g) /\ LockOf[g] = LockOf[h]}]
    BY <1>9 DEF Acquire, Enter
  <2>2. /\ update' \in [Harnesses -> UpdateStage] /\ update'[h] = "locking"
        /\ \A g \in Harnesses \ {h} : update'[g] = update[g]
    BY <1>3, <1>4, <2>1
  <2>3. /\ ahead' \in [Harnesses -> SUBSET Harnesses]
        /\ ahead'[h] = {g \in Harnesses : InChain(g) /\ LockOf[g] = LockOf[h]}
        /\ \A g \in Harnesses \ {h} : ahead'[g] = ahead[g]
    BY <1>1, <2>1
  <2>4. UpdatesTypeOK' /\ Gated' = Gated /\ h \notin Gated
    BY <1>1, <2>1, <2>2, <2>3 DEF UpdatesTypeOK, Queued, Gated
  <2>5. \A g \in Harnesses \ {h} : InChain(g)' <=> InChain(g)
    BY <2>2 DEF InChain
  <2>6. ASSUME NEW f \in Harnesses, NEW g \in Harnesses, InChain(f)', InChain(g)', f # g, LockOf[f] = LockOf[g]
        PROVE  f \in ahead'[g] \/ g \in ahead'[f]
    BY <1>1, <2>3, <2>5, <2>6 DEF ChainsOrdered
  <2>7. \A g \in Gated' : ahead'[g] = {}
    BY <1>1, <2>3, <2>4 DEF ChainsOrdered, Gated
  <2>8. QED BY <2>4, <2>6, <2>7 DEF ChainsOrdered
<1>10. CASE Locked(h, Busy)
  <2>1. HasLock(h) /\ h \notin cancelled /\ UNCHANGED <<cancelled, updates>>
    BY <1>10 DEF Locked
  <2>2. CASE h \notin Busy /\ Stage(h, "running") /\ UNCHANGED ahead
    <3>1. /\ update' \in [Harnesses -> UpdateStage] /\ update'[h] = "running"
          /\ \A g \in Harnesses \ {h} : update'[g] = update[g]
      BY <1>3, <1>4, <2>2
    <3>2. \A g \in Harnesses : InChain(g)' <=> InChain(g)
      BY <2>1, <3>1 DEF InChain, HasLock
    <3>3. Gated' = Gated \cup {h}
      BY <3>1 DEF Gated
    <3>4. UpdatesTypeOK'
      BY <1>1, <2>1, <2>2, <3>1 DEF UpdatesTypeOK, Queued
    <3>5. ChainsOrdered'
      BY <1>1, <2>1, <2>2, <3>2, <3>3 DEF ChainsOrdered, HasLock
    <3>6. QED BY <2>2, <3>3, <3>4, <3>5
  <2>3. CASE Stage(h, "waiting") /\ Leave(h)
    <3>1. /\ update' \in [Harnesses -> UpdateStage] /\ update'[h] = "waiting"
          /\ \A g \in Harnesses \ {h} : update'[g] = update[g]
      BY <1>3, <1>4, <2>3
    <3>2. UpdatesTypeOK' /\ Gated' = Gated \ {h}
      BY <1>1, <1>5, <2>1, <2>3, <3>1 DEF UpdatesTypeOK, Queued, Gated
    <3>3. ~InChain(h)' /\ h \notin Gated'
      BY <3>1 DEF InChain, Gated
    <3>4. ChainsOrdered'
      BY <1>14, <1>5, <2>3, <3>1, <3>3
    <3>5. QED BY <3>2, <3>4
  <2>4. QED BY <1>10, <2>2, <2>3 DEF Locked
<1>11. CASE CancelQueued({h})
  <2>1. UNCHANGED <<update, ahead, updates>> /\ cancelled' \subseteq cancelled \cup Queued
    BY <1>11 DEF CancelQueued
  <2>2. QED BY <1>1, <2>1 DEF UpdatesTypeOK, Queued, ChainsOrdered, InChain, Gated
<1>12. CASE Ends(h)
  <2>1. Stage(h, "none") /\ Leave(h) /\ cancelled' = cancelled \ {h} /\ UNCHANGED updates
    BY <1>12 DEF Ends
  <2>2. /\ update' \in [Harnesses -> UpdateStage] /\ update'[h] = "none"
        /\ \A g \in Harnesses \ {h} : update'[g] = update[g]
    BY <1>3, <1>4, <2>1
  <2>3. UpdatesTypeOK' /\ Gated' = Gated \ {h}
    BY <1>1, <1>5, <2>1, <2>2 DEF UpdatesTypeOK, Queued, Gated
  <2>4. ~InChain(h)' /\ h \notin Gated'
    BY <2>2 DEF InChain, Gated
  <2>5. ChainsOrdered'
    BY <1>14, <1>5, <2>1, <2>2, <2>4
  <2>6. QED BY <2>3, <2>5
<1>13. QED BY <1>2, <1>6, <1>7, <1>8, <1>9, <1>10, <1>11, <1>12

\* A step that is not of an update leaves the updates alone.
LEMMA UpdatesStay ==
  ASSUME SubInv, UNCHANGED updateVars, reserved' \in BOOLEAN
  PROVE  UpdatesTypeOK' /\ ChainsOrdered' /\ Gated' = Gated
<1>1. UpdatesTypeOK /\ ChainsOrdered
  BY DEF SubInv, SubagentsTypeOK
<1>2. QED BY <1>1 DEF updateVars, UpdatesTypeOK, ChainsOrdered, InChain, Gated, Queued

\* Turns start only where assertCanStartTurn lets them.
LEMMA GateKept ==
  ASSUME SubInv, UNCHANGED updateVars,
         \A s \in Sessions : turn'[s] # "none" => turn[s] # "none" \/ CanStart(s)
  PROVE  GatedFree'
BY DEF SubInv, GatedFree, CanStart, updateVars, Gated

-----------------------------------------------------------------------------
(* Results *)

\* A step that tells nobody anything: results may go, and the end of a turn makes one.
LEMMA ResultsInv ==
  ASSUME SubInv, SubagentsTypeOK', told' = told, asked' = asked, starts' = starts,
         \A p \in Parents : wake'[p] \subseteq wake[p],
         \A c \in Children : turn'[c] # "none" => turn[c] # "none",
         \A c \in Children :
           \/ result'[c] = result[c]
           \/ result'[c].outcome = "none"
           \/ /\ turn[c] # "none" /\ turn'[c] = "none"
              /\ result'[c].turn = asked[c] /\ ~result'[c].delivered
  PROVE  ExactlyOnce' /\ WakesKnown' /\ TurnsKnown'
<1>1. SubagentsTypeOK /\ ExactlyOnce /\ WakesKnown /\ TurnsKnown
  BY DEF SubInv
<1>2. WakesKnown'
  BY <1>1 DEF WakesKnown
<1>3. TurnsKnown'
  BY <1>1 DEF TurnsKnown, SubagentsTypeOK, TurnNo
<1>4. ASSUME NEW c \in Children
      PROVE  /\ \A n \in TurnNo : told'[c][n] <= 1
             /\ result'[c].outcome # "none" => (result'[c].delivered <=> told'[c][result'[c].turn] = 1)
  <2>1. \A n \in TurnNo : told'[c][n] <= 1
    BY <1>1 DEF ExactlyOnce
  <2>2. CASE result'[c] = result[c]
    BY <1>1, <2>1, <2>2 DEF ExactlyOnce
  <2>3. CASE result'[c].outcome = "none"
    BY <2>1, <2>3
  <2>4. CASE /\ turn[c] # "none" /\ turn'[c] = "none"
             /\ result'[c].turn = asked[c] /\ ~result'[c].delivered
    <3>1. asked[c] \in TurnNo
      BY <1>1 DEF SubagentsTypeOK
    <3>2. told[c][asked[c]] = 0
      BY <1>1, <2>4, <3>1 DEF TurnsKnown
    <3>3. QED BY <2>1, <2>4, <3>2
  <2>5. QED BY <2>2, <2>3, <2>4
<1>5. ExactlyOnce'
  BY <1>4 DEF ExactlyOnce
<1>6. QED BY <1>2, <1>3, <1>5

LEMMA Interruptions ==
  ASSUME SubInv, NEW ss \in SUBSET {s \in Sessions : turn[s] = "active"}, Interrupted(ss)
  PROVE  /\ turn' \in [Sessions -> {"none", "starting", "active"}]
         /\ result' \in [Children -> Result]
         /\ \A s \in Sessions : turn'[s] # "none" => turn[s] # "none"
         /\ \A s \in Sessions : turn[s] = "starting" => turn'[s] = "starting"
         /\ \A c \in Children :
              \/ result'[c] = result[c]
              \/ /\ turn[c] # "none" /\ turn'[c] = "none"
                 /\ result'[c].turn = asked[c] /\ ~result'[c].delivered
<1>1. SubagentsTypeOK
  BY DEF SubInv
<1>2. \A s \in Sessions : turn'[s] = IF s \in ss THEN "none" ELSE turn[s]
  BY DEF Interrupted
<1>3. \A c \in Children :
        /\ c \in ss => result'[c] = [turn |-> asked[c], outcome |-> "interrupted", delivered |-> FALSE]
        /\ c \notin ss => result'[c] = result[c]
  BY DEF Interrupted
<1>4. turn' \in [Sessions -> {"none", "starting", "active"}]
  BY <1>1 DEF Interrupted, SubagentsTypeOK
<1>5. \A c \in Children : [turn |-> asked[c], outcome |-> "interrupted", delivered |-> FALSE] \in Result
  BY <1>1 DEF SubagentsTypeOK, Result, Outcomes
<1>6. result' \in [Children -> Result]
  BY <1>1, <1>5 DEF Interrupted, SubagentsTypeOK
<1>7. \A s \in ss : turn[s] = "active"
  OBVIOUS
<1>8. QED BY <1>2, <1>3, <1>4, <1>6, <1>7, Constants

-----------------------------------------------------------------------------
(* Steps of turns *)

LEMMA StartTurnInv ==
  ASSUME SubInv, NEW s \in Sessions, StartTurn(s), UNCHANGED <<updateVars, reserved>>
  PROVE  SubInv'
<1>1. SubagentsTypeOK /\ ExactlyOnce /\ WakesKnown /\ TurnsKnown /\ StopsKept
  BY DEF SubInv
<1>2. /\ CanStart(s) /\ starts < MaxStarts
      /\ turn' = [turn EXCEPT ![s] = "starting"] /\ starts' = starts + 1
      /\ due' \subseteq Parents
      /\ UNCHANGED <<stopAsked, closed, waits, result, wake, held, shutdowns, told, noticed, userStopped>>
  BY <1>1, Constants DEF StartTurn, Reevaluate, SubagentsTypeOK
<1>3. \A c \in Children :
        /\ asked'[c] \in TurnNo /\ asked[c] <= asked'[c] /\ asked'[c] <= starts'
        /\ turn'[c] # "none" /\ turn[c] = "none" => asked'[c] = asked[c] + 1
        /\ turn[c] # "none" => asked'[c] = asked[c]
  <2>1. \A c \in Children : asked[c] \in Nat /\ asked[c] <= starts /\ starts \in Nat
    BY <1>1 DEF SubagentsTypeOK, TurnNo, TurnsKnown
  <2>2. \A c \in Children : asked'[c] = IF c = s THEN asked[c] + 1 ELSE asked[c]
    BY DEF StartTurn
  <2>3. turn[s] = "none"
    BY <1>2 DEF CanStart
  <2>4. \A c \in Children : c # s => turn'[c] = turn[c]
    BY <1>1, <1>2, Constants DEF SubagentsTypeOK
  <2>5. QED BY <1>2, <2>1, <2>2, <2>3, <2>4 DEF TurnNo
<1>4. asked' \in [Children -> TurnNo]
  BY <1>3 DEF StartTurn
<1>5. /\ turn' \in [Sessions -> {"none", "starting", "active"}]
      /\ turn[s] = "none" /\ \A t \in Sessions : turn'[t] # "none" => turn[t] # "none" \/ t = s
      /\ \A t \in Sessions : turn[t] = "starting" => turn'[t] = "starting"
  BY <1>1, <1>2 DEF SubagentsTypeOK, CanStart
<1>6. UpdatesTypeOK' /\ ChainsOrdered'
  BY <1>1, UpdatesStay DEF SubagentsTypeOK, UpdatesTypeOK
<1>7. starts' \in 0..MaxStarts
  BY <1>1, <1>2 DEF SubagentsTypeOK
<1>8. stopAsked' \subseteq {t \in Sessions : turn'[t] = "starting"}
  BY <1>1, <1>2, <1>5 DEF SubagentsTypeOK
<1>9. SubagentsTypeOK'
  BY <1>1, <1>2, <1>4, <1>5, <1>6, <1>7, <1>8 DEF SubagentsTypeOK
<1>10. GatedFree'
  BY <1>2, <1>5, GateKept DEF updateVars
<1>11. ExactlyOnce' /\ StopsKept'
  BY <1>1, <1>2 DEF ExactlyOnce, StopsKept
<1>12. \A c \in Children : turn'[c] # "none" => turn[c] # "none" \/ asked'[c] = asked[c] + 1
  BY <1>3
<1>13. \A c \in Children : asked[c] \in Nat /\ asked'[c] \in Nat
  BY <1>1, <1>3 DEF SubagentsTypeOK, TurnNo
<1>14. WakesKnown'
  <2> SUFFICES ASSUME NEW p \in Parents, NEW c \in Children, NEW n \in TurnNo, <<c, n>> \in wake'[p]
               PROVE  ParentOf[c] = p /\ told'[c][n] = 0 /\ n <= asked'[c] /\ (turn'[c] # "none" => n # asked'[c])
    BY DEF WakesKnown
  <2>1. ParentOf[c] = p /\ told[c][n] = 0 /\ n <= asked[c] /\ (turn[c] # "none" => n # asked[c])
    BY <1>1, <1>2 DEF WakesKnown
  <2>2. QED BY <1>2, <1>3, <1>12, <1>13, <2>1 DEF TurnNo
<1>15. TurnsKnown'
  <2> SUFFICES ASSUME NEW c \in Children
               PROVE  /\ asked'[c] <= starts'
                      /\ \A n \in TurnNo : told'[c][n] # 0 => n <= asked'[c] /\ (turn'[c] # "none" => n # asked'[c])
                      /\ result'[c].outcome # "none" =>
                           result'[c].turn <= asked'[c] /\ (turn'[c] # "none" => result'[c].turn # asked'[c])
    BY DEF TurnsKnown
  <2>1. /\ \A n \in TurnNo : told[c][n] # 0 => n <= asked[c] /\ (turn[c] # "none" => n # asked[c])
        /\ result[c].outcome # "none" =>
             result[c].turn <= asked[c] /\ (turn[c] # "none" => result[c].turn # asked[c])
    BY <1>1 DEF TurnsKnown
  <2>2. result[c].turn \in Nat
    BY <1>1 DEF SubagentsTypeOK, Result, TurnNo
  <2>3. \A n \in TurnNo : told'[c][n] # 0 => n <= asked'[c] /\ (turn'[c] # "none" => n # asked'[c])
    BY <1>2, <1>3, <1>12, <1>13, <2>1 DEF TurnNo
  <2>4. QED BY <1>2, <1>3, <1>12, <1>13, <2>1, <2>2, <2>3
<1>16. QED BY <1>6, <1>9, <1>10, <1>11, <1>14, <1>15 DEF SubInv

\* What remains to be shown of a step that starts no turn and tells nothing.
LEMMA QuietStep ==
  ASSUME SubInv, SubagentsTypeOK', StopsKept', UNCHANGED updateVars,
         told' = told, asked' = asked, starts' = starts,
         \A p \in Parents : wake'[p] \subseteq wake[p],
         \A s \in Sessions : turn'[s] # "none" => turn[s] # "none",
         \A c \in Children :
           \/ result'[c] = result[c]
           \/ result'[c].outcome = "none"
           \/ /\ turn[c] # "none" /\ turn'[c] = "none"
              /\ result'[c].turn = asked[c] /\ ~result'[c].delivered
  PROVE  SubInv'
<1>1. reserved' \in BOOLEAN
  BY DEF SubagentsTypeOK, UpdatesTypeOK
<1>2. ChainsOrdered'
  BY <1>1, UpdatesStay
<1>3. GatedFree'
  BY GateKept
<1>4. ExactlyOnce' /\ WakesKnown' /\ TurnsKnown'
  BY Constants, ResultsInv
<1>5. QED BY <1>2, <1>3, <1>4 DEF SubInv

\* The types of a step that leaves the updates and the counters alone.
LEMMA QuietTypes ==
  ASSUME SubInv, UNCHANGED <<updateVars, starts, asked, told>>, reserved' \in BOOLEAN,
         turn' \in [Sessions -> {"none", "starting", "active"}],
         result' \in [Children -> Result],
         wake' \in [Parents -> SUBSET (Children \X TurnNo)],
         stopAsked' \subseteq {s \in Sessions : turn'[s] = "starting"},
         closed' \subseteq Sessions, waits' \subseteq Parents, held' \subseteq Parents,
         due' \subseteq Parents, noticed' \subseteq Parents, userStopped' \subseteq Parents,
         shutdowns' \in 0..MaxShutdowns
  PROVE  SubagentsTypeOK'
<1>1. UpdatesTypeOK'
  BY UpdatesStay DEF updateVars
<1>2. SubagentsTypeOK
  BY DEF SubInv
<1>3. QED BY <1>1, <1>2 DEF SubagentsTypeOK

LEMMA LaunchInv ==
  ASSUME SubInv, NEW s \in Sessions, Launch(s), UNCHANGED <<updateVars, reserved>>
  PROVE  SubInv'
<1>1. SubagentsTypeOK /\ StopsKept /\ reserved \in BOOLEAN
  BY DEF SubInv, SubagentsTypeOK, UpdatesTypeOK
<1>2. /\ turn[s] = "starting"
      /\ turn' = [turn EXCEPT ![s] = IF s \in stopAsked THEN "none" ELSE "active"]
      /\ waits' = waits \ {s} /\ stopAsked' = stopAsked \ {s}
      /\ UNCHANGED <<starts, asked, closed, wake, shutdowns, told, noticed>>
  BY DEF Launch
<1>3. due' \subseteq Parents
  BY <1>1, Constants DEF Launch, Reevaluate, SubagentsTypeOK
<1>4. /\ turn' \in [Sessions -> {"none", "starting", "active"}]
      /\ turn'[s] = IF s \in stopAsked THEN "none" ELSE "active"
      /\ \A t \in Sessions : t # s => turn'[t] = turn[t]
  BY <1>1, <1>2 DEF SubagentsTypeOK
<1>5. \A c \in Children : [turn |-> asked[c], outcome |-> "interrupted", delivered |-> FALSE] \in Result
  BY <1>1 DEF SubagentsTypeOK, Result, Outcomes
<1>6. result' = [c \in Children |->
                   IF c # s THEN result[c]
                   ELSE IF s \in stopAsked THEN [turn |-> asked[c], outcome |-> "interrupted", delivered |-> FALSE]
                   ELSE NoResult]
  BY DEF Launch
<1>7. result' \in [Children -> Result]
  BY <1>1, <1>5, <1>6, Constants DEF SubagentsTypeOK
<1>8. ASSUME NEW c \in Children
      PROVE  \/ result'[c] = result[c]
             \/ result'[c].outcome = "none"
             \/ /\ turn[c] # "none" /\ turn'[c] = "none"
                /\ result'[c].turn = asked[c] /\ ~result'[c].delivered
  <2>1. CASE c # s
    BY <1>6, <2>1
  <2>2. CASE c = s /\ s \in stopAsked
    BY <1>2, <1>4, <1>6, <2>2
  <2>3. CASE c = s /\ s \notin stopAsked
    BY <1>6, <2>3, Constants
  <2>4. QED BY <2>1, <2>2, <2>3
<1>9. stopAsked' \subseteq {t \in Sessions : turn'[t] = "starting"}
  BY <1>1, <1>2, <1>4 DEF SubagentsTypeOK
<1>10. held' \subseteq Parents /\ userStopped' \subseteq Parents /\ StopsKept'
  <2>1. held' = (IF s \in Children THEN held ELSE IF s \in stopAsked THEN held \cup {s} ELSE held \ {s})
        /\ userStopped' = (IF s \in stopAsked THEN userStopped ELSE userStopped \ {s})
    BY DEF Launch
  <2>2. userStopped \subseteq Parents /\ held \subseteq Parents /\ userStopped \subseteq held \cup stopAsked
    BY <1>1 DEF SubagentsTypeOK, StopsKept
  <2>3. QED BY <1>2, <2>1, <2>2, Constants DEF Sessions, StopsKept
<1>11. waits' \subseteq Parents /\ wake' \in [Parents -> SUBSET (Children \X TurnNo)]
       /\ closed' \subseteq Sessions /\ noticed' \subseteq Parents /\ shutdowns' \in 0..MaxShutdowns
  BY <1>1, <1>2 DEF SubagentsTypeOK
<1>12. SubagentsTypeOK'
  BY <1>1, <1>2, <1>3, <1>4, <1>7, <1>9, <1>10, <1>11, QuietTypes
<1>13. \A t \in Sessions : turn'[t] # "none" => turn[t] # "none"
  BY <1>2, <1>4
<1>14. QED BY <1>2, <1>8, <1>10, <1>12, <1>13, QuietStep

LEMMA StartFailsInv ==
  ASSUME SubInv, NEW s \in Sessions, StartFails(s), UNCHANGED <<updateVars, reserved>>
  PROVE  SubInv'
<1>1. SubagentsTypeOK /\ StopsKept /\ reserved \in BOOLEAN
  BY DEF SubInv, SubagentsTypeOK, UpdatesTypeOK
<1>2. /\ turn[s] = "starting" /\ turn' = [turn EXCEPT ![s] = "none"]
      /\ held' = (IF s \in Parents \cap stopAsked THEN held \cup {s} ELSE held)
      /\ stopAsked' = stopAsked \ {s}
      /\ UNCHANGED <<starts, asked, closed, waits, result, wake, shutdowns, told, noticed, userStopped>>
  BY DEF StartFails
<1>3. due' \subseteq Parents
  BY <1>1, Constants DEF StartFails, Reevaluate, SubagentsTypeOK
<1>4. /\ turn' \in [Sessions -> {"none", "starting", "active"}] /\ turn'[s] = "none"
      /\ \A t \in Sessions : t # s => turn'[t] = turn[t]
  BY <1>1, <1>2 DEF SubagentsTypeOK
<1>5. stopAsked' \subseteq {t \in Sessions : turn'[t] = "starting"}
  BY <1>1, <1>2, <1>4 DEF SubagentsTypeOK
<1>6. held' \subseteq Parents /\ StopsKept'
  BY <1>1, <1>2 DEF SubagentsTypeOK, StopsKept
<1>7. SubagentsTypeOK'
  BY <1>1, <1>2, <1>3, <1>4, <1>5, <1>6, QuietTypes DEF SubagentsTypeOK
<1>8. QED BY <1>2, <1>4, <1>6, <1>7, QuietStep

LEMMA TurnEndsInv ==
  ASSUME SubInv, NEW s \in Sessions, NEW failed \in BOOLEAN, TurnEnds(s, failed),
         UNCHANGED <<updateVars, reserved>>
  PROVE  SubInv'
<1>1. SubagentsTypeOK /\ StopsKept /\ reserved \in BOOLEAN
  BY DEF SubInv, SubagentsTypeOK, UpdatesTypeOK
<1>2. /\ turn[s] = "active" /\ turn' = [turn EXCEPT ![s] = "none"]
      /\ result' = [c \in Children |->
                      IF c = s THEN [turn |-> asked[c], outcome |-> "done", delivered |-> FALSE] ELSE result[c]]
      /\ UNCHANGED <<starts, asked, stopAsked, closed, wake, held, shutdowns, told, noticed, userStopped>>
  BY DEF TurnEnds
<1>3. due' \subseteq Parents /\ waits' \subseteq Parents
  BY <1>1, Constants DEF TurnEnds, Reevaluate, SubagentsTypeOK
<1>4. /\ turn' \in [Sessions -> {"none", "starting", "active"}] /\ turn'[s] = "none"
      /\ \A t \in Sessions : t # s => turn'[t] = turn[t]
  BY <1>1, <1>2 DEF SubagentsTypeOK
<1>5. stopAsked' \subseteq {t \in Sessions : turn'[t] = "starting"}
  BY <1>1, <1>2, <1>4 DEF SubagentsTypeOK
<1>6. \A c \in Children : [turn |-> asked[c], outcome |-> "done", delivered |-> FALSE] \in Result
  BY <1>1 DEF SubagentsTypeOK, Result, Outcomes
<1>7. result' \in [Children -> Result]
  BY <1>1, <1>2, <1>6 DEF SubagentsTypeOK
<1>8. ASSUME NEW c \in Children
      PROVE  \/ result'[c] = result[c]
             \/ /\ turn[c] # "none" /\ turn'[c] = "none"
                /\ result'[c].turn = asked[c] /\ ~result'[c].delivered
  BY <1>2, <1>4
<1>9. StopsKept'
  BY <1>1, <1>2 DEF StopsKept
<1>10. SubagentsTypeOK'
  BY <1>1, <1>2, <1>3, <1>4, <1>5, <1>7, QuietTypes DEF SubagentsTypeOK
<1>11. QED BY <1>2, <1>4, <1>8, <1>9, <1>10, QuietStep

LEMMA StopInv ==
  ASSUME SubInv, NEW s \in Sessions, Stop(s), UNCHANGED <<updateVars, reserved>>
  PROVE  SubInv'
<1>1. SubagentsTypeOK /\ StopsKept /\ reserved \in BOOLEAN
  BY DEF SubInv, SubagentsTypeOK, UpdatesTypeOK
<1> DEFINE ss == {s} \cup {c \in Children : ParentOf[c] = s}
           active == {t \in ss : turn[t] = "active"}
<1>2. /\ Interrupted(active)
      /\ stopAsked' = stopAsked \cup {t \in ss : turn[t] = "starting"}
      /\ waits' = (IF turn[s] = "none" THEN waits \ {s} ELSE waits)
      /\ held' = (IF s \in Parents /\ turn[s] # "starting" THEN held \cup {s} ELSE held)
      /\ userStopped' = (IF s \in Parents THEN userStopped \cup {s} ELSE userStopped)
      /\ UNCHANGED <<starts, asked, closed, wake, shutdowns, told, noticed>>
  BY DEF Stop
<1>3. ss \subseteq Sessions /\ active \in SUBSET {t \in Sessions : turn[t] = "active"} /\ s \in ss
  BY Constants
<1>4. due' \subseteq Parents
  <2>1. Reevaluate(active \cup (IF turn[s] = "none" THEN {s} ELSE {}))
    BY DEF Stop
  <2>2. active \cup (IF turn[s] = "none" THEN {s} ELSE {}) \subseteq Sessions
    BY <1>3
  <2>3. QED BY <1>1, <2>1, <2>2, Constants DEF Reevaluate, SubagentsTypeOK
<1>5. /\ turn' \in [Sessions -> {"none", "starting", "active"}]
      /\ result' \in [Children -> Result]
      /\ \A t \in Sessions : turn'[t] # "none" => turn[t] # "none"
      /\ \A t \in Sessions : turn[t] = "starting" => turn'[t] = "starting"
      /\ \A c \in Children :
           \/ result'[c] = result[c]
           \/ /\ turn[c] # "none" /\ turn'[c] = "none"
              /\ result'[c].turn = asked[c] /\ ~result'[c].delivered
  <2> HIDE DEF active
  <2>1. QED BY <1>2, <1>3, Interruptions
<1>6. stopAsked' \subseteq {t \in Sessions : turn'[t] = "starting"}
  BY <1>1, <1>2, <1>3, <1>5 DEF SubagentsTypeOK
<1>7. /\ held' \subseteq Parents /\ userStopped' \subseteq Parents /\ waits' \subseteq Parents
      /\ wake' \in [Parents -> SUBSET (Children \X TurnNo)]
      /\ closed' \subseteq Sessions /\ noticed' \subseteq Parents /\ shutdowns' \in 0..MaxShutdowns
  BY <1>1, <1>2 DEF SubagentsTypeOK
<1>8. StopsKept'
  <2>1. userStopped \subseteq held \cup stopAsked /\ held \subseteq held' /\ stopAsked \subseteq stopAsked'
    BY <1>1, <1>2 DEF StopsKept
  <2>2. s \in Parents => s \in held' \cup stopAsked'
    BY <1>2, <1>3
  <2>3. QED BY <1>2, <2>1, <2>2 DEF StopsKept
<1>9. SubagentsTypeOK'
  BY <1>1, <1>2, <1>4, <1>5, <1>6, <1>7, QuietTypes
<1>10. QED BY <1>2, <1>5, <1>8, <1>9, QuietStep

-----------------------------------------------------------------------------
(* Steps of sessions, shutdowns and updates *)

LEMMA CloseInv ==
  ASSUME SubInv, NEW s \in Sessions, Close(s), UNCHANGED <<updateVars, reserved>>
  PROVE  SubInv'
<1>1. SubagentsTypeOK /\ StopsKept /\ reserved \in BOOLEAN
  BY DEF SubInv, SubagentsTypeOK, UpdatesTypeOK
<1> DEFINE cs == {c \in Children : ParentOf[c] = s /\ c \notin closed}
           late == {c \in cs : turn[c] = "starting"}
           active == {c \in cs : turn[c] = "active"}
<1>2. /\ Interrupted(active) /\ closed' = closed \cup {s} \cup (cs \ late) /\ waits' = waits \ {s}
      /\ stopAsked' = stopAsked \cup late
      /\ Reevaluate({s} \cup cs)
      /\ UNCHANGED <<starts, asked, wake, held, shutdowns, told, noticed, userStopped>>
  BY DEF Close
<1>3. cs \subseteq Sessions /\ active \in SUBSET {t \in Sessions : turn[t] = "active"}
  BY Constants
<1>4. due' \subseteq Parents /\ closed' \subseteq Sessions
  BY <1>1, <1>2, <1>3, Constants DEF Reevaluate, SubagentsTypeOK
<1>5. /\ turn' \in [Sessions -> {"none", "starting", "active"}]
      /\ result' \in [Children -> Result]
      /\ \A t \in Sessions : turn'[t] # "none" => turn[t] # "none"
      /\ \A t \in Sessions : turn[t] = "starting" => turn'[t] = "starting"
      /\ \A c \in Children :
           \/ result'[c] = result[c]
           \/ /\ turn[c] # "none" /\ turn'[c] = "none"
              /\ result'[c].turn = asked[c] /\ ~result'[c].delivered
  <2> HIDE DEF active
  <2>1. QED BY <1>2, <1>3, Interruptions
<1>6. stopAsked' \subseteq {t \in Sessions : turn'[t] = "starting"}
  BY <1>1, <1>2, <1>3, <1>5 DEF SubagentsTypeOK
<1>7. StopsKept'
  BY <1>1, <1>2 DEF StopsKept
<1>8. SubagentsTypeOK'
  BY <1>1, <1>2, <1>4, <1>5, <1>6, QuietTypes DEF SubagentsTypeOK
<1>9. QED BY <1>2, <1>5, <1>7, <1>8, QuietStep

\* Reopen, SetStatus, Recover and the steps of updates leave turns, results and holds alone.
LEMMA AsideInv ==
  ASSUME SubInv, UNCHANGED <<updateVars, turn, starts, asked, stopAsked, result, wake, held, shutdowns, told, noticed, userStopped>>,
         reserved' \in BOOLEAN, closed' \subseteq closed, waits' \subseteq waits, due' \subseteq Parents
  PROVE  SubInv'
<1>1. SubagentsTypeOK /\ StopsKept
  BY DEF SubInv
<1>2. StopsKept'
  BY <1>1 DEF StopsKept
<1>3. SubagentsTypeOK'
  BY <1>1, QuietTypes DEF SubagentsTypeOK
<1>4. QED BY <1>2, <1>3, QuietStep

LEMMA ReserveInv ==
  ASSUME SubInv, Reserve
  PROVE  SubInv'
<1>1. SubagentsTypeOK /\ StopsKept
  BY DEF SubInv
<1> DEFINE active == {s \in Sessions : turn[s] = "active"}
<1>2. /\ reserved' = TRUE /\ Interrupted(active) /\ Reevaluate(Sessions)
      /\ shutdowns < MaxShutdowns /\ shutdowns' = shutdowns + 1
      /\ UNCHANGED <<updateVars, starts, asked, stopAsked, closed, waits, wake, held, told, noticed, userStopped>>
  BY DEF Reserve
<1>3. active \in SUBSET {t \in Sessions : turn[t] = "active"}
  OBVIOUS
<1>4. due' \subseteq Parents /\ shutdowns' \in 0..MaxShutdowns
  BY <1>1, <1>2, Constants DEF Reevaluate, SubagentsTypeOK
<1>5. /\ turn' \in [Sessions -> {"none", "starting", "active"}]
      /\ result' \in [Children -> Result]
      /\ \A t \in Sessions : turn'[t] # "none" => turn[t] # "none"
      /\ \A t \in Sessions : turn[t] = "starting" => turn'[t] = "starting"
      /\ \A c \in Children :
           \/ result'[c] = result[c]
           \/ /\ turn[c] # "none" /\ turn'[c] = "none"
              /\ result'[c].turn = asked[c] /\ ~result'[c].delivered
  <2> HIDE DEF active
  <2>1. QED BY <1>2, <1>3, Interruptions
<1>6. stopAsked' \subseteq {t \in Sessions : turn'[t] = "starting"}
  BY <1>1, <1>2, <1>5 DEF SubagentsTypeOK
<1>7. StopsKept'
  BY <1>1, <1>2 DEF StopsKept
<1>8. SubagentsTypeOK'
  BY <1>1, <1>2, <1>4, <1>5, <1>6, QuietTypes DEF SubagentsTypeOK
<1>9. QED BY <1>2, <1>5, <1>7, <1>8, QuietStep

LEMMA UpdatesInv ==
  ASSUME SubInv, UpdateNext(Busy) \/ (\E h \in Harnesses : Ends(h)), reserved' = reserved,
         UNCHANGED <<turn, starts, asked, stopAsked, closed, waits, result, wake, held, shutdowns, told, noticed, userStopped>>,
         due' \subseteq Parents
  PROVE  SubInv'
<1>1. UpdatesTypeOK' /\ ChainsOrdered' /\ Gated' \subseteq Gated \cup (Harnesses \ Busy)
  BY UpdateStepInv
<1>2. SubagentsTypeOK /\ GatedFree /\ ExactlyOnce /\ WakesKnown /\ TurnsKnown /\ StopsKept
  BY DEF SubInv
<1>3. SubagentsTypeOK'
  BY <1>1, <1>2 DEF SubagentsTypeOK
<1>4. GatedFree'
  <2> SUFFICES ASSUME NEW s \in Sessions, turn'[s] # "none"
               PROVE  HarnessOf[s] \notin Gated'
    BY DEF GatedFree
  <2>1. HarnessOf[s] \notin Gated
    BY <1>2 DEF GatedFree
  <2>2. HarnessOf[s] \in Busy
    BY DEF Busy
  <2>3. QED BY <1>1, <2>1, <2>2
<1>5. ExactlyOnce' /\ WakesKnown' /\ TurnsKnown' /\ StopsKept'
  BY <1>2 DEF ExactlyOnce, WakesKnown, TurnsKnown, StopsKept
<1>6. QED BY <1>1, <1>3, <1>4, <1>5 DEF SubInv

-----------------------------------------------------------------------------
(* Steps of wakes *)

LEMMA WakeFailsInv ==
  ASSUME SubInv, NEW p \in Parents, NEW refused \in BOOLEAN, WakeFails(p, refused),
         UNCHANGED <<updateVars, reserved>>
  PROVE  SubInv'
<1>1. SubagentsTypeOK /\ StopsKept /\ reserved \in BOOLEAN /\ p \in Sessions
  BY Constants DEF SubInv, SubagentsTypeOK, UpdatesTypeOK
<1>2. /\ turn[p] = "starting" /\ turn' = [turn EXCEPT ![p] = "none"]
      /\ wake' = [wake EXCEPT ![p] = {}]
      /\ held' = (IF p \in stopAsked THEN held \cup {p} ELSE held)
      /\ stopAsked' = stopAsked \ {p}
      /\ UNCHANGED <<starts, asked, closed, result, shutdowns, told, userStopped>>
  BY DEF WakeFails
<1>3. noticed' \subseteq Parents /\ waits' \subseteq Parents /\ due' \subseteq Parents
  BY <1>1 DEF WakeFails, SubagentsTypeOK
<1>4. /\ turn' \in [Sessions -> {"none", "starting", "active"}] /\ turn'[p] = "none"
      /\ \A t \in Sessions : t # p => turn'[t] = turn[t]
  BY <1>1, <1>2 DEF SubagentsTypeOK
<1>5. stopAsked' \subseteq {t \in Sessions : turn'[t] = "starting"}
  BY <1>1, <1>2, <1>4 DEF SubagentsTypeOK
<1>6. /\ wake' \in [Parents -> SUBSET (Children \X TurnNo)]
      /\ \A q \in Parents : wake'[q] \subseteq wake[q]
  BY <1>1, <1>2 DEF SubagentsTypeOK
<1>7. held' \subseteq Parents /\ StopsKept'
  BY <1>1, <1>2 DEF SubagentsTypeOK, StopsKept
<1>8. SubagentsTypeOK'
  BY <1>1, <1>2, <1>3, <1>4, <1>5, <1>6, <1>7, QuietTypes DEF SubagentsTypeOK
<1>9. QED BY <1>2, <1>4, <1>6, <1>7, <1>8, QuietStep

LEMMA WakeLaunchesInv ==
  ASSUME SubInv, NEW p \in Parents, WakeLaunches(p), UNCHANGED <<updateVars, reserved>>
  PROVE  SubInv'
<1>1. /\ SubagentsTypeOK /\ ExactlyOnce /\ WakesKnown /\ TurnsKnown /\ StopsKept
      /\ reserved \in BOOLEAN /\ p \in Sessions
  BY Constants DEF SubInv, SubagentsTypeOK, UpdatesTypeOK
<1>2. /\ turn[p] = "starting" /\ turn' = [turn EXCEPT ![p] = IF p \in stopAsked THEN "none" ELSE "active"]
      /\ wake' = [wake EXCEPT ![p] = {}]
      /\ waits' = waits \ {p} /\ noticed' = noticed \ {p} /\ due' = due \ {p}
      /\ held' = (IF p \in stopAsked THEN held \cup {p} ELSE held)
      /\ stopAsked' = stopAsked \ {p}
      /\ UNCHANGED <<starts, asked, closed, shutdowns, userStopped>>
  BY DEF WakeLaunches
<1>3. /\ turn' \in [Sessions -> {"none", "starting", "active"}]
      /\ \A t \in Sessions : t # p => turn'[t] = turn[t]
  BY <1>1, <1>2 DEF SubagentsTypeOK
<1>4. \A c \in Children : turn'[c] = turn[c]
  BY <1>3, Constants
<1>5. \A t \in Sessions : turn'[t] # "none" => turn[t] # "none"
  BY <1>2, <1>3
<1>6. stopAsked' \subseteq {t \in Sessions : turn'[t] = "starting"}
  BY <1>1, <1>2, <1>3 DEF SubagentsTypeOK
<1>7. /\ wake' \in [Parents -> SUBSET (Children \X TurnNo)] /\ wake'[p] = {}
      /\ \A q \in Parents : q # p => wake'[q] = wake[q]
  BY <1>1, <1>2 DEF SubagentsTypeOK
<1>8. result' = [c \in Children |->
                   IF <<c, result[c].turn>> \in wake[p] THEN [result[c] EXCEPT !.delivered = TRUE] ELSE result[c]]
  BY DEF WakeLaunches, Marked
<1>9. ASSUME NEW c \in Children
      PROVE  /\ result'[c] \in Result
             /\ result'[c].turn = result[c].turn /\ result'[c].outcome = result[c].outcome
             /\ <<c, result[c].turn>> \in wake[p] => result'[c].delivered = TRUE
             /\ <<c, result[c].turn>> \notin wake[p] => result'[c].delivered = result[c].delivered
  <2>1. result[c] \in Result
    BY <1>1 DEF SubagentsTypeOK
  <2>2. CASE <<c, result[c].turn>> \in wake[p]
    <3>1. result'[c] = [result[c] EXCEPT !.delivered = TRUE]
      BY <1>8, <2>2
    <3>2. QED BY <2>1, <2>2, <3>1 DEF Result
  <2>3. CASE <<c, result[c].turn>> \notin wake[p]
    <3>1. result'[c] = result[c]
      BY <1>8, <2>3
    <3>2. QED BY <2>1, <2>3, <3>1
  <2>4. QED BY <2>2, <2>3
<1>10. result' \in [Children -> Result]
  BY <1>8, <1>9
<1>11. told' = [c \in Children |-> [n \in TurnNo |-> IF <<c, n>> \in wake[p] THEN told[c][n] + 1 ELSE told[c][n]]]
  BY DEF WakeLaunches
<1>12. ASSUME NEW c \in Children, NEW n \in TurnNo
       PROVE  /\ told'[c][n] \in Nat
              /\ <<c, n>> \in wake[p] => told[c][n] = 0 /\ told'[c][n] = 1
              /\ <<c, n>> \notin wake[p] => told'[c][n] = told[c][n]
  <2>1. told[c][n] \in Nat
    BY <1>1 DEF SubagentsTypeOK
  <2>2. told'[c][n] = IF <<c, n>> \in wake[p] THEN told[c][n] + 1 ELSE told[c][n]
    BY <1>11
  <2>3. <<c, n>> \in wake[p] => told[c][n] = 0
    BY <1>1 DEF WakesKnown
  <2>4. QED BY <2>1, <2>2, <2>3
<1>13. told' \in [Children -> [TurnNo -> Nat]]
  BY <1>11, <1>12
<1>14. /\ held' \subseteq Parents /\ waits' \subseteq Parents /\ noticed' \subseteq Parents /\ due' \subseteq Parents
       /\ StopsKept'
  BY <1>1, <1>2 DEF SubagentsTypeOK, StopsKept
<1>15. UpdatesTypeOK' /\ ChainsOrdered'
  BY <1>1, UpdatesStay
<1>16. SubagentsTypeOK'
  BY <1>1, <1>2, <1>3, <1>6, <1>7, <1>10, <1>13, <1>14, <1>15 DEF SubagentsTypeOK
<1>17. GatedFree'
  BY <1>5, GateKept DEF updateVars
<1>18. ExactlyOnce'
  <2> SUFFICES ASSUME NEW c \in Children
               PROVE  /\ \A n \in TurnNo : told'[c][n] <= 1
                      /\ result'[c].outcome # "none" => (result'[c].delivered <=> told'[c][result'[c].turn] = 1)
    BY DEF ExactlyOnce
  <2>1. ASSUME NEW n \in TurnNo
        PROVE  told'[c][n] <= 1
    <3>1. told[c][n] <= 1
      BY <1>1 DEF ExactlyOnce
    <3>2. told'[c][n] = 1 \/ told'[c][n] = told[c][n]
      BY <1>12
    <3>3. QED BY <3>1, <3>2
  <2>2. result[c].turn \in TurnNo
    BY <1>1 DEF SubagentsTypeOK, Result
  <2>3. CASE <<c, result[c].turn>> \in wake[p]
    <3>1. result'[c].turn = result[c].turn /\ result'[c].delivered = TRUE
      BY <1>9, <2>3
    <3>2. told'[c][result[c].turn] = 1
      BY <1>12, <2>2, <2>3
    <3>3. QED BY <2>1, <3>1, <3>2
  <2>4. CASE <<c, result[c].turn>> \notin wake[p]
    <3>1. /\ result'[c].turn = result[c].turn /\ result'[c].outcome = result[c].outcome
          /\ result'[c].delivered = result[c].delivered
      BY <1>9, <2>4
    <3>2. told'[c][result[c].turn] = told[c][result[c].turn]
      BY <1>12, <2>2, <2>4
    <3>3. result[c].outcome # "none" => (result[c].delivered <=> told[c][result[c].turn] = 1)
      BY <1>1 DEF ExactlyOnce
    <3>4. QED BY <2>1, <3>1, <3>2, <3>3
  <2>5. QED BY <2>3, <2>4
<1>19. WakesKnown'
  <2> SUFFICES ASSUME NEW q \in Parents, NEW c \in Children, NEW n \in TurnNo, <<c, n>> \in wake'[q]
               PROVE  ParentOf[c] = q /\ told'[c][n] = 0 /\ n <= asked'[c] /\ (turn'[c] # "none" => n # asked'[c])
    BY DEF WakesKnown
  <2>1. q # p /\ <<c, n>> \in wake[q]
    BY <1>7
  <2>2. ParentOf[c] = q /\ told[c][n] = 0 /\ n <= asked[c] /\ (turn[c] # "none" => n # asked[c])
    BY <1>1, <2>1 DEF WakesKnown
  <2>3. <<c, n>> \notin wake[p]
    BY <1>1, <2>1, <2>2 DEF WakesKnown
  <2>4. QED BY <1>2, <1>4, <1>12, <2>2, <2>3
<1>20. TurnsKnown'
  <2> SUFFICES ASSUME NEW c \in Children
               PROVE  /\ asked'[c] <= starts'
                      /\ \A n \in TurnNo : told'[c][n] # 0 => n <= asked'[c] /\ (turn'[c] # "none" => n # asked'[c])
                      /\ result'[c].outcome # "none" =>
                           result'[c].turn <= asked'[c] /\ (turn'[c] # "none" => result'[c].turn # asked'[c])
    BY DEF TurnsKnown
  <2>1. ASSUME NEW n \in TurnNo, told'[c][n] # 0
        PROVE  n <= asked[c] /\ (turn[c] # "none" => n # asked[c])
    <3>1. <<c, n>> \in wake[p] \/ told[c][n] # 0
      BY <1>12, <2>1
    <3>2. QED BY <1>1, <3>1 DEF WakesKnown, TurnsKnown
  <2>2. result'[c].outcome # "none" =>
          result'[c].turn <= asked[c] /\ (turn[c] # "none" => result'[c].turn # asked[c])
    BY <1>1, <1>9 DEF TurnsKnown
  <2>3. asked[c] <= starts
    BY <1>1 DEF TurnsKnown
  <2>4. QED BY <1>2, <1>4, <2>1, <2>2, <2>3
<1>21. QED BY <1>14, <1>15, <1>16, <1>17, <1>18, <1>19, <1>20 DEF SubInv

LEMMA EvaluateInv ==
  ASSUME SubInv, NEW p \in Parents, Evaluate(p), UNCHANGED <<updateVars, reserved>>
  PROVE  SubInv'
<1>1. /\ SubagentsTypeOK /\ ExactlyOnce /\ WakesKnown /\ TurnsKnown /\ StopsKept
      /\ reserved \in BOOLEAN /\ p \in Sessions
  BY Constants DEF SubInv, SubagentsTypeOK, UpdatesTypeOK
<1>2. /\ due' = due \ {p}
      /\ UNCHANGED <<starts, asked, stopAsked, closed, result, held, shutdowns, told, noticed, userStopped>>
  BY DEF Evaluate
<1>3. due' \subseteq Parents /\ StopsKept' /\ ExactlyOnce'
  BY <1>1, <1>2 DEF SubagentsTypeOK, StopsKept, ExactlyOnce
<1>4. waits' \subseteq Parents
  BY <1>1 DEF Evaluate, SettleWait, SubagentsTypeOK
<1>5. UpdatesTypeOK' /\ ChainsOrdered'
  BY <1>1, UpdatesStay
<1>6. CASE UNCHANGED <<turn, wake>>
  <2>1. SubagentsTypeOK'
    BY <1>1, <1>2, <1>3, <1>4, <1>5, <1>6 DEF SubagentsTypeOK
  <2>2. QED BY <1>2, <1>3, <1>6, <2>1, QuietStep
<1>7. CASE /\ CanStart(p) /\ turn' = [turn EXCEPT ![p] = "starting"]
           /\ wake' = [wake EXCEPT ![p] = {<<c, result[c].turn>> : c \in Undelivered(p)}]
  <2>1. /\ turn' \in [Sessions -> {"none", "starting", "active"}] /\ turn'[p] = "starting"
        /\ \A t \in Sessions : t # p => turn'[t] = turn[t]
    BY <1>1, <1>7 DEF SubagentsTypeOK
  <2>2. \A c \in Children : turn'[c] = turn[c]
    BY <2>1, Constants
  <2>3. ASSUME NEW c \in Undelivered(p)
        PROVE  /\ c \in Children /\ ParentOf[c] = p
               /\ result[c].turn \in TurnNo /\ told[c][result[c].turn] = 0
               /\ result[c].turn <= asked[c] /\ (turn[c] # "none" => result[c].turn # asked[c])
    <3>1. c \in Children /\ ParentOf[c] = p /\ result[c].outcome # "none" /\ ~result[c].delivered
      BY DEF Undelivered, ChildrenOf
    <3>2. result[c].turn \in TurnNo /\ told[c][result[c].turn] \in Nat
      BY <1>1, <3>1 DEF SubagentsTypeOK, Result
    <3>3. told[c][result[c].turn] <= 1 /\ told[c][result[c].turn] # 1
      BY <1>1, <3>1, <3>2 DEF ExactlyOnce
    <3>4. result[c].turn <= asked[c] /\ (turn[c] # "none" => result[c].turn # asked[c])
      BY <1>1, <3>1 DEF TurnsKnown
    <3>5. QED BY <3>1, <3>2, <3>3, <3>4
  <2>4. {<<c, result[c].turn>> : c \in Undelivered(p)} \subseteq Children \X TurnNo
    BY <2>3
  <2>5. /\ wake' \in [Parents -> SUBSET (Children \X TurnNo)]
        /\ wake'[p] = {<<c, result[c].turn>> : c \in Undelivered(p)}
        /\ \A q \in Parents : q # p => wake'[q] = wake[q]
    BY <1>1, <1>7, <2>4 DEF SubagentsTypeOK
  <2>6. stopAsked' \subseteq {t \in Sessions : turn'[t] = "starting"}
    BY <1>1, <1>2, <2>1 DEF SubagentsTypeOK
  <2>7. SubagentsTypeOK'
    BY <1>1, <1>2, <1>3, <1>4, <1>5, <2>1, <2>5, <2>6 DEF SubagentsTypeOK
  <2>8. GatedFree'
    <3>1. \A s \in Sessions : turn'[s] # "none" => turn[s] # "none" \/ CanStart(s)
      BY <1>7, <2>1
    <3>2. QED BY <3>1, GateKept DEF updateVars
  <2>9. WakesKnown'
    <3> SUFFICES ASSUME NEW q \in Parents, NEW c \in Children, NEW n \in TurnNo, <<c, n>> \in wake'[q]
                 PROVE  ParentOf[c] = q /\ told'[c][n] = 0 /\ n <= asked'[c] /\ (turn'[c] # "none" => n # asked'[c])
      BY DEF WakesKnown
    <3>1. CASE q = p
      <4>1. c \in Undelivered(p) /\ n = result[c].turn
        BY <2>5, <3>1
      <4>2. QED BY <1>2, <2>2, <2>3, <3>1, <4>1
    <3>2. CASE q # p
      BY <1>1, <1>2, <2>2, <2>5, <3>2 DEF WakesKnown
    <3>3. QED BY <3>1, <3>2
  <2>10. TurnsKnown'
    BY <1>1, <1>2, <2>2 DEF TurnsKnown
  <2>11. QED BY <1>3, <1>5, <2>7, <2>8, <2>9, <2>10 DEF SubInv
<1>8. QED BY <1>6, <1>7 DEF Evaluate

\* The parent that acknowledges a result has a turn, so no wake tells that result.
LEMMA AckInv ==
  ASSUME SubInv, WakesStart, NEW c \in Children, Ack(c), UNCHANGED <<updateVars, reserved>>
  PROVE  SubInv'
<1>1. /\ SubagentsTypeOK /\ ExactlyOnce /\ WakesKnown /\ TurnsKnown /\ StopsKept
      /\ reserved \in BOOLEAN
  BY DEF SubInv, SubagentsTypeOK, UpdatesTypeOK
<1>2. /\ turn[ParentOf[c]] = "active" /\ result[c].outcome # "none" /\ ~result[c].delivered
      /\ result' = [result EXCEPT ![c].delivered = TRUE]
      /\ told' = [told EXCEPT ![c][result[c].turn] = @ + 1]
      /\ UNCHANGED <<turn, starts, asked, stopAsked, closed, waits, wake, held, shutdowns, noticed, userStopped>>
  BY DEF Ack
<1>3. result[c] \in Result /\ result[c].turn \in TurnNo /\ told[c] \in [TurnNo -> Nat]
  BY <1>1 DEF SubagentsTypeOK, Result
<1> DEFINE now == result[c].turn
<1>4. told[c][now] = 0
  <2>1. told[c][now] <= 1 /\ told[c][now] # 1
    BY <1>1, <1>2, <1>3 DEF ExactlyOnce
  <2>2. QED BY <1>3, <2>1
<1>5. \A q \in Parents : <<c, now>> \notin wake[q]
  <2>1. SUFFICES ASSUME NEW q \in Parents, <<c, now>> \in wake[q] PROVE FALSE
    OBVIOUS
  <2>2. ParentOf[c] = q
    BY <1>1, <1>3, <2>1 DEF WakesKnown
  <2>3. QED BY <1>2, <2>1, <2>2 DEF WakesStart, Waking
<1>6. /\ result' \in [Children -> Result]
      /\ result'[c].turn = now /\ result'[c].outcome = result[c].outcome /\ result'[c].delivered = TRUE
      /\ \A d \in Children \ {c} : result'[d] = result[d]
  <2>1. LET r == [result[c] EXCEPT !.delivered = TRUE]
        IN  r \in Result /\ r.turn = now /\ r.outcome = result[c].outcome /\ r.delivered = TRUE
    BY <1>3 DEF Result
  <2>2. result'[c] = [result[c] EXCEPT !.delivered = TRUE] /\ \A d \in Children \ {c} : result'[d] = result[d]
    BY <1>1, <1>2 DEF SubagentsTypeOK
  <2>3. result' \in [Children -> Result]
    BY <1>1, <1>2, <2>1 DEF SubagentsTypeOK
  <2>4. QED BY <2>1, <2>2, <2>3
<1>7. /\ told' \in [Children -> [TurnNo -> Nat]]
      /\ told'[c][now] = 1
      /\ \A n \in TurnNo : n # now => told'[c][n] = told[c][n]
      /\ \A d \in Children \ {c} : told'[d] = told[d]
  <2>1. told'[c] = [told[c] EXCEPT ![now] = told[c][now] + 1] /\ \A d \in Children \ {c} : told'[d] = told[d]
    BY <1>1, <1>2 DEF SubagentsTypeOK
  <2>2. told'[c] \in [TurnNo -> Nat] /\ told'[c][now] = 1 /\ \A n \in TurnNo : n # now => told'[c][n] = told[c][n]
    BY <1>3, <1>4, <2>1
  <2>3. told' \in [Children -> [TurnNo -> Nat]]
    <3>1. told' = [told EXCEPT ![c] = [told[c] EXCEPT ![now] = told[c][now] + 1]]
      BY <1>2
    <3>2. QED BY <1>1, <2>1, <2>2, <3>1 DEF SubagentsTypeOK
  <2>4. QED BY <2>1, <2>2, <2>3
<1>8. due' \subseteq Parents
  BY <1>1, Constants DEF Ack, Reevaluate, SubagentsTypeOK
<1>9. UpdatesTypeOK' /\ ChainsOrdered'
  BY <1>1, UpdatesStay
<1>10. SubagentsTypeOK'
  BY <1>1, <1>2, <1>6, <1>7, <1>8, <1>9 DEF SubagentsTypeOK
<1>11. GatedFree'
  BY <1>2, GateKept DEF updateVars
<1>12. StopsKept'
  BY <1>1, <1>2 DEF StopsKept
<1> HIDE DEF now
<1>13. ExactlyOnce'
  <2> SUFFICES ASSUME NEW d \in Children
               PROVE  /\ \A n \in TurnNo : told'[d][n] <= 1
                      /\ result'[d].outcome # "none" => (result'[d].delivered <=> told'[d][result'[d].turn] = 1)
    BY DEF ExactlyOnce
  <2>1. /\ \A n \in TurnNo : told[d][n] <= 1
        /\ result[d].outcome # "none" => (result[d].delivered <=> told[d][result[d].turn] = 1)
    BY <1>1 DEF ExactlyOnce
  <2>2. CASE d = c
    <3>1. \A n \in TurnNo : told'[c][n] <= 1
      BY <1>7, <2>1, <2>2
    <3>2. QED BY <1>6, <1>7, <2>2, <3>1
  <2>3. CASE d # c
    BY <1>6, <1>7, <2>1, <2>3
  <2>4. QED BY <2>2, <2>3
<1>14. WakesKnown'
  <2> SUFFICES ASSUME NEW q \in Parents, NEW d \in Children, NEW n \in TurnNo, <<d, n>> \in wake'[q]
               PROVE  ParentOf[d] = q /\ told'[d][n] = 0 /\ n <= asked'[d] /\ (turn'[d] # "none" => n # asked'[d])
    BY DEF WakesKnown
  <2>1. <<d, n>> \in wake[q]
    BY <1>2
  <2>2. ParentOf[d] = q /\ told[d][n] = 0 /\ n <= asked[d] /\ (turn[d] # "none" => n # asked[d])
    BY <1>1, <2>1 DEF WakesKnown
  <2>3. d # c \/ n # now
    BY <1>5, <2>1 DEF now
  <2>4. told'[d][n] = told[d][n]
    BY <1>7, <2>3
  <2>5. QED BY <1>2, <2>2, <2>4
<1>15. TurnsKnown'
  <2> SUFFICES ASSUME NEW d \in Children
               PROVE  /\ asked'[d] <= starts'
                      /\ \A n \in TurnNo : told'[d][n] # 0 => n <= asked'[d] /\ (turn'[d] # "none" => n # asked'[d])
                      /\ result'[d].outcome # "none" =>
                           result'[d].turn <= asked'[d] /\ (turn'[d] # "none" => result'[d].turn # asked'[d])
    BY DEF TurnsKnown
  <2>1. /\ asked[d] <= starts
        /\ \A n \in TurnNo : told[d][n] # 0 => n <= asked[d] /\ (turn[d] # "none" => n # asked[d])
        /\ result[d].outcome # "none" =>
             result[d].turn <= asked[d] /\ (turn[d] # "none" => result[d].turn # asked[d])
    BY <1>1 DEF TurnsKnown
  <2>2. ASSUME NEW n \in TurnNo, told'[d][n] # 0
        PROVE  n <= asked[d] /\ (turn[d] # "none" => n # asked[d])
    <3>1. CASE d = c /\ n = now
      BY <1>2, <2>1, <3>1 DEF now
    <3>2. CASE d # c \/ n # now
      <4>1. told'[d][n] = told[d][n]
        BY <1>7, <3>2
      <4>2. QED BY <2>1, <2>2, <4>1
    <3>3. QED BY <3>1, <3>2
  <2>3. result'[d].turn = result[d].turn /\ result'[d].outcome = result[d].outcome
    BY <1>6 DEF now
  <2>4. QED BY <1>2, <2>1, <2>2, <2>3
<1>16. QED BY <1>9, <1>10, <1>11, <1>12, <1>13, <1>14, <1>15 DEF SubInv

-----------------------------------------------------------------------------
(* The specification *)

LEMMA WakesStartKept ==
  ASSUME SubInv, WakesStart, [SubagentsNext]_subagentVars
  PROVE  WakesStart'
<1> SUFFICES ASSUME NEW p \in Parents, Waking(p)'
             PROVE  turn'[p] = "starting"
  BY DEF WakesStart
<1>1. SubagentsTypeOK /\ p \in Sessions
  BY Constants DEF SubInv
<1>2. ASSUME NEW q \in Parents, Evaluate(q)
      PROVE  turn'[p] = "starting"
  <2>1. CASE UNCHANGED <<turn, wake>>
    BY <2>1 DEF WakesStart, Waking
  <2>2. CASE /\ turn' = [turn EXCEPT ![q] = "starting"]
             /\ wake' = [wake EXCEPT ![q] = {<<c, result[c].turn>> : c \in Undelivered(q)}]
    <3>1. p # q => wake'[p] = wake[p]
      BY <1>1, <2>2 DEF SubagentsTypeOK
    <3>2. turn'[p] = "starting" \/ (p # q /\ turn'[p] = turn[p])
      BY <1>1, <2>2 DEF SubagentsTypeOK
    <3>3. QED BY <3>1, <3>2 DEF WakesStart, Waking
  <2>3. QED BY <1>2, <2>1, <2>2 DEF Evaluate
<1>3. ASSUME NEW q \in Parents, WakeLaunches(q) \/ \E refused \in BOOLEAN : WakeFails(q, refused)
      PROVE  turn'[p] = "starting"
  <2>1. wake' = [wake EXCEPT ![q] = {}] /\ \E v \in {"none", "active"} : turn' = [turn EXCEPT ![q] = v]
    BY <1>3 DEF WakeLaunches, WakeFails
  <2>2. p # q /\ wake'[p] = wake[p] /\ turn'[p] = turn[p]
    BY <1>1, <2>1 DEF SubagentsTypeOK, Waking
  <2>3. QED BY <2>2 DEF WakesStart, Waking
<1>4. CASE wake' = wake /\ (turn[p] = "starting" => turn'[p] = "starting")
  BY <1>4 DEF WakesStart, Waking
<1>5. ASSUME NEW s \in Sessions, TurnStep(s)
      PROVE  turn'[p] = "starting"
  <2>1. wake' = wake
    BY <1>5 DEF TurnStep, StartTurn, Launch, StartFails, Stop, Close, Reopen, TurnEnds
  <2>2. turn[p] = "starting" /\ Waking(p)
    BY <2>1 DEF WakesStart, Waking
  <2>3. CASE StartTurn(s) \/ Launch(s) \/ StartFails(s) \/ \E failed \in BOOLEAN : TurnEnds(s, failed)
    <3>1. s # p /\ \E v \in {"none", "starting", "active"} : turn' = [turn EXCEPT ![s] = v]
      BY <1>1, <2>2, <2>3 DEF StartTurn, CanStart, Launch, StartFails, TurnEnds
    <3>2. QED BY <1>1, <2>2, <3>1 DEF SubagentsTypeOK
  <2>4. CASE Stop(s) \/ Close(s)
    <3>1. PICK ss : Interrupted(ss) /\ \A t \in ss : turn[t] = "active"
      BY <2>4 DEF Stop, Close
    <3>2. QED BY <1>1, <2>2, <3>1 DEF Interrupted
  <2>5. CASE Reopen(s)
    BY <2>2, <2>5 DEF Reopen
  <2>6. QED BY <1>5, <2>3, <2>4, <2>5 DEF TurnStep
<1>6. ASSUME (\E q \in Parents : SetStatus(q)) \/ (\E c \in Children : Ack(c))
      PROVE  turn'[p] = "starting"
  BY <1>4, <1>6 DEF SetStatus, Ack
<1>7. ASSUME (UpdateNext(Busy) /\ UNCHANGED <<reserved, deliveryVars>>) \/ UNCHANGED subagentVars
      PROVE  turn'[p] = "starting"
  BY <1>4, <1>7 DEF subagentVars, deliveryVars
<1>8. ASSUME (\E h \in Harnesses : UpdateEnds(h)) \/ Recover
      PROVE  turn'[p] = "starting"
  BY <1>4, <1>8 DEF UpdateEnds, Recover
<1>9. ASSUME Reserve
      PROVE  turn'[p] = "starting"
  <2>1. wake' = wake /\ turn' = [s \in Sessions |-> IF s \in {t \in Sessions : turn[t] = "active"} THEN "none" ELSE turn[s]]
    BY <1>9 DEF Reserve, Interrupted
  <2>2. QED BY <1>1, <1>4, <2>1
<1>10. QED BY <1>2, <1>3, <1>5, <1>6, <1>7, <1>8, <1>9 DEF SubagentsNext, WakeStep

LEMMA SubNext ==
  ASSUME SubInv, WakesStart, [SubagentsNext]_subagentVars
  PROVE  SubInv'
<1>1. SubagentsTypeOK /\ reserved \in BOOLEAN
  BY DEF SubInv, SubagentsTypeOK, UpdatesTypeOK
<1>2. CASE UNCHANGED subagentVars
  <2>1. due' \subseteq Parents
    BY <1>1, <1>2 DEF SubagentsTypeOK, subagentVars, deliveryVars
  <2>2. QED BY <1>1, <1>2, <2>1, AsideInv DEF subagentVars, deliveryVars
<1>3. CASE (\E s \in Sessions : TurnStep(s)) /\ UNCHANGED <<updateVars, reserved>>
  <2> PICK s \in Sessions : TurnStep(s)
    BY <1>3
  <2>1. CASE StartTurn(s)
    BY <1>3, <2>1, StartTurnInv
  <2>2. CASE Launch(s)
    BY <1>3, <2>2, LaunchInv
  <2>3. CASE StartFails(s)
    BY <1>3, <2>3, StartFailsInv
  <2>4. CASE Stop(s)
    BY <1>3, <2>4, StopInv
  <2>5. CASE Close(s)
    BY <1>3, <2>5, CloseInv
  <2>6. CASE Reopen(s)
    <3>1. due' \subseteq Parents
      BY <1>1, <2>6, Constants DEF Reopen, Reevaluate, SubagentsTypeOK
    <3>2. QED BY <1>1, <1>3, <2>6, <3>1, AsideInv DEF Reopen
  <2>7. CASE \E failed \in BOOLEAN : TurnEnds(s, failed)
    BY <1>3, <2>7, TurnEndsInv
  <2>8. QED BY <2>1, <2>2, <2>3, <2>4, <2>5, <2>6, <2>7 DEF TurnStep
<1>4. CASE (\E p \in Parents : WakeStep(p)) /\ UNCHANGED <<updateVars, reserved>>
  <2> PICK p \in Parents : WakeStep(p)
    BY <1>4
  <2>1. CASE Evaluate(p)
    BY <1>4, <2>1, EvaluateInv
  <2>2. CASE WakeLaunches(p)
    BY <1>4, <2>2, WakeLaunchesInv
  <2>3. CASE SetStatus(p)
    <3>1. due' \subseteq Parents
      BY <1>1, <2>3, Constants DEF SetStatus, Reevaluate, SubagentsTypeOK
    <3>2. QED BY <1>1, <1>4, <2>3, <3>1, AsideInv DEF SetStatus
  <2>4. CASE \E refused \in BOOLEAN : WakeFails(p, refused)
    BY <1>4, <2>4, WakeFailsInv
  <2>5. QED BY <2>1, <2>2, <2>3, <2>4 DEF WakeStep
<1>10. ASSUME NEW c \in Children, Ack(c), UNCHANGED <<updateVars, reserved>>
       PROVE  SubInv'
  BY <1>10, AckInv
<1>5. CASE UpdateNext(Busy) /\ UNCHANGED <<reserved, deliveryVars>>
  <2>1. due' \subseteq Parents
    BY <1>1, <1>5 DEF SubagentsTypeOK, deliveryVars
  <2>2. QED BY <1>5, <2>1, UpdatesInv DEF deliveryVars
<1>6. CASE \E h \in Harnesses : UpdateEnds(h)
  <2> PICK h \in Harnesses : UpdateEnds(h)
    BY <1>6
  <2>1. QED BY UpdatesInv DEF UpdateEnds
<1>7. CASE Reserve
  BY <1>7, ReserveInv
<1>8. CASE Recover
  BY <1>1, <1>8, AsideInv DEF Recover
<1>9. QED BY <1>2, <1>3, <1>4, <1>5, <1>6, <1>7, <1>8, <1>10 DEF SubagentsNext

LEMMA SubInvariant == SubagentsSpec => []SubInv
<1>1. SubagentsInit => SubInv /\ WakesStart
  BY SubInit DEF WakesStart, Waking, SubagentsInit, DeliveryInit
<1>2. SubInv /\ WakesStart /\ [SubagentsNext]_subagentVars => (SubInv /\ WakesStart)'
  BY SubNext, WakesStartKept
<1>3. QED BY <1>1, <1>2, PTL DEF SubagentsSpec

\* Every variable of the delivery and of the updates stays in its set: in particular a
\* stop is only ever asked of a turn that is starting, and only queued updates are cancelled.
THEOREM SubagentTypes == SubagentsSpec => []SubagentsTypeOK
<1>1. SubInv => SubagentsTypeOK
  BY DEF SubInv
<1>2. QED BY <1>1, SubInvariant, PTL

\* A subagent's result is told by one wake at most, by none once the parent acknowledged
\* it, and marked exactly when one or the other happened (SubagentDelivery.evaluate and
\* wake, subagents.ack, markSubagentDelivered).
THEOREM ToldOnce == SubagentsSpec => []ExactlyOnce
<1>1. SubInv => ExactlyOnce
  BY DEF SubInv
<1>2. QED BY <1>1, SubInvariant, PTL

\* The command of an update runs while no turn of its harness does, and alone in its
\* installation (HarnessUpdateService.execute, acquire, SessionManager's turn gate).
THEOREM UpdatesAreAlone == SubagentsSpec => []UpdatesAlone
<1>1. ASSUME SubInv
      PROVE  UpdatesAlone
  <2>1. ChainsOrdered /\ GatedFree
    BY <1>1 DEF SubInv
  <2>2. Gated \cap Busy = {}
    BY <2>1 DEF Busy, GatedFree
  <2>3. \A g, h \in Gated : g # h => LockOf[g] # LockOf[h]
    BY <2>1 DEF ChainsOrdered, Gated, InChain
  <2>4. QED BY <2>2, <2>3 DEF UpdatesAlone
<1>2. SubInv => UpdatesAlone
  BY <1>1
<1>3. QED BY <1>2, SubInvariant, PTL

LEMMA StopStep ==
  ASSUME SubInv, [SubagentsNext]_subagentVars, NEW p \in userStopped, ~Waking(p)
  PROVE  wake'[p] = {}
<1>1. /\ SubagentsTypeOK /\ StopsKept /\ p \in Parents /\ wake[p] = {}
      /\ \A q \in stopAsked : turn[q] = "starting"
  BY DEF SubInv, SubagentsTypeOK, Waking
<1>2. CASE \E q \in Parents : Evaluate(q)
  <2> PICK q \in Parents : Evaluate(q)
    BY <1>2
  <2>1. CASE q = p
    <3>1. p \in held \/ turn[p] # "none"
      BY <1>1 DEF StopsKept
    <3>2. ~ShouldWake(p)
      BY <3>1 DEF ShouldWake
    <3>3. wake' = wake
      BY <2>1, <3>2 DEF Evaluate
    <3>4. QED BY <1>1, <3>3
  <2>2. CASE q # p
    BY <1>1, <2>2 DEF Evaluate, SubagentsTypeOK
  <2>3. QED BY <2>1, <2>2
<1>3. CASE \E q \in Parents : WakeLaunches(q) \/ \E refused \in BOOLEAN : WakeFails(q, refused)
  BY <1>1, <1>3 DEF WakeLaunches, WakeFails, SubagentsTypeOK
<1>4. CASE wake' = wake
  BY <1>1, <1>4
<1>5. CASE \E s \in Sessions : TurnStep(s)
  BY <1>4, <1>5 DEF TurnStep, StartTurn, Launch, StartFails, Stop, Close, Reopen, TurnEnds
<1>6. CASE (\E q \in Parents : SetStatus(q)) \/ (\E c \in Children : Ack(c))
  BY <1>4, <1>6 DEF SetStatus, Ack
<1>7. CASE (UpdateNext(Busy) /\ UNCHANGED <<reserved, deliveryVars>>) \/ UNCHANGED subagentVars
  BY <1>4, <1>7 DEF subagentVars, deliveryVars
<1>8. CASE (\E h \in Harnesses : UpdateEnds(h)) \/ Reserve \/ Recover
  BY <1>4, <1>8 DEF UpdateEnds, Reserve, Recover
<1>9. QED BY <1>2, <1>3, <1>5, <1>6, <1>7, <1>8 DEF SubagentsNext, WakeStep

\* No wake begins for a parent the user stopped, also if the stop met a start that then
\* failed (TurnService.stop, StartingTurn.stopRequested, SubagentDelivery.held).
THEOREM StopsHold == SubagentsSpec => StopHolds
<1>1. SubInv /\ [SubagentsNext]_subagentVars => \A p \in userStopped : ~Waking(p) => wake'[p] = {}
  BY StopStep
<1>2. SubInv /\ [SubagentsNext]_subagentVars => [\A p \in userStopped : ~Waking(p) => wake'[p] = {}]_subagentVars
  BY <1>1
<1>3. QED BY <1>2, SubInvariant, PTL DEF SubagentsSpec, StopHolds
=============================================================================
