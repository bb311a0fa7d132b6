---------------------------- MODULE FollowUpsProofs ----------------------------
(***************************************************************************)
(* What holds of FollowUps whatever the limit, the pull request and the    *)
(* bounds: a stop is heeded, automatic turns stay within the limit, a      *)
(* review that counts ended well, and no update is told twice.             *)
(***************************************************************************)
EXTENDS FollowUps, FiniteSetTheorems, WellFoundedInduction, TLAPS

\* The parts of the types that the proofs need.
Shapes ==
    /\ meta \in [turns : Nat, paused : {"no", "user", "interrupted", "error"}]
    /\ DOMAIN turn = {"stage", "kind", "at", "stop", "send"}
    /\ turn.stage \in {"none", "starting", "active"}
    /\ turn.kind \in {"none", "user", "auto", "wake"}
    /\ turn.kind = "none" => turn.stage = "none"
    /\ turn.stop \in BOOLEAN
    /\ wakeTurn \in BOOLEAN /\ halted \in BOOLEAN
    /\ alone \in Nat
    /\ DOMAIN link = {"seen", "reviewed"}

\* The engine counts what the user counts, the turn that starts included.
Counted == alone = meta.turns /\ meta.turns + (IF Starting THEN 1 ELSE 0) <= Limit

\* What the user stopped is paused, or is about to be: the stop of a turn that starts is kept
\* until it has started or failed, and no wake that came first swallows it.
HaltKept == halted => Paused \/ (turn.stage = "starting" /\ turn.stop /\ turn.kind # "wake" /\ ~wakeTurn)

\* A review that may still be applied ended well.
ReviewsKept == link.reviewed \in reviewed \cup {0} /\ \A s \in syncing : s.review \in reviewed \cup {0}

FollowUpInv == Shapes /\ Counted /\ HaltKept /\ ReviewsKept

LEMMA FollowUpInit == Init => FollowUpInv
<1> SUFFICES ASSUME Init PROVE FollowUpInv
  OBVIOUS
<1>1. DOMAIN turn = {"stage", "kind", "at", "stop", "send"} /\ turn.stage = "none" /\ turn.kind = "none" /\ turn.stop = FALSE
  BY DEF Init, NoTurn
<1>2. meta \in [turns : Nat, paused : {"no", "user", "interrupted", "error"}] /\ meta.turns = 0
  BY DEF Init, NotPaused
<1>3. DOMAIN link = {"seen", "reviewed"} /\ link.reviewed = 0 /\ syncing = {}
  BY DEF Init
<1>4. wakeTurn = FALSE /\ halted = FALSE /\ alone = 0
  BY DEF Init
<1>5. Shapes
  BY <1>1, <1>2, <1>3, <1>4 DEF Shapes
<1> QED BY <1>1, <1>2, <1>3, <1>4, <1>5, FollowUpAssumption DEF FollowUpInv, Counted, HaltKept, ReviewsKept, Starting

\* Most steps leave what the invariant speaks of alone.
LEMMA FollowUpFrame ==
  ASSUME FollowUpInv, UNCHANGED <<link, meta, turn, wakeTurn, syncing, halted, alone, reviewed>>
  PROVE  FollowUpInv'
  BY DEF FollowUpInv, Shapes, Counted, HaltKept, ReviewsKept, Starting, Paused

\* A pause for another reason keeps a pause, and the count.
LEMMA AutoPaused ==
  ASSUME NEW m \in [turns : Nat, paused : {"no", "user", "interrupted", "error"}], NEW reason \in {"interrupted", "error"}
  PROVE  /\ AutoPause(m, reason) \in [turns : Nat, paused : {"no", "user", "interrupted", "error"}]
         /\ AutoPause(m, reason).turns = m.turns
         /\ AutoPause(m, reason).paused # "no"
  BY DEF AutoPause

\* Whoever begins a follow-up has a candidate, so nothing is paused and the limit not reached.
LEMMA CandidateMeans ==
  ASSUME Candidates # {}
  PROVE  turn.stage = "none" /\ ~Paused /\ meta.turns < Limit
  BY DEF Candidates, Busy

LEMMA BeginStep ==
  ASSUME FollowUpInv, NEW f, NEW dealtWith, Candidates # {}, Begin(f, dealtWith),
         UNCHANGED <<link, wakeTurn, syncing, history>>
  PROVE  FollowUpInv'
<1>1. turn.stage = "none" /\ ~Paused /\ meta.turns < Limit
  BY CandidateMeans
<1>2. CASE turn' = [stage |-> "starting", kind |-> "auto", at |-> 0, stop |-> FALSE, send |-> f] /\ UNCHANGED meta
  BY <1>1, <1>2, FollowUpAssumption DEF FollowUpInv, Shapes, Counted, HaltKept, ReviewsKept, Starting, Paused, history
<1>3. CASE UNCHANGED <<meta, turn>>
  BY <1>3, FollowUpFrame DEF history
<1>4. CASE meta' = AutoPause(meta, "error") /\ UNCHANGED turn
  <2>1. /\ meta' \in [turns : Nat, paused : {"no", "user", "interrupted", "error"}]
        /\ meta'.turns = meta.turns /\ meta'.paused # "no"
    BY <1>4, AutoPaused DEF FollowUpInv, Shapes
  <2> QED BY <1>1, <1>4, <2>1, FollowUpAssumption DEF FollowUpInv, Shapes, Counted, HaltKept, ReviewsKept, Starting, Paused, history
<1> QED BY <1>2, <1>3, <1>4 DEF Begin

LEMMA EvaluateStep == ASSUME FollowUpInv, Evaluate PROVE FollowUpInv'
<1>1. CASE UNCHANGED <<meta, turn>>
  BY <1>1, FollowUpFrame DEF Evaluate, history
<1>2. ASSUME NEW f \in Candidates, NEW dealtWith, Begin(f, dealtWith)
      PROVE  FollowUpInv'
  BY <1>2, BeginStep DEF Evaluate
<1> QED BY <1>1, <1>2 DEF Evaluate

LEMMA LogsLoadedStep == ASSUME FollowUpInv, NEW s \in sends, LogsLoaded(s) PROVE FollowUpInv'
<1>1. CASE StillCurrent(s.send)
  BY <1>1, BeginStep DEF LogsLoaded, StillCurrent
<1>2. CASE ~StillCurrent(s.send)
  BY <1>2, FollowUpFrame DEF LogsLoaded, history
<1> QED BY <1>1, <1>2

LEMMA StartTurnStep == ASSUME FollowUpInv, StartTurn PROVE FollowUpInv'
  BY FollowUpAssumption DEF StartTurn, FollowUpInv, Shapes, Counted, HaltKept, ReviewsKept, Starting, Paused, history

LEMMA WakeStep == ASSUME FollowUpInv, Wake PROVE FollowUpInv'
  BY FollowUpAssumption DEF Wake, FollowUpInv, Shapes, Counted, HaltKept, ReviewsKept, Starting, Paused, history

\* What a turn that has started leaves of the count and of a pause.
LEMMA Started ==
  ASSUME FollowUpInv, turn.stage = "starting"
  PROVE  /\ AfterStart(turn.kind) \in [turns : Nat, paused : {"no", "user", "interrupted", "error"}]
         /\ turn.kind = "auto" => AfterStart(turn.kind).turns = meta.turns + 1 /\ AfterStart(turn.kind).paused = meta.paused
         /\ turn.kind = "user" => AfterStart(turn.kind).turns = 0 /\ (meta.paused = "user" => AfterStart(turn.kind).paused = "user")
         /\ turn.kind \notin {"auto", "user"} => AfterStart(turn.kind).turns = meta.turns /\ AfterStart(turn.kind).paused = meta.paused
<1>1. CASE turn.kind = "auto" BY <1>1 DEF AfterStart, FollowUpInv, Shapes
<1>2. CASE turn.kind = "user" BY <1>2 DEF AfterStart, FollowUpInv, Shapes, NotPaused
<1>3. CASE turn.kind = "wake" BY <1>3 DEF AfterStart, FollowUpInv, Shapes
<1> QED BY <1>1, <1>2, <1>3 DEF FollowUpInv, Shapes

\* A stop of a turn that is not a wake pauses, one of a wake leaves things as they are.
LEMMA Stopped ==
  ASSUME NEW m \in [turns : Nat, paused : {"no", "user", "interrupted", "error"}], NEW kind
  PROVE  /\ AfterStop(kind, m) \in [turns : Nat, paused : {"no", "user", "interrupted", "error"}]
         /\ AfterStop(kind, m).turns = m.turns
         /\ kind # "wake" => AfterStop(kind, m).paused # "no"
         /\ kind = "wake" => AfterStop(kind, m) = m
  BY AutoPaused DEF AfterStop

LEMMA LaunchStep == ASSUME FollowUpInv, Launch PROVE FollowUpInv'
<1> DEFINE M == AfterStart(turn.kind)
<1>1. turn.stage = "starting" /\ turn.kind # "none"
  BY DEF Launch, FollowUpInv, Shapes
<1>2. /\ M \in [turns : Nat, paused : {"no", "user", "interrupted", "error"}]
      /\ turn.kind = "auto" => M.turns = meta.turns + 1 /\ M.paused = meta.paused
      /\ turn.kind = "user" => M.turns = 0 /\ (meta.paused = "user" => M.paused = "user")
      /\ turn.kind = "wake" => M.turns = meta.turns /\ M.paused = meta.paused
  BY <1>1, Started
<1>3. /\ meta' \in [turns : Nat, paused : {"no", "user", "interrupted", "error"}]
      /\ meta'.turns = M.turns
      /\ turn.stop /\ turn.kind # "wake" => meta'.paused # "no"
      /\ ~(turn.stop /\ turn.kind # "wake") => meta'.paused = M.paused
  <2> HIDE DEF M
  <2>1. meta' = IF turn.stop THEN AfterStop(turn.kind, M) ELSE M
    BY DEF Launch, M
  <2> QED BY <1>2, <2>1, Stopped DEF FollowUpInv, Shapes
<1> HIDE DEF M
<1>4. /\ DOMAIN turn' = {"stage", "kind", "at", "stop", "send"}
      /\ turn'.stage \in {"none", "active"} /\ turn'.kind \in {"none", "user", "auto", "wake"}
      /\ (turn'.kind = "none" => turn'.stage = "none") /\ turn'.stop \in BOOLEAN
  <2>1. CASE turn.stop
    <3>1. turn' = NoTurn
      BY <2>1 DEF Launch, Interrupt
    <3> QED BY <3>1 DEF NoTurn
  <2>2. CASE ~turn.stop
    <3>1. turn' = [turn EXCEPT !.stage = "active", !.at = Now]
      BY <2>2 DEF Launch
    <3> QED BY <1>1, <2>2, <3>1 DEF FollowUpInv, Shapes
  <2> QED BY <2>1, <2>2
<1>5. Shapes'
  <2>1. wakeTurn' \in BOOLEAN /\ halted' \in BOOLEAN
    BY <1>1 DEF Launch, FollowUpInv, Shapes
  <2>2. alone' \in Nat
    BY <1>1 DEF Launch, FollowUpInv, Shapes
  <2>3. DOMAIN link' = {"seen", "reviewed"}
    BY DEF Launch, FollowUpInv, Shapes
  <2> QED BY <1>3, <1>4, <2>1, <2>2, <2>3 DEF Shapes
<1>6. Counted'
  <2>1. alone' = IF turn.kind = "auto" THEN alone + 1 ELSE IF turn.kind = "user" THEN 0 ELSE alone
    BY <1>1 DEF Launch, FollowUpInv, Shapes
  <2>2. alone' = meta'.turns /\ meta'.turns <= Limit
    BY <1>1, <1>2, <1>3, <2>1, FollowUpAssumption DEF FollowUpInv, Shapes, Counted, Starting
  <2> QED BY <1>3, <1>4, <2>2, FollowUpAssumption DEF Counted, Starting
<1>7. HaltKept'
  <2>1. CASE turn.kind = "user"
    <3>1. halted' <=> turn.stop \/ meta.paused = "user"
      BY <2>1 DEF Launch
    <3> QED BY <1>2, <1>3, <2>1, <3>1 DEF HaltKept, Paused, FollowUpInv, Shapes
  <2>2. CASE turn.kind # "user"
    <3>1. halted' = halted
      BY <2>2 DEF Launch
    <3> QED BY <1>1, <1>2, <1>3, <2>2, <3>1 DEF HaltKept, Paused, FollowUpInv, Shapes
  <2> QED BY <2>1, <2>2
<1>8. ReviewsKept'
  BY DEF Launch, FollowUpInv, Shapes, ReviewsKept
<1> QED BY <1>5, <1>6, <1>7, <1>8 DEF FollowUpInv

LEMMA StartFailsStep == ASSUME FollowUpInv, NEW refused \in BOOLEAN, StartFails(refused) PROVE FollowUpInv'
<1> DEFINE M == IF turn.stop /\ ~wakeTurn THEN AutoPause(meta, "interrupted") ELSE meta
<1>1. /\ M \in [turns : Nat, paused : {"no", "user", "interrupted", "error"}]
      /\ M.turns = meta.turns
      /\ turn.stop /\ ~wakeTurn => M.paused # "no"
      /\ meta.paused # "no" => M.paused # "no"
  BY AutoPaused DEF FollowUpInv, Shapes
<1> HIDE DEF M
<1>2. meta' = AutoPause(M, "error") \/ meta' = M
  BY DEF StartFails, M
<1>3. /\ meta' \in [turns : Nat, paused : {"no", "user", "interrupted", "error"}]
      /\ meta'.turns = meta.turns
      /\ turn.stop /\ ~wakeTurn => meta'.paused # "no"
      /\ meta.paused # "no" => meta'.paused # "no"
  BY <1>1, <1>2, AutoPaused
<1>4. turn' = NoTurn /\ UNCHANGED <<link, wakeTurn, syncing, halted, alone, reviewed>>
  BY DEF StartFails, history
<1> QED BY <1>3, <1>4, FollowUpAssumption DEF FollowUpInv, Shapes, Counted, HaltKept, ReviewsKept, Starting, Paused, NoTurn

LEMMA StopStep == ASSUME FollowUpInv, Stop PROVE FollowUpInv'
<1>0. UNCHANGED <<link, wakeTurn, syncing, alone, reviewed>>
  BY DEF Stop
<1>1. CASE turn.stage = "active"
  <2>1. turn' = NoTurn /\ meta' = AfterStop(turn.kind, meta) /\ halted' = (halted \/ turn.kind # "wake")
    BY <1>1 DEF Stop, Interrupt
  <2>2. /\ meta' \in [turns : Nat, paused : {"no", "user", "interrupted", "error"}]
        /\ meta'.turns = meta.turns
        /\ turn.kind # "wake" => meta'.paused # "no"
        /\ turn.kind = "wake" => meta' = meta
    BY <2>1, Stopped DEF FollowUpInv, Shapes
  <2>3. halted' => meta'.paused # "no"
    BY <1>1, <2>1, <2>2 DEF FollowUpInv, HaltKept, Paused
  <2>4. halted' \in BOOLEAN
    BY <2>1 DEF FollowUpInv, Shapes
  <2> QED BY <1>0, <1>1, <2>1, <2>2, <2>3, <2>4, FollowUpAssumption DEF FollowUpInv, Shapes, Counted, HaltKept, ReviewsKept, Starting, Paused, NoTurn
<1>2. CASE turn.stage = "starting"
  <2>1. turn' = [turn EXCEPT !.stop = TRUE] /\ halted' = (halted \/ (turn.kind # "wake" /\ ~wakeTurn)) /\ UNCHANGED meta
    BY <1>2 DEF Stop
  <2>2. /\ DOMAIN turn' = DOMAIN turn /\ turn'.stop = TRUE
        /\ turn'.stage = turn.stage /\ turn'.kind = turn.kind
    BY <2>1 DEF FollowUpInv, Shapes
  <2>3. Shapes' /\ Counted' /\ ReviewsKept'
    BY <1>0, <2>1, <2>2 DEF FollowUpInv, Shapes, Counted, ReviewsKept, Starting
  <2>4. HaltKept'
    BY <1>0, <1>2, <2>1, <2>2 DEF FollowUpInv, HaltKept, Paused
  <2> QED BY <2>3, <2>4 DEF FollowUpInv
<1> QED BY <1>1, <1>2 DEF Stop

LEMMA TurnEndsStep ==
  ASSUME FollowUpInv, NEW how \in {"done", "failed", "error"}, TurnEnds(how) PROVE FollowUpInv'
<1>1. /\ meta' \in [turns : Nat, paused : {"no", "user", "interrupted", "error"}]
      /\ meta'.turns = meta.turns
      /\ meta.paused # "no" => meta'.paused # "no"
  BY AutoPaused DEF TurnEnds, FollowUpInv, Shapes
<1>2. turn.stage = "active" /\ turn' = NoTurn /\ UNCHANGED <<link, halted, alone>>
  BY DEF TurnEnds
<1>3. wakeTurn' \in BOOLEAN
  BY DEF TurnEnds, FollowUpInv, Shapes
<1>4. ReviewsKept'
  BY <1>2 DEF TurnEnds, ReviewOf, FollowUpInv, ReviewsKept
<1> QED BY <1>1, <1>2, <1>3, <1>4, FollowUpAssumption DEF FollowUpInv, Shapes, Counted, HaltKept, Starting, Paused, NoTurn

LEMMA LateDoneStep == ASSUME FollowUpInv, NEW isError \in BOOLEAN, LateDone(isError) PROVE FollowUpInv'
<1>1. /\ meta' \in [turns : Nat, paused : {"no", "user", "interrupted", "error"}]
      /\ meta'.turns = meta.turns
      /\ meta.paused # "no" => meta'.paused # "no"
  BY AutoPaused DEF LateDone, FollowUpInv, Shapes
<1>2. UNCHANGED <<link, turn, halted, alone, reviewed>>
  BY DEF LateDone, history
<1>3. wakeTurn' \in BOOLEAN /\ (~wakeTurn => ~wakeTurn')
  BY DEF LateDone, FollowUpInv, Shapes
<1>4. ReviewsKept'
  BY <1>2 DEF LateDone, FollowUpInv, ReviewsKept
<1> QED BY <1>1, <1>2, <1>3, <1>4 DEF FollowUpInv, Shapes, Counted, HaltKept, Starting, Paused

LEMMA SyncSeenStep ==
  ASSUME FollowUpInv, NEW s \in syncing, NEW fetched \in BOOLEAN, SyncSeen(s, fetched) PROVE FollowUpInv'
<1>1. UNCHANGED <<meta, turn, wakeTurn, halted, alone, reviewed>>
  BY DEF SyncSeen, history
<1>2. DOMAIN link' = {"seen", "reviewed"}
  BY DEF SyncSeen
<1>3. link'.reviewed = s.review \/ link'.reviewed = link.reviewed
  BY DEF SyncSeen
<1>4. syncing' \subseteq syncing
  BY DEF SyncSeen
<1> QED BY <1>1, <1>2, <1>3, <1>4 DEF FollowUpInv, Shapes, Counted, HaltKept, ReviewsKept, Starting, Paused

LEMMA PauseStep == ASSUME FollowUpInv, Pause PROVE FollowUpInv'
  BY DEF Pause, FollowUpInv, Shapes, Counted, HaltKept, ReviewsKept, Starting, Paused

LEMMA ResumeStep == ASSUME FollowUpInv, Resume PROVE FollowUpInv'
<1>1. UNCHANGED <<link, turn, wakeTurn, syncing, reviewed>> /\ halted' = FALSE /\ alone' = 0
  BY DEF Resume
<1>2. meta' \in [turns : Nat, paused : {"no", "user", "interrupted", "error"}] /\ meta'.turns = 0
  BY DEF Resume, NotPaused
<1>3. Shapes' /\ HaltKept' /\ ReviewsKept'
  BY <1>1, <1>2 DEF FollowUpInv, Shapes, HaltKept, ReviewsKept
<1> QED BY <1>1, <1>2, <1>3, FollowUpAssumption DEF FollowUpInv, Counted, Starting

LEMMA DismissStep == ASSUME FollowUpInv, DismissUpdates PROVE FollowUpInv'
<1>1. UNCHANGED <<meta, turn, wakeTurn, syncing, halted, alone, reviewed>>
  BY DEF DismissUpdates
<1>2. DOMAIN link' = DOMAIN link /\ link'.reviewed = link.reviewed
  BY DEF DismissUpdates, FollowUpInv, Shapes
<1> QED BY <1>1, <1>2 DEF FollowUpInv, Shapes, Counted, HaltKept, ReviewsKept, Starting, Paused

LEMMA FollowUpStep == FollowUpInv /\ [Next]_vars => FollowUpInv'
<1> SUFFICES ASSUME FollowUpInv, [Next]_vars PROVE FollowUpInv'
  OBVIOUS
<1>1. CASE UNCHANGED vars
  BY <1>1, FollowUpFrame DEF vars, history, engine
<1>2. CASE GitHub \/ RefreshInbox \/ LoadDetail
  BY <1>2, FollowUpFrame DEF GitHub, RefreshInbox, LoadDetail, history, engine
<1>3. ASSUME NEW s \in sends, SendEnds(s) PROVE FollowUpInv'
  BY <1>3, FollowUpFrame DEF SendEnds, history
<1> QED
  BY <1>1, <1>2, <1>3, EvaluateStep, LogsLoadedStep, StartTurnStep, WakeStep, LaunchStep, StartFailsStep, StopStep,
     TurnEndsStep, LateDoneStep, SyncSeenStep, PauseStep, ResumeStep, DismissStep
  DEF Next

LEMMA FollowUpInvariant == FollowUpsSpec => []FollowUpInv
  BY FollowUpInit, FollowUpStep, PTL DEF FollowUpsSpec

\* There are never more than AUTO_FOLLOW_UP_LIMIT automatic turns between two acts of the user.
THEOREM TurnsAreBounded == FollowUpsSpec => []AutoTurnsBounded
<1>1. FollowUpInv => AutoTurnsBounded
  BY FollowUpAssumption DEF FollowUpInv, Shapes, Counted, AutoTurnsBounded
<1> QED BY <1>1, FollowUpInvariant, PTL

\* A head that shows as reviewed had a final review that ended well.
THEOREM ReviewsTrue == FollowUpsSpec => []ReviewsAreReal
<1>1. FollowUpInv => ReviewsAreReal
  BY DEF FollowUpInv, ReviewsKept, ReviewsAreReal
<1> QED BY <1>1, FollowUpInvariant, PTL

\* After a stop or a pause no follow-up begins until the user resumes or begins a turn.
THEOREM StopsAreHeeded == FollowUpsSpec => StopIsHeeded
<1> DEFINE Heeded == turn.stage = "none" /\ turn'.stage = "starting" /\ turn'.kind = "auto" => ~halted
<1>1. FollowUpInv /\ [Next]_vars => [Heeded]_vars
  <2> SUFFICES ASSUME FollowUpInv, Next, turn.stage = "none", turn'.stage = "starting", turn'.kind = "auto"
               PROVE  ~halted
    BY DEF vars
  <2>1. SUFFICES Candidates # {}
    BY <2>1, CandidateMeans DEF FollowUpInv, HaltKept
  <2>2. ASSUME Evaluate PROVE Candidates # {}
    BY <2>2 DEF Evaluate
  <2>3. ASSUME NEW s \in sends, LogsLoaded(s) PROVE Candidates # {}
    BY <2>3 DEF LogsLoaded, StillCurrent
  <2>4. ASSUME NEW s \in sends, SendEnds(s) PROVE FALSE
    BY <2>4 DEF SendEnds
  <2>5. ~(GitHub \/ RefreshInbox \/ LoadDetail \/ Pause \/ Resume \/ DismissUpdates)
    BY DEF GitHub, RefreshInbox, LoadDetail, Pause, Resume, DismissUpdates
  <2>6. ~StartTurn /\ ~Wake
    BY DEF StartTurn, Wake
  <2>7. ~Launch /\ ~Stop
    BY DEF Launch, Stop
  <2>8. /\ \A refused \in BOOLEAN : ~StartFails(refused)
        /\ \A how \in {"done", "failed", "error"} : ~TurnEnds(how)
        /\ \A isError \in BOOLEAN : ~LateDone(isError)
        /\ \A s \in syncing, fetched \in BOOLEAN : ~SyncSeen(s, fetched)
    BY DEF StartFails, TurnEnds, LateDone, SyncSeen
  <2> QED BY <2>2, <2>3, <2>4, <2>5, <2>6, <2>7, <2>8 DEF Next
<1>2. FollowUpsSpec => [][Heeded]_vars
  BY <1>1, FollowUpInvariant, PTL DEF FollowUpsSpec
<1> QED BY <1>2 DEF StopIsHeeded

-----------------------------------------------------------------------------
(* What was told *)

\* Max of a finite set of integers is its greatest element: the elements above one of them
\* become fewer as it grows, and strict inclusion of finite sets is well-founded.
LEMMA MaxIsGreatest ==
  ASSUME NEW S \in SUBSET Int, S # {}, IsFiniteSet(S)
  PROVE  Max(S) \in S /\ \A y \in S : Max(S) >= y
<1> DEFINE Above(x) == {y \in S : y > x}
           T == {Above(x) : x \in S}
<1>1. T \subseteq FiniteSubsetsOf(S) /\ T # {}
  <2>1. ASSUME NEW x \in S PROVE Above(x) \in FiniteSubsetsOf(S)
    <3>1. Above(x) \in SUBSET S
      OBVIOUS
    <3> QED BY <3>1, FS_Subset DEF FiniteSubsetsOf
  <2>2. T # {}
    OBVIOUS
  <2> QED BY <2>1, <2>2
<1>2. PICK U \in T : \A V \in T : <<V, U>> \notin StrictSubsetOrdering(S)
  <2> HIDE DEF T
  <2> QED BY <1>1, FS_StrictSubsetOrderingWellFounded, WFMin
<1>3. PICK x \in S : U = Above(x)
  BY <1>2
<1>4. ASSUME NEW y \in S, y > x PROVE FALSE
  <2>1. Above(y) \in T /\ Above(y) \subseteq S /\ Above(x) \subseteq S
    OBVIOUS
  <2>2. ASSUME NEW z \in Above(y) PROVE z \in Above(x)
    <3>1. z \in S /\ z > y /\ z \in Int /\ y \in Int /\ x \in Int
      OBVIOUS
    <3> QED BY <1>4, <3>1
  <2>3. y \in Above(x) /\ y \notin Above(y)
    BY <1>4
  <2> HIDE DEF T, Above
  <2> QED BY <1>2, <1>3, <2>1, <2>2, <2>3 DEF StrictSubsetOrdering
<1>5. \A y \in S : x >= y
  BY <1>4
<1> HIDE DEF T, Above
<1> QED BY <1>5 DEF Max

LEMMA MaxOfTwo ==
  ASSUME NEW a \in Nat, NEW b \in Nat
  PROVE  Max({a, b}) \in {a, b} /\ Max({a, b}) >= a /\ Max({a, b}) >= b
<1>1. IsFiniteSet({a, b})
  <2>1. IsFiniteSet({a}) /\ IsFiniteSet({b})
    BY FS_Singleton
  <2>2. IsFiniteSet({a} \cup {b})
    BY <2>1, FS_Union
  <2> QED BY <2>2, {a, b} = {a} \cup {b}
<1> QED BY <1>1, MaxIsGreatest

\* Each version of the pull request records its own event, and none a later one.
EventsKnown ==
    \A i \in 1..Now :
        /\ pr[i].comments \cup {pr[i].updated, pr[i].failed, pr[i].passed} \subseteq 0..i
        /\ i \in {pr[i].updated, pr[i].failed, pr[i].passed}

\* What was told counts as seen.
ToldIsSeen == \A t \in told : t <= link.seen

\* The prompt of a turn that starts tells what was not told, and the mark it leaves covers it.
StartKnown ==
    turn.stage = "starting" =>
        /\ turn.send.updates \cap told = {}
        /\ \A t \in turn.send.updates : t <= turn.send.through

\* A send that loads its logs goes as far as the detail it was made from.  If another turn tells
\* any of it meanwhile, the mark of that turn covers all of it.
LogsKnown ==
    \A s \in sends : s.stage = "logs" =>
        /\ ~s.send.final
        /\ s.send.through \in 1..detail
        /\ \A t \in s.send.updates : t <= s.send.through
        /\ s.send.updates \cap told # {} => s.send.through <= link.seen
        /\ turn.stage = "starting" /\ turn.send.updates # {} => s.send.through <= turn.send.through

Linked == [seen : Nat, reviewed : Nat]
Metas == [turns : Nat, paused : {"no", "user", "interrupted", "error"}]
Sendings == [send : Send, stage : {"logs", "refused"}]
Turning == [stage : {"none", "starting", "active"}, kind : {"none", "user", "auto", "wake"},
            at : Nat, stop : BOOLEAN, send : Send]
Syncs == [until : Nat, capped : BOOLEAN, review : Nat]

\* The type invariant, one conjunct per variable.
Types ==
    /\ pr \in Seq(Version) /\ summary \in 1..Now /\ detail \in 1..Now
    /\ link \in Linked /\ meta \in Metas
    /\ due \in BOOLEAN /\ pausedBefore \in BOOLEAN /\ wakeTurn \in BOOLEAN /\ halted \in BOOLEAN
    /\ started \subseteq Nat \X Nat /\ sends \subseteq Sendings /\ turn \in Turning
    /\ late \in {"none", "ended", "interrupted", "wake"} /\ syncing \subseteq Syncs
    /\ acts \in Nat /\ failures \in Nat /\ alone \in Nat
    /\ told \subseteq Nat /\ retold \subseteq Nat /\ reviewed \subseteq Nat

LEMMA Typed == FollowUpsTypeOK <=> Types
<1>1. /\ {due, pausedBefore, wakeTurn, halted} \subseteq BOOLEAN
           <=> due \in BOOLEAN /\ pausedBefore \in BOOLEAN /\ wakeTurn \in BOOLEAN /\ halted \in BOOLEAN
      /\ {acts, failures, alone} \subseteq Nat <=> acts \in Nat /\ failures \in Nat /\ alone \in Nat
      /\ {told, retold, reviewed} \subseteq SUBSET Nat
           <=> told \subseteq Nat /\ retold \subseteq Nat /\ reviewed \subseteq Nat
  BY Zenon
<1> QED BY <1>1, Zenon DEF FollowUpsTypeOK, Types, Linked, Metas, Sendings, Turning, Syncs

ToldInv == Types /\ EventsKnown /\ ToldIsSeen /\ StartKnown /\ LogsKnown /\ UpdatesToldOnce

\* What a version tells beyond the mark ends with the version's own event.
LEMMA UpdatesMean ==
  ASSUME Types, EventsKnown, NEW i \in 1..Now
  PROVE  /\ Updates(pr[i]) \subseteq Nat
         /\ \A t \in Updates(pr[i]) : t > link.seen /\ t <= Through(pr[i])
         /\ Through(pr[i]) \in 0..i
         /\ Updates(pr[i]) # {} => Through(pr[i]) = i
<1> DEFINE v == pr[i]
           W == {v.updated} \cup Updates(v)
<1>1. Now \in Nat /\ i \in Nat /\ v \in Version /\ link.seen \in Nat
  BY DEF Types, Linked, Now
<1>2. Updates(v) \subseteq 0..i /\ v.updated \in 0..i /\ \A t \in Updates(v) : t > link.seen
  BY <1>1 DEF EventsKnown, Updates, Since
<1>3. Updates(v) # {} => i \in W
  <2> SUFFICES ASSUME NEW t \in Updates(v) PROVE i \in W
    OBVIOUS
  <2>1. i > link.seen
    BY <1>1, <1>2
  <2>2. i \in {v.updated, v.failed, v.passed}
    BY DEF EventsKnown
  <2> QED BY <2>1, <2>2 DEF Updates, Since
<1> HIDE DEF v, W
<1>4. W \subseteq 0..i /\ W # {}
  BY <1>2 DEF W
<1>5. IsFiniteSet(W) /\ W \in SUBSET Int
  <2>1. IsFiniteSet(0..i) /\ W \in SUBSET (0..i)
    BY <1>1, <1>4, FS_Interval
  <2>2. IsFiniteSet(W)
    BY <2>1, FS_Subset
  <2>3. W \in SUBSET Int
    BY <1>1, <2>1
  <2> QED BY <2>2, <2>3
<1>6. Max(W) \in W /\ \A y \in W : Max(W) >= y
  BY <1>4, <1>5, MaxIsGreatest
<1>7. Through(v) = Max(W)
  BY DEF Through, W
<1>8. \A t \in Updates(v) : t \in W
  BY DEF W
<1>9. Max(W) \in 0..i /\ (Updates(v) # {} => Max(W) = i)
  <2>1. Max(W) \in 0..i
    BY <1>4, <1>6
  <2>2. Updates(v) # {} => Max(W) >= i
    BY <1>3, <1>6
  <2> QED BY <1>1, <2>1, <2>2
<1>10. \A t \in Updates(v) : t \in Nat /\ t > link.seen /\ t <= Max(W)
  BY <1>1, <1>2, <1>6, <1>8
<1> QED BY <1>7, <1>9, <1>10 DEF v

\* What may be sent tells updates of the detail that are beyond the mark.
LEMMA CandidateTells ==
  ASSUME Types, EventsKnown, NEW f \in Candidates
  PROVE  /\ f \in Send
         /\ \A t \in f.updates : t > link.seen /\ t <= f.through
         /\ f.through \in 0..detail
         /\ f.updates # {} => f.through = detail
         /\ ~f.final => f.through = detail /\ detail > link.seen
<1> DEFINE v == pr[detail]
<1>1. detail \in 1..Now /\ v \in Version /\ link.seen \in Nat /\ detail \in Nat
  BY DEF Types, Linked, Now
<1>2. f = [head |-> v.head, final |-> ~Actionable(v), updates |-> Updates(v), through |-> Through(v)]
  BY DEF Candidates
<1>3. ~f.final => \E t \in Updates(v) : TRUE
  BY <1>2 DEF Actionable, Updates, Since
<1>4. Actionable(v) \in BOOLEAN
  BY DEF Actionable
<1>5. /\ Updates(v) \subseteq Nat
      /\ \A t \in Updates(v) : t > link.seen /\ t <= Through(v)
      /\ Through(v) \in 0..detail
      /\ Updates(v) # {} => Through(v) = detail
  BY <1>1, UpdatesMean
<1> HIDE DEF v
<1>6. f \in Send
  <2>1. v.head \in Nat
    BY <1>1 DEF Version
  <2> QED BY <1>1, <1>2, <1>4, <1>5, <2>1 DEF Send
<1>7. f.updates = Updates(v) /\ f.through = Through(v)
  BY <1>2
<1>8. ~f.final => detail > link.seen
  BY <1>1, <1>3, <1>5
<1> QED BY <1>3, <1>5, <1>6, <1>7, <1>8

LEMMA ToldInit == Init => ToldInv
<1> SUFFICES ASSUME Init PROVE ToldInv
  OBVIOUS
<1>1. pr = <<Opened>> /\ Now = 1 /\ pr[1] = Opened
  BY DEF Init, Now
<1>2. Opened \in Version /\ NoSend \in Send
  BY DEF Opened, Version, NoSend, Send
<1>3. pr \in Seq(Version) /\ summary \in 1..Now /\ detail \in 1..Now
  BY <1>1, <1>2 DEF Init
<1>4. link \in Linked /\ meta \in Metas /\ turn \in Turning
  BY <1>2 DEF Init, Linked, Metas, Turning, NotPaused, NoTurn
<1>5. Types
  BY <1>3, <1>4 DEF Init, Types
<1>6. EventsKnown
  BY <1>1 DEF EventsKnown, Opened
<1>7. ToldIsSeen /\ StartKnown /\ LogsKnown /\ UpdatesToldOnce
  BY DEF Init, ToldIsSeen, StartKnown, LogsKnown, UpdatesToldOnce, NoTurn
<1> QED BY <1>5, <1>6, <1>7 DEF ToldInv

\* Where nothing is told and no prompt is made, marks and caches only move on.
LEMMA NothingTold ==
  ASSUME ToldInv, Types', EventsKnown', UNCHANGED <<told, retold>>,
         detail' >= detail, link'.seen >= link.seen,
         \A s \in sends' : s \in sends \/ s.stage # "logs",
         turn'.stage = "starting" => turn.stage = "starting" /\ turn'.send = turn.send
  PROVE  ToldInv'
<1>1. detail \in Nat /\ detail' \in Nat /\ link.seen \in Nat /\ link'.seen \in Nat /\ told \subseteq Nat
  BY DEF ToldInv, Types, Linked, Now
<1>2. \A s \in sends : s.send.through \in Nat
  BY DEF ToldInv, Types, Sendings, Send
<1>3. ToldIsSeen'
  BY <1>1 DEF ToldInv, ToldIsSeen
<1>4. StartKnown'
  BY DEF ToldInv, StartKnown
<1>5. LogsKnown'
  BY <1>1, <1>2 DEF ToldInv, LogsKnown
<1>6. UpdatesToldOnce'
  BY DEF ToldInv, UpdatesToldOnce
<1> QED BY <1>3, <1>4, <1>5, <1>6 DEF ToldInv

\* The signature of what may be sent, and what a pause and a turn that is over have for types.
LEMMA SignatureType == ASSUME NEW f \in Send PROVE Signature(f) \in Nat \X Nat
  BY DEF Send, Signature

LEMMA PauseType ==
  ASSUME NEW m \in Metas, NEW reason \in {"interrupted", "error"}
  PROVE  AutoPause(m, reason) \in Metas
  BY DEF AutoPause, Metas

LEMMA NoTurnType == NoSend \in Send /\ NoTurn \in Turning /\ NotPaused \in Metas
  BY DEF NoSend, Send, NoTurn, Turning, NotPaused, Metas

\* A follow-up begins with what was not told.
LEMMA BeginTold ==
  ASSUME ToldInv, NEW f \in Send, NEW dealtWith \in SUBSET (Nat \X Nat), Begin(f, dealtWith),
         f.updates \cap told = {},
         \A t \in f.updates : t <= f.through,
         f.updates # {} => f.through = detail,
         sends' \subseteq sends, pausedBefore' \in BOOLEAN,
         UNCHANGED <<github, link, wakeTurn, late, syncing, acts, history>>
  PROVE  ToldInv'
<1>1. Signature(f) \in Nat \X Nat
  BY SignatureType
<1>2. UNCHANGED <<pr, summary, detail, link, wakeTurn, late, syncing, acts, told, retold, halted, alone, reviewed>>
  BY DEF github, history
<1>3. EventsKnown'
  BY <1>2 DEF ToldInv, EventsKnown, Now
<1>4. started' \subseteq Nat \X Nat /\ due' \in BOOLEAN /\ failures' \in Nat
  <2>1. started' \subseteq dealtWith \cup {Signature(f)}
    BY DEF Begin
  <2>2. failures' = failures + 1 \/ failures' = failures
    BY DEF Begin
  <2>3. due' \in BOOLEAN /\ failures \in Nat
    BY DEF Begin, ToldInv, Types
  <2> QED BY <1>1, <2>1, <2>2, <2>3
<1>5. meta' \in Metas
  BY PauseType DEF Begin, ToldInv, Types
<1>6. turn' \in Turning
  <2>1. [stage |-> "starting", kind |-> "auto", at |-> 0, stop |-> FALSE, send |-> f] \in Turning
    BY DEF Turning
  <2>2. turn' = [stage |-> "starting", kind |-> "auto", at |-> 0, stop |-> FALSE, send |-> f] \/ turn' = turn
    BY DEF Begin
  <2> QED BY <2>1, <2>2 DEF ToldInv, Types
<1>7. Types'
  BY <1>2, <1>4, <1>5, <1>6 DEF ToldInv, Types, Now
<1>8. CASE UNCHANGED turn
  <2>1. detail \in Nat /\ link.seen \in Nat
    BY DEF ToldInv, Types, Linked, Now
  <2> QED BY <1>2, <1>3, <1>7, <1>8, <2>1, NothingTold
<1>9. CASE turn' = [stage |-> "starting", kind |-> "auto", at |-> 0, stop |-> FALSE, send |-> f]
  <2>1. turn'.send = f
    BY <1>9
  <2>2. StartKnown'
    BY <1>2, <2>1 DEF StartKnown
  <2>3. ASSUME NEW s \in sends', s.stage = "logs"
        PROVE  /\ ~s.send.final
               /\ s.send.through \in 1..detail
               /\ \A t \in s.send.updates : t <= s.send.through
               /\ s.send.updates \cap told # {} => s.send.through <= link.seen
               /\ f.updates # {} => s.send.through <= f.through
    BY <2>3 DEF ToldInv, LogsKnown
  <2>4. LogsKnown'
    BY <1>2, <2>1, <2>3 DEF LogsKnown
  <2>5. ToldIsSeen' /\ UpdatesToldOnce'
    BY <1>2 DEF ToldInv, ToldIsSeen, UpdatesToldOnce
  <2> QED BY <1>3, <1>7, <2>2, <2>4, <2>5 DEF ToldInv
<1> QED BY <1>8, <1>9 DEF Begin

LEMMA EvaluateTold == ASSUME ToldInv, Evaluate PROVE ToldInv'
<1>1. Types /\ EventsKnown
  BY DEF ToldInv
<1>2. Remembered \in SUBSET (Nat \X Nat)
  BY <1>1 DEF Remembered, Types
<1>3. pausedBefore' \in BOOLEAN
  BY DEF Evaluate, Paused
<1>4. UNCHANGED <<pr, summary, detail, link, wakeTurn, late, syncing, acts, told, retold, halted, alone, reviewed>>
  BY DEF Evaluate, github, history
<1>5. EventsKnown'
  BY <1>1, <1>4 DEF EventsKnown, Now
<1>6. detail \in Nat /\ link.seen \in Nat /\ told \subseteq Nat
  BY <1>1 DEF Types, Linked, Now
<1>7. CASE started' = Remembered /\ due' = FALSE /\ UNCHANGED <<meta, sends, turn, failures>>
  <2>1. Types'
    BY <1>1, <1>2, <1>3, <1>4, <1>7 DEF Types, Now
  <2> QED BY <1>4, <1>5, <1>6, <1>7, <2>1, NothingTold
<1>8. ASSUME NEW f \in Candidates, NeedsLogs, ~f.final,
             sends' = sends \cup {[send |-> f, stage |-> "logs"]},
             started' = Remembered \cup {Signature(f)}, due' = FALSE, UNCHANGED <<meta, turn, failures>>
      PROVE  ToldInv'
  <2>1. /\ f \in Send
        /\ \A t \in f.updates : t > link.seen /\ t <= f.through
        /\ f.through = detail /\ detail > link.seen
    BY <1>1, <1>8, CandidateTells
  <2>2. [send |-> f, stage |-> "logs"] \in Sendings /\ Signature(f) \in Nat \X Nat
    BY <2>1, SignatureType DEF Sendings
  <2>3. Types'
    BY <1>1, <1>2, <1>3, <1>4, <1>8, <2>2 DEF Types, Now
  <2>4. turn.stage = "none"
    BY <1>8, CandidateMeans
  <2>5. f.through \in 1..detail
    BY <1>6, <2>1
  <2>6. f.updates \cap told = {}
    <3>1. \A t \in told : t <= link.seen
      BY DEF ToldInv, ToldIsSeen
    <3>2. f.updates \subseteq Nat
      BY <2>1 DEF Send
    <3> QED BY <1>6, <2>1, <3>1, <3>2
  <2>7. LogsKnown'
    <3>1. ASSUME NEW s \in sends', s.stage = "logs"
          PROVE  /\ ~s.send.final
                 /\ s.send.through \in 1..detail
                 /\ \A t \in s.send.updates : t <= s.send.through
                 /\ s.send.updates \cap told # {} => s.send.through <= link.seen
      <4>1. CASE s \in sends
        BY <3>1, <4>1 DEF ToldInv, LogsKnown
      <4>2. CASE s = [send |-> f, stage |-> "logs"]
        BY <1>8, <2>1, <2>5, <2>6, <4>2
      <4> QED BY <1>8, <3>1, <4>1, <4>2
    <3> QED BY <1>4, <1>8, <2>4, <3>1 DEF LogsKnown
  <2>8. ToldIsSeen' /\ StartKnown' /\ UpdatesToldOnce'
    BY <1>4, <1>8 DEF ToldInv, ToldIsSeen, StartKnown, UpdatesToldOnce
  <2> QED BY <1>5, <2>3, <2>7, <2>8 DEF ToldInv
<1>9. ASSUME NEW f \in Candidates, Begin(f, Remembered), UNCHANGED sends
      PROVE  ToldInv'
  <2>1. /\ f \in Send
        /\ \A t \in f.updates : t > link.seen /\ t <= f.through
        /\ f.updates # {} => f.through = detail
    BY <1>1, CandidateTells
  <2>2. f.updates \cap told = {}
    <3>1. \A t \in told : t <= link.seen
      BY DEF ToldInv, ToldIsSeen
    <3>2. f.updates \subseteq Nat
      BY <2>1 DEF Send
    <3> QED BY <1>6, <2>1, <3>1, <3>2
  <2> QED BY <1>2, <1>3, <1>9, <2>1, <2>2, BeginTold DEF Evaluate
<1> QED BY <1>7, <1>8, <1>9 DEF Evaluate

\* A send whose logs have loaded is still current only if nobody has told any of it.
LEMMA StillNew ==
  ASSUME ToldInv, NEW s \in sends, s.stage = "logs", StillCurrent(s.send)
  PROVE  s.send.through = detail /\ s.send.updates \cap told = {}
<1>1. Types /\ EventsKnown
  BY DEF ToldInv
<1>2. PICK g \in Candidates : Signature(g) = Signature(s.send)
  BY DEF StillCurrent
<1>3. ~s.send.final /\ s.send.through \in 1..detail /\ (s.send.updates \cap told # {} => s.send.through <= link.seen)
  BY DEF ToldInv, LogsKnown
<1>4. detail \in Nat /\ link.seen \in Nat
  BY <1>1 DEF Types, Linked, Now
<1>5. (IF g.final THEN 0 ELSE g.through) = s.send.through
  BY <1>2, <1>3 DEF Signature
<1>6. ~g.final => g.through = detail /\ detail > link.seen
  BY <1>1, CandidateTells
<1>7. s.send.through = detail /\ detail > link.seen
  BY <1>3, <1>4, <1>5, <1>6
<1> QED BY <1>3, <1>4, <1>7

LEMMA LogsLoadedTold == ASSUME ToldInv, NEW s \in sends, LogsLoaded(s) PROVE ToldInv'
<1>1. Types /\ EventsKnown
  BY DEF ToldInv
<1>2. s.send \in Send /\ started \in SUBSET (Nat \X Nat) /\ detail \in Nat /\ link.seen \in Nat /\ pausedBefore \in BOOLEAN
  BY <1>1 DEF Types, Sendings, Linked, Now
<1>3. s.stage = "logs" /\ sends' = sends \ {s} /\ UNCHANGED pausedBefore
  BY DEF LogsLoaded
<1>4. CASE StillCurrent(s.send)
  <2>1. s.send.through = detail /\ s.send.updates \cap told = {}
    BY <1>3, <1>4, StillNew
  <2>2. \A t \in s.send.updates : t <= s.send.through
    BY <1>3 DEF ToldInv, LogsKnown
  <2>3. Begin(s.send, started) /\ UNCHANGED <<github, link, wakeTurn, late, syncing, acts, history>>
    BY <1>4 DEF LogsLoaded
  <2> QED BY <1>2, <1>3, <2>1, <2>2, <2>3, BeginTold
<1>5. CASE ~StillCurrent(s.send)
  <2>1. UNCHANGED <<pr, summary, detail, link, meta, due, pausedBefore, wakeTurn, turn, late, syncing, acts, failures,
                    told, retold, halted, alone, reviewed>>
    BY <1>5 DEF LogsLoaded, github, history
  <2>2. Types' /\ EventsKnown'
    BY <1>1, <1>3, <1>5, <2>1 DEF Types, EventsKnown, Now, LogsLoaded
  <2> QED BY <1>2, <1>3, <2>1, <2>2, NothingTold
<1> QED BY <1>4, <1>5

LEMMA SendEndsTold == ASSUME ToldInv, NEW s \in sends, SendEnds(s) PROVE ToldInv'
<1>1. UNCHANGED <<pr, summary, detail, link, meta, due, pausedBefore, wakeTurn, turn, late, syncing, acts, failures,
                  told, retold, halted, alone, reviewed>>
  BY DEF SendEnds, github, history
<1>2. Types' /\ EventsKnown'
  BY <1>1 DEF ToldInv, Types, EventsKnown, Now, SendEnds
<1>3. detail \in Nat /\ link.seen \in Nat /\ sends' \subseteq sends
  BY DEF ToldInv, Types, Linked, Now, SendEnds
<1> QED BY <1>1, <1>2, <1>3, NothingTold

\* What GitHub makes of the latest version is a version whose own event is the next one.
LEMMA NextVersion ==
  ASSUME Types, EventsKnown, NEW v \in Versions
  PROVE  /\ v \in Version
         /\ v.comments \cup {v.updated, v.failed, v.passed} \subseteq 0..Now + 1
         /\ Now + 1 \in {v.updated, v.failed, v.passed}
<1>1. Now \in Nat /\ Current \in Version /\ Now \in 1..Now
  BY DEF Types, Now, Current
<1>2. Current.comments \cup {Current.updated, Current.failed, Current.passed} \subseteq 0..Now
  BY <1>1 DEF EventsKnown, Current
<1>3. \A x \in 0..Now : x \in 0..Now + 1
  BY <1>1
<1>4. Now + 1 \in Nat /\ Now + 1 \in 0..Now + 1 /\ 0 \in 0..Now + 1
  BY <1>1
<1>5. CASE v = [Current EXCEPT !.updated = Now + 1, !.comments = @ \cup {Now + 1}]
  <2>1. v = [Current EXCEPT !.updated = Now + 1, !.comments = Current.comments \cup {Now + 1}]
    BY <1>1, <1>5 DEF Version
  <2>2. /\ v.updated = Now + 1 /\ v.comments = Current.comments \cup {Now + 1}
        /\ v.failed = Current.failed /\ v.passed = Current.passed /\ v \in Version
    BY <1>1, <1>4, <2>1 DEF Version
  <2> QED BY <1>2, <1>3, <1>4, <2>2
<1>6. CASE v = [Current EXCEPT !.head = @ + 1, !.updated = Now + 1, !.failed = 0, !.passed = 0]
  <2>1. v = [head |-> Current.head + 1, updated |-> Now + 1, comments |-> Current.comments, failed |-> 0, passed |-> 0]
    BY <1>1, <1>6 DEF Version
  <2>2. Current.head + 1 \in Nat /\ Current.comments \in SUBSET Nat
    BY <1>1 DEF Version
  <2>3. /\ v.updated = Now + 1 /\ v.comments = Current.comments
        /\ v.failed = 0 /\ v.passed = 0 /\ v \in Version
    BY <1>4, <2>1, <2>2 DEF Version
  <2> QED BY <1>2, <1>3, <1>4, <2>3
<1>7. CASE v = [Current EXCEPT !.failed = Now + 1, !.passed = 0]
  <2>1. /\ v.updated = Current.updated /\ v.comments = Current.comments
        /\ v.failed = Now + 1 /\ v.passed = 0 /\ v \in Version
    BY <1>1, <1>4, <1>7 DEF Version
  <2> QED BY <1>2, <1>3, <1>4, <2>1
<1>8. CASE v = [Current EXCEPT !.passed = Now + 1, !.failed = 0]
  <2>1. /\ v.updated = Current.updated /\ v.comments = Current.comments
        /\ v.failed = 0 /\ v.passed = Now + 1 /\ v \in Version
    BY <1>1, <1>4, <1>8 DEF Version
  <2> QED BY <1>2, <1>3, <1>4, <2>1
<1> QED BY <1>5, <1>6, <1>7, <1>8 DEF Versions

LEMMA GitHubTold == ASSUME ToldInv, GitHub PROVE ToldInv'
<1>1. Types /\ EventsKnown
  BY DEF ToldInv
<1>2. PICK v \in Versions : pr' = Append(pr, v)
  BY DEF GitHub
<1>3. /\ v \in Version
      /\ v.comments \cup {v.updated, v.failed, v.passed} \subseteq 0..Now + 1
      /\ Now + 1 \in {v.updated, v.failed, v.passed}
  BY <1>1, NextVersion
<1>4. pr \in Seq(Version) /\ Now \in Nat /\ Len(pr) = Now
  BY <1>1 DEF Types, Now
<1>5. /\ pr' \in Seq(Version) /\ Now' = Now + 1
      /\ \A i \in 1..Now : pr'[i] = pr[i]
      /\ pr'[Now + 1] = v
  BY <1>2, <1>3, <1>4 DEF Now
<1>6. UNCHANGED <<summary, detail, link, meta, due, started, sends, pausedBefore, wakeTurn, turn, late, syncing, acts,
                  failures, told, retold, halted, alone, reviewed>>
  BY DEF GitHub, engine, history
<1>7. Types'
  <2>1. summary \in 1..Now + 1 /\ detail \in 1..Now + 1
    BY <1>1, <1>4 DEF Types
  <2> QED BY <1>1, <1>5, <1>6, <2>1 DEF Types
<1>8. EventsKnown'
  <2>1. ASSUME NEW i \in 1..Now + 1
        PROVE  /\ pr'[i].comments \cup {pr'[i].updated, pr'[i].failed, pr'[i].passed} \subseteq 0..i
               /\ i \in {pr'[i].updated, pr'[i].failed, pr'[i].passed}
    <3>1. CASE i = Now + 1
      BY <1>3, <1>5, <3>1
    <3>2. CASE i # Now + 1
      <4>1. i \in 1..Now
        BY <1>4, <3>2
      <4> QED BY <1>1, <1>5, <4>1 DEF EventsKnown
    <3> QED BY <3>1, <3>2
  <2> QED BY <1>5, <2>1 DEF EventsKnown
<1>9. detail \in Nat /\ link.seen \in Nat
  BY <1>1, <1>4 DEF Types, Linked
<1> QED BY <1>6, <1>7, <1>8, <1>9, NothingTold

LEMMA CachesTold == ASSUME ToldInv, RefreshInbox \/ LoadDetail PROVE ToldInv'
<1>1. Types /\ EventsKnown
  BY DEF ToldInv
<1>2. UNCHANGED <<pr, link, meta, started, sends, pausedBefore, wakeTurn, turn, late, syncing, acts,
                  failures, told, retold, halted, alone, reviewed>> /\ due' = TRUE
  BY DEF RefreshInbox, LoadDetail, history, Reevaluate
<1>3. Now \in 1..Now /\ Now \in Nat /\ detail \in 1..Now /\ detail' \in {detail, Now} /\ summary' \in {summary, Now}
  BY <1>1 DEF Types, Now, RefreshInbox, LoadDetail
<1>4. Types' /\ EventsKnown'
  BY <1>1, <1>2, <1>3 DEF Types, EventsKnown, Now
<1>5. detail' >= detail /\ link.seen \in Nat
  BY <1>1, <1>3 DEF Types, Linked
<1> QED BY <1>2, <1>4, <1>5, NothingTold

\* A turn of a user or of a wake begins, perhaps with what the dock shows.
LEMMA StartTold == ASSUME ToldInv, StartTurn \/ Wake PROVE ToldInv'
<1>1. Types /\ EventsKnown
  BY DEF ToldInv
<1> DEFINE shown == [NoSend EXCEPT !.updates = Updates(pr[detail]), !.through = Through(pr[detail])]
<1>2. /\ turn.stage = "none" /\ acts' = acts + 1 /\ due' = TRUE
      /\ UNCHANGED <<pr, summary, detail, link, meta, started, sends, pausedBefore, wakeTurn, late, syncing,
                     failures, told, retold, halted, alone, reviewed>>
  BY DEF StartTurn, Wake, github, history, Reevaluate
<1>3. PICK f \in {NoSend, shown}, kind \in {"user", "wake"} :
           turn' = [stage |-> "starting", kind |-> kind, at |-> 0, stop |-> FALSE, send |-> f]
  BY DEF StartTurn, Wake
<1>4. detail \in 1..Now /\ detail \in Nat /\ link.seen \in Nat /\ told \subseteq Nat
  BY <1>1 DEF Types, Linked, Now
<1>5. /\ f \in Send
      /\ \A t \in f.updates : t > link.seen /\ t <= f.through
      /\ f.updates # {} => f.through = detail
  <2>1. CASE f = NoSend
    BY <2>1, NoTurnType DEF NoSend
  <2>2. CASE f = shown
    <3>1. /\ Updates(pr[detail]) \subseteq Nat
          /\ \A t \in Updates(pr[detail]) : t > link.seen /\ t <= Through(pr[detail])
          /\ Through(pr[detail]) \in 0..detail
          /\ Updates(pr[detail]) # {} => Through(pr[detail]) = detail
      BY <1>1, <1>4, UpdatesMean
    <3>2. Through(pr[detail]) \in Nat
      BY <1>4, <3>1
    <3>3. f = [head |-> 0, final |-> FALSE, updates |-> Updates(pr[detail]), through |-> Through(pr[detail])]
      BY <2>2 DEF NoSend
    <3>4. f \in Send
      BY <3>1, <3>2, <3>3 DEF Send
    <3> QED BY <3>1, <3>3, <3>4
  <2> QED BY <2>1, <2>2
<1> HIDE DEF shown
<1>6. turn' \in Turning /\ turn'.send = f
  BY <1>3, <1>5 DEF Turning
<1>7. Types' /\ EventsKnown'
  BY <1>1, <1>2, <1>6 DEF Types, EventsKnown, Now
<1>8. StartKnown'
  <2>1. f.updates \cap told = {}
    <3>1. \A t \in told : t <= link.seen
      BY DEF ToldInv, ToldIsSeen
    <3>2. f.updates \subseteq Nat
      BY <1>5 DEF Send
    <3> QED BY <1>4, <1>5, <3>1, <3>2
  <2> QED BY <1>2, <1>5, <1>6, <2>1 DEF StartKnown
<1>9. LogsKnown'
  BY <1>2, <1>4, <1>5, <1>6 DEF ToldInv, LogsKnown
<1>10. ToldIsSeen' /\ UpdatesToldOnce'
  BY <1>2 DEF ToldInv, ToldIsSeen, UpdatesToldOnce
<1> QED BY <1>7, <1>8, <1>9, <1>10 DEF ToldInv

\* A turn that was started tells what it was started with, and marks it seen.
LEMMA LaunchTold == ASSUME ToldInv, Launch PROVE ToldInv'
<1>1. Types /\ EventsKnown
  BY DEF ToldInv
<1>2. /\ turn.stage = "starting" /\ due' = TRUE
      /\ link' = [link EXCEPT !.seen = SeenAfter(turn.send)]
      /\ told' = told \cup turn.send.updates /\ retold' = retold \cup (told \cap turn.send.updates)
      /\ UNCHANGED <<pr, summary, detail, started, sends, pausedBefore, syncing, acts, failures, reviewed>>
  BY DEF Launch, github, Reevaluate
<1>3. /\ turn.send.updates \cap told = {} /\ \A t \in turn.send.updates : t <= turn.send.through
  BY <1>2 DEF ToldInv, StartKnown
<1>4. /\ turn.send \in Send /\ turn.send.through \in Nat /\ turn.send.updates \subseteq Nat
      /\ turn.kind \in {"none", "user", "auto", "wake"} /\ turn.stop \in BOOLEAN
  BY <1>1 DEF Types, Turning, Send
<1>5. Now \in Nat /\ detail \in Nat /\ link.seen \in Nat /\ told \subseteq Nat
  BY <1>1 DEF Types, Linked, Now
<1>6. link' \in Linked /\ link'.seen >= link.seen /\ link'.seen >= turn.send.through /\ link'.seen \in Nat
  BY <1>1, <1>2, <1>4, <1>5 DEF Types, Linked, SeenAfter
<1>7. meta' \in Metas
  <2> DEFINE M == AfterStart(turn.kind)
  <2>1. M \in Metas
    BY <1>1, NoTurnType DEF AfterStart, Types, Metas
  <2> HIDE DEF M
  <2>2. meta' = M \/ meta' = AfterStop(turn.kind, M)
    BY DEF Launch, M
  <2> QED BY <2>1, <2>2, PauseType DEF AfterStop
<1>8. turn' \in Turning /\ turn'.stage # "starting" /\ late' \in {"none", "ended", "interrupted", "wake"}
  <2>1. CASE turn.stop
    <3>1. turn' = NoTurn /\ late' \in {"wake", "interrupted"}
      BY <2>1 DEF Launch, Interrupt
    <3> QED BY <3>1, NoTurnType DEF NoTurn
  <2>2. CASE ~turn.stop
    <3>1. turn' = [turn EXCEPT !.stage = "active", !.at = Now] /\ late' = late
      BY <2>2 DEF Launch
    <3> QED BY <1>1, <1>5, <3>1 DEF Types, Turning
  <2> QED BY <2>1, <2>2
<1>9. wakeTurn' \in BOOLEAN /\ halted' \in BOOLEAN /\ alone' \in Nat
  <2>1. wakeTurn' \in BOOLEAN
    BY DEF Launch
  <2>2. halted' \in BOOLEAN
    BY <1>1, <1>4 DEF Launch, Types
  <2>3. alone' \in Nat
    BY <1>1, <1>4 DEF Launch, Types
  <2> QED BY <2>1, <2>2, <2>3
<1>10. Types' /\ EventsKnown'
  <2>1. told' \subseteq Nat /\ retold' \subseteq Nat
    BY <1>1, <1>2, <1>4 DEF Types
  <2> QED BY <1>1, <1>2, <1>6, <1>7, <1>8, <1>9, <2>1 DEF Types, EventsKnown, Now
<1>11. ToldIsSeen'
  <2>1. ASSUME NEW t \in told PROVE t <= link'.seen
    BY <1>5, <1>6 DEF ToldInv, ToldIsSeen
  <2>2. ASSUME NEW t \in turn.send.updates PROVE t <= link'.seen
    BY <1>3, <1>4, <1>6
  <2> QED BY <1>2, <2>1, <2>2 DEF ToldIsSeen
<1>12. LogsKnown'
  <2>1. ASSUME NEW s \in sends, s.stage = "logs"
        PROVE  /\ ~s.send.final
               /\ s.send.through \in 1..detail
               /\ \A t \in s.send.updates : t <= s.send.through
               /\ s.send.updates \cap told' # {} => s.send.through <= link'.seen
    <3>1. /\ ~s.send.final
          /\ s.send.through \in 1..detail
          /\ \A t \in s.send.updates : t <= s.send.through
          /\ s.send.updates \cap told # {} => s.send.through <= link.seen
          /\ turn.send.updates # {} => s.send.through <= turn.send.through
      BY <1>2, <2>1 DEF ToldInv, LogsKnown
    <3>2. s.send.updates \cap told' # {} => s.send.updates \cap told # {} \/ turn.send.updates # {}
      BY <1>2
    <3>3. s.send.through \in Nat
      BY <1>5, <3>1
    <3> QED BY <1>4, <1>5, <1>6, <3>1, <3>2, <3>3
  <2> QED BY <1>2, <1>8, <2>1 DEF LogsKnown
<1>13. StartKnown' /\ UpdatesToldOnce'
  BY <1>2, <1>3, <1>8 DEF ToldInv, StartKnown, UpdatesToldOnce
<1> QED BY <1>10, <1>11, <1>12, <1>13 DEF ToldInv

LEMMA StartFailsTold == ASSUME ToldInv, NEW refused \in BOOLEAN, StartFails(refused) PROVE ToldInv'
<1>1. Types /\ EventsKnown
  BY DEF ToldInv
<1>2. /\ turn' = NoTurn /\ failures' = failures + 1 /\ due' = TRUE
      /\ UNCHANGED <<pr, summary, detail, link, started, pausedBefore, wakeTurn, late, syncing, acts,
                     told, retold, halted, alone, reviewed>>
  BY DEF StartFails, github, history, Reevaluate
<1>3. meta' \in Metas
  BY <1>1, PauseType DEF StartFails, Types
<1>4. sends' = sends \/ sends' = sends \cup {[send |-> turn.send, stage |-> "refused"]}
  BY DEF StartFails
<1>5. sends' \subseteq Sendings
  BY <1>1, <1>4 DEF Types, Sendings, Turning
<1>6. Types' /\ EventsKnown'
  BY <1>1, <1>2, <1>3, <1>5, NoTurnType DEF Types, EventsKnown, Now
<1>7. detail \in Nat /\ link.seen \in Nat
  BY <1>1 DEF Types, Linked, Now
<1>8. \A s \in sends' : s \in sends \/ s.stage # "logs"
  BY <1>4
<1>9. turn'.stage # "starting"
  BY <1>2 DEF NoTurn
<1> QED BY <1>2, <1>6, <1>7, <1>8, <1>9, NothingTold

LEMMA StopTold == ASSUME ToldInv, Stop PROVE ToldInv'
<1>1. Types /\ EventsKnown
  BY DEF ToldInv
<1>2. /\ acts' = acts + 1 /\ due' = TRUE
      /\ UNCHANGED <<pr, summary, detail, link, started, sends, pausedBefore, wakeTurn, syncing, failures,
                     told, retold, alone, reviewed>>
  BY DEF Stop, github, Reevaluate
<1>3. halted' \in BOOLEAN
  BY <1>1 DEF Stop, Types
<1>4. meta' \in Metas /\ late' \in {"none", "ended", "interrupted", "wake"}
  BY <1>1, PauseType DEF Stop, AfterStop, Interrupt, Types
<1>5. turn' \in Turning /\ (turn'.stage = "starting" => turn.stage = "starting" /\ turn'.send = turn.send)
  <2>1. CASE turn' = NoTurn
    BY <2>1, NoTurnType DEF NoTurn
  <2>2. CASE turn.stage = "starting" /\ turn' = [turn EXCEPT !.stop = TRUE]
    BY <1>1, <2>2 DEF Types, Turning
  <2> QED BY <2>1, <2>2 DEF Stop, Interrupt
<1>6. Types' /\ EventsKnown'
  BY <1>1, <1>2, <1>3, <1>4, <1>5 DEF Types, EventsKnown, Now
<1>7. detail \in Nat /\ link.seen \in Nat
  BY <1>1 DEF Types, Linked, Now
<1> QED BY <1>2, <1>5, <1>6, <1>7, NothingTold

LEMMA TurnEndsTold == ASSUME ToldInv, NEW how \in {"done", "failed", "error"}, TurnEnds(how) PROVE ToldInv'
<1>1. Types /\ EventsKnown
  BY DEF ToldInv
<1>2. /\ turn' = NoTurn /\ late' = "ended" /\ due' = TRUE
      /\ UNCHANGED <<pr, summary, detail, link, started, sends, pausedBefore, acts, failures,
                     told, retold, halted, alone>>
  BY DEF TurnEnds, github, Reevaluate
<1>3. meta' \in Metas /\ wakeTurn' \in BOOLEAN
  BY <1>1, PauseType DEF TurnEnds, Types
<1>4. turn.at \in Nat /\ turn.send.head \in Nat
  BY <1>1 DEF Types, Turning, Send
<1>5. syncing' \subseteq Syncs
  <2>1. ReviewOf(how) \in Nat
    BY <1>4 DEF ReviewOf
  <2>2. [until |-> turn.at, capped |-> TRUE, review |-> ReviewOf(how)] \in Syncs
    BY <1>4, <2>1 DEF Syncs
  <2> QED BY <1>1, <2>2 DEF TurnEnds, Types
<1>6. reviewed' \subseteq Nat
  BY <1>1, <1>4 DEF TurnEnds, Types
<1>7. Types' /\ EventsKnown'
  BY <1>1, <1>2, <1>3, <1>5, <1>6, NoTurnType DEF Types, EventsKnown, Now
<1>8. detail \in Nat /\ link.seen \in Nat
  BY <1>1 DEF Types, Linked, Now
<1>9. turn'.stage # "starting"
  BY <1>2 DEF NoTurn
<1> QED BY <1>2, <1>7, <1>8, <1>9, NothingTold

LEMMA LateDoneTold == ASSUME ToldInv, NEW isError \in BOOLEAN, LateDone(isError) PROVE ToldInv'
<1>1. Types /\ EventsKnown
  BY DEF ToldInv
<1>2. /\ failures' = failures + 1 /\ late' = "none" /\ due' = TRUE
      /\ syncing' = syncing \cup {[until |-> Now, capped |-> FALSE, review |-> 0]}
      /\ UNCHANGED <<pr, summary, detail, link, started, sends, pausedBefore, turn, acts,
                     told, retold, halted, alone, reviewed>>
  BY DEF LateDone, github, history, Reevaluate
<1>3. meta' \in Metas /\ wakeTurn' \in BOOLEAN
  BY <1>1, PauseType DEF LateDone, Types
<1>4. syncing' \subseteq Syncs
  <2>1. Now \in Nat
    BY <1>1 DEF Types, Now
  <2>2. [until |-> Now, capped |-> FALSE, review |-> 0] \in Syncs
    BY <2>1 DEF Syncs
  <2> QED BY <1>1, <1>2, <2>2 DEF Types
<1>5. Types' /\ EventsKnown'
  BY <1>1, <1>2, <1>3, <1>4 DEF Types, EventsKnown, Now
<1>6. detail \in Nat /\ link.seen \in Nat
  BY <1>1 DEF Types, Linked, Now
<1> QED BY <1>2, <1>5, <1>6, NothingTold

LEMMA SyncSeenTold ==
  ASSUME ToldInv, NEW s \in syncing, NEW fetched \in BOOLEAN, SyncSeen(s, fetched) PROVE ToldInv'
<1>1. Types /\ EventsKnown
  BY DEF ToldInv
<1>2. /\ due' = TRUE /\ syncing' \subseteq syncing
      /\ UNCHANGED <<pr, detail, meta, started, sends, pausedBefore, wakeTurn, turn, late, acts, failures,
                     told, retold, halted, alone, reviewed>>
  BY DEF SyncSeen, history, Reevaluate
<1>3. summary' \in 1..Now
  BY <1>1 DEF SyncSeen, Types, Now
<1>4. s.until \in Nat /\ s.review \in Nat /\ link.seen \in Nat /\ link.reviewed \in Nat /\ detail \in Nat
  BY <1>1 DEF Types, Syncs, Linked, Now
<1>5. pr[summary'].updated \in Nat
  <2>1. pr \in Seq(Version) /\ summary' \in 1..Len(pr)
    BY <1>1, <1>3 DEF Types, Now
  <2>2. pr[summary'] \in Version
    BY <2>1
  <2> QED BY <2>2 DEF Version
<1> DEFINE until == IF s.capped THEN s.until ELSE Max({s.until, pr[summary'].updated})
<1>6. until \in Nat
  BY <1>4, <1>5, MaxOfTwo
<1>7. link' = [seen |-> Max({link.seen, until}),
               reviewed |-> IF fetched /\ s.review = pr[summary'].head THEN s.review ELSE link.reviewed]
  BY DEF SyncSeen
<1> HIDE DEF until
<1>8. Max({link.seen, until}) \in Nat /\ Max({link.seen, until}) >= link.seen
  BY <1>4, <1>6, MaxOfTwo
<1>9. link' \in Linked /\ link'.seen >= link.seen
  BY <1>4, <1>7, <1>8 DEF Linked
<1>10. Types' /\ EventsKnown'
  BY <1>1, <1>2, <1>3, <1>9 DEF Types, EventsKnown, Now
<1> QED BY <1>2, <1>4, <1>9, <1>10, NothingTold

LEMMA UserTold == ASSUME ToldInv, Pause \/ Resume \/ DismissUpdates PROVE ToldInv'
<1>1. Types /\ EventsKnown
  BY DEF ToldInv
<1>2. /\ acts' = acts + 1 /\ due' = TRUE
      /\ UNCHANGED <<pr, summary, detail, started, sends, pausedBefore, wakeTurn, turn, late, syncing, failures,
                     told, retold, reviewed>>
  BY DEF Pause, Resume, DismissUpdates, github, Reevaluate
<1>3. meta' \in Metas /\ halted' \in BOOLEAN /\ alone' \in Nat
  <2>1. meta \in Metas /\ halted \in BOOLEAN /\ alone \in Nat
    BY <1>1 DEF Types
  <2>2. CASE Pause
    BY <2>1, <2>2 DEF Pause, Metas
  <2>3. CASE Resume
    BY <2>1, <2>3, NoTurnType DEF Resume
  <2>4. CASE DismissUpdates
    BY <2>1, <2>4 DEF DismissUpdates
  <2> QED BY <2>2, <2>3, <2>4
<1>4. detail \in 1..Now /\ detail \in Nat /\ link.seen \in Nat /\ link \in Linked
  BY <1>1 DEF Types, Linked, Now
<1>5. link' \in Linked /\ link'.seen >= link.seen
  <2>1. CASE UNCHANGED link
    BY <1>4, <2>1
  <2>2. CASE DismissUpdates
    <3>1. Through(pr[detail]) \in Nat
      BY <1>1, <1>4, UpdatesMean
    <3>2. /\ Max({link.seen, Through(pr[detail])}) \in Nat
          /\ Max({link.seen, Through(pr[detail])}) >= link.seen
      BY <1>4, <3>1, MaxOfTwo
    <3>3. link' = [link EXCEPT !.seen = Max({link.seen, Through(pr[detail])})]
      BY <1>4, <2>2 DEF DismissUpdates, Linked
    <3> QED BY <1>4, <3>2, <3>3 DEF Linked
  <2> QED BY <2>1, <2>2 DEF Pause, Resume
<1>6. Types' /\ EventsKnown'
  BY <1>1, <1>2, <1>3, <1>5 DEF Types, EventsKnown, Now
<1> QED BY <1>2, <1>4, <1>5, <1>6, NothingTold

LEMMA ToldStep == ToldInv /\ [Next]_vars => ToldInv'
<1> SUFFICES ASSUME ToldInv, [Next]_vars PROVE ToldInv'
  OBVIOUS
<1>1. CASE UNCHANGED vars
  <2>1. UNCHANGED <<pr, summary, detail, link, meta, due, started, sends, pausedBefore, wakeTurn, turn, late, syncing,
                    acts, failures, told, retold, halted, alone, reviewed>>
    BY <1>1 DEF vars, github, engine, history
  <2> QED BY <2>1 DEF ToldInv, Types, EventsKnown, ToldIsSeen, StartKnown, LogsKnown, UpdatesToldOnce, Now
<1> QED
  BY <1>1, GitHubTold, CachesTold, EvaluateTold, LogsLoadedTold, SendEndsTold, StartTold, LaunchTold, StartFailsTold,
     StopTold, TurnEndsTold, LateDoneTold, SyncSeenTold, UserTold
  DEF Next

LEMMA ToldInvariant == FollowUpsSpec => []ToldInv
  BY ToldInit, ToldStep, PTL DEF FollowUpsSpec

\* Every variable of the engine, the link and the session has its type.
THEOREM FollowUpTypes == FollowUpsSpec => []FollowUpsTypeOK
<1>1. ToldInv => FollowUpsTypeOK
  BY Typed DEF ToldInv
<1> QED BY <1>1, ToldInvariant, PTL

\* No update of a pull request is told twice, by whatever turns and sends that overlap.
THEOREM ToldAtMostOnce == FollowUpsSpec => []UpdatesToldOnce
<1>1. ToldInv => UpdatesToldOnce
  BY DEF ToldInv
<1> QED BY <1>1, ToldInvariant, PTL
=============================================================================
