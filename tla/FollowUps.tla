------------------------------- MODULE FollowUps -------------------------------
(***************************************************************************)
(* Automatic follow-ups.  A session with a continuous workflow on a pull   *)
(* request is sent the request's updates as turns nobody asked for, by     *)
(* AutoFollowUpEngine, which sees the request through two caches that are  *)
(* refreshed now and then.  What the session has seen of it is one time,   *)
(* lastSeenAt, that moves when a follow-up was sent, and to the start of a *)
(* turn when the turn has ended.                                           *)
(*                                                                         *)
(* Evaluations and the other continuations of a task run before the next   *)
(* task does; Task is the guard of everything that is a task of its own.   *)
(* The session is neither resolved nor waiting for subagents, the pull     *)
(* request stays open, and the server is not shut down.                    *)
(***************************************************************************)
EXTENDS Integers, Sequences, FiniteSetsExt

CONSTANTS
    Limit,          \* AUTO_FOLLOW_UP_LIMIT
    NeedsLogs,      \* whether the workflow's prompt quotes the logs of failed checks
    MaxEvents,      \* bound: what happens to the pull request
    MaxActs,        \* bound: what users and subagents do
    MaxFailures     \* bound: starts that fail, and ends reported twice

ASSUME FollowUpAssumption ==
    /\ Limit \in Nat \ {0} /\ NeedsLogs \in BOOLEAN
    /\ {MaxEvents, MaxActs, MaxFailures} \subseteq Nat

VARIABLES
    pr,             \* the pull request after each event; the index of an event is its time
    summary,        \* the version that the inbox and PrTracker hold
    detail,         \* the version in PrStore.details
    link,           \* SessionPrLink: lastSeenAt and finalReviewSha
    meta,           \* SessionMeta.autoFollowUp
    due,            \* AutoFollowUpEngine.scheduled
    started,        \* AutoFollowUpEngine.started, the signatures dealt with
    sends,          \* calls of send that load logs, or whose start was refused
    pausedBefore,   \* AutoFollowUpEngine.pausedBefore
    wakeTurn,       \* whether wakeTurns has the session's latest wake
    turn,           \* the session's turn
    late,           \* how the turn ended that the driver may report the end of again
    syncing,        \* calls of syncPrSeenAfterTurn that wait for the head
    acts,           \* what users and subagents did
    failures,       \* what failed or was reported twice
    told,           \* history: updates a prompt told
    retold,         \* history: those told again
    halted,         \* history: the user stopped or paused, and did not set to work again
    alone,          \* history: automatic turns since the user's last turn or resume
    reviewed        \* history: heads whose final review ended well

github == <<pr, summary, detail>>
engine == <<due, started, sends, pausedBefore, wakeTurn>>
history == <<told, retold, halted, alone, reviewed>>
vars == <<github, link, meta, engine, turn, late, syncing, acts, failures, history>>

-----------------------------------------------------------------------------
(* The pull request *)

Opened == [head |-> 1, updated |-> 1, comments |-> {}, failed |-> 0, passed |-> 0]
Now == Len(pr)
Current == pr[Now]

NoSend == [head |-> 0, final |-> FALSE, updates |-> {}, through |-> 0]
NoTurn == [stage |-> "none", kind |-> "none", at |-> 0, stop |-> FALSE, send |-> NoSend]
NotPaused == [turns |-> 0, paused |-> "no"]

Init ==
    /\ pr = <<Opened>> /\ summary = 1 /\ detail = 1
    /\ link = [seen |-> 1, reviewed |-> 0] /\ meta = NotPaused
    /\ due = TRUE /\ started = {} /\ sends = {} /\ pausedBefore = FALSE /\ wakeTurn = FALSE
    /\ turn = NoTurn /\ late = "none" /\ syncing = {}
    /\ acts = 0 /\ failures = 0
    /\ told = {} /\ retold = {} /\ halted = FALSE /\ alone = 0 /\ reviewed = {}

\* Every continuation of the task before has run.
Task == ~due /\ \A s \in sends : s.stage # "refused"

\* reevaluate
Reevaluate == due' = TRUE

\* Someone comments or pushes, or the checks of a head end, which does not move updatedAt.
Versions ==
    LET at == Now + 1
    IN  {[Current EXCEPT !.updated = at, !.comments = @ \cup {at}],
         [Current EXCEPT !.head = @ + 1, !.updated = at, !.failed = 0, !.passed = 0]}
        \cup {v \in {[Current EXCEPT !.failed = at, !.passed = 0]} : Current.failed = 0}
        \cup {v \in {[Current EXCEPT !.passed = at, !.failed = 0]} : Current.passed = 0}

GitHub ==
    /\ Task /\ Now <= MaxEvents
    /\ \E v \in Versions : pr' = Append(pr, v)
    /\ UNCHANGED <<summary, detail, link, meta, engine, turn, late, syncing, acts, failures, history>>

\* A poll of the inbox or the tracker is answered; every answer makes the store call its
\* listeners.
RefreshInbox ==
    /\ Task
    /\ summary' = Now /\ Reevaluate
    /\ UNCHANGED <<pr, detail, link, meta, started, sends, pausedBefore, wakeTurn, turn, late, syncing, acts, failures, history>>

\* detailNeedsRefresh
NeedsRefresh(d, s) ==
    /\ s.updated >= d.updated
    /\ <<s.updated, s.head, s.failed # 0, s.passed # 0>> # <<d.updated, d.head, d.failed # 0, d.passed # 0>>

\* beginLoad and its answer: PrStore wants a detail that needs a refresh, and a window that
\* shows the pull request loads it at other times too.
LoadDetail ==
    /\ Task
    /\ detail' = Now /\ Reevaluate
    /\ UNCHANGED <<pr, summary, link, meta, started, sends, pausedBefore, wakeTurn, turn, late, syncing, acts, failures, history>>

-----------------------------------------------------------------------------
(* What there is to send *)

Busy == turn.stage # "none"
Paused == meta.paused # "no"

\* updatesSince, of which comments and failed checks are actionable
Since(times) == {t \in times : t > link.seen}
Updates(v) == Since(v.comments \cup {v.failed, v.passed})
Actionable(v) == Since(v.comments \cup {v.failed}) # {}

\* seenThrough
Through(v) == Max({v.updated} \cup Updates(v))

\* autoFollowUps for the session, as a set with at most one element
Candidates ==
    LET v == pr[detail]
        ready == v.passed # 0 /\ link.reviewed # v.head
    IN  {f \in {[head |-> v.head, final |-> ~Actionable(v), updates |-> Updates(v), through |-> Through(v)]} :
            /\ ~Busy /\ ~Paused /\ meta.turns < Limit
            /\ ~NeedsRefresh(v, pr[summary])
            /\ Actionable(v) \/ ready}

Signature(f) == <<f.head, IF f.final THEN 0 ELSE f.through>>
Starting == turn.stage = "starting" /\ turn.kind = "auto"
InFlight == {Signature(s.send) : s \in sends} \cup IF Starting THEN {Signature(turn.send)} ELSE {}

\* withAutoPause
AutoPause(m, reason) == IF m.paused = "user" THEN m ELSE [m EXCEPT !.paused = reason]

\* TurnService.start from a send: it begins, is refused as busy by a harness update, or fails
\* for another reason, which pauses.  dealtWith are the signatures dealt with.
Begin(f, dealtWith) ==
    \/ /\ turn' = [stage |-> "starting", kind |-> "auto", at |-> 0, stop |-> FALSE, send |-> f]
       /\ started' = dealtWith \cup {Signature(f)} /\ due' = TRUE
       /\ UNCHANGED <<meta, failures>>
    \/ /\ failures < MaxFailures /\ failures' = failures + 1
       /\ started' = dealtWith \ {Signature(f)} /\ due' = FALSE
       /\ UNCHANGED <<meta, turn>>
    \/ /\ failures < MaxFailures /\ failures' = failures + 1
       /\ meta' = AutoPause(meta, "error")
       /\ started' = dealtWith \cup {Signature(f)} /\ due' = TRUE
       /\ UNCHANGED turn

\* Faulty: a resume forgets nothing.
RemembersAll == started

\* forgetResumed
Remembered ==
    IF pausedBefore /\ ~Paused THEN started \cap InFlight ELSE started

\* evaluate, and send up to its first await
Evaluate ==
    /\ due
    /\ pausedBefore' = Paused
    /\ LET new == {f \in Candidates : Signature(f) \notin Remembered}
       IN  IF new = {}
           THEN started' = Remembered /\ due' = FALSE /\ UNCHANGED <<meta, sends, turn, failures>>
           ELSE \E f \in new :
                  IF NeedsLogs /\ ~f.final
                  THEN /\ sends' = sends \cup {[send |-> f, stage |-> "logs"]}
                       /\ started' = Remembered \cup {Signature(f)} /\ due' = FALSE
                       /\ UNCHANGED <<meta, turn, failures>>
                  ELSE Begin(f, Remembered) /\ UNCHANGED sends
    /\ UNCHANGED <<github, link, wakeTurn, late, syncing, acts, history>>

\* Faulty: a send that has loaded its logs goes on unless the session is busy.
CanSend(f) == ~Busy

\* stillCurrent
StillCurrent(f) == \E g \in Candidates : Signature(g) = Signature(f)

\* send goes on with the logs, or gives up.
LogsLoaded(s) ==
    /\ Task /\ s.stage = "logs"
    /\ sends' = sends \ {s}
    /\ IF StillCurrent(s.send)
       THEN Begin(s.send, started)
       ELSE started' = started \ {Signature(s.send)} /\ UNCHANGED <<due, meta, turn, failures>>
    /\ UNCHANGED <<github, link, pausedBefore, wakeTurn, late, syncing, acts, history>>

\* send returns false after its start was refused: the evaluation that the aborted turn asked
\* for has run by then, and still found the signature.
SendEnds(s) ==
    /\ ~due /\ s.stage = "refused"
    /\ sends' = sends \ {s}
    /\ started' = started \ {Signature(s.send)}
    /\ UNCHANGED <<github, link, meta, due, pausedBefore, wakeTurn, turn, late, syncing, acts, failures, history>>

-----------------------------------------------------------------------------
(* Turns *)

\* A user's prompt, or sendUpdates of what the dock shows; assertCanStartTurn and beginTurn.
StartTurn ==
    /\ Task /\ turn.stage = "none" /\ acts < MaxActs
    /\ \E f \in {NoSend, [NoSend EXCEPT !.updates = Updates(pr[detail]), !.through = Through(pr[detail])]} :
         /\ f = NoSend \/ f.updates # {}
         /\ turn' = [stage |-> "starting", kind |-> "user", at |-> 0, stop |-> FALSE, send |-> f]
    /\ acts' = acts + 1 /\ Reevaluate
    /\ UNCHANGED <<github, link, meta, started, sends, pausedBefore, wakeTurn, late, syncing, failures, history>>

\* SubagentDelivery wakes the session, perhaps before the evaluation.
Wake ==
    /\ turn.stage = "none" /\ acts < MaxActs
    /\ turn' = [stage |-> "starting", kind |-> "wake", at |-> 0, stop |-> FALSE, send |-> NoSend]
    /\ acts' = acts + 1 /\ Reevaluate
    /\ UNCHANGED <<github, link, meta, started, sends, pausedBefore, wakeTurn, late, syncing, failures, history>>

\* Faulty: a wake counts as a turn of the user.
WakeResets(kind) ==
    IF kind = "auto" THEN [meta EXCEPT !.turns = @ + 1]
    ELSE IF meta.paused = "user" THEN [meta EXCEPT !.turns = 0]
    ELSE NotPaused

\* AutoFollowUpEngine.turnStarted
AfterStart(kind) ==
    CASE kind = "auto" -> [meta EXCEPT !.turns = @ + 1]
      [] kind = "wake" -> meta
      [] OTHER -> IF meta.paused = "user" THEN [meta EXCEPT !.turns = 0] ELSE NotPaused

\* turnInterrupted and turnStopped: a wake's end pauses nothing.
AfterStop(kind, m) == IF kind = "wake" THEN m ELSE AutoPause(m, "interrupted")

\* What SessionManager.interrupt leaves: the driver may still report the turn's end.
Interrupt ==
    /\ turn' = NoTurn
    /\ late' = IF turn.kind = "wake" THEN "wake" ELSE "interrupted"

\* Faulty: a follow-up that was sent is not marked seen.
NotSeen(f) == link.seen

\* markSeen with what a prompt told, after its turn was started
SeenAfter(f) == IF f.through > link.seen THEN f.through ELSE link.seen

\* The driver has the prompt: the rest of startTurn, turnStarted, a stop that came meanwhile,
\* and, for a follow-up, markPrSeen.
Launch ==
    /\ Task /\ turn.stage = "starting"
    /\ link' = [link EXCEPT !.seen = SeenAfter(turn.send)]
    /\ wakeTurn' = (turn.kind = "wake")
    /\ meta' = IF turn.stop THEN AfterStop(turn.kind, AfterStart(turn.kind)) ELSE AfterStart(turn.kind)
    /\ IF turn.stop THEN Interrupt ELSE turn' = [turn EXCEPT !.stage = "active", !.at = Now] /\ UNCHANGED late
    /\ Reevaluate
    /\ told' = told \cup turn.send.updates
    /\ retold' = retold \cup (told \cap turn.send.updates)
    /\ halted' = IF turn.kind = "user" THEN turn.stop \/ meta.paused = "user" ELSE halted
    /\ alone' = CASE turn.kind = "auto" -> alone + 1
                  [] turn.kind = "user" -> 0
                  [] OTHER -> alone
    /\ UNCHANGED <<github, started, sends, pausedBefore, syncing, acts, failures, reviewed>>

\* A start fails, refused as busy or for another reason, which only a follow-up tells apart.
StartFails(refused) ==
    /\ Task /\ turn.stage = "starting"
    /\ failures < MaxFailures /\ failures' = failures + 1
    /\ LET stopped == IF turn.stop /\ ~wakeTurn THEN AutoPause(meta, "interrupted") ELSE meta
       IN  IF turn.kind = "auto" /\ ~refused
           THEN meta' = AutoPause(stopped, "error") /\ UNCHANGED sends
           ELSE /\ meta' = stopped
                /\ sends' = IF turn.kind = "auto" THEN sends \cup {[send |-> turn.send, stage |-> "refused"]} ELSE sends
    /\ turn' = NoTurn
    /\ Reevaluate
    /\ UNCHANGED <<github, link, started, pausedBefore, wakeTurn, late, syncing, acts, history>>

\* TurnService.stop: of an active turn, or of one that starts
Stop ==
    /\ Task /\ acts < MaxActs /\ acts' = acts + 1
    /\ \/ /\ turn.stage = "active"
          /\ Interrupt
          /\ meta' = AfterStop(turn.kind, meta)
          /\ halted' = (halted \/ turn.kind # "wake")
       \/ /\ turn.stage = "starting"
          /\ turn' = [turn EXCEPT !.stop = TRUE]
          /\ halted' = (halted \/ (turn.kind # "wake" /\ ~wakeTurn))
          /\ UNCHANGED <<meta, late>>
    /\ Reevaluate
    /\ UNCHANGED <<github, link, started, sends, pausedBefore, wakeTurn, syncing, failures, told, retold, alone, reviewed>>

\* Faulty: a final review that failed counts.
ReviewedAnyway(how) == IF turn.send.final THEN turn.send.head ELSE 0

\* turnFinalReviews, for syncPrSeenAfterTurn
ReviewOf(how) == IF turn.send.final /\ how = "done" THEN turn.send.head ELSE 0

\* turn.done, turn.done with isError, or turn.error
TurnEnds(how) ==
    /\ Task /\ turn.stage = "active"
    /\ syncing' = IF how = "error" THEN syncing
                  ELSE syncing \cup {[until |-> turn.at, capped |-> TRUE, review |-> ReviewOf(how)]}
    /\ meta' = IF turn.kind = "wake" \/ how = "done" THEN meta ELSE AutoPause(meta, "error")
    /\ wakeTurn' = (wakeTurn /\ turn.kind # "wake")
    /\ turn' = NoTurn /\ late' = "ended"
    /\ Reevaluate
    /\ reviewed' = IF how = "done" /\ turn.send.final THEN reviewed \cup {turn.send.head} ELSE reviewed
    /\ UNCHANGED <<github, link, started, sends, pausedBefore, acts, failures, told, retold, halted, alone>>

\* A turn.done of a turn that is over: Codex reports interrupted turns as completed, and Claude
\* may report a completed turn again.  Nothing is known of its start.
LateDone(isError) ==
    /\ Task /\ late # "none" /\ failures < MaxFailures
    /\ late = "ended" => turn.stage # "active"
    /\ isError => late = "ended"
    /\ failures' = failures + 1
    /\ late' = "none"
    /\ syncing' = syncing \cup {[until |-> Now, capped |-> FALSE, review |-> 0]}
    /\ wakeTurn' = (wakeTurn /\ (late # "wake" \/ (turn.kind = "wake" /\ turn.stage = "active")))
    /\ meta' = IF isError THEN AutoPause(meta, "error") ELSE meta
    /\ Reevaluate
    /\ UNCHANGED <<github, link, started, sends, pausedBefore, turn, acts, history>>

\* syncPrSeenAfterTurn goes on with the head it fetched, or without one: applyTurnSeen of the
\* session's only link, and applyFinalReview.
SyncSeen(s, fetched) ==
    /\ Task /\ s \in syncing
    /\ syncing' = syncing \ {s}
    /\ summary' = IF fetched THEN Now ELSE summary
    /\ LET known == pr[summary']
           until == IF s.capped THEN s.until ELSE Max({s.until, known.updated})
       IN  link' = [seen |-> Max({link.seen, until}),
                    reviewed |-> IF fetched /\ s.review = known.head THEN s.review ELSE link.reviewed]
    /\ Reevaluate
    /\ UNCHANGED <<pr, detail, meta, started, sends, pausedBefore, wakeTurn, turn, late, acts, failures, history>>

-----------------------------------------------------------------------------
(* What users and the server do *)

Pause ==
    /\ Task /\ acts < MaxActs /\ acts' = acts + 1
    /\ meta' = [meta EXCEPT !.paused = "user"] /\ halted' = TRUE
    /\ Reevaluate
    /\ UNCHANGED <<github, link, started, sends, pausedBefore, wakeTurn, turn, late, syncing, failures, told, retold, alone, reviewed>>

Resume ==
    /\ Task /\ acts < MaxActs /\ acts' = acts + 1
    /\ meta' = NotPaused /\ halted' = FALSE /\ alone' = 0
    /\ Reevaluate
    /\ UNCHANGED <<github, link, started, sends, pausedBefore, wakeTurn, turn, late, syncing, failures, told, retold, reviewed>>

\* dismissUpdates of what the dock shows
DismissUpdates ==
    /\ Task /\ acts < MaxActs /\ acts' = acts + 1
    /\ link' = [link EXCEPT !.seen = Max({@, Through(pr[detail])})]
    /\ Reevaluate
    /\ UNCHANGED <<github, meta, started, sends, pausedBefore, wakeTurn, turn, late, syncing, failures, told, retold, halted, alone, reviewed>>

Next ==
    \/ GitHub
    \/ RefreshInbox
    \/ LoadDetail
    \/ Evaluate
    \/ \E s \in sends : LogsLoaded(s) \/ SendEnds(s)
    \/ StartTurn \/ Wake \/ Launch \/ Stop
    \/ \E refused \in BOOLEAN : StartFails(refused)
    \/ \E how \in {"done", "failed", "error"} : TurnEnds(how)
    \/ \E isError \in BOOLEAN : LateDone(isError)
    \/ \E s \in syncing, fetched \in BOOLEAN : SyncSeen(s, fetched)
    \/ Pause \/ Resume \/ DismissUpdates

FollowUpsSpec == Init /\ [][Next]_vars

\* Tasks that are due are run, however often others come first.  Polls go on, the harness
\* answers a start and ends its turns.  Nobody has to do anything else.
Fairness ==
    /\ WF_vars(Evaluate)
    /\ WF_vars(\E s \in sends : SendEnds(s))
    /\ SF_vars(RefreshInbox)
    /\ SF_vars(NeedsRefresh(pr[detail], pr[summary]) /\ LoadDetail)
    /\ SF_vars(\E s \in sends : LogsLoaded(s))
    /\ SF_vars(Launch \/ \E refused \in BOOLEAN : StartFails(refused))
    /\ SF_vars(\E how \in {"done", "failed", "error"} : TurnEnds(how))

LiveFollowUpsSpec == FollowUpsSpec /\ Fairness

-----------------------------------------------------------------------------
(* Properties *)

Send == [head : Nat, final : BOOLEAN, updates : SUBSET Nat, through : Nat]
Version == [head : Nat, updated : Nat, comments : SUBSET Nat, failed : Nat, passed : Nat]

\* Every variable has its type.
FollowUpsTypeOK ==
    /\ pr \in Seq(Version) /\ summary \in 1..Now /\ detail \in 1..Now
    /\ link \in [seen : Nat, reviewed : Nat]
    /\ meta \in [turns : Nat, paused : {"no", "user", "interrupted", "error"}]
    /\ {due, pausedBefore, wakeTurn, halted} \subseteq BOOLEAN
    /\ started \subseteq Nat \X Nat
    /\ sends \subseteq [send : Send, stage : {"logs", "refused"}]
    /\ turn \in [stage : {"none", "starting", "active"}, kind : {"none", "user", "auto", "wake"},
                 at : Nat, stop : BOOLEAN, send : Send]
    /\ late \in {"none", "ended", "interrupted", "wake"}
    /\ syncing \subseteq [until : Nat, capped : BOOLEAN, review : Nat]
    /\ {acts, failures, alone} \subseteq Nat
    /\ {told, retold, reviewed} \subseteq SUBSET Nat

\* No update is told twice: a follow-up that was sent counts as seen before the engine can look
\* again, whatever was in flight beside it (send, stillCurrent, markPrSeen).
UpdatesToldOnce == retold = {}

\* After the user stopped a turn or paused, no follow-up begins until he resumes or begins a
\* turn, although one may be loading its logs, or his stop hit a turn that had not started
\* (turnStopped, turnInterrupted, stillCurrent).
StopIsHeeded ==
    [][turn.stage = "none" /\ turn'.stage = "starting" /\ turn'.kind = "auto" => ~halted]_vars

\* There are never more than AUTO_FOLLOW_UP_LIMIT automatic turns between two acts of the user,
\* wakes and pauses notwithstanding (turnStarted, autoFollowUps).
AutoTurnsBounded == alone <= Limit

\* What shows as ready to merge was reviewed: finalReviewSha is a head whose final review ended
\* without an error (turnFinalReviews, applyFinalReview).
ReviewsAreReal == link.reviewed \in reviewed \cup {0}

\* Something to tell that nothing but the engine keeps from being told.
Unanswered(t) ==
    /\ t \in Current.comments /\ t > link.seen
    /\ ~Paused /\ meta.turns < Limit

\* A comment does not stay unanswered: refused starts, sends given up and errors leave no
\* signature behind that would keep it from being sent later (started, forgetResumed).
FollowedUp == \A t \in 2..MaxEvents + 1 : Unanswered(t) ~> ~Unanswered(t)

\* "cw-code sends you PR updates as new turns": where nobody dismissed anything or began a turn
\* of his own, a comment that counts as seen was told.
NothingMissed == acts = 0 => \A t \in Current.comments : t <= link.seen => t \in told
=============================================================================
