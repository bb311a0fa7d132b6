# cw-code in TLA+

Specifications of the parts of cw-code whose correctness depends on the order in which things happen: the live topics
that feed every window, the turns of a session, the shutdown of the server, terminals and the opencode server they
share, subagents and harness updates, automatic follow-ups, and the files everything is kept in. TLC checks them on
small instances and TLAPS proves what matters most for every value of the constants.

The server is one Bun/Node process, so the code between two `await`s is atomic. What is hard are the gaps: calls,
driver events, timers and closed sockets that come between two awaits of something else, sockets that break, and a
process that dies and comes back. The specifications have one action per stretch of code between awaits.

## Reading order

| Module | What it is |
| --- | --- |
| `TopicFeed` | The promise of live topics: a client shows some rev of a topic, exactly, and moves forward. |
| `TopicSync` | Hub, stores, sockets and client caches in detail; implements `TopicFeed`. |
| `SessionTurns` | Starting, stopping, retrying and ending turns, with resolves, restores, undos, branch switches. |
| `Shutdown` | The shutdown coordinator; extends `SessionTurns` and composes with it. |
| `PtyPool`, `ServerPool` | The terminals of the server; the opencode server that turns and terminals share. |
| `Terminals` | Composes the two: a terminal leases the shared server, a shutdown disposes both pools. |
| `HarnessUpdates` | Updates of the CLIs, which wait for sessions and keep turns from starting. |
| `SubagentDelivery` | Subagents, their results and the turns that tell them; extends `HarnessUpdates`. |
| `FollowUps` | Automatic follow-ups of a session on a pull request. |
| `VersionedJson` | A metadata file, its migrations and backups, through crashes and power losses. |
| `TopicSyncProofs`, `TopicFeedProofs`, `TopicDeliveryProofs`, `ShutdownProofs`, `TerminalsProofs`, `SubagentsProofs`, `FollowUpsProofs`, `StorageProofs` | Theorems about them. |
| `MCTopicSync`, `MCSessionTurns`, `MCShutdown`, `MCTerminals`, `MCSubagents` | Values of the constants for TLC. |

An operator whose comment begins with *Faulty* is not part of the specification: it is a plausible mistake in the
operator after it, and replacing one by the other must make TLC find a property violated. There is one for every
property of every run (`PROJECT.json`, "mutants"), so each property is known to say something about the code.

## The system

### Components

| Component | Source | State it keeps | Operations | Modelled |
| --- | --- | --- | --- | --- |
| Topic hub | `apps/server/src/topics/TopicHub.ts` | subscribers by topic and by client, current store and last rev of each topic | subscribe, unsubscribe, publish, removeClient, createStore, registerProvider, dropTopic, reacquireAll | mostly |
| Topic store | `topics/TopicStore.ts` | rev, data | update, batch, sync | a mutation is one op list, or one that changes nothing |
| Topic cache | `packages/client/src/TopicCache.ts` | entries with owners, status, rev, data, buffer, token | acquire, release, flush, handlePatch, resubscribe | yes |
| Server client | `packages/client/src/ServerClient.ts` | connection state, pending calls | call, open, close, retry timer | as far as topics see it |
| WebSocket transport | `transport/WsServer.ts`, `transport/Router.ts` | open sockets, who is ready | dispatch, reply, publish, close slow clients | as far as topics see it |
| Sessions and turns | `sessions/SessionManager.ts`, `sessions/PendingRequests.ts`, `threads/TurnService.ts` | status, active and settled turns, pending starts, resolves, restores, undos, switches, requests | startTurn, stop, retryConnection, resolve, restore, undo, switch, answer, driver events | mostly |
| CLI drivers | `providers/{claude,codex,opencode}` | processes, their turn, their queue | startTurn, interrupt, reconnect, shutdown, dispose | their contract |
| Shutdown coordinator | `shutdown/ShutdownCoordinator.ts` | phase, token, generation, lease | prepare, force, cancel, commit, lease, recover | yes |
| Server app | `app/ServerApp.ts`, `app/services.ts` | services, driver generation, abandoned-shutdown watch | boot, recovery mode, reboot, what the coordinator asks | as far as topics and shutdown see it |
| Terminals | `pty/PtyPool.ts` | ptys, openings, pending kills, generation | open, attach, kill, killSession, dispose, reopen | yes |
| OpenCode server pool | `providers/opencode/opencodeServerPool.ts` | server, pending start, inFlight, generation | ensure, lease, beginTurn, sweep, invalidate, stop, dispose | yes |
| Subagent delivery | `agent/SubagentDelivery.ts`, `sessions/SessionManager.ts` | pending results, held and starting parents, waits | evaluate, wake, hold, retry, settle a wait | yes; `SessionWatch` is not |
| Harness updates | `cli/harnessUpdates/HarnessUpdateService.ts` | tickets, running updates, locks | update, cancel, wait for idle, acquire, execute | yes; the monitor is not |
| Automatic follow-ups | `prEngine/AutoFollowUpEngine.ts`, `packages/shared/src/autoFollowUp.ts`, `github/prLinks.ts` | signatures dealt with, wakes, pauses, what was seen | evaluate, send, turn started, stopped, interrupted, done | one session with one link |
| Metadata storage | `storage/*.ts`, `sessions/SessionStore.ts`, `settings/SettingsStore.ts` | file, last-good copy, backups, pending refresh | load, migrate, persist, close, restore, start fresh | yes, for one file |
| Thread service | `threads/ThreadService.ts` | items of each thread, load generation | load, append, retry, dispose | planned |
| PR engine, the rest | `prEngine/*.ts` | relations, needs-you lists, workflows, dock | refresh, project | no |
| Desktop shell | `apps/desktop/src/main` | attached server, updater state | attach, launch, update | planned in part |
| GitHub, git, files, settings, usage, MCP tools, authentication, sidebar, skills | `apps/server/src/*` | caches of external state, sequential stores | requests and projections | no |
| React UI, contracts, release tooling | `apps/ui`, `packages`, `tools` | - | rendering, types, scripts | no |

### How they interact

* A window's `TopicCache` acquires topics; it calls `topics.subscribe` over the socket of its `ServerClient`. `Router`
  dispatches the call, `TopicHub.subscribe` asks the topic's provider for its store and returns a snapshot. The reply
  is sent by a later microtask, so patches published in between overtake it.
* A service mutates its `TopicStore`, which hands numbered op lists to `TopicHub.publish`, which writes one frame per
  subscriber. A socket that is too slow is closed; a `ws.send` that throws is logged and the frame is lost.
* `SessionManager.startTurn` awaits the worktree, its setup, a snapshot, and for some Claude sessions a GitHub token;
  then it calls the driver. The driver answers with events, long after. `TurnService.stop` may come at any point.
* `ShutdownCoordinator.prepare` reserves sessions and terminals, interrupts the active turns and shuts the drivers
  down, with a deadline. It hands out a token under a lease. What follows is a commit, or a recovery that rebuilds the
  drivers.
* `PtyPool.open` awaits the CLI's launch and node-pty. A terminal of opencode is launched against the shared server of
  `OpencodeServerPool` and leases it until it is gone; turns are counted the same way.
* A subagent is a session; when its turn ends, `SubagentDelivery` starts a turn of its parent (a wake) that tells the
  result, unless the parent acknowledged it first during a turn of its own (`subagents.ack`, which the agent's tools
  call). `HarnessUpdateService` waits until no session of a harness is busy, and gates its turns while the command
  runs.
* `PrStore` and `PrTracker` refresh what is known of a pull request; each answer makes `AutoFollowUpEngine` evaluate,
  and what is new becomes a turn. The end of a turn moves what the session has seen of the pull request.
* `SessionStore` and `SettingsStore` keep their document in one versioned JSON file each, loaded when the server
  boots.

### What is hard, and the properties that answer it

`PROJECT.json` lists every hazard at its line. In short:

* **Live topics.** Patches before their snapshot, answers to calls that no longer count, lost frames, half-failed
  batches, releases that overtake subscribes, replaced stores, restarted servers. A replica must be genuine
  (`ReplicaIsGenuine`), never go back (`ImplementsFeed`), end up fresh (`QuietMeansFresh`, `Converges`) and see no gap
  unless a frame was lost (`GapOnlyAfterLoss`); both sides must agree on who is subscribed (`SubscriptionsAgree`,
  `ReleaseReachesServer`); no rev may be used twice (`CurrentStoreLeads`).
* **Turns.** Something comes between two awaits of a start, or during a resolve, restore, undo, switch or retry. A
  session does one thing at a time (`OneThingAtATime`), undos and switches have the folder to themselves
  (`FolderExclusive`), a stop is never forgotten (`StopWins`), and what the session shows is what it does
  (`StatusTellsTurns`), as far as nobody has set its status by hand.
* **Shutdown.** Late continuations of a flow that is over, old lease timers, turns that were past their check when the
  reservation came, drivers that cannot be rebuilt, windows that go away. Nothing slips in (`QuietWhileStopping`),
  nothing late restores or closes anything (`IdleMeansRestored`, `LeaseEndsItsOwn`, `CommitIsFinal`), the drivers of a
  turn are the ones the server listens to (`TurnsAreHeard`), and no flow lasts for ever (`ShutdownEnds`).
* **Terminals and their server.** A resolve, a kill, a disposal or a whole shutdown and recovery comes while a
  terminal is opening; late exits of killed processes; servers that crash, go idle or out of date while somebody asks
  for one. No process is lost (`NoStrayTerminal`, `NoStrayServer`), nothing outlives its pool or its session
  (`NothingOutlivesDisposal`, `KillIsKept`), every lease is given back once (`LeasesBalance`), and no server is
  stopped under its users (`UsedServerStays`).
* **Subagents and updates.** A result arrives while the parent starts, works, is stopped, updated or shut down; a
  subagent begins its next turn before the last result is marked; a wake fails. Each result is told once
  (`ExactlyOnce`) and does arrive (`ResultsArrive`), a stop is not undone by a wake (`StopHolds`), waits end
  (`WaitsEnd`), and the command of an update meets no turn and no other update of its installation (`UpdatesAlone`).
* **Follow-ups.** What was decided on is sent after an await; two caches disagree; a start is refused, or fails; a
  turn's end is reported late or twice. Nothing is told twice (`UpdatesToldOnce`), a stop is heeded (`StopIsHeeded`),
  automatic turns stay within their limit (`AutoTurnsBounded`), a review counts only if it ended well
  (`ReviewsAreReal`), and every comment is told or seen in the end, unless the session is paused or at its limit
  (`FollowedUp`).
* **Storage.** The process or the machine stops between any two file system calls of a migration, a write or a
  recovery, and requests write on while the server closes. What a write returned for survives
  (`AcknowledgedSurvives`), what is replaced is kept (`OriginalsKept`), the last-good copy is good and no older than
  the close (`LastGoodIsGood`).

## The models

### TopicSync

State: of the server, `subs`, `current`, `lastRev` (TopicHub), `live` and `store` (TopicStore objects somebody still
holds), `reply` (a result its microtask has yet to send); of the network, `link`, `c2s`, `s2c` per socket; of a
client, `conn`, `entry` (TopicCache), `calls` and `nextId` (ServerClient). `truth` is a history variable: what a topic
held at each rev.

| Action | Code |
| --- | --- |
| `Acquire`, `Release` | `TopicCache.acquire`, the disposer, and the `flush` their microtask runs |
| `ReceiveResult`, `Replay`, `ReceiveError`, `ReceivePatch` | `subscribeBatch`'s continuation, `applySnapshot`, `fail`, `handlePatch`, `resubscribe` |
| `Connect`, `ClientLosesSocket`, `ClientSeesClose` | `ServerClient` opening and losing its socket, `resubscribeAll` |
| `HandleSubscribe`, `HandleUnsubscribe`, `SendReply` | `Router` and `WsServer` on a `topics.*` call; `TopicHub.subscribe` and `unsubscribe`; the reply |
| `Publish`, `ReplaceStore` | a store's mutation through `TopicHub.publish`; a provider that creates its store anew |
| `ServerDropsSocket`, `ServerSeesClose` | a client too slow to read is closed; `removeClient` of a closed one |
| `Crash`, `Restart`, `Boot` | the process dies; a new one starts, in recovery mode until its services are there |

What is abstracted. Contents are members of `Data` and a patch's op list is the partial function on `Data` that
`applyTopicOps` computes with it; where it is undefined the cache throws `TopicDriftError`. A store publishes whatever
applies, a list that changes nothing included, as `TopicStore.replace` does. Call ids double as the
cache's tokens; they restart with each connection, as no pending call survives one. The snapshot's buffered patches
are replayed one patch per step while the client is `Busy` and does nothing else, because the code replays them in one
task. Acquire or release and the flush of its microtask are one step. hello and welcome are part of `Connect`; a
failed attempt to connect changes nothing. A store of a `Persistent` topic is created by its provider's constructor
before it is registered, as `SidebarService` does; the others are created on acquire. `Unacquirable` topics have a
provider that throws.

A topic that was subscribed before can only fail in a resubscribe of its own, after a gap, and keeps its subscription
then (`Fail`, `kept`). A provider of the model throws always or never, so this case is translated but not reached.

Not modelled: `dropTopic` and `reacquireAll` while a topic has subscribers (deleted sessions; `reboot` runs only from
recovery mode, when nobody can subscribe), invalid topic names, the chunking of large batches, `dispose`.

### SessionTurns

State: `status` of each session; `start`, `retry`, `resolving`, `restoring`, `marking`, `undoing`, `switching` for the
calls that are between two awaits (the `pending*` fields of SessionManager, with what their continuations hold in
local variables); `active`, `settled`, `request` (activeTurns, settledTurns, PendingRequests); `waits`, the sessions
that wait for their subagents (subagentWaits); `run`, the drivers' side of a turn; `drivers`, `broken`, `reserved`,
which only `Shutdown` changes. `marked` is a history variable: the sessions whose status was set by hand since their
last turn began to start. `extras` counts what is bounded by `MaxExtras`.

A driver is its contract: a turn that was started runs, may ask, and ends with `turn.done`, `turn.error`, or, if it
was interrupted, with nothing at all. An interrupted turn of a CLI other than opencode may still emit a request
(bounded by `MaxExtras`). Events of an older driver generation are not routed (`routeEvent`, `driverGeneration`).

| Action | Code |
| --- | --- |
| `StartTurn`, `Opened`, `TokenRefreshed`, `Launch`, `FailStart` | `startTurn` in its stretches, `assertCanStartTurn`, `revertFailedTurnStart` |
| `Stop` | `TurnService.stop`, `interrupt`, `settleTurn` |
| `RetryConnection`, `RetryOpened`, `RetryAttached` | `retryConnection` |
| `TurnEnds`, `TurnGoesOn`, `Ask`, `AskSettled` | `routeEvent` on turn.done, turn.error, requests and their resolution |
| `Claim`, `ReleaseClaim` | `answerPendingRequest` |
| `Resolve`, `ResolveDecides`, `ResolveEnds`, `Restore`, `RestoreEnds`, `MarkWorking`, `MarkEnds` | the calls of that name |
| `Undo`, `UndoEnds`, `SwitchBranch`, `SwitchEnds` | `undoTurn`, `runBranchSwitch` |
| `SetStatus`, `Ages` | `setSessionStatus`; `markTurnSeen`, `openSession` and the sweeps that age "done" and "holding" |
| `WaitOver`, `WaitSettles` | `endSubagentWait`, from a stop or once nothing is left to wait for |

`SlowStart` is the set of Claude sessions whose project has a GitHub account: their start awaits a token after it has
picked its driver. `Opencode` is the set of sessions whose driver can retry a connection. "done" stands for done and
babysit, "resolved" for resolved and archived: no check the model has distinguishes them.

A session shows "working" without a turn in two ways. When the turn of a parent ends while subagents of its work
(`Parents` are the sessions that may have any), `turn.done` leaves it "working" and it waits for them
(`SessionManager.ts:720`); what those do is in `SubagentDelivery`, here the wait may begin at any end of a turn and
settle at any time. And `setSessionStatus` writes any status whatever the session is doing, unless it is being
restored. So somebody can set a session with a turn to "resolved", and, since `runRestore` looks at the status and at
pending resolves only, then restore it under its turn; or set one that does nothing to "working". `OneThingAtATime` and
`StatusTellsTurns` except the sessions in `marked`, each in the conjunct about statuses and restores only: at most
one start or turn, and none while the session is being resolved, is claimed of them too.

Not modelled here: what is in a folder (snapshots, undo conflicts, which make `Undo` possible more often than in the
code), titles, worktree recovery, resume cursors. Subagents and the turn gate of updates are in
`SubagentDelivery`, pull request links in `FollowUps`.

### Shutdown

Extends `SessionTurns`, whose actions go on while a flow is under way (`TurnsNext`), and adds the coordinator's
`phase`, `token`, `generation`, `leaseId`, and one element per await that outlives its flow: `leases` (timers),
`preparing` (waits for drivers), `committing` (actions and exits). Recovery kills what the current drivers run,
replaces them (`drivers + 1`), and may fail to (`broken`), in which case `assertNotReserved` refuses work until the
next recovery. `stopped` records which driver generations were told to stop. `servicesStopped` has no variable: it is
true in every phase but idle. A prepare that is blocked by turns it may not stop changes nothing and so is no step.
The process is not killed from outside in this model.

### PtyPool, ServerPool, Terminals

`PtyPool` keeps `pty` (what is registered under each id), `opening` (the calls of `open` that are between two awaits),
`pendingKills`, `poolGeneration`, `disposed`, and the processes of node-pty with what each was opened for.
`ServerPool` keeps the server of the shared root (`server`), its processes and their state, `pendingStart`, and
`inFlight`, the counted users of each process; `pools` counts the pools that shutdowns replaced.

| Action | Code |
| --- | --- |
| `Open`, `Launched`, `OpenFails`, `Spawned`, `Settle` | `PtyPool.open` in its stretches: reserve the id, launch, spawn, attach, and the `finally` |
| `Exited`, `Kill`, `KillSession` | `onExit`, `kill`, and `killSession` of a session that is resolved or deleted |
| `BeginReservation`, `Dispose`, `Reopen` | what the coordinator asks of the pool in a flow and after it |
| `Ask`, `AskAgain`, `Started`, `StartFails`, `Resolve`, `Refuse` | `ensure`, `ensureUncached` and their waiters |
| `Begin`, `End` | `beginTurn`, `endTurn` |
| `StopIdle`, `OutOfDate`, `Exits` | the sweep, `releaseIdle` after a binary changed, a server that exits |
| `DisposePool`, `Reconnect`, `RenewPool` | `dispose`, a turn that re-attaches to a server, the pool of the next drivers |
| `AskLease`, `Leased`, `NothingLeased`, `ReleaseLeases` | `terminalLaunch`, which leases the server for as long as its terminal lives |
| `Take`, `TurnNext` | `runTurn` as far as it uses the pool |

What is abstracted. All terminals and turns share one server root, so the pool has one key. How long a server has been
idle is nondeterministic: it may be swept whenever nobody uses it. Whatever makes a server out of date is an
`edition`. What `ensureProcess` awaits before it spawns is part of the start. A chain of microtasks with nothing else
in between is one step.

Three races the code has are left out of the properties, and are noted here instead:

* The `finally` of an old opening deletes the pending kill of a newer opening of the same id (`PtyPool.ts:184`), after
  a dispose, a reopen and two opens. `KillIsKept` speaks of openings that are alone (`Alone`).
* A waiter of `ensure` that asks for another environment stops the server that was just started before the first
  waiter has counted itself.
* `release` of an entry is assigned one microtask after the entry is registered.

### HarnessUpdates and SubagentDelivery

`HarnessUpdates` keeps one `update` per harness (waiting to be planned, queued until its harness is idle, in the chain
of its lock, running), which of them were `cancelled`, which others each has `ahead` of it in the chain of its lock,
how many were asked for (`updates`) and whether the server is `reserved`. `SubagentDelivery` extends it with sessions:
the `turn` of each with the number of its `starts`, the interrupts that were `asked` for and the stops that met a start
(`stopAsked`), who is `closed` (resolved, archived or being resolved), the parents that wait (`waits`) and that are
`held`, the `result` of each subagent and whether it is delivered, for each `wake` under way what its prompt tells,
the evaluations that are `due`, and `shutdowns`. `told`, `noticed` and `userStopped` are history variables.

| Action | Code |
| --- | --- |
| `AskUpdate`, `Planned`, `PlanFails`, `Acquire`, `HasLock`, `Locked`, `Ends`, `CancelQueued` | `HarnessUpdateService.update` to the end of `execute` |
| `Evaluate` | `SubagentDelivery.evaluate`: settle a wait or begin a wake |
| `WakeLaunches`, `WakeFails` | the continuations of `wake` |
| `Ack` | `subagents.ack`: during its own turn a parent asks for the result a subagent has |
| `StartTurn`, `Launch`, `StartFails`, `TurnEnds`, `Stop` | what `SessionManager` and `TurnService` do, as far as parents and subagents see it |
| `Close`, `Reopen`, `SetStatus` | resolving a session with its subagents, restoring it, a status set by hand |
| `Reserve`, `Recover` | a shutdown that is prepared and one that is recovered from |
| `UpdateEnds` | an update ends, and the parents that waited for it are evaluated |

What is abstracted. Evaluation runs in a microtask of its own that may be late, except around the launch and the
failure of a wake, where nothing can come between. The resolve of a parent with its subagents is one step, in which a
subagent that is starting is asked to stop; it is resolved by a `Close` of its own once its start is over. A parent
that is being resolved refuses starts (`pendingResolves`), which is why `closed` covers it. Driver background work and
title turns do not count as activity here. Requests come within active turns only. A status set by hand is modelled
here where it ends a wait; during a turn it is in `SessionTurns`.

An acknowledgement counts as telling the result only if it marked it: the tool may read the same result again and
report it again, and `told` does not count that. A second acknowledgement changes nothing.

Noted, and without a property: the await of `retryConnection` is not counted as activity, so an update may begin
during it (`UpdatesAlone` speaks of turns); a running update is not waited for by a shutdown; a crash between a wake's
launch and its mark would tell the result twice; a stray request of an interrupted subagent leaves it "input-required"
(`SessionManager.ts:769`) and its parent waiting for good, and so does "working" set by hand on a subagent that does
nothing.

### FollowUps

State: GitHub's versions of one pull request as an event log; what the inbox and the detail cache know of it; the
link's `seen` mark, signatures dealt with, pauses and turn count (`meta`); the engine's `sending` call and
`wakeTurns`; the session's `turn`, and history variables of what was told, asked and reviewed.

| Action | Code |
| --- | --- |
| `GitHub` | a comment, a push or a check's result (external) |
| `RefreshInbox`, `LoadDetail` | `PrStore.refreshInbox`, `beginLoad` |
| `Evaluate` | `AutoFollowUpEngine.evaluate` and the choice of `autoFollowUps` |
| `LogsLoaded`, `SendEnds` | `send`, around the await of a failed check's logs, and the end of its promise |
| `Launch`, `StartFails`, `TurnEnds`, `LateDone`, `SyncSeen` | the turn's life in `TurnService` and `SessionManager`, and `syncPrSeenAfterTurn` |
| `Stop`, `Interrupt`, `Pause`, `Resume`, `DismissUpdates`, `StartTurn`, `Wake` | what users, the UI and subagents do meanwhile |

What is abstracted. One session that stays open, with one link to a pull request that stays open and one continuous
workflow; no subagent wait and no shutdown. Times are positions in the event log. What is actionable is a comment of
somebody else or a failed check. Answers of GitHub carry the newest version, so only the two caches can be older than
each other. A poll may come at any time.

Noted: a wake that was interrupted leaves its entry in `wakeTurns`, so a stop of a later start that then fails does
not pause (the history variable `halted` leaves it out); any error of a start pauses, the "session busy" of a pending
resolve or undo included; a refused start is tried again at the next change of the store only; `LateDone` and a
subagent's wake mark things as seen as well (see finding 3).

### VersionedJson

State: the directory as the process sees it (`dir`), the directories a power loss may leave (`since`), copies that
were not synced (`soft`); the store's `phase` and the file system calls it still has to make (`todo`). A load, a
write, a close or a recovery is the list of its calls, and each call is a step, so that a crash, a power loss or an
error can come between any two. Of the history variables, `gone` in a directory is what was replaced there and must be
beside the file, `lost` the copies of such things that a power loss took, `closed` what the file held from an orderly
close on.

| Action | Code |
| --- | --- |
| `Load`, `Construct` | `loadVersionedJson` with its migration; what the store's constructor repairs and writes |
| `Persist`, `Close`, `End` | `persist`, `close`, `reboot` |
| `Recover`, `Retry` | `restoreBackup` and `startFresh` of the recovery screen; its retry |
| `Renamed`, `Synced`, `Copied`, `Fails` | `writeFileAtomic` at its rename, `syncParentDirectory`, `copyVerified`, an error of either |
| `Crash`, `PowerLoss`, `Unreadable`, `Damage`, `Downgrade` | the faults (external) |

What is abstracted. The directory journals renames in their order. A temporary file is nothing anybody reads. The
extra copy `SessionStore` makes before a repair is not modelled; backups are not damaged by others, and others touch
the file only between calls. One schema step stands for all migrations.

Two promises are weaker than they look, and the properties say so:

* A recovery puts the file and the last-good copy aside with `copyFileSync` (`backups.ts:142`), which is verified but
  not synced, while the original of a migration is written through `writeFileAtomic`. `metadata-migrations.md:82` calls
  the recovery's copy verified and never deleted: no code deletes it, but a power loss soon after it may take it for
  good. `OriginalsKept` claims the migrations' originals always, and of the others only that nothing but such a power
  loss (`lost`) takes them.
* `disposeServices` closes the stores while sockets are still open (`ServerApp.ts:376`, `ServerApp.ts:557`), and
  `persist` asks nobody whether the store is closed. So a request may write after the close; its refresh is put off for
  a minute that the process does not live. `Persist` is therefore possible in phase "closing" too, and
  `LastGoodIsGood` claims that the copy is no older than the close: it is what the file held then, or later.

Noted: `LastGoodRefresher.flush` copies bytes it has not validated, so a file damaged under a running store replaces
the good copy on close (`LastGoodIsGood` leaves it out through `blind`).

## What TLC checks

| Run | Shows | States |
| --- | --- | --- |
| `topic_faults` | One client, two sockets, four revs; a frame is lost, a connection breaks and the server dies, each at most once and in any order: what is shown is genuine, both sides agree, a quiet subscriber is fresh, and hub and cache implement `TopicFeed`. | 0.8 million |
| `topic_stores` | Two clients, two store objects, a batch of two topics one of which cannot be acquired: no rev is used twice, no gap without a loss, no subscription leaks. | 1.2 million |
| `topic_live` | Under fairness: subscribing ends, replicas converge, releases reach the server. | 32,000 |
| `session_turns` | A Claude session that may have subagents and an opencode one in one folder, one of a retry, a status set by hand and a stray request: one thing at a time, exclusive folders, truthful status, no forgotten stop. | 0.5 million |
| `session_retries` | Expected violation: finding 2. | |
| `shutdown` | Two flows over one session with two turns: late steps do nothing, every flow ends, no turn slips in. | 0.5 million |
| `shutdown_slow_start` | Expected violation: finding 1. | |
| `terminals` | One terminal opened twice, one turn, two server processes, two pools: nothing is lost, outlives its owner, or is stopped in use. | 1.1 million |
| `subagents` | A parent with two subagents and two harnesses that share a lock, two updates, two starts, one shutdown: every result told once and at last, updates alone, stops kept, waits ended. | 0.4 million |
| `follow_ups` | Two events, one automatic turn, logs to load, one act of the user and one failure: nothing told twice or left, stops and limits kept, reviews real. | 0.2 million |
| `follow_ups_missed` | Expected violation: finding 3. | |
| `storage` | Three faults and two writes of a file that may need its migration, before, during and after a close. | 4.6 million |

### Bounds

Bounds are constants whose comments begin with *bound*, and they appear as guards only.

* Topics: one topic suffices for everything about revs and stores, two for batches (one `Persistent`, one
  `Unacquirable`). One client per question about a replica, two where clients share a store. Four revs allow a
  snapshot, a patch it already holds, the next one and a gap. Two sockets allow a reconnect with frames of the old
  socket outstanding; one loss, break and crash each. Two store ids allow a superseded store beside the current one.
  Sockets, and in `topic_stores` clients and stores, are interchangeable and nothing in these two runs is a liveness
  property, so they use symmetry.
* Turns: two sessions in one folder, one of each kind; two turn ids, so that an interrupted turn and its successor
  coexist; one request at a time per turn; one retry, one status set by hand or one stray request (`MaxExtras`;
  two of them were checked as well: 3.2 million states, no difference). The shutdown runs have none of these extras,
  which a flow does not look at. Turn ids are interchangeable.
* Shutdown: two flows, hence three driver generations, so that every late step of the first can meet the second.
* Terminals: two openings of the same id meet each other's kills and ends; two processes meet while one is stopped and
  the other starts; two pools let a late user of the old one meet the new one; one change of edition.
* Subagents: two, so that one may end while the result of the other is being told; two starts, so that a wake and a
  user's turn overlap; two updates, one of each harness, so that they meet at the lock their harnesses share
  (`MaxUpdates`); a shutdown, in a behaviour with one update at most (`MaxShutdowns`, `MaxOutages`).
* Follow-ups: two events, so that one arrives after the other was decided on; one automatic turn already reaches the
  limit.
* Storage: three faults allow a damage, a failing recovery and a power loss in one behaviour; two writes allow an old
  and a new document.

Deadlock is not checked in the topic runs and `terminals`, where the bounds let the system stop, nor in the shutdown
runs and `subagents`, where the process exits or everything is done. It is in the others.

### Fairness

* `topic_live`: event loops make progress on what they received (weak fairness of receiving, replaying, dispatching
  and replying), a broken socket is noticed at both ends, the client's retry timer connects again, and the launcher
  restarts a dead server. Nobody has to acquire, release or publish. Frames are not lost here: a lost answer to
  `topics.subscribe`, or the loss of a topic's last patch, is something the code has no remedy for (no call timeout,
  nothing that reveals the gap), so the properties do not claim it.
* `shutdown`: `prepare` bounds its wait by `boundedDriverShutdown`'s deadline, lease and exit timers fire, and a
  commit's action returns. Nobody has to decide anything.
* `subagents`: microtasks run, the awaits of a start return or fail, turns and updates end, and a shutdown that does
  not end the process is recovered from. Nobody has to start, stop, answer or resolve anything.
* `follow_ups`: microtasks run, GitHub is polled and details that are wanted are loaded, logs load or fail, starts and
  turns end. Where a later event may disable the step for a while (a busy session refuses a start), the fairness is
  strong: the event source is finite, and so is what the user does.

## What TLAPS proves

Every theorem is of the module's whole specification, for every value of the constants, from the assumptions named in
the modules.

`TopicSyncProofs` (every number of clients, sockets, topics, stores, contents and every bound):

* `TypeCorrect`: `Spec => []TypeOK`.
* `HubLeads`: `Spec => []CurrentStoreLeads`. A topic has a current store exactly while it has subscribers, and that
  store's rev and contents are the last ones handed out.

`CurrentStoreLeads` is not inductive: an unsubscribed topic's provider may keep its store and go on publishing, and
the next subscriber makes it current again without a new store. `HubInv` adds `KeptStores` (a kept store stays level
with the topic even while nobody subscribes) and `ServesNothing` (a server without providers has no subscribers,
stores or revs); `IInv` adds the type invariant, and that a client that is replaying is connected, without which
`Replay` could not resubscribe. The proof has one lemma per action.

`TopicFeedProofs` (as above) proves what a client sees:

* `ReplicasGenuine`: `Spec => []ReplicaIsGenuine`.
* `FeedImplemented`: `Spec => ImplementsFeed`, the refinement of `TopicFeed` by hub, wire and caches together, with
  lost frames, broken connections and dead servers.

`ReplicaIsGenuine` says nothing of what is still on the way, so `FlowInv` does. Its core is `EntryInv`: a replica, or
the snapshot in the answer that will become one, is genuine, and the newer patches queued behind it, in the socket or
in the client's buffer, each lead from its topic's contents at one rev to those at the next. A snapshot is taken in
the step that adds the subscriber, so the patches queued before it are not newer. Which answer counts is a matter of
call ids: `OrderInv` says that calls are handled and answered in the order of their ids, and `LastAsked` that an entry
waits for the last call its topic has on the wire, so that no later one can replace a snapshot that was accepted.
`SocketInv` and `ClientInv` keep what a dead connection left out of the next one. For the refinement, a step of the
server only hides what clients show, never shows anything (a subscriber that is added belongs to a call its client
still waits for), and a step of a client only goes forward. `FlowInv` was checked by TLC under the bounds of
`topic_faults` and `topic_stores` before it was proved.

`TopicDeliveryProofs` (as above) proves what must not get lost on the way:

* `QuietAgrees`: `Spec => []SubscriptionsAgree`. Once nothing is on its way between a client and the hub, both mean
  the same subscriptions.
* `QuietIsFresh`: `Spec => []QuietMeansFresh`. Once nothing is on its way and no frame was lost, what a client shows
  is the newest contents.
* `GapsOnlyAfterLoss`: `Spec => []GapOnlyAfterLoss`. While no frame was lost, a client meets no gap in the revs of a
  topic.

All three say what holds when the queues are empty, so the invariant says what is owed while they are not;
`DeliveryInv` adds it to `FlowInv`. `Agrees` is about subscriptions: where client and hub differ about a topic, the
last call about it that is still on the wire, or else its answer, will end the difference, and only the last call can,
because calls are handled and answered in order (`OrderInv`). A connection that opens resubscribes only topics that the
hub can serve, so an answer never takes a subscription away that its client still relies on. `Complete` is about
patches: while no frame was lost, every rev of a topic after the one that a client holds, or after that of the
snapshot on its way to it, is the rev of a patch that still waits in the socket or in the client's buffer, and
`Sorted` says that the patches of a topic wait in the order of their revs. The first patch in the queue is thus the
next one, which leaves no room for a gap; with the queue empty there is no later rev, which makes the replica fresh.
That the revs between a snapshot and a patch behind it fit into the queue is a matter of counting: each has a place
of its own. `RestInv` and `CallsInv` keep the same facts for a client that is offline, opening or replaying.
`DeliveryInv` was checked by TLC under the bounds of `topic_faults` and `topic_stores`, and with a topic nobody
provides, before it was proved.

`ShutdownProofs` begins with the sessions alone (every number of sessions, turns, requests and retries, every sharing
of folders, from `SessionAssumption` and `TurnBoundAssumption`): `SessionTypes`, `OneThingHolds`, `FoldersShared`,
`StatusIsTrue` and `StopIsKept` prove all properties of `SessionTurns`, `StopWins` among them as an action property.

They are one induction, because none is inductive alone: `assertCanStartTurn` keeps the folder of an undo free only if
a start that goes on to launch its turn was already counted, a failed start restores a status that must not be
"working" unless the session waits for subagents or somebody set it by hand, and a driver event may only end the turn
of the session it is active for. `SInv` adds exactly these: `RetriesKnown`, `StartsClean`, `ActiveRuns`. What is
claimed of a session in spite of a status set by hand (one start or turn, none during a resolve) does not lean on
statuses at all, and `hand` in a start remembers whether the status that a failure restores was such a one. Most steps begin nothing, and `NothingBegins` does the exclusive
properties for all of them; what is left is one lemma per action that starts, launches, resolves, restores, undoes or
switches.

The rest of the module is about the sessions under a coordinator (every number of flows, with `PrepareAssumption`):
`ShutdownTypes`, `NoTurnSlipsIn`, `Restored`, `Heard`, `LeasesEndTheirOwn` and `CommitsAreFinal`, that is every property of `Shutdown`
but the liveness one.

The invariant `CInv` contains `SInv`: the sessions' lemmas are used as they are for the steps of the sessions, and two
new ones say that interrupting turns and killing drivers keep it. Added are `FlowsCounted` (each recovery consumes one
flow and brings one driver generation), `LateOnesKnown` (a continuation that carries the present generation is the one
its phase waits for, and the only one), `LeaseIsCurrent` (a timer that still counts is the present token's) and
`DriversKnown` (a plain session's turn runs on the current drivers, an interrupted one is not active, and the present
flow waits for each that still runs). The last is what `QuietWhileStopping` needs when `prepare` goes on: the turns it
waits for are all there are. For a session in `SlowStart` it does not hold, which is finding 1.

`TerminalsProofs` (every number of terminals, openings, turns, processes and pools): `TerminalTypes`,
`TerminalsFound`, `DisposalsAreFinal`, `KillsAreKept`, `ServersKnown`, `LeasesAdd`, `UsedServersStay`: every property
of `terminals`. The terminals' part is `PtyInv`: an opening that is under way and of this generation is listed, its
task is known, and a kill of a terminal that is opening waits for it. The servers' part is `PoolInv`: a start that
somebody waits for is alive, and `inFlight` is the count of those who use the process. `LeasesCounted` joins the two:
a terminal holds at most one lease, and it is among those counted.

`SubagentsProofs` (every number of sessions, harnesses and locks): `SubagentTypes`, `ToldOnce`, `UpdatesAreAlone` and
`StopsHold`. `SubInv` adds `ChainsOrdered` (who has a lock is first in its chain), `GatedFree` (no turn runs or starts
behind a gate that is closed), `WakesKnown` (what a wake tells is the result of a turn that is over and that nobody
told), `TurnsKnown` (nothing was told of a turn that goes on) and `StopsKept` (a stop is kept as a hold or by the start
it met). An acknowledgement cannot come between a wake's prompt and its mark: it needs an active turn of the parent,
which is starting one then.

`FollowUpsProofs` (every limit and bound): `FollowUpTypes`, `TurnsAreBounded`, `ReviewsTrue`, `StopsAreHeeded` and
`ToldAtMostOnce`, every property of `follow_ups` but the liveness one. `FollowUpInv` adds `Counted` (the turn count of
the link is that of the automatic turns since the user last acted, the one that is starting included), `HaltKept`
(whoever is halted has a pause in the link or a stop in the start) and `ReviewsKept`. `ToldAtMostOnce` needs that a
mark covers what a prompt told. The version of the pull request at which an event happens is that event's own, so a
prompt that tells anything ends at the detail it was made from, and a turn that told it leaves a mark that covers all of
it. A send that is still loading logs and still current has therefore had nothing of its detail told since. The mark is
the maximum of a finite set; that there is one is proved from the well-foundedness of strict inclusion on finite sets.

`StorageProofs` (every number of writes and faults): `StorageTypes`, `WritesSurvive`, `NothingIsLost`, `CopyIsGood`:
every property of `storage`. What has to be known is about the calls that are still to come. `StorageInv` says that a
rename is followed by its sync (`CallsPaired`), that the file is renamed at most once in a row of calls and to a
document it may hold (`FileOnce`), that whatever it replaces is put aside before (`PutAside`) and stays there in every
directory that may be left (`Kept`, but for what a power loss took, `Taken`), and that the refresh of the last-good
copy writes what the file holds by then (`CopyOfFile`, `CopyKnown`). From the close on the copy is among what the file
held since, or about to be (`CopySince`, `ClosedInOrder`), however often the file is written meanwhile. Every step that makes a call drops
the first of them, so one lemma about what is left of a row (`LeftPaired`, `LeftAside`) serves them all; a step that
begins a row is a lemma about its shape.

Out of the prover's reach, and left to TLC: the liveness properties (fairness, `ENABLED`), and what a recursive
definition computes for every input.

Every other property of the passing runs, invariant or action property, is a theorem. Where a property leaves out
the sessions in `SlowStart` or `Opencode`, so does its theorem: there the code does not keep it (findings 1 and 2).

The type invariants of `SessionTurns`, `Shutdown`, `Terminals`, `SubagentDelivery`, `FollowUps` and `VersionedJson`
are proved and in no run; that of `TopicSync` is both.

## Findings

1. **A turn starts on disposed drivers** (`shutdown_slow_start`, `NothingSlipsIn`). `SessionManager.startTurn` picks
   its driver, awaits the GitHub token of a Claude session, and only then checks the reservation. A flow that is
   prepared and cancelled inside that await leaves no reservation but new drivers; the turn starts on the old,
   disposed ones, whose events are not routed, so nothing ever ends it. `docs/operations/shutdown.md` says work that
   was already starting cannot slip in. `QuietWhileStopping` and `TurnsAreHeard` hold for the other sessions.
2. **Two active turns of one session** (`session_retries`, `OneTurnWhenRetried`). `retryConnection` refuses a session
   with an active turn, but looks neither at a start nor at another retry under way, and checks nothing again after
   its awaits. The properties about turns therefore leave out the sessions in `Opencode` where they cannot hold.
3. **A comment nobody answers** (`follow_ups_missed`, `NothingMissed`). A follow-up's prompt tells what the detail
   held when it was loaded. When its turn ends, the pull request is marked seen up to the turn's *start*
   (`SessionManager.ts:1526`). A comment between the two is in no prompt and never new again. `FollowedUp` therefore
   asks that a comment is told or counts as seen, and no more.

## Not modelled

The repository has some 108,000 lines of implementation, and most of them are a user interface, projections of what
git, GitHub and the CLIs answer, and parsers of their output: code without a protocol of its own, in which each step
does one thing and the answer replaces what was known. What the specifications cover is small in lines and is where
steps of several actors meet. Of what is left, these have behaviour worth a model:

1. **Thread service** (`threads/ThreadService.ts`): history loads against live appends, with generations. One race is
   known: a reload decides on what it read before its await (`ThreadService.ts:413`).
2. **Claude driver** (`providers/claude/ClaudeCliDriver.ts`): an interrupt and the next turn share a process, and the
   late result of the first is taken for the second's; `handleProcessClose` resolves requests by session, not by turn.
3. **Topic store**: what `batch` and `sync` emit, against `applyTopicOps`, over bounded documents.
4. **Desktop shell**: attaching to a running server, the updater's state.
5. Compositions: follow-ups with resolves, waits and shutdowns; subagents with the full `SessionTurns`.
