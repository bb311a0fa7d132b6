----------------------------- MODULE TopicSync -----------------------------
(***************************************************************************)
(* Live topics: the server's TopicHub publishes numbered patches of the    *)
(* topic stores, and every client keeps a replica of the topics it wants   *)
(* in a TopicCache.  Between the two runs one WebSocket per connection: a  *)
(* FIFO of calls up, a FIFO of call results and patches down.              *)
(*                                                                         *)
(* The module composes apps/server/src/topics/{TopicHub,TopicStore}.ts,    *)
(* the reply path of transport/{Router,WsServer}.ts, the connection of     *)
(* packages/client/src/ServerClient.ts and packages/client/src/            *)
(* TopicCache.ts.  Contents of a topic are opaque (Data) and an ops list   *)
(* of a patch is the partial function on Data it denotes (Ops); the store's*)
(* own mutators are the subject of module TopicStore.                      *)
(***************************************************************************)
EXTENDS Integers, Sequences, FiniteSets

CONSTANTS
    Clients,        \* UI windows and shells, each with one TopicCache
    Conns,          \* sockets; the server names a client by its socket
    Topics,
    StoreIds,       \* identities of TopicStore objects of one topic
    NoConn, NoStore,
    Data,           \* what a topic can hold
    EmptyData,      \* {}, the contents of a cache entry before its snapshot
    InitialData,    \* what a provider may hand to createStore
    Drift,          \* the outcome of ops that do not apply (TopicDriftError)
    Ops,            \* ops lists, as functions from Data to Data or Drift
    Persistent,     \* topics whose provider keeps one store for its whole life
    Unacquirable,   \* topics whose provider throws in acquire
    MaxTopics,      \* MAX_TOPICS_PER_CLIENT
    MaxRev,         \* bound: revs a topic reaches in one server process
    MaxQueue,       \* bound: frames waiting for one client
    MaxCalls,       \* bound: calls of one connection after which no acquire starts
    MaxLost,        \* bound: frames whose ws.send throws
    MaxBreaks,      \* bound: broken connections
    MaxCrashes      \* bound: server processes that die

ASSUME DataAssumption ==
    /\ EmptyData \in Data
    /\ InitialData \subseteq Data
    /\ Drift \notin Data
    /\ Ops \subseteq [Data -> Data \cup {Drift}]
ASSUME SetAssumption ==
    /\ NoConn \notin Conns
    /\ NoStore \notin StoreIds
    /\ IsFiniteSet(Conns) /\ IsFiniteSet(Topics)
    /\ Persistent \subseteq Topics
    /\ Unacquirable \subseteq Topics
ASSUME BoundAssumption ==
    /\ {MaxTopics, MaxRev, MaxQueue, MaxCalls, MaxLost, MaxBreaks, MaxCrashes} \subseteq Nat

VARIABLES
    \* --- the server process ---
    booted,     \* providers are registered (not in recovery mode)
    up,         \* the server process runs
    subs,       \* clientsByTopic
    current,    \* TopicHub.current: the store patches are accepted from
    lastRev,    \* TopicHub.lastRev
    live,       \* store objects somebody still holds a reference to
    store,      \* their rev and data
    reply,      \* a computed result that its microtask has yet to send
    truth,      \* history: the contents published under each rev
    \* --- the sockets ---
    link,       \* "free", "up", "clientGone", "serverGone"
    c2s, s2c,
    \* --- the clients ---
    conn,       \* the socket of an open ServerClient
    entry,      \* TopicCache.entries
    calls,      \* ServerClient.pending, with the batch each call stands for
    nextId,
    \* --- bounds ---
    lost, breaks, crashes

hubVars    == <<subs, current, lastRev, live, store, truth>>
serverVars == <<booted, up, hubVars, reply>>
netVars    == <<link, c2s, s2c>>
clientVars == <<conn, entry, calls, nextId>>
faultVars  == <<lost, breaks, crashes>>
vars       == <<serverVars, netVars, clientVars, faultVars>>

-----------------------------------------------------------------------------
(* Messages and records *)

Revs == 0..MaxRev
SubscribeMsg(id, T)   == [kind |-> "subscribe", id |-> id, topics |-> T]
UnsubscribeMsg(T)     == [kind |-> "unsubscribe", id |-> 0, topics |-> T]
ResultMsg(id, snaps)  == [kind |-> "result", id |-> id, snaps |-> snaps]
ErrorMsg(id)          == [kind |-> "error", id |-> id]
PatchMsg(t, r, o)     == [kind |-> "patch", topic |-> t, rev |-> r, ops |-> o]

Snapshot  == [rev : Revs, data : Data]
Patch     == [kind : {"patch"}, topic : Topics, rev : Revs, ops : [Data -> Data \cup {Drift}]]
Result    == [kind : {"result"}, id : Nat, snaps : UNION {[T -> Snapshot] : T \in SUBSET Topics}]
Failure   == [kind : {"error"}, id : Nat]
Answer    == Result \cup Failure
Call      == [kind : {"subscribe", "unsubscribe"}, id : Nat, topics : SUBSET Topics]
Pending   == [topics : SUBSET Topics, was : SUBSET Topics]
NoReply   == [conn |-> NoConn, msg |-> ErrorMsg(0)]

Entry == [status : {"absent", "subscribing", "replaying", "ready", "error"},
          rev : Revs, data : Data, subscribed : BOOLEAN, inflight : Nat, buffer : Seq(Patch)]
\* Faulty: an entry begins before rev 0.
NoEntryRevBefore0 == [status |-> "absent", rev |-> -1, data |-> EmptyData,
            subscribed |-> FALSE, inflight |-> 0, buffer |-> <<>>]
NoEntry == [status |-> "absent", rev |-> 0, data |-> EmptyData,
            subscribed |-> FALSE, inflight |-> 0, buffer |-> <<>>]
FreshEntry == [NoEntry EXCEPT !.status = "subscribing"]

Wanted(c) == {t \in Topics : entry[c][t].status # "absent"}

\* The providers are constructed: one that keeps its store creates it now.
Provide(alive, stores, lines) ==
    \E which \in [Persistent -> StoreIds], initial \in [Persistent -> InitialData] :
        /\ alive = [t \in Topics |-> IF t \in Persistent THEN {which[t]} ELSE {}]
        /\ stores = [t \in Topics |-> [s \in StoreIds |->
              [rev |-> 0, data |-> IF t \in Persistent /\ s = which[t] THEN initial[t] ELSE EmptyData]]]
        /\ lines = [t \in Topics |-> [r \in Revs |->
              IF t \in Persistent /\ r = 0 THEN initial[t] ELSE EmptyData]]

Init ==
    /\ booted = TRUE /\ up = TRUE
    /\ subs = [t \in Topics |-> {}]
    /\ current = [t \in Topics |-> NoStore]
    /\ lastRev = [t \in Topics |-> 0]
    /\ Provide(live, store, truth)
    /\ reply = NoReply
    /\ link = [k \in Conns |-> "free"]
    /\ c2s = [k \in Conns |-> <<>>]
    /\ s2c = [k \in Conns |-> <<>>]
    /\ conn = [c \in Clients |-> NoConn]
    /\ entry = [c \in Clients |-> [t \in Topics |-> NoEntry]]
    /\ calls = [c \in Clients |-> <<>>]
    /\ nextId = [c \in Clients |-> 1]
    /\ lost = 0 /\ breaks = 0 /\ crashes = 0

-----------------------------------------------------------------------------
(* The client: TopicCache over ServerClient *)

\* A frame sent on a socket whose other end is gone is lost.
Post(k, msgs) == c2s' = IF link[k] = "up" THEN [c2s EXCEPT ![k] = @ \o msgs] ELSE c2s

Begin(e, id) == [e EXCEPT !.subscribed = TRUE, !.inflight = id, !.buffer = <<>>,
                          !.status = IF @ = "error" THEN "subscribing" ELSE @]

\* applySnapshot of the answer to call id, for an entry whose token is still that
\* call's; the patches buffered since the call follow one by one in Replay.
Accepts(e, id) == e.inflight = id
\* Faulty: the patches buffered during the call are dropped.
TakeAlone(e, snap) == [e EXCEPT !.status = "replaying", !.inflight = 0, !.buffer = <<>>,
                                !.rev = snap.rev, !.data = snap.data]
Take(e, snap) == [e EXCEPT !.status = "replaying", !.inflight = 0,
                           !.rev = snap.rev, !.data = snap.data]

\* Faulty: a topic that failed counts as subscribed.
FailKeepsSubscribed(e, kept) == [e EXCEPT !.status = "error", !.inflight = 0, !.buffer = <<>>]

\* Faulty: a topic that failed stays on "subscribing".
FailSilently(e, kept) == [e EXCEPT !.inflight = 0, !.buffer = <<>>, !.subscribed = kept]

\* fail, for a topic that had (kept) or had not a subscription before the call
Fail(e, kept) == [e EXCEPT !.status = "error", !.inflight = 0, !.buffer = <<>>, !.subscribed = kept]

\* Faulty: any later patch counts as the next one.
ExtendsLoosely(e, p) == p.rev > e.rev /\ p.ops[e.data] # Drift

\* A patch of the next rev whose ops apply; any other later patch is a gap.
Extends(e, p) == p.rev = e.rev + 1 /\ p.ops[e.data] # Drift
Applied(e, p) == [e EXCEPT !.rev = p.rev, !.data = p.ops[e.data]]

\* subscribeBatch for each group of topics in turn: a token per group, which is
\* the id of its call, and one call on the wire.  es and cs are the client's
\* entries and pending calls before; was, the topics that were subscribed when
\* the first attempt began.
SubscribeMsgs(c, groups) == [i \in DOMAIN groups |-> SubscribeMsg(nextId[c] + i - 1, groups[i])]

SubscribeBatches(c, es, cs, groups, was) ==
    LET ids == nextId[c] .. nextId[c] + Len(groups) - 1
        group(id) == groups[id - nextId[c] + 1]
    IN  /\ entry' = [entry EXCEPT ![c] = [t \in Topics |->
                       IF \E id \in ids : t \in group(id)
                         THEN Begin(es[t], CHOOSE id \in ids : t \in group(id))
                         ELSE es[t]]]
        /\ calls' = [calls EXCEPT ![c] = [id \in ids \cup DOMAIN cs |->
                       IF id \in ids THEN [topics |-> group(id), was |-> was \cap group(id)] ELSE cs[id]]]
        /\ nextId' = [nextId EXCEPT ![c] = @ + Len(groups)]

Resubscribe(c, es, t) ==
    /\ SubscribeBatches(c, es, calls[c], <<{t}>>, {t})
    /\ Post(conn[c], SubscribeMsgs(c, <<{t}>>))

\* The client runs one task at a time: while a snapshot's buffered patches are
\* being replayed it does nothing else.
Busy(c) == \E t \in Topics : entry[c][t].status = "replaying"

\* acquire and the flush its microtask runs: new topics get an entry, and those
\* that are not subscribed are subscribed in one call when the client is open.
Acquire(c, T) ==
    LET es == [t \in Topics |-> IF t \in T /\ entry[c][t].status = "absent" THEN FreshEntry ELSE entry[c][t]]
        added == {t \in T : ~es[t].subscribed}
    IN  /\ ~Busy(c) /\ nextId[c] <= MaxCalls
        /\ added # {}
        /\ IF conn[c] = NoConn
             THEN /\ entry' = [entry EXCEPT ![c] = es]
                  /\ UNCHANGED <<calls, nextId, c2s>>
             ELSE /\ SubscribeBatches(c, es, calls[c], <<added>>, {})
                  /\ Post(conn[c], SubscribeMsgs(c, <<added>>))
        /\ UNCHANGED <<serverVars, link, s2c, conn, faultVars>>

\* Faulty: no unsubscribe while the subscribe is under way.
UnsubscribesSettled(e) == e.subscribed /\ e.inflight = 0
Unsubscribes(e) == e.subscribed

\* The last reference goes and the flush drops the entry.
Release(c, t) ==
    /\ ~Busy(c)
    /\ entry[c][t].status # "absent"
    /\ entry' = [entry EXCEPT ![c][t] = NoEntry]
    /\ IF conn[c] # NoConn /\ Unsubscribes(entry[c][t])
         THEN Post(conn[c], <<UnsubscribeMsg({t})>>)
         ELSE UNCHANGED c2s
    /\ UNCHANGED <<serverVars, link, s2c, conn, calls, nextId, faultVars>>

\* The next frame that reaches client c.
Arrives(c, kind) == /\ ~Busy(c)
                    /\ conn[c] # NoConn
                    /\ s2c[conn[c]] # <<>>
                    /\ Head(s2c[conn[c]]).kind = kind

Consume(c) == s2c' = [s2c EXCEPT ![conn[c]] = Tail(@)]

\* The pending call an answer settles; an answer to no pending call is ignored.
PendingCall(c, id) == IF id \in DOMAIN calls[c] THEN calls[c][id] ELSE [topics |-> {}, was |-> {}]
Settled(c, id) == [i \in DOMAIN calls[c] \ {id} |-> calls[c][i]]

\* settle, then applySnapshot for each topic of the batch; a topic without a
\* snapshot fails.
ReceiveResult(c) ==
    /\ Arrives(c, "result")
    /\ LET msg == Head(s2c[conn[c]])
           call == PendingCall(c, msg.id)
           answered(e, t) == IF t \in DOMAIN msg.snaps THEN Take(e, msg.snaps[t]) ELSE Fail(e, t \in call.was)
       IN  /\ entry' = [entry EXCEPT ![c] = [t \in Topics |->
                 IF t \in call.topics /\ Accepts(entry[c][t], msg.id) THEN answered(entry[c][t], t) ELSE entry[c][t]]]
           /\ calls' = [calls EXCEPT ![c] = Settled(c, msg.id)]
    /\ Consume(c)
    /\ UNCHANGED <<serverVars, link, c2s, conn, nextId, faultVars>>

\* One buffered patch: skipped when the snapshot holds it, applied when it is
\* the next rev, otherwise a gap: the rest is dropped and the topic resubscribed.
Replay(c, t) ==
    LET e == entry[c][t]
        p == Head(e.buffer)
        ready == [e EXCEPT !.status = "ready", !.buffer = <<>>]
    IN  /\ e.status = "replaying"
        /\ \/ /\ e.buffer = <<>>
              /\ entry' = [entry EXCEPT ![c][t] = ready]
              /\ UNCHANGED <<calls, nextId, c2s>>
           \/ /\ e.buffer # <<>>
              /\ p.rev <= e.rev
              /\ entry' = [entry EXCEPT ![c][t].buffer = Tail(@)]
              /\ UNCHANGED <<calls, nextId, c2s>>
           \/ /\ e.buffer # <<>>
              /\ Extends(e, p)
              /\ entry' = [entry EXCEPT ![c][t] = [Applied(e, p) EXCEPT !.buffer = Tail(@)]]
              /\ UNCHANGED <<calls, nextId, c2s>>
           \/ /\ e.buffer # <<>>
              /\ p.rev > e.rev /\ ~Extends(e, p)
              /\ Resubscribe(c, [entry[c] EXCEPT ![t] = ready], t)
        /\ UNCHANGED <<serverVars, link, s2c, conn, faultVars>>

Orders(T) == {f \in [1..Cardinality(T) -> T] : \A i, j \in 1..Cardinality(T) : f[i] = f[j] => i = j}

\* A failed call: a batch is retried topic by topic, a single topic goes to
\* "error" and keeps its subscription only if it had one before the call.
ReceiveError(c) ==
    /\ Arrives(c, "error")
    /\ LET id == Head(s2c[conn[c]]).id
           call == PendingCall(c, id)
       IN  \/ /\ Cardinality(call.topics) > 1
              /\ \E order \in Orders(call.topics \cap Wanted(c)) :
                   LET singles == [i \in DOMAIN order |-> {order[i]}]
                   IN  /\ SubscribeBatches(c, entry[c], Settled(c, id), singles, call.was)
                       /\ Post(conn[c], SubscribeMsgs(c, singles))
           \/ /\ Cardinality(call.topics) <= 1
              /\ entry' = [entry EXCEPT ![c] = [t \in Topics |->
                    IF t \in call.topics /\ Accepts(entry[c][t], id) THEN Fail(entry[c][t], t \in call.was) ELSE entry[c][t]]]
              /\ calls' = [calls EXCEPT ![c] = Settled(c, id)]
              /\ UNCHANGED <<nextId, c2s>>
    /\ Consume(c)
    /\ UNCHANGED <<serverVars, link, conn, faultVars>>

\* handlePatch
ReceivePatch(c) ==
    /\ Arrives(c, "patch")
    /\ LET p == Head(s2c[conn[c]])
           e == entry[c][p.topic]
           Set(new) == entry' = [entry EXCEPT ![c][p.topic] = new] /\ UNCHANGED <<calls, nextId, c2s>>
       IN  \/ /\ e.status = "absent"
              /\ UNCHANGED <<entry, calls, nextId, c2s>>
           \/ /\ e.inflight # 0
              /\ Set([e EXCEPT !.buffer = Append(@, p)])
           \/ /\ e.status # "absent" /\ e.inflight = 0
              /\ e.status # "ready" \/ p.rev <= e.rev
              /\ UNCHANGED <<entry, calls, nextId, c2s>>
           \/ /\ e.status = "ready" /\ e.inflight = 0
              /\ Extends(e, p)
              /\ Set(Applied(e, p))
           \/ /\ e.status = "ready" /\ e.inflight = 0
              /\ p.rev > e.rev /\ ~Extends(e, p)
              /\ Resubscribe(c, entry[c], p.topic)
    /\ Consume(c)
    /\ UNCHANGED <<serverVars, link, conn, faultVars>>

\* The welcome arrives: a new socket, and every entry is subscribed in one call.
Connect(c, k) ==
    /\ ~Busy(c) /\ up
    /\ conn[c] = NoConn
    /\ link[k] = "free"
    /\ link' = [link EXCEPT ![k] = "up"]
    /\ conn' = [conn EXCEPT ![c] = k]
    /\ IF Wanted(c) = {}
         THEN UNCHANGED <<entry, calls, nextId, c2s>>
         ELSE /\ SubscribeBatches(c, entry[c], calls[c], <<Wanted(c)>>, {})
              /\ c2s' = [c2s EXCEPT ![k] = SubscribeMsgs(c, <<Wanted(c)>>)]
    /\ UNCHANGED <<serverVars, s2c, faultVars>>

\* The socket closes under the client: pending calls are rejected, nothing is
\* subscribed any more, and no token or call id outlives the connection.
Disconnected(c) ==
    /\ s2c' = [s2c EXCEPT ![conn[c]] = <<>>]
    /\ conn' = [conn EXCEPT ![c] = NoConn]
    /\ entry' = [entry EXCEPT ![c] = [t \in Topics |->
                    [@[t] EXCEPT !.subscribed = FALSE, !.inflight = 0, !.buffer = <<>>]]]
    /\ calls' = [calls EXCEPT ![c] = <<>>]
    /\ nextId' = [nextId EXCEPT ![c] = 1]
    /\ UNCHANGED <<serverVars, c2s, lost, crashes>>

ClientLosesSocket(c) ==
    /\ ~Busy(c) /\ conn[c] # NoConn
    /\ link[conn[c]] = "up" /\ breaks < MaxBreaks
    /\ link' = [link EXCEPT ![conn[c]] = "clientGone"]
    /\ breaks' = breaks + 1
    /\ Disconnected(c)

\* The server closed first and the client has read what was still on the way,
\* or has not.
ClientSeesClose(c) ==
    /\ ~Busy(c) /\ conn[c] # NoConn
    /\ link[conn[c]] = "serverGone"
    /\ link' = [link EXCEPT ![conn[c]] = "free"]
    /\ UNCHANGED breaks
    /\ Disconnected(c)

-----------------------------------------------------------------------------
(* The server: TopicHub behind WsServer *)

\* A frame for connection k reaches its queue only while both ends are there.
Deliver(q, k, msg) == IF link[k] = "up" THEN [q EXCEPT ![k] = Append(@, msg)] ELSE q

\* removeSubscription of the topics T of connection k
Unlink(k, T) ==
    /\ subs' = [t \in Topics |-> IF t \in T THEN subs[t] \ {k} ELSE subs[t]]
    /\ current' = [t \in Topics |-> IF t \in T /\ subs[t] = {k} THEN NoStore ELSE current[t]]
    /\ UNCHANGED <<lastRev, live, store, truth>>

SubscribedTo(k) == {t \in Topics : k \in subs[t]}

ServerReads(k, kind) ==
    /\ up /\ reply = NoReply
    /\ link[k] \in {"up", "clientGone"}
    /\ c2s[k] # <<>>
    /\ Head(c2s[k]).kind = kind
    /\ c2s' = [c2s EXCEPT ![k] = Tail(@)]

HandleUnsubscribe(k) ==
    /\ ServerReads(k, "unsubscribe")
    /\ Unlink(k, Head(c2s[k]).topics)
    /\ UNCHANGED <<booted, up, reply, link, s2c, clientVars, faultVars>>

\* What topics.subscribe can object to: no provider, too many topics, a
\* provider that throws.  The hub then removes what it had added.
Rejected(k, T) ==
    \/ ~booted
    \/ Cardinality(SubscribedTo(k) \cup T) > MaxTopics /\ ~(T \subseteq SubscribedTo(k))
    \/ \E t \in T \cap Unacquirable : subs[t] = {}

\* topics.subscribe: link the client, acquire a store for each topic that had no
\* subscriber (a provider that keeps its store hands it back, the others create
\* one at the last rev), and snapshot.
HandleSubscribe(k) ==
    LET T == Head(c2s[k]).topics
        id == Head(c2s[k]).id
        First == {t \in T : subs[t] = {}}
        Kept == First \cap Persistent
    IN  /\ ServerReads(k, "subscribe")
        /\ \/ /\ Rejected(k, T)
              /\ reply' = [conn |-> k, msg |-> ErrorMsg(id)]
              /\ UNCHANGED hubVars
           \/ /\ ~Rejected(k, T)
              /\ \E which \in [First -> StoreIds], initial \in [First -> InitialData] :
                   LET new(t) == [rev |-> lastRev[t], data |-> initial[t]]
                   IN  /\ \A t \in Kept : which[t] \in live[t]
                       /\ subs' = [t \in Topics |-> IF t \in T THEN subs[t] \cup {k} ELSE subs[t]]
                       /\ current' = [t \in Topics |-> IF t \in First THEN which[t] ELSE current[t]]
                       /\ store' = [t \in Topics |-> IF t \in First \ Kept
                                       THEN [store[t] EXCEPT ![which[t]] = new(t)] ELSE store[t]]
                       /\ live' = [t \in Topics |-> IF t \in First THEN live[t] \cup {which[t]} ELSE live[t]]
                       /\ truth' = [t \in Topics |-> IF t \in First \ Kept
                                       THEN [truth[t] EXCEPT ![lastRev[t]] = initial[t]] ELSE truth[t]]
              /\ UNCHANGED lastRev
              /\ reply' = [conn |-> k, msg |-> ResultMsg(id, [t \in T |-> store'[t][current'[t]]])]
        /\ UNCHANGED <<booted, up, link, s2c, clientVars, faultVars>>

\* runCall resumes after its await and sends the result.
SendReply ==
    /\ reply # NoReply
    /\ Len(s2c[reply.conn]) < MaxQueue
    /\ s2c' = Deliver(s2c, reply.conn, reply.msg)
    /\ reply' = NoReply
    /\ UNCHANGED <<booted, up, hubVars, link, c2s, clientVars, faultVars>>

\* Faulty: a store is judged by its rev and not by its identity.
StaleByRev(t, s, rev) == rev <= lastRev[t]

\* TopicHub.publish of a patch that store s numbers rev: dropped when s is not
\* the current store, when the topic has subscribers but no store, or when the
\* rev was already given.
Stale(t, s, rev) ==
    \/ current[t] # NoStore /\ current[t] # s
    \/ current[t] = NoStore /\ subs[t] # {}
    \/ rev <= lastRev[t]

Broadcast(t, msg, dropped) ==
    s2c' = [k \in Conns |-> IF k \in subs[t] \ dropped /\ link[k] = "up" THEN Append(s2c[k], msg) ELSE s2c[k]]

Room(t) == \A k \in subs[t] : Len(s2c[k]) < MaxQueue

\* A store mutates and flushes one patch, which may leave the data as they were:
\* replace always flushes.  A send that throws loses the frame for that client.
Publish(t, s, o, dropped) ==
    LET before == store[t][s]
        after == o[before.data]
        rev == before.rev + 1
    IN  /\ up /\ s \in live[t] /\ Room(t)
        /\ after # Drift
        /\ rev <= MaxRev
        /\ store' = [store EXCEPT ![t][s] = [rev |-> rev, data |-> after]]
        /\ IF Stale(t, s, rev)
             THEN dropped = {} /\ UNCHANGED <<lastRev, truth, s2c, lost>>
             ELSE /\ dropped \subseteq subs[t]
                  /\ lost + Cardinality(dropped) <= MaxLost
                  /\ lost' = lost + Cardinality(dropped)
                  /\ lastRev' = [lastRev EXCEPT ![t] = rev]
                  /\ truth' = [truth EXCEPT ![t][rev] = after]
                  /\ Broadcast(t, PatchMsg(t, rev, o), dropped)
        /\ UNCHANGED <<booted, up, subs, current, live, reply, link, c2s, clientVars, breaks, crashes>>

\* Faulty: the first patch of a new store skips a rev.
SkipRev(t) == lastRev[t] + 2

\* The rev of the replace patch of a store created at startRev.
NextRev(t) == lastRev[t] + 1

\* createStore on a topic with subscribers (a provider resuming after a failed
\* shutdown): the new store becomes current and replaces what clients hold.
ReplaceStore(t, s, d) ==
    LET rev == NextRev(t)
    IN  /\ up /\ booted /\ reply = NoReply
        /\ subs[t] # {} /\ t \notin Persistent
        /\ s # current[t]
        /\ rev <= MaxRev /\ Room(t)
        /\ store' = [store EXCEPT ![t][s] = [rev |-> rev, data |-> d]]
        /\ live' = [live EXCEPT ![t] = @ \cup {s}]
        /\ current' = [current EXCEPT ![t] = s]
        /\ lastRev' = [lastRev EXCEPT ![t] = rev]
        /\ truth' = [truth EXCEPT ![t][rev] = d]
        /\ Broadcast(t, PatchMsg(t, rev, [x \in Data |-> d]), {})
        /\ UNCHANGED <<booted, up, subs, reply, link, c2s, clientVars, faultVars>>

\* Faulty: the closed socket stays among the subscribers.
ClientClosedKeepsTopics(k) ==
    /\ c2s' = [c2s EXCEPT ![k] = <<>>]
    /\ UNCHANGED <<hubVars, booted, up, reply, s2c, clientVars, lost, crashes>>

\* clientClosed: every subscription of the socket goes.
ClientClosed(k) ==
    /\ c2s' = [c2s EXCEPT ![k] = <<>>]
    /\ Unlink(k, SubscribedTo(k))
    /\ UNCHANGED <<booted, up, reply, s2c, clientVars, lost, crashes>>

\* The server closes the socket, of a client too slow to keep up for one.
ServerDropsSocket(k) ==
    /\ up /\ reply = NoReply
    /\ link[k] = "up" /\ breaks < MaxBreaks
    /\ link' = [link EXCEPT ![k] = "serverGone"]
    /\ breaks' = breaks + 1
    /\ ClientClosed(k)

ServerSeesClose(k) ==
    /\ up /\ reply = NoReply
    /\ link[k] = "clientGone"
    /\ link' = [link EXCEPT ![k] = "free"]
    /\ UNCHANGED breaks
    /\ ClientClosed(k)

\* The server process dies with its hub; its revs start again in the next one.
Crash ==
    /\ up /\ crashes < MaxCrashes
    /\ crashes' = crashes + 1
    /\ up' = FALSE /\ booted' = FALSE
    /\ link' = [k \in Conns |-> CASE link[k] = "up" -> "serverGone"
                                  [] link[k] = "clientGone" -> "free"
                                  [] OTHER -> link[k]]
    /\ c2s' = [k \in Conns |-> <<>>]
    /\ subs' = [t \in Topics |-> {}]
    /\ current' = [t \in Topics |-> NoStore]
    /\ lastRev' = [t \in Topics |-> 0]
    /\ live' = [t \in Topics |-> {}]
    /\ store' = [t \in Topics |-> [s \in StoreIds |-> [rev |-> 0, data |-> EmptyData]]]
    /\ truth' = [t \in Topics |-> [r \in Revs |-> EmptyData]]
    /\ reply' = NoReply
    /\ UNCHANGED <<s2c, clientVars, lost, breaks>>

\* A new process listens, with its services or in recovery mode.
Restart ==
    /\ ~up
    /\ up' = TRUE
    /\ \/ /\ booted' = TRUE
          /\ Provide(live', store', truth')
       \/ /\ booted' = FALSE
          /\ UNCHANGED <<live, store, truth>>
    /\ UNCHANGED <<subs, current, lastRev, reply, netVars, clientVars, faultVars>>

\* reboot: recovery succeeded and the providers are registered.
Boot ==
    /\ up /\ ~booted /\ reply = NoReply
    /\ booted' = TRUE
    /\ Provide(live', store', truth')
    /\ UNCHANGED <<up, subs, current, lastRev, reply, netVars, clientVars, faultVars>>

-----------------------------------------------------------------------------
ClientNext(c) ==
    \/ \E T \in SUBSET Topics : Acquire(c, T)
    \/ \E t \in Topics : Release(c, t) \/ Replay(c, t)
    \/ ReceiveResult(c) \/ ReceiveError(c) \/ ReceivePatch(c)
    \/ \E k \in Conns : Connect(c, k)
    \/ ClientLosesSocket(c) \/ ClientSeesClose(c)

ServerNext ==
    \/ \E k \in Conns : HandleSubscribe(k) \/ HandleUnsubscribe(k) \/ ServerDropsSocket(k) \/ ServerSeesClose(k)
    \/ SendReply
    \/ \E t \in Topics, s \in StoreIds, o \in Ops, dropped \in SUBSET Conns : Publish(t, s, o, dropped)
    \/ \E t \in Topics, s \in StoreIds, d \in InitialData : ReplaceStore(t, s, d)
    \/ Crash \/ Restart \/ Boot

Next == ServerNext \/ \E c \in Clients : ClientNext(c)

Spec == Init /\ [][Next]_vars

\* Both event loops keep running what is ready, sockets deliver, a close is
\* noticed, the client's retry timer fires and the launcher restarts a server.
\* Nobody has to acquire, release, publish or break anything.
Fairness ==
    /\ \A c \in Clients :
         /\ \A t \in Topics : WF_vars(Replay(c, t))
         /\ WF_vars(ReceiveResult(c)) /\ WF_vars(ReceiveError(c)) /\ WF_vars(ReceivePatch(c))
         /\ WF_vars(\E k \in Conns : Connect(c, k))
         /\ WF_vars(ClientSeesClose(c))
    /\ \A k \in Conns :
         WF_vars(HandleSubscribe(k)) /\ WF_vars(HandleUnsubscribe(k)) /\ WF_vars(ServerSeesClose(k))
    /\ WF_vars(SendReply) /\ WF_vars(Restart)

FairSpec == Spec /\ Fairness

-----------------------------------------------------------------------------
(* Correctness *)

\* Every variable holds a value of its type; the queues hold only well-formed
\* frames of the protocol.
HubTypeOK ==
    /\ booted \in BOOLEAN /\ up \in BOOLEAN
    /\ subs \in [Topics -> SUBSET Conns]
    /\ current \in [Topics -> StoreIds \cup {NoStore}]
    /\ lastRev \in [Topics -> Revs]
    /\ live \in [Topics -> SUBSET StoreIds]
    /\ store \in [Topics -> [StoreIds -> Snapshot]]
    /\ truth \in [Topics -> [Revs -> Data]]
NetTypeOK ==
    /\ reply \in [conn : Conns \cup {NoConn}, msg : Answer]
    /\ link \in [Conns -> {"free", "up", "clientGone", "serverGone"}]
    /\ c2s \in [Conns -> Seq(Call)]
    /\ s2c \in [Conns -> Seq(Answer \cup Patch)]
ClientTypeOK ==
    /\ conn \in [Clients -> Conns \cup {NoConn}]
    /\ entry \in [Clients -> [Topics -> Entry]]
    /\ DOMAIN calls = Clients
    /\ \A c \in Clients : DOMAIN calls[c] \subseteq Nat \ {0} /\ \A id \in DOMAIN calls[c] : calls[c][id] \in Pending
    /\ nextId \in [Clients -> Nat \ {0}]
TypeOK ==
    /\ HubTypeOK /\ NetTypeOK /\ ClientTypeOK
    /\ lost \in 0..MaxLost /\ breaks \in 0..MaxBreaks /\ crashes \in 0..MaxCrashes

\* Client c shows a replica the server is still feeding: connected, no
\* subscribe under way, and the hub counts its socket among the subscribers.
Following(c, t) ==
    /\ conn[c] # NoConn
    /\ entry[c][t].status = "ready" /\ entry[c][t].inflight = 0
    /\ conn[c] \in subs[t]

\* What a following client shows is exactly what the topic held at the rev the
\* client names, whatever was lost, buffered, replayed or resubscribed.
ReplicaIsGenuine ==
    \A c \in Clients, t \in Topics :
        Following(c, t) => entry[c][t].data = truth[t][entry[c][t].rev]

\* The hub has a current store exactly while a topic has subscribers, and that
\* store's rev is the last one handed out: no rev is ever used twice and no
\* store that lost its place can overtake the current one.
Leads(t, s) ==
    /\ s \in live[t]
    /\ store[t][s].rev = lastRev[t]
    /\ store[t][s].data = truth[t][lastRev[t]]
CurrentStoreLeads ==
    \A t \in Topics :
        /\ current[t] = NoStore <=> subs[t] = {}
        /\ current[t] # NoStore => Leads(t, current[t])

\* What makes CurrentStoreLeads inductive: the one store of a provider that keeps
\* it stays level with the topic even while nobody subscribes, and a server
\* without its providers serves nothing.
KeptStores ==
    \A t \in Persistent :
        /\ booted => live[t] # {}
        /\ \A s, r \in live[t] : s = r
        /\ \A s \in live[t] : Leads(t, s)
ServesNothing == \A t \in Topics : subs[t] = {} /\ current[t] = NoStore /\ live[t] = {} /\ lastRev[t] = 0
HubInv ==
    /\ CurrentStoreLeads
    /\ KeptStores
    /\ booted => up
    /\ ~booted => ServesNothing

Quiet(c) == /\ conn[c] # NoConn /\ link[conn[c]] = "up" /\ ~Busy(c)
            /\ c2s[conn[c]] = <<>> /\ s2c[conn[c]] = <<>>
            /\ reply.conn # conn[c]

\* When nothing is under way between a client and the server, they agree on
\* what is subscribed: a release during a subscribe leaks nothing, and no
\* failed batch leaves the hub or the client believing otherwise.
SubscriptionsAgree ==
    \A c \in Clients, t \in Topics :
        Quiet(c) => (conn[c] \in subs[t] <=> entry[c][t].subscribed)

\* When nothing is under way and no frame was lost, a subscribed client holds
\* the latest contents.
QuietMeansFresh ==
    \A c \in Clients, t \in Topics :
        Quiet(c) /\ lost = 0 /\ entry[c][t].subscribed =>
            /\ entry[c][t].status = "ready"
            /\ entry[c][t].rev = lastRev[t]
            /\ entry[c][t].data = store[t][current[t]].data

\* A gap is never seen while no frame was lost: the next patch a following
\* client reads is old or the very next one.
GapOnlyAfterLoss ==
    \A c \in Clients, t \in Topics :
        Following(c, t) /\ lost = 0 =>
            \A i \in DOMAIN s2c[conn[c]] :
                LET m == s2c[conn[c]][i] IN
                m.kind = "patch" /\ m.topic = t =>
                    m.rev <= entry[c][t].rev + Cardinality({j \in 1..i : s2c[conn[c]][j].kind = "patch" /\ s2c[conn[c]][j].topic = t})

\* A topic somebody wants does not stay on "subscribing": it gets its contents
\* or an error, through broken connections and dead servers.
SubscribingEnds ==
    \A c \in Clients, t \in Topics :
        entry[c][t].status = "subscribing" ~> entry[c][t].status \in {"ready", "error", "absent"}

\* Once publishing stops, a topic kept without error ends up showing the latest
\* contents for good.
Converges ==
    \A c \in Clients, t \in Topics :
        (<>[](entry[c][t].status \notin {"absent", "error"})) =>
            <>[](/\ Following(c, t)
                 /\ entry[c][t].rev = lastRev[t]
                 /\ entry[c][t].data = truth[t][lastRev[t]])

\* The server does not go on feeding a topic its client has let go.
ReleaseReachesServer ==
    \A c \in Clients, t \in Topics, k \in Conns :
        (conn[c] = k /\ k \in subs[t] /\ entry[c][t].status = "absent")
          ~> (k \notin subs[t] \/ conn[c] # k \/ entry[c][t].status # "absent")

\* The promise of module TopicFeed, read off the state: a client shows what its
\* replica holds while it follows the topic, and nothing otherwise.
ShownBy(c, t) ==
    IF Following(c, t) THEN [rev |-> entry[c][t].rev, data |-> entry[c][t].data] ELSE NoEntry

Feed == INSTANCE TopicFeed WITH
    Nothing <- NoEntry,
    line <- truth,
    end <- lastRev,
    shown <- [c \in Clients |-> [t \in Topics |-> ShownBy(c, t)]]

\* TopicHub and TopicCache together implement TopicFeed.
ImplementsFeed == Feed!Spec
=============================================================================
