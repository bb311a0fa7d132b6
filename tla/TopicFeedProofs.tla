-------------------------- MODULE TopicFeedProofs --------------------------
(***************************************************************************)
(* Replicas of TopicSync are genuine, and hub and cache together implement *)
(* TopicFeed, for every set of clients, sockets and topics and every       *)
(* number of lost frames, broken connections and dead servers.             *)
(*                                                                         *)
(* The invariant of TopicSyncProofs says what the hub has; FlowInv adds    *)
(* what is on the way.  Its core is EntryInv: a snapshot and the patches   *)
(* queued behind it stay genuine together, and a call that has not been    *)
(* answered is the last one its topic has on the wire.                     *)
(***************************************************************************)
EXTENDS TopicSyncProofs

\* What a queue holds, in no order.
Elems(q) == {q[i] : i \in DOMAIN q}

\* What is under way on socket k: calls of subscribe, answers, patches of topic t.
Asks(k) == {m \in Elems(c2s[k]) : m.kind = "subscribe"}
Answers(k) == {m \in Elems(s2c[k]) : m.kind # "patch"} \cup {m \in {reply.msg} : reply.conn = k}
Patches(k, t) == {m \in Elems(s2c[k]) : m.kind = "patch" /\ m.topic = t}

\* The patches of t that client c, connected over k, has still to read or to replay.
Waiting(c, t, k) == Patches(k, t) \cup Elems(entry[c][t].buffer)

\* Nothing of an earlier connection is left on a socket or in a client when the
\* next one begins; a socket has at most one client.
SocketInv(k) ==
    /\ link[k] \in {"free", "clientGone"} => s2c[k] = <<>>
    /\ link[k] \in {"free", "serverGone"} => c2s[k] = <<>> /\ reply.conn # k
ClientInv(c) ==
    /\ conn[c] # NoConn => link[conn[c]] \in {"up", "serverGone"}
    /\ \A t \in Topics :
          /\ conn[c] = NoConn => entry[c][t].inflight = 0 /\ entry[c][t].buffer = <<>>
          /\ entry[c][t].status = "replaying" => entry[c][t].inflight = 0
OneClient == \A c, d \in Clients : conn[c] = conn[d] => c = d \/ conn[c] = NoConn
SubsLinked == \A t \in Topics : \A k \in subs[t] : link[k] \in {"up", "clientGone"}

\* Calls are sent, handled and answered in the order of their ids.
Increasing(q) ==
    \A i, j \in DOMAIN q : i < j /\ q[i].kind = "subscribe" /\ q[j].kind = "subscribe" => q[i].id < q[j].id
OrderInv(c, k) ==
    /\ Increasing(c2s[k])
    /\ \A a \in Asks(k) : a.id < nextId[c]
    /\ \A m \in Answers(k) : m.id < nextId[c] /\ \A a \in Asks(k) : m.id < a.id

\* x holds contents topic t had under x's rev, and those of the patches P that
\* are newer lead from each of its later contents to the next.
Genuine(t, x, P) ==
    /\ x.rev <= lastRev[t]
    /\ x.data = truth[t][x.rev]
    /\ \A p \in P : p.rev > x.rev => p.ops[truth[t][p.rev - 1]] = truth[t][p.rev]

\* The entry e holds a snapshot and no call under way replaces it.
Settles(e) == e.inflight = 0 /\ e.status \in {"ready", "replaying"}

\* What client c, connected over k, holds and awaits of topic t.  The last two
\* conjuncts are the point: the replica, or the snapshot on its way to it, stays
\* genuine together with the patches queued behind it.
NoneAhead(c, t, k) == \A p \in Waiting(c, t, k) : p.rev <= lastRev[t]
LastAsked(c, t, k) ==
    /\ entry[c][t].inflight < nextId[c]
    /\ Settles(entry[c][t]) => \A a \in Asks(k) : t \notin a.topics
    /\ entry[c][t].inflight # 0 => \A a \in Asks(k) : t \in a.topics => a.id <= entry[c][t].inflight
HeldGenuine(c, t, k) ==
    Settles(entry[c][t]) /\ k \in subs[t] => Genuine(t, entry[c][t], Waiting(c, t, k))
AnswerFor(m, c, t) == m.kind = "result" /\ m.id = entry[c][t].inflight /\ t \in DOMAIN m.snaps
SnapsGenuine(c, t, k) ==
    entry[c][t].inflight # 0 /\ k \in subs[t] =>
        \A m \in Answers(k) : AnswerFor(m, c, t) => Genuine(t, m.snaps[t], Waiting(c, t, k))
EntryInv(c, t, k) == NoneAhead(c, t, k) /\ LastAsked(c, t, k) /\ HeldGenuine(c, t, k) /\ SnapsGenuine(c, t, k)

Connected(c) == conn[c] # NoConn /\ link[conn[c]] = "up"
LineInv(c, k) == OrderInv(c, k) /\ \A t \in Topics : EntryInv(c, t, k)
FlowInv ==
    /\ \A k \in Conns : SocketInv(k)
    /\ \A c \in Clients : ClientInv(c)
    /\ OneClient
    /\ SubsLinked
    /\ \A c \in Clients : Connected(c) => LineInv(c, conn[c])

USE DataAssumption, SetAssumption, BoundAssumption

-----------------------------------------------------------------------------
(* Queues *)

LEMMA QueueElems ==
    ASSUME NEW S, NEW q \in Seq(S)
    PROVE  /\ Elems(q) \subseteq S
           /\ q # <<>> => Head(q) \in Elems(q) /\ Elems(Tail(q)) \subseteq Elems(q)
           /\ q # <<>> => \A x \in Elems(q) : x = Head(q) \/ x \in Elems(Tail(q))
           /\ \A m \in S : Elems(Append(q, m)) = Elems(q) \cup {m}
           /\ \A r \in Seq(S) : Elems(q \o r) = Elems(q) \cup Elems(r)
<1> USE DEF Elems
<1>1. Elems(q) \subseteq S
  OBVIOUS
<1>2. ASSUME q # <<>>
      PROVE  /\ Head(q) \in Elems(q) /\ Elems(Tail(q)) \subseteq Elems(q)
             /\ \A x \in Elems(q) : x = Head(q) \/ x \in Elems(Tail(q))
  <2>1. /\ Len(q) \in Nat \ {0} /\ DOMAIN q = 1 .. Len(q)
        /\ Head(q) = q[1] /\ DOMAIN Tail(q) = 1 .. Len(q) - 1
        /\ \A i \in 1 .. Len(q) - 1 : Tail(q)[i] = q[i + 1]
    BY <1>2
  <2>2. Head(q) \in Elems(q)
    BY <2>1
  <2>3. Elems(Tail(q)) \subseteq Elems(q)
    BY <2>1
  <2>4. ASSUME NEW i \in DOMAIN q, i # 1
        PROVE  q[i] \in Elems(Tail(q))
    <3>1. i - 1 \in DOMAIN Tail(q) /\ Tail(q)[i - 1] = q[i]
      BY <2>1, <2>4
    <3>2. QED BY <3>1
  <2>5. QED BY <2>1, <2>2, <2>3, <2>4
<1>3. ASSUME NEW m \in S
      PROVE  Elems(Append(q, m)) = Elems(q) \cup {m}
  <2>1. /\ DOMAIN q = 1 .. Len(q) /\ Len(q) \in Nat
        /\ DOMAIN Append(q, m) = 1 .. Len(q) + 1
        /\ \A i \in 1 .. Len(q) : Append(q, m)[i] = q[i]
        /\ Append(q, m)[Len(q) + 1] = m
    OBVIOUS
  <2>2. Elems(q) \cup {m} \subseteq Elems(Append(q, m))
    BY <2>1
  <2>3. ASSUME NEW i \in DOMAIN Append(q, m)
        PROVE  Append(q, m)[i] \in Elems(q) \cup {m}
    BY <2>1
  <2>4. QED BY <2>2, <2>3
<1>4. ASSUME NEW r \in Seq(S)
      PROVE  Elems(q \o r) = Elems(q) \cup Elems(r)
  <2>1. /\ DOMAIN q = 1 .. Len(q) /\ Len(q) \in Nat /\ DOMAIN r = 1 .. Len(r) /\ Len(r) \in Nat
        /\ DOMAIN (q \o r) = 1 .. Len(q) + Len(r)
        /\ \A i \in 1 .. Len(q) + Len(r) : (q \o r)[i] = IF i <= Len(q) THEN q[i] ELSE r[i - Len(q)]
    BY ConcatProperties
  <2>2. Elems(q) \subseteq Elems(q \o r)
    BY <2>1
  <2>3. ASSUME NEW i \in DOMAIN r
        PROVE  r[i] \in Elems(q \o r)
    <3>1. i + Len(q) \in DOMAIN (q \o r) /\ (q \o r)[i + Len(q)] = r[i]
      BY <2>1
    <3>2. QED BY <3>1
  <2>4. ASSUME NEW i \in DOMAIN (q \o r)
        PROVE  (q \o r)[i] \in Elems(q) \cup Elems(r)
    <3>1. CASE i <= Len(q)
      BY <2>1, <3>1
    <3>2. CASE ~(i <= Len(q))
      <4>1. i - Len(q) \in DOMAIN r /\ (q \o r)[i] = r[i - Len(q)]
        BY <2>1, <3>2
      <4>2. QED BY <4>1
    <3>3. QED BY <3>1, <3>2
  <2>5. Elems(r) \subseteq Elems(q \o r) /\ Elems(q \o r) \subseteq Elems(q) \cup Elems(r)
    BY <2>3, <2>4
  <2> HIDE DEF Elems
  <2>6. QED BY <2>2, <2>5
<1>5. QED BY <1>1, <1>2, <1>3, <1>4

LEMMA EmptyElems == Elems(<<>>) = {}
  BY DEF Elems

LEMMA IncreasingTail ==
    ASSUME NEW q \in Seq(Call), q # <<>>, Increasing(q)
    PROVE  /\ Increasing(Tail(q))
           /\ Head(q).kind = "subscribe" =>
                \A a \in Elems(Tail(q)) : a.kind = "subscribe" => Head(q).id < a.id
<1>1. /\ Len(q) \in Nat \ {0} /\ DOMAIN q = 1 .. Len(q)
      /\ Head(q) = q[1] /\ DOMAIN Tail(q) = 1 .. Len(q) - 1
      /\ \A i \in 1 .. Len(q) - 1 : Tail(q)[i] = q[i + 1]
  OBVIOUS
<1>2. Increasing(Tail(q))
  <2>1. ASSUME NEW i \in DOMAIN Tail(q), NEW j \in DOMAIN Tail(q), i < j,
               Tail(q)[i].kind = "subscribe", Tail(q)[j].kind = "subscribe"
        PROVE  Tail(q)[i].id < Tail(q)[j].id
    <3>1. i + 1 \in DOMAIN q /\ j + 1 \in DOMAIN q /\ i + 1 < j + 1
      BY <1>1, <2>1
    <3>2. Tail(q)[i] = q[i + 1] /\ Tail(q)[j] = q[j + 1]
      BY <1>1
    <3>3. QED BY <2>1, <3>1, <3>2 DEF Increasing
  <2>2. QED BY <2>1 DEF Increasing
<1>3. ASSUME Head(q).kind = "subscribe", NEW i \in DOMAIN Tail(q), Tail(q)[i].kind = "subscribe"
      PROVE  Head(q).id < Tail(q)[i].id
  <2>1. 1 \in DOMAIN q /\ i + 1 \in DOMAIN q /\ 1 < i + 1 /\ Tail(q)[i] = q[i + 1]
    BY <1>1
  <2>2. QED BY <1>1, <1>3, <2>1 DEF Increasing
<1>4. QED BY <1>2, <1>3 DEF Elems

LEMMA IncreasingConcat ==
    ASSUME NEW q \in Seq(Call), NEW r \in Seq(Call), Increasing(q), Increasing(r),
           \A a \in Elems(q), b \in Elems(r) : a.kind = "subscribe" /\ b.kind = "subscribe" => a.id < b.id
    PROVE  Increasing(q \o r)
<1>1. /\ DOMAIN q = 1 .. Len(q) /\ Len(q) \in Nat /\ DOMAIN r = 1 .. Len(r) /\ Len(r) \in Nat
      /\ DOMAIN (q \o r) = 1 .. Len(q) + Len(r)
      /\ \A i \in 1 .. Len(q) + Len(r) : (q \o r)[i] = IF i <= Len(q) THEN q[i] ELSE r[i - Len(q)]
  BY ConcatProperties
<1>2. SUFFICES ASSUME NEW i \in DOMAIN (q \o r), NEW j \in DOMAIN (q \o r), i < j,
                      (q \o r)[i].kind = "subscribe", (q \o r)[j].kind = "subscribe"
               PROVE  (q \o r)[i].id < (q \o r)[j].id
  BY DEF Increasing
<1>3. CASE j <= Len(q)
  <2>1. i \in DOMAIN q /\ j \in DOMAIN q /\ (q \o r)[i] = q[i] /\ (q \o r)[j] = q[j]
    BY <1>1, <1>2, <1>3
  <2>2. QED BY <1>2, <2>1 DEF Increasing
<1>4. CASE i <= Len(q) /\ ~(j <= Len(q))
  <2>1. i \in DOMAIN q /\ j - Len(q) \in DOMAIN r /\ (q \o r)[i] = q[i] /\ (q \o r)[j] = r[j - Len(q)]
    BY <1>1, <1>2, <1>4
  <2>2. QED BY <1>2, <2>1 DEF Elems
<1>5. CASE ~(i <= Len(q)) /\ ~(j <= Len(q))
  <2>1. /\ i - Len(q) \in DOMAIN r /\ j - Len(q) \in DOMAIN r /\ i - Len(q) < j - Len(q)
        /\ (q \o r)[i] = r[i - Len(q)] /\ (q \o r)[j] = r[j - Len(q)]
    BY <1>1, <1>2, <1>5, SMTT(30)
  <2>2. QED BY <1>2, <2>1 DEF Increasing
<1>6. QED BY <1>1, <1>2, <1>3, <1>4, <1>5
-----------------------------------------------------------------------------
(* What keeps a line and an entry as they are *)

\* Nothing new of t is under way on socket k, and what c holds is untouched.
LEMMA EntryKeeps ==
    ASSUME NEW c \in Clients, NEW t \in Topics, NEW k \in Conns, EntryInv(c, t, k),
           entry'[c][t] = entry[c][t], nextId'[c] = nextId[c],
           Asks(k)' \subseteq Asks(k), Answers(k)' \subseteq Answers(k), Patches(k, t)' \subseteq Patches(k, t),
           lastRev'[t] = lastRev[t], k \in subs'[t] => k \in subs[t] /\ truth'[t] = truth[t]
    PROVE  EntryInv(c, t, k)'
<1>1. Waiting(c, t, k)' \subseteq Waiting(c, t, k)
  BY DEF Waiting
<1>2. NoneAhead(c, t, k)'
  BY <1>1 DEF EntryInv, NoneAhead
<1>3. LastAsked(c, t, k)'
  BY DEF EntryInv, LastAsked
<1>4. HeldGenuine(c, t, k)'
  BY <1>1 DEF EntryInv, HeldGenuine, Genuine
<1>5. SnapsGenuine(c, t, k)'
  BY <1>1 DEF EntryInv, SnapsGenuine, Genuine, AnswerFor
<1>6. QED BY <1>2, <1>3, <1>4, <1>5 DEF EntryInv

LEMMA OrderKeeps ==
    ASSUME NEW c \in Clients, NEW k \in Conns, OrderInv(c, k), nextId'[c] = nextId[c],
           Increasing(c2s'[k]), Asks(k)' \subseteq Asks(k), Answers(k)' \subseteq Answers(k)
    PROVE  OrderInv(c, k)'
  BY DEF OrderInv

\* The ids of the calls of subscribeBatch follow those of all earlier calls.
LEMMA NewAsks ==
    ASSUME ClientTypeOK, NEW c \in Clients, NEW groups \in Seq(SUBSET Topics)
    PROVE  /\ SubscribeMsgs(c, groups) \in Seq(Call)
           /\ Increasing(SubscribeMsgs(c, groups))
           /\ \A a \in Elems(SubscribeMsgs(c, groups)) :
                /\ a.kind = "subscribe"
                /\ \E i \in DOMAIN groups : a.id = nextId[c] + i - 1 /\ a.topics = groups[i]
<1>1. /\ DOMAIN groups = 1 .. Len(groups) /\ Len(groups) \in Nat
      /\ DOMAIN SubscribeMsgs(c, groups) = DOMAIN groups
      /\ \A i \in DOMAIN groups : SubscribeMsgs(c, groups)[i] = SubscribeMsg(nextId[c] + i - 1, groups[i])
  BY DEF SubscribeMsgs
<1>2. nextId[c] \in Nat
  BY DEF ClientTypeOK
<1>3. \A i \in DOMAIN groups :
        /\ SubscribeMsgs(c, groups)[i].kind = "subscribe"
        /\ SubscribeMsgs(c, groups)[i].id = nextId[c] + i - 1
        /\ SubscribeMsgs(c, groups)[i].topics = groups[i]
  BY <1>1 DEF SubscribeMsg
<1>4. Increasing(SubscribeMsgs(c, groups))
  <2>1. ASSUME NEW i \in DOMAIN groups, NEW j \in DOMAIN groups, i < j
        PROVE  SubscribeMsgs(c, groups)[i].id < SubscribeMsgs(c, groups)[j].id
    BY <1>1, <1>2, <1>3, <2>1
  <2>2. QED BY <1>1, <2>1 DEF Increasing
<1>5. QED BY <1>1, <1>3, <1>4, SubscribeMsgsType DEF Elems

\* No topic is in two of the groups that are subscribed together.
Disjoint(groups) == \A i, j \in DOMAIN groups : groups[i] \cap groups[j] # {} => i = j

LEMMA OneGroup == \A groups : DOMAIN groups = {1} => Disjoint(groups)
  BY DEF Disjoint

\* The entries a call of subscribeBatch leaves: a topic in one of the groups has
\* the id of its group's call for a token, the others have what they had.
LEMMA BatchesEntries ==
    ASSUME ClientTypeOK, NEW c \in Clients, NEW es \in [Topics -> Entry], NEW cs,
           NEW groups \in Seq(SUBSET Topics), NEW was, SubscribeBatches(c, es, cs, groups, was),
           Disjoint(groups),
           NEW t \in Topics
    PROVE  /\ nextId'[c] = nextId[c] + Len(groups)
           /\ \A i \in DOMAIN groups : t \in groups[i] => entry'[c][t] = Begin(es[t], nextId[c] + i - 1)
           /\ (\A i \in DOMAIN groups : t \notin groups[i]) => entry'[c][t] = es[t]
<1> DEFINE ids == nextId[c] .. nextId[c] + Len(groups) - 1
           group(id) == groups[id - nextId[c] + 1]
<1>1. /\ nextId[c] \in Nat /\ Len(groups) \in Nat /\ DOMAIN groups = 1 .. Len(groups)
      /\ nextId' = [nextId EXCEPT ![c] = @ + Len(groups)]
      /\ entry' = [entry EXCEPT ![c] = [u \in Topics |->
            IF \E id \in ids : u \in group(id) THEN Begin(es[u], CHOOSE id \in ids : u \in group(id)) ELSE es[u]]]
  BY DEF SubscribeBatches, ClientTypeOK
<1>2. entry'[c][t] = IF \E id \in ids : t \in group(id)
                       THEN Begin(es[t], CHOOSE id \in ids : t \in group(id)) ELSE es[t]
  BY <1>1 DEF ClientTypeOK
<1>3. \A id \in ids : id - nextId[c] + 1 \in DOMAIN groups
  <2>1. nextId[c] \in Nat /\ Len(groups) \in Nat /\ DOMAIN groups = 1 .. Len(groups)
    BY <1>1
  <2>2. QED BY ONLY <2>1
<1>4. ASSUME NEW i \in DOMAIN groups, t \in groups[i]
      PROVE  entry'[c][t] = Begin(es[t], nextId[c] + i - 1)
  <2>1. nextId[c] + i - 1 \in ids /\ (nextId[c] + i - 1) - nextId[c] + 1 = i
    BY <1>1, SMTT(30)
  <2>2. t \in group(nextId[c] + i - 1)
    BY <1>4, <2>1
  <2>3. ASSUME NEW id \in ids, t \in group(id)
        PROVE  id = nextId[c] + i - 1
    <3>1. id - nextId[c] + 1 = i
      BY <1>3, <1>4, <2>3 DEF Disjoint
    <3>2. id \in Int /\ i \in Int /\ nextId[c] \in Int
      BY <1>1
    <3>3. QED BY ONLY <3>1, <3>2
  <2> HIDE DEF ids, group
  <2>4. (CHOOSE id \in ids : t \in group(id)) = nextId[c] + i - 1
    BY <2>1, <2>2, <2>3
  <2>5. QED BY <1>2, <2>1, <2>2, <2>4
<1>5. ASSUME \A i \in DOMAIN groups : t \notin groups[i]
      PROVE  entry'[c][t] = es[t]
  BY <1>2, <1>3, <1>5
<1>6. nextId'[c] = nextId[c] + Len(groups)
  BY <1>1 DEF ClientTypeOK
<1>7. QED BY <1>4, <1>5, <1>6

LEMMA BeginParts ==
    ASSUME NEW e \in Entry, NEW id \in Nat
    PROVE  /\ Begin(e, id).inflight = id /\ Begin(e, id).buffer = <<>>
           /\ Begin(e, id).status = "replaying" => e.status = "replaying"
  BY DEF Begin, Entry

\* subscribeBatch, whichever handler calls it: the line stays in order, and every
\* topic waits for the last call that names it.
LEMMA BatchesLine ==
    ASSUME ClientTypeOK, NetTypeOK, NEW c \in Clients, NEW k \in Conns, NEW es \in [Topics -> Entry], NEW cs,
           NEW groups \in Seq(SUBSET Topics), NEW was, SubscribeBatches(c, es, cs, groups, was),
           Disjoint(groups),
           c2s'[k] = c2s[k] \o SubscribeMsgs(c, groups),
           Answers(k)' \subseteq Answers(k), \A t \in Topics : Patches(k, t)' \subseteq Patches(k, t),
           UNCHANGED <<lastRev, truth, subs>>,
           LineInv(c, k),
           \A t \in Topics : (\E i \in DOMAIN groups : t \in groups[i]) \/ es[t] = entry[c][t]
    PROVE  LineInv(c, k)'
<1> DEFINE new == Elems(SubscribeMsgs(c, groups))
<1>0. \A t \in Topics :
        /\ \A i \in DOMAIN groups : t \in groups[i] => entry'[c][t] = Begin(es[t], nextId[c] + i - 1)
        /\ (\A i \in DOMAIN groups : t \notin groups[i]) => entry'[c][t] = es[t]
  <2>1. /\ c \in Clients /\ ClientTypeOK /\ es \in [Topics -> Entry] /\ groups \in Seq(SUBSET Topics)
        /\ SubscribeBatches(c, es, cs, groups, was) /\ Disjoint(groups)
    OBVIOUS
  <2>2. ASSUME NEW t \in Topics, NEW i \in DOMAIN groups, t \in groups[i]
        PROVE  entry'[c][t] = Begin(es[t], nextId[c] + i - 1)
    BY ONLY <2>1, <2>2, BatchesEntries
  <2>3. ASSUME NEW t \in Topics, \A i \in DOMAIN groups : t \notin groups[i]
        PROVE  entry'[c][t] = es[t]
    BY ONLY <2>1, <2>3, BatchesEntries, ZenonT(30)
  <2>4. QED BY <2>2, <2>3
<1>1. /\ nextId[c] \in Nat \ {0} /\ Len(groups) \in Nat /\ DOMAIN groups = 1 .. Len(groups)
      /\ nextId'[c] = nextId[c] + Len(groups)
  BY DEF SubscribeBatches, ClientTypeOK
<1>2. /\ SubscribeMsgs(c, groups) \in Seq(Call)
      /\ Increasing(SubscribeMsgs(c, groups))
      /\ \A a \in new : /\ a.kind = "subscribe"
                        /\ \E i \in DOMAIN groups : a.id = nextId[c] + i - 1 /\ a.topics = groups[i]
  BY NewAsks
<1>3. c2s[k] \in Seq(Call) /\ Elems(c2s[k]) \subseteq Call
  BY QueueElems DEF NetTypeOK
<1>4. Asks(k)' = Asks(k) \cup new
  <2>1. Elems(c2s'[k]) = Elems(c2s[k]) \cup new
    BY <1>2, <1>3, QueueElems
  <2>2. QED BY <1>2, <2>1 DEF Asks
<1>5. /\ \A a \in Asks(k) : a.id \in Nat /\ a.id < nextId[c]
      /\ \A m \in Answers(k) : m.id < nextId[c]
      /\ \A a \in new : a.id \in Nat /\ nextId[c] <= a.id /\ a.id < nextId'[c]
  <2>1. \A a \in Asks(k) : a.id \in Nat /\ a.id < nextId[c]
    BY <1>3 DEF LineInv, OrderInv, Asks, Call
  <2>2. \A a \in new : a.id \in Nat /\ nextId[c] <= a.id /\ a.id < nextId'[c]
    <3>1. ASSUME NEW a \in new
          PROVE  a.id \in Nat /\ nextId[c] <= a.id /\ a.id < nextId'[c]
      <4>1. PICK i \in DOMAIN groups : a.id = nextId[c] + i - 1
        BY <1>2
      <4>2. i \in 1 .. Len(groups)
        BY <1>1
      <4>3. QED BY ONLY <1>1, <4>1, <4>2
    <3>2. QED BY <3>1
  <2>3. QED BY <2>1, <2>2 DEF LineInv, OrderInv
<1>6. \A m \in Answers(k) : m.id \in Nat
  <2>1. s2c[k] \in Seq(Answer \cup Patch) /\ reply.msg \in Answer
    BY DEF NetTypeOK
  <2>2. Elems(s2c[k]) \subseteq Answer \cup Patch
    BY <2>1, QueueElems
  <2>3. QED BY <2>1, <2>2 DEF Answers, Answer, Result, Failure, Patch
<1> HIDE DEF new
<1>7. OrderInv(c, k)'
  <2>1. Increasing(c2s'[k])
    <3>1. \A a \in Elems(c2s[k]), b \in Elems(SubscribeMsgs(c, groups)) :
            a.kind = "subscribe" /\ b.kind = "subscribe" => a.id < b.id
      BY <1>1, <1>5 DEF Asks, new
    <3>2. QED BY <1>2, <1>3, <3>1, IncreasingConcat DEF LineInv, OrderInv
  <2>2. \A a \in Asks(k)' : a.id < nextId'[c]
    BY <1>1, <1>4, <1>5
  <2>3. ASSUME NEW m \in Answers(k)'
        PROVE  m.id < nextId'[c] /\ \A a \in Asks(k)' : m.id < a.id
    <3>1. m \in Answers(k) /\ m.id \in Nat /\ m.id < nextId[c]
      BY <1>5, <1>6
    <3>2. \A a \in Asks(k) : m.id < a.id
      BY <3>1 DEF LineInv, OrderInv
    <3>3. QED BY <1>1, <1>4, <1>5, <3>1, <3>2
  <2>4. QED BY <2>1, <2>2, <2>3 DEF OrderInv
<1>8. ASSUME NEW t \in Topics
      PROVE  EntryInv(c, t, k)'
  <2>1. EntryInv(c, t, k)
    BY DEF LineInv
  <2>2. CASE \E i \in DOMAIN groups : t \in groups[i]
    <3>1. PICK i \in DOMAIN groups : t \in groups[i]
      BY <2>2
    <3> DEFINE id == nextId[c] + i - 1
    <3>2. id \in Nat \ {0} /\ nextId[c] <= id /\ id < nextId'[c]
      BY ONLY <1>1, <3>1
    <3>3. entry'[c][t].inflight = id /\ entry'[c][t].buffer = <<>>
      <4>1. entry'[c][t] = Begin(es[t], id)
        BY <1>0, <3>1
      <4> HIDE DEF id
      <4>2. QED BY <3>2, <4>1, BeginParts
    <3>4. Waiting(c, t, k)' \subseteq Waiting(c, t, k)
      BY <3>3, EmptyElems DEF Waiting
    <3>5. NoneAhead(c, t, k)'
      BY <2>1, <3>4 DEF EntryInv, NoneAhead
    <3>6. LastAsked(c, t, k)'
      <4>1. ASSUME NEW a \in Asks(k)', t \in a.topics
            PROVE  a.id <= id
        <5>1. CASE a \in Asks(k)
          BY <1>1, <1>5, <3>2, <5>1
        <5>2. CASE a \in new
          <6>1. PICK j \in DOMAIN groups : a.id = nextId[c] + j - 1 /\ a.topics = groups[j]
            BY <1>2, <5>2 DEF new
          <6>2. j = i
            BY <3>1, <4>1, <6>1 DEF Disjoint
          <6>3. QED BY <3>2, <6>1, <6>2
        <5>3. QED BY <1>4, <4>1, <5>1, <5>2
      <4> HIDE DEF id
      <4>2. ~Settles(entry'[c][t])
        BY <3>2, <3>3 DEF Settles
      <4>3. QED BY <3>2, <3>3, <4>1, <4>2 DEF LastAsked
    <3> HIDE DEF id
    <3>7. HeldGenuine(c, t, k)'
      BY <3>2, <3>3 DEF HeldGenuine, Settles
    <3>8. SnapsGenuine(c, t, k)'
      <4>1. ASSUME NEW m \in Answers(k)'
            PROVE  m.id # entry'[c][t].inflight
        BY <1>1, <1>5, <1>6, <3>2, <3>3
      <4>2. QED BY <4>1 DEF SnapsGenuine, AnswerFor
    <3>9. QED BY <3>5, <3>6, <3>7, <3>8 DEF EntryInv
  <2>3. CASE \A i \in DOMAIN groups : t \notin groups[i]
    <3>1. entry'[c][t] = entry[c][t]
      BY <1>0, <2>3
    <3>2. Waiting(c, t, k)' \subseteq Waiting(c, t, k)
      BY <3>1 DEF Waiting
    <3>3. NoneAhead(c, t, k)'
      BY <2>1, <3>2 DEF EntryInv, NoneAhead
    <3>4. LastAsked(c, t, k)'
      <4>1. \A a \in new : t \notin a.topics
        BY <1>2, <2>3 DEF new
      <4>2. entry[c][t].inflight \in Nat
        BY DEF ClientTypeOK, Entry
      <4>3. entry'[c][t].inflight < nextId'[c]
        BY <1>1, <2>1, <3>1, <4>2 DEF EntryInv, LastAsked
      <4>4. QED BY <1>4, <2>1, <3>1, <4>1, <4>3 DEF EntryInv, LastAsked
    <3>5. HeldGenuine(c, t, k)'
      BY <2>1, <3>1, <3>2 DEF EntryInv, HeldGenuine, Genuine
    <3>6. SnapsGenuine(c, t, k)'
      BY <2>1, <3>1, <3>2 DEF EntryInv, SnapsGenuine, Genuine, AnswerFor
    <3>7. QED BY <3>3, <3>4, <3>5, <3>6 DEF EntryInv
  <2>4. QED BY <2>2, <2>3
<1>9. QED BY <1>7, <1>8 DEF LineInv
-----------------------------------------------------------------------------
(* The steps of a client, for the client itself *)

OwnInv(c) == ClientInv(c) /\ (Connected(c) => LineInv(c, conn[c]))

\* The entries of a client that stays connected where it was.
LEMMA SameSocket ==
    ASSUME NEW c \in Clients, ClientInv(c), UNCHANGED <<conn, link>>,
           \A t \in Topics : entry'[c][t].status = "replaying" => entry'[c][t].inflight = 0,
           conn[c] = NoConn => \A t \in Topics : entry'[c][t].inflight = 0 /\ entry'[c][t].buffer = <<>>,
           Connected(c) => LineInv(c, conn[c])'
    PROVE  OwnInv(c)'
  BY DEF ClientInv, OwnInv, Connected

LEMMA PostEffect ==
    ASSUME NetTypeOK, NEW k \in Conns, NEW msgs, Post(k, msgs)
    PROVE  /\ link[k] = "up" => c2s'[k] = c2s[k] \o msgs
           /\ link[k] # "up" => c2s' = c2s
           /\ \A j \in Conns : j # k => c2s'[j] = c2s[j]
  BY DEF Post, NetTypeOK

LEMMA BatchesOwn ==
    ASSUME IInv, FlowInv, NEW c \in Clients, conn[c] \in Conns, NEW es \in [Topics -> Entry], NEW cs,
           NEW groups \in Seq(SUBSET Topics), NEW was, SubscribeBatches(c, es, cs, groups, was),
           Post(conn[c], SubscribeMsgs(c, groups)),
           Disjoint(groups),
           Answers(conn[c])' \subseteq Answers(conn[c]),
           \A t \in Topics : Patches(conn[c], t)' \subseteq Patches(conn[c], t),
           UNCHANGED <<serverVars, conn, link>>,
           \A t \in Topics : (\E i \in DOMAIN groups : t \in groups[i]) \/ es[t] = entry[c][t],
           \A t \in Topics, i \in DOMAIN groups : t \in groups[i] => es[t].status # "replaying"
    PROVE  OwnInv(c)'
<1>0. \A t \in Topics :
        /\ \A i \in DOMAIN groups : t \in groups[i] => entry'[c][t] = Begin(es[t], nextId[c] + i - 1)
        /\ (\A i \in DOMAIN groups : t \notin groups[i]) => entry'[c][t] = es[t]
  <2>1. /\ c \in Clients /\ ClientTypeOK /\ es \in [Topics -> Entry] /\ groups \in Seq(SUBSET Topics)
        /\ SubscribeBatches(c, es, cs, groups, was) /\ Disjoint(groups)
    BY DEF IInv, TypeOK
  <2>2. ASSUME NEW t \in Topics, NEW i \in DOMAIN groups, t \in groups[i]
        PROVE  entry'[c][t] = Begin(es[t], nextId[c] + i - 1)
    BY ONLY <2>1, <2>2, BatchesEntries
  <2>3. ASSUME NEW t \in Topics, \A i \in DOMAIN groups : t \notin groups[i]
        PROVE  entry'[c][t] = es[t]
    BY ONLY <2>1, <2>3, BatchesEntries
  <2>4. QED BY <2>2, <2>3
<1>1. ClientTypeOK /\ NetTypeOK /\ ClientInv(c) /\ conn[c] # NoConn
  BY DEF IInv, TypeOK, FlowInv
<1>2. ASSUME Connected(c)
      PROVE  LineInv(c, conn[c])'
  <2>1. c2s'[conn[c]] = c2s[conn[c]] \o SubscribeMsgs(c, groups)
    BY <1>1, <1>2, PostEffect DEF Connected
  <2>2. UNCHANGED <<lastRev, truth, subs>> /\ conn' = conn
    BY DEF serverVars, hubVars
  <2>3. LineInv(c, conn[c])
    BY <1>2 DEF FlowInv
  <2> DEFINE k == conn[c]
  <2>4. k \in Conns /\ c2s'[k] = c2s[k] \o SubscribeMsgs(c, groups) /\ LineInv(c, k) /\ k' = k
        /\ Answers(k)' \subseteq Answers(k) /\ \A t \in Topics : Patches(k, t)' \subseteq Patches(k, t)
    BY <2>1, <2>2, <2>3
  <2>5. QED
    <3> HIDE DEF k
    <3>1. LineInv(c, k)'
      BY <1>1, <2>2, <2>4, BatchesLine
    <3>2. QED BY <3>1 DEF k
<1>3. ASSUME NEW t \in Topics, entry'[c][t].status = "replaying"
      PROVE  entry'[c][t].inflight = 0
  <2>1. CASE \E i \in DOMAIN groups : t \in groups[i]
    <3>1. PICK i \in DOMAIN groups : t \in groups[i]
      BY <2>1
    <3>2. entry'[c][t] = Begin(es[t], nextId[c] + i - 1) /\ nextId[c] + i - 1 \in Nat
      <4>1. nextId[c] \in Nat \ {0} /\ DOMAIN groups = 1 .. Len(groups) /\ Len(groups) \in Nat
        BY <1>1 DEF ClientTypeOK
      <4>2. entry'[c][t] = Begin(es[t], nextId[c] + i - 1)
        BY <1>0, <3>1
      <4>3. QED BY <4>1, <4>2
    <3>3. entry'[c][t].status # "replaying"
      BY <3>1, <3>2, BeginParts
    <3>4. QED BY <1>3, <3>3
  <2>2. CASE ~ \E i \in DOMAIN groups : t \in groups[i]
    <3>1. es[t] = entry[c][t] /\ \A i \in DOMAIN groups : t \notin groups[i]
      BY <2>2
    <3>2. entry'[c][t] = es[t]
      BY <1>0, <3>1
    <3>3. QED BY <1>1, <1>3, <3>1, <3>2 DEF ClientInv
  <2>3. QED BY <2>1, <2>2
<1>4. QED BY <1>1, <1>2, <1>3, SameSocket

\* A step that reads no frame leaves the socket's answers and patches.
LEMMA NothingRead ==
    ASSUME NEW k \in Conns, s2c'[k] = s2c[k], reply' = reply
    PROVE  Answers(k)' = Answers(k) /\ \A t \in Topics : Patches(k, t)' = Patches(k, t)
  BY DEF Answers, Patches

LEMMA AcquireOwn ==
    ASSUME IInv, FlowInv, NEW c \in Clients, NEW T \in SUBSET Topics, Acquire(c, T)
    PROVE  OwnInv(c)'
<1> DEFINE es == [t \in Topics |-> IF t \in T /\ entry[c][t].status = "absent" THEN FreshEntry ELSE entry[c][t]]
           added == {t \in T : ~es[t].subscribed}
<1>1. /\ UNCHANGED <<serverVars, link, s2c, conn, faultVars>>
      /\ \A t \in Topics : entry[c][t].status # "replaying"
  BY DEF Acquire, Busy
<1>2. ClientInv(c) /\ ClientTypeOK /\ NetTypeOK
  BY DEF FlowInv, IInv, TypeOK
<1>3. /\ es \in [Topics -> Entry]
      /\ \A t \in Topics : es[t] = entry[c][t] \/ (t \in T /\ es[t] = FreshEntry)
  BY <1>2, EntryTypes, SMTT(30) DEF ClientTypeOK
<1>4. /\ FreshEntry.status = "subscribing" /\ ~FreshEntry.subscribed
      /\ FreshEntry.inflight = 0 /\ FreshEntry.buffer = <<>>
  BY DEF FreshEntry, NoEntry
<1>5. CASE conn[c] = NoConn
  <2>1. entry' = [entry EXCEPT ![c] = es]
    BY <1>5 DEF Acquire
  <2>2. entry'[c] = es
    BY <1>2, <2>1 DEF ClientTypeOK
  <2> HIDE DEF es
  <2>3. \A t \in Topics : es[t].inflight = 0 /\ es[t].buffer = <<>>
    BY <1>2, <1>3, <1>4, <1>5 DEF ClientInv
  <2>4. QED BY <1>1, <1>2, <1>5, <2>2, <2>3, SameSocket DEF Connected
<1>6. CASE conn[c] # NoConn
  <2>1. SubscribeBatches(c, es, calls[c], <<added>>, {}) /\ Post(conn[c], SubscribeMsgs(c, <<added>>))
    BY <1>6 DEF Acquire
  <2>2. conn[c] \in Conns /\ <<added>> \in Seq(SUBSET Topics)
    BY <1>2, <1>6, SingletonGroups DEF ClientTypeOK
  <2>3. \A t \in Topics : t \in added \/ es[t] = entry[c][t]
    BY <1>3, <1>4
  <2>4. \A t \in Topics : es[t].status # "replaying"
    BY <1>1, <1>3, <1>4
  <2>5. UNCHANGED <<serverVars, conn, link>>
    BY <1>1
  <2>6. /\ Answers(conn[c])' \subseteq Answers(conn[c])
        /\ \A t \in Topics : Patches(conn[c], t)' \subseteq Patches(conn[c], t)
    BY <1>1, <2>2, NothingRead DEF serverVars
  <2> HIDE DEF es, added
  <2>7. /\ DOMAIN <<added>> = {1} /\ <<added>>[1] = added
    OBVIOUS
  <2>8. Disjoint(<<added>>)
    BY <2>7, OneGroup
  <2>9. QED BY <1>3, <2>1, <2>2, <2>3, <2>4, <2>5, <2>6, <2>7, <2>8, BatchesOwn
<1>7. QED BY <1>5, <1>6

\* An entry that holds nothing asks for nothing of its line but its own place.
LEMMA EmptyEntry ==
    ASSUME NEW c \in Clients, NEW t \in Topics, NEW k \in Conns, EntryInv(c, t, k),
           entry'[c][t].status \notin {"ready", "replaying"}, entry'[c][t].inflight = 0,
           entry'[c][t].buffer = <<>>, nextId'[c] \in Nat \ {0},
           Patches(k, t)' \subseteq Patches(k, t), lastRev'[t] = lastRev[t]
    PROVE  EntryInv(c, t, k)'
<1>1. Waiting(c, t, k)' \subseteq Waiting(c, t, k)
  BY EmptyElems DEF Waiting
<1>2. NoneAhead(c, t, k)'
  BY <1>1 DEF EntryInv, NoneAhead
<1>3. QED BY <1>2 DEF EntryInv, LastAsked, HeldGenuine, SnapsGenuine, Settles

LEMMA ReleaseOwn ==
    ASSUME IInv, FlowInv, NEW c \in Clients, NEW t \in Topics, Release(c, t)
    PROVE  OwnInv(c)'
<1>1. /\ UNCHANGED <<serverVars, link, s2c, conn, calls, nextId, faultVars>>
      /\ entry' = [entry EXCEPT ![c][t] = NoEntry]
      /\ \/ conn[c] # NoConn /\ Post(conn[c], <<UnsubscribeMsg({t})>>)
         \/ c2s' = c2s
  BY DEF Release
<1>2. ClientInv(c) /\ ClientTypeOK /\ NetTypeOK
  BY DEF FlowInv, IInv, TypeOK
<1>3. /\ entry'[c][t] = NoEntry
      /\ \A u \in Topics : u # t => entry'[c][u] = entry[c][u]
  BY <1>1, <1>2 DEF ClientTypeOK
<1>4. NoEntry.status = "absent" /\ NoEntry.inflight = 0 /\ NoEntry.buffer = <<>>
  BY DEF NoEntry
<1>5. \A u \in Topics : /\ entry'[c][u].status = "replaying" => entry'[c][u].inflight = 0
                        /\ conn[c] = NoConn => entry'[c][u].inflight = 0 /\ entry'[c][u].buffer = <<>>
  BY <1>2, <1>3, <1>4 DEF ClientInv
<1>6. ASSUME Connected(c)
      PROVE  LineInv(c, conn[c])'
  <2>1. PICK k \in Conns : k = conn[c]
    BY <1>2, <1>6 DEF Connected, ClientTypeOK
  <2>2. LineInv(c, k) /\ link[k] = "up"
    BY <1>6, <2>1 DEF FlowInv, Connected
  <2>3. Answers(k)' = Answers(k) /\ \A u \in Topics : Patches(k, u)' = Patches(k, u)
    BY <1>1, NothingRead DEF serverVars
  <2>4. UNCHANGED <<lastRev, truth, subs, nextId>> /\ conn' = conn
    BY <1>1 DEF serverVars, hubVars
  <2>5. Asks(k)' \subseteq Asks(k) /\ Increasing(c2s'[k])
    <3>1. CASE Post(conn[c], <<UnsubscribeMsg({t})>>)
      <4> DEFINE m == UnsubscribeMsg({t})
      <4>1. m \in Call /\ m.kind # "subscribe"
        BY MessageTypes DEF UnsubscribeMsg
      <4> HIDE DEF m
      <4>2. c2s'[k] = c2s[k] \o <<m>> /\ c2s[k] \in Seq(Call) /\ <<m>> \in Seq(Call)
        <5>1. Post(k, <<m>>)
          BY <2>1, <3>1 DEF m
        <5>2. c2s'[k] = c2s[k] \o <<m>>
          BY <1>2, <2>2, <5>1, PostEffect
        <5>3. QED BY <1>2, <4>1, <5>2 DEF NetTypeOK
      <4>3. Elems(<<m>>) = {m} /\ Increasing(<<m>>)
        BY <4>1 DEF Elems, Increasing
      <4>4. Elems(c2s'[k]) = Elems(c2s[k]) \cup {m}
        <5> DEFINE r == <<m>>
        <5>1. r \in Seq(Call) /\ c2s[k] \in Seq(Call)
          BY <4>2
        <5>2. Elems(c2s[k] \o r) = Elems(c2s[k]) \cup Elems(r)
          <6> HIDE DEF r
          <6>1. QED BY <5>1, QueueElems
        <5>3. QED BY <4>2, <4>3, <5>2
      <4>5. Increasing(c2s'[k])
        BY <2>2, <4>1, <4>2, <4>3, IncreasingConcat DEF LineInv, OrderInv
      <4>6. QED BY <4>1, <4>4, <4>5 DEF Asks
    <3>2. CASE c2s' = c2s
      BY <2>2, <3>2 DEF Asks, LineInv, OrderInv
    <3>3. QED BY <1>1, <3>1, <3>2
  <2>6. OrderInv(c, k)'
    BY <2>2, <2>3, <2>4, <2>5, OrderKeeps DEF LineInv
  <2>7. EntryInv(c, t, k)'
    <3>1. nextId'[c] \in Nat \ {0}
      BY <1>2, <2>4 DEF ClientTypeOK
    <3>2. QED BY <1>3, <1>4, <2>2, <2>3, <2>4, <3>1, EmptyEntry DEF LineInv
  <2>8. ASSUME NEW u \in Topics, u # t
        PROVE  EntryInv(c, u, k)'
    BY <1>3, <2>2, <2>3, <2>4, <2>5, <2>8, EntryKeeps DEF LineInv
  <2>9. LineInv(c, k)'
    BY <2>6, <2>7, <2>8 DEF LineInv
  <2>10. QED BY <2>1, <2>4, <2>9
<1>7. QED BY <1>1, <1>2, <1>5, <1>6, SameSocket
\* The frame client c reads was under way on its socket, and nothing is new there.
LEMMA ConsumeEffect ==
    ASSUME NetTypeOK, ClientTypeOK, NEW c \in Clients, NEW kind, Arrives(c, kind), Consume(c), reply' = reply,
           NEW k \in Conns, k = conn[c]
    PROVE  /\ Head(s2c[k]) \in Answer \cup Patch /\ Head(s2c[k]).kind = kind
           /\ kind # "patch" => Head(s2c[k]) \in Answers(k)
           /\ kind = "patch" => Head(s2c[k]) \in Patches(k, Head(s2c[k]).topic)
           /\ Answers(k)' \subseteq Answers(k)
           /\ \A t \in Topics : Patches(k, t)' \subseteq Patches(k, t)
<1>1. s2c[k] \in Seq(Answer \cup Patch) /\ s2c[k] # <<>> /\ s2c'[k] = Tail(s2c[k]) /\ Head(s2c[k]).kind = kind
  BY DEF Arrives, Consume, NetTypeOK
<1>2. /\ Head(s2c[k]) \in Elems(s2c[k]) /\ Elems(s2c[k]) \subseteq Answer \cup Patch
      /\ Elems(s2c'[k]) \subseteq Elems(s2c[k])
  BY <1>1, QueueElems
<1>3. QED BY <1>1, <1>2 DEF Answers, Patches

\* A replica that stays, or goes on by one of the patches it awaits.
LEMMA EntryMoves ==
    ASSUME NEW c \in Clients, NEW t \in Topics, NEW k \in Conns, EntryInv(c, t, k), IInv,
           Settles(entry[c][t]), Settles(entry'[c][t]), nextId'[c] = nextId[c],
           Asks(k)' \subseteq Asks(k), Waiting(c, t, k)' \subseteq Waiting(c, t, k),
           UNCHANGED <<lastRev, truth, subs>>,
           \/ entry'[c][t].rev = entry[c][t].rev /\ entry'[c][t].data = entry[c][t].data
           \/ \E p \in Waiting(c, t, k) : /\ p.rev = entry[c][t].rev + 1 /\ entry'[c][t].rev = p.rev
                                          /\ entry'[c][t].data = p.ops[entry[c][t].data]
    PROVE  EntryInv(c, t, k)'
<1>1. NoneAhead(c, t, k)'
  BY DEF EntryInv, NoneAhead
<1>2. LastAsked(c, t, k)'
  BY DEF EntryInv, LastAsked, Settles
<1>3. SnapsGenuine(c, t, k)'
  BY DEF SnapsGenuine, Settles
<1>4. HeldGenuine(c, t, k)'
  <2>1. SUFFICES ASSUME k \in subs[t] PROVE Genuine(t, entry[c][t], Waiting(c, t, k))'
    BY DEF HeldGenuine
  <2>2. Genuine(t, entry[c][t], Waiting(c, t, k))
    BY <2>1 DEF EntryInv, HeldGenuine
  <2>3. CASE entry'[c][t].rev = entry[c][t].rev /\ entry'[c][t].data = entry[c][t].data
    BY <2>2, <2>3 DEF Genuine
  <2>4. CASE \E p \in Waiting(c, t, k) : /\ p.rev = entry[c][t].rev + 1 /\ entry'[c][t].rev = p.rev
                                         /\ entry'[c][t].data = p.ops[entry[c][t].data]
    <3>1. PICK p \in Waiting(c, t, k) : /\ p.rev = entry[c][t].rev + 1 /\ entry'[c][t].rev = p.rev
                                        /\ entry'[c][t].data = p.ops[entry[c][t].data]
      BY <2>4
    <3>2. entry[c][t].rev \in Nat /\ lastRev[t] \in Nat
      BY DEF IInv, TypeOK, ClientTypeOK, HubTypeOK, Entry, Revs
    <3>3. p.rev <= lastRev[t] /\ p.rev > entry[c][t].rev /\ p.rev - 1 = entry[c][t].rev
      BY <3>1, <3>2 DEF EntryInv, NoneAhead
    <3>4. p.ops[truth[t][p.rev - 1]] = truth[t][p.rev] /\ entry[c][t].data = truth[t][entry[c][t].rev]
      BY <2>2, <3>3 DEF Genuine
    <3>5. entry'[c][t].rev = p.rev /\ entry'[c][t].data = truth[t][p.rev]
      BY <3>1, <3>3, <3>4
    <3>6. ASSUME NEW q \in Waiting(c, t, k)', q.rev > p.rev
          PROVE  q.ops[truth[t][q.rev - 1]] = truth[t][q.rev]
      <4>1. q \in Waiting(c, t, k)
        OBVIOUS
      <4>2. q.rev > entry[c][t].rev
        <5>1. q.rev \in Nat
          <6>1. /\ s2c[k] \in Seq(Answer \cup Patch) /\ entry[c][t].buffer \in Seq(Patch)
            BY SMTT(30) DEF IInv, TypeOK, NetTypeOK, ClientTypeOK, Entry
          <6>2. Elems(s2c[k]) \subseteq Answer \cup Patch /\ Elems(entry[c][t].buffer) \subseteq Patch
            BY <6>1, QueueElems
          <6>3. q \in Patch
            BY <4>1, <6>2, Kinds DEF Waiting, Patches
          <6>4. QED BY <6>3 DEF Patch, Revs
        <5>2. QED BY <3>1, <3>2, <3>6, <5>1
      <4>3. QED BY <2>2, <4>1, <4>2 DEF Genuine
    <3>7. QED BY <3>3, <3>5, <3>6 DEF Genuine
  <2>5. QED BY <2>3, <2>4
<1>5. QED BY <1>1, <1>2, <1>3, <1>4 DEF EntryInv

\* A result of the call an entry waits for: the snapshot takes the entry's place.
LEMMA EntryTakes ==
    ASSUME IInv, NEW c \in Clients, NEW t \in Topics, NEW k \in Conns, LineInv(c, k),
           NEW m \in Answers(k), AnswerFor(m, c, t), entry[c][t].inflight # 0,
           entry'[c][t] = Take(entry[c][t], m.snaps[t]), nextId'[c] = nextId[c],
           Asks(k)' = Asks(k), Patches(k, t)' \subseteq Patches(k, t),
           UNCHANGED <<lastRev, truth, subs>>
    PROVE  EntryInv(c, t, k)'
<1>1. entry[c][t] \in Entry /\ nextId[c] \in Nat \ {0}
  BY DEF IInv, TypeOK, ClientTypeOK
<1>2. /\ entry'[c][t].status = "replaying" /\ entry'[c][t].inflight = 0
      /\ entry'[c][t].buffer = entry[c][t].buffer
      /\ entry'[c][t].rev = m.snaps[t].rev /\ entry'[c][t].data = m.snaps[t].data
  BY <1>1 DEF Take, Entry
<1>3. Waiting(c, t, k)' \subseteq Waiting(c, t, k)
  BY <1>2 DEF Waiting
<1>4. NoneAhead(c, t, k)'
  BY <1>3 DEF LineInv, EntryInv, NoneAhead
<1>5. LastAsked(c, t, k)'
  <2>1. ASSUME NEW a \in Asks(k), t \in a.topics
        PROVE  FALSE
    <3>1. m.id < a.id /\ a.id <= entry[c][t].inflight /\ m.id = entry[c][t].inflight
      BY <2>1 DEF LineInv, OrderInv, EntryInv, LastAsked, AnswerFor
    <3>2. a.id \in Nat /\ entry[c][t].inflight \in Nat
      <4>1. c2s[k] \in Seq(Call)
        BY DEF IInv, TypeOK, NetTypeOK
      <4>2. a \in Call
        BY <4>1, QueueElems DEF Asks
      <4>3. QED BY <1>1, <4>2 DEF Call, Entry
    <3>3. QED BY <3>1, <3>2
  <2>2. QED BY <1>1, <1>2, <2>1 DEF LastAsked
<1>6. HeldGenuine(c, t, k)'
  <2>1. k \in subs[t] => Genuine(t, m.snaps[t], Waiting(c, t, k))
    BY DEF LineInv, EntryInv, SnapsGenuine
  <2>2. QED BY <1>2, <1>3, <2>1 DEF HeldGenuine, Genuine
<1>7. SnapsGenuine(c, t, k)'
  BY <1>2 DEF SnapsGenuine
<1>8. QED BY <1>4, <1>5, <1>6, <1>7 DEF EntryInv

LEMMA FailParts ==
    ASSUME NEW e \in Entry, NEW kept
    PROVE  Fail(e, kept).status = "error" /\ Fail(e, kept).inflight = 0 /\ Fail(e, kept).buffer = <<>>
  BY DEF Fail, Entry

LEMMA ReceiveResultOwn ==
    ASSUME IInv, FlowInv, NEW c \in Clients, ReceiveResult(c)
    PROVE  OwnInv(c)'
<1> DEFINE msg == Head(s2c[conn[c]])
           call == PendingCall(c, msg.id)
           answered(e, t) == IF t \in DOMAIN msg.snaps THEN Take(e, msg.snaps[t]) ELSE Fail(e, t \in call.was)
           es == [t \in Topics |-> IF t \in call.topics /\ Accepts(entry[c][t], msg.id)
                                     THEN answered(entry[c][t], t) ELSE entry[c][t]]
<1>1. /\ UNCHANGED <<serverVars, link, c2s, conn, nextId, faultVars>>
      /\ entry' = [entry EXCEPT ![c] = es]
      /\ Arrives(c, "result") /\ Consume(c)
  BY DEF ReceiveResult
<1>2. ClientInv(c) /\ ClientTypeOK /\ NetTypeOK
  BY DEF FlowInv, IInv, TypeOK
<1>3. PICK k \in Conns : k = conn[c]
  BY <1>1, <1>2 DEF Arrives, ClientTypeOK
<1>4. k # NoConn /\ UNCHANGED <<lastRev, truth, subs, nextId, reply>> /\ conn' = conn /\ link' = link
  BY <1>1 DEF serverVars, hubVars
<1>5. /\ msg \in Answers(k) /\ msg.kind = "result"
      /\ Answers(k)' \subseteq Answers(k)
      /\ \A t \in Topics : Patches(k, t)' \subseteq Patches(k, t)
      /\ Asks(k)' = Asks(k) /\ c2s'[k] = c2s[k]
  <2>1. Asks(k)' = Asks(k) /\ c2s'[k] = c2s[k]
    BY <1>1 DEF Asks
  <2>2. QED BY <1>1, <1>2, <1>3, <1>4, <2>1, ConsumeEffect
<1>6. call.topics # {} => msg.id # 0
  BY <1>2 DEF PendingCall, ClientTypeOK
<1>7. \A t \in Topics : entry'[c][t] = es[t] /\ entry[c][t] \in Entry
  BY <1>1, <1>2 DEF ClientTypeOK
<1>8. ASSUME NEW t \in Topics
      PROVE  \/ entry'[c][t] = entry[c][t]
             \/ /\ entry[c][t].inflight = msg.id /\ msg.id # 0
                /\ \/ t \in DOMAIN msg.snaps /\ entry'[c][t] = Take(entry[c][t], msg.snaps[t])
                   \/ entry'[c][t] = Fail(entry[c][t], t \in call.was)
  BY <1>6, <1>7 DEF Accepts
<1> HIDE DEF es, call
<1>9. ASSUME NEW t \in Topics, entry'[c][t].status = "replaying"
      PROVE  entry'[c][t].inflight = 0
  <2>1. entry[c][t] \in Entry
    BY <1>7
  <2> HIDE DEF msg
  <2>2. CASE entry'[c][t] = entry[c][t]
    BY <1>2, <1>9, <2>2 DEF ClientInv
  <2>3. CASE entry'[c][t] = Take(entry[c][t], msg.snaps[t])
    BY <2>1, <2>3 DEF Take, Entry
  <2>4. CASE entry'[c][t] = Fail(entry[c][t], t \in call.was)
    BY <2>1, <2>4, FailParts
  <2>5. QED BY <1>8, <2>2, <2>3, <2>4
<1>10. ASSUME Connected(c)
       PROVE  LineInv(c, conn[c])'
  <2>1. LineInv(c, k)
    BY <1>3, <1>10 DEF FlowInv
  <2>2. OrderInv(c, k)'
    BY <1>4, <1>5, <2>1, OrderKeeps DEF LineInv, OrderInv
  <2>3. ASSUME NEW t \in Topics
        PROVE  EntryInv(c, t, k)'
    <3> HIDE DEF msg
    <3>1. CASE entry'[c][t] = entry[c][t]
      BY <1>4, <1>5, <2>1, <3>1, EntryKeeps DEF LineInv
    <3>2. CASE /\ entry[c][t].inflight = msg.id /\ msg.id # 0 /\ t \in DOMAIN msg.snaps
               /\ entry'[c][t] = Take(entry[c][t], msg.snaps[t])
      <4>1. AnswerFor(msg, c, t)
        BY <1>5, <3>2 DEF AnswerFor
      <4>2. QED BY <1>4, <1>5, <2>1, <3>2, <4>1, EntryTakes
    <3>3. CASE entry'[c][t] = Fail(entry[c][t], t \in call.was)
      <4>1. entry'[c][t].status = "error" /\ entry'[c][t].inflight = 0 /\ entry'[c][t].buffer = <<>>
        BY <1>7, <3>3, FailParts
      <4>2. nextId'[c] \in Nat \ {0}
        BY <1>2, <1>4 DEF ClientTypeOK
      <4>3. QED BY <1>4, <1>5, <2>1, <4>1, <4>2, EmptyEntry DEF LineInv
    <3>4. QED BY <1>8, <3>1, <3>2, <3>3
  <2>4. QED BY <1>3, <1>4, <2>2, <2>3 DEF LineInv
<1>11. QED BY <1>2, <1>3, <1>4, <1>9, <1>10, SameSocket
LEMMA ReplayOwn ==
    ASSUME IInv, FlowInv, NEW c \in Clients, NEW t \in Topics, Replay(c, t)
    PROVE  OwnInv(c)'
<1> DEFINE e == entry[c][t]
           p == Head(e.buffer)
           ready == [e EXCEPT !.status = "ready", !.buffer = <<>>]
<1>1. /\ UNCHANGED <<serverVars, link, s2c, conn, faultVars>>
      /\ e.status = "replaying"
  BY DEF Replay
<1>2. ClientInv(c) /\ ClientTypeOK /\ NetTypeOK
  BY DEF FlowInv, IInv, TypeOK
<1>3. PICK k \in Conns : k = conn[c] /\ k # NoConn
  BY <1>1, <1>2 DEF IInv, ReplaysConnected, Busy, ClientTypeOK
<1>4. UNCHANGED <<lastRev, truth, subs, reply>> /\ conn' = conn /\ link' = link /\ s2c' = s2c
  BY <1>1 DEF serverVars, hubVars
<1>5. Answers(k)' = Answers(k) /\ \A u \in Topics : Patches(k, u)' = Patches(k, u)
  BY <1>4, NothingRead
<1>6. /\ e \in Entry /\ e.inflight = 0 /\ Settles(e)
      /\ e.buffer \in Seq(Patch)
      /\ e.buffer # <<>> => p \in Elems(e.buffer) /\ Elems(Tail(e.buffer)) \subseteq Elems(e.buffer)
  <2>1. e \in Entry /\ e.inflight = 0
    BY <1>1, <1>2 DEF ClientTypeOK, ClientInv
  <2>2. e.buffer \in Seq(Patch)
    BY <2>1 DEF Entry
  <2>3. QED BY <1>1, <2>1, <2>2, QueueElems DEF Settles
<1>7. \A x \in Entry : entry' = [entry EXCEPT ![c][t] = x] =>
        entry'[c][t] = x /\ \A u \in Topics : u # t => entry'[c][u] = entry[c][u]
  BY <1>2 DEF ClientTypeOK
<1>8. ASSUME NEW x \in Entry, entry' = [entry EXCEPT ![c][t] = x], UNCHANGED <<calls, nextId, c2s>>,
             Settles(x), Elems(x.buffer) \subseteq Elems(e.buffer),
             \/ x.rev = e.rev /\ x.data = e.data
             \/ \E q \in Elems(e.buffer) : q.rev = e.rev + 1 /\ x.rev = q.rev /\ x.data = q.ops[e.data]
      PROVE  OwnInv(c)'
  <2>1. entry'[c][t] = x /\ \A u \in Topics : u # t => entry'[c][u] = entry[c][u]
    BY <1>7, <1>8
  <2>2. Asks(k)' = Asks(k) /\ c2s' = c2s /\ nextId' = nextId
    BY <1>8 DEF Asks
  <2>3. ASSUME Connected(c)
        PROVE  LineInv(c, conn[c])'
    <3>1. LineInv(c, k)
      BY <1>3, <2>3 DEF FlowInv
    <3>2. OrderInv(c, k)'
      BY <1>5, <2>2, <3>1, OrderKeeps DEF LineInv, OrderInv
    <3>3. EntryInv(c, t, k)'
      <4>1. Waiting(c, t, k)' \subseteq Waiting(c, t, k) /\ Elems(e.buffer) \subseteq Waiting(c, t, k)
        BY <1>5, <1>8, <2>1 DEF Waiting
      <4>2. \/ entry'[c][t].rev = entry[c][t].rev /\ entry'[c][t].data = entry[c][t].data
            \/ \E q \in Waiting(c, t, k) : /\ q.rev = entry[c][t].rev + 1 /\ entry'[c][t].rev = q.rev
                                           /\ entry'[c][t].data = q.ops[entry[c][t].data]
        BY <1>8, <2>1, <4>1
      <4>3. Settles(entry[c][t]) /\ Settles(entry'[c][t])
        BY <1>6, <1>8, <2>1
      <4> HIDE DEF e
      <4>4. QED BY <1>4, <2>2, <3>1, <4>1, <4>2, <4>3, EntryMoves DEF LineInv
    <3>4. ASSUME NEW u \in Topics, u # t
          PROVE  EntryInv(c, u, k)'
      BY <1>4, <1>5, <2>1, <2>2, <3>1, <3>4, EntryKeeps DEF LineInv
    <3>5. QED BY <1>3, <1>4, <3>2, <3>3, <3>4 DEF LineInv
  <2>4. \A u \in Topics : entry'[c][u].status = "replaying" => entry'[c][u].inflight = 0
    BY <1>2, <1>8, <2>1 DEF ClientInv, Settles
  <2>5. QED BY <1>2, <1>3, <1>4, <2>3, <2>4, SameSocket
<1>9. ready \in Entry /\ ready.status = "ready" /\ ready.inflight = 0 /\ ready.rev = e.rev /\ ready.data = e.data
      /\ ready.buffer = <<>>
  <2>1. <<>> \in Seq(Patch)
    OBVIOUS
  <2>2. QED BY <1>6, <2>1 DEF Entry
<1>10. CASE e.buffer = <<>>
  <2>1. entry' = [entry EXCEPT ![c][t] = ready] /\ UNCHANGED <<calls, nextId, c2s>>
    BY <1>10 DEF Replay
  <2> HIDE DEF ready
  <2>2. Settles(ready) /\ Elems(ready.buffer) \subseteq Elems(e.buffer)
    BY <1>9, EmptyElems DEF Settles
  <2>3. QED BY <1>8, <1>9, <2>1, <2>2
<1>11. CASE e.buffer # <<>> /\ p.rev <= e.rev /\ UNCHANGED <<calls, nextId, c2s>>
            /\ entry' = [entry EXCEPT ![c][t].buffer = Tail(@)]
  <2> DEFINE x == [e EXCEPT !.buffer = Tail(@)]
  <2>1. x \in Entry /\ x.status = e.status /\ x.inflight = 0 /\ x.rev = e.rev /\ x.data = e.data
        /\ x.buffer = Tail(e.buffer)
    <3>1. Tail(e.buffer) \in Seq(Patch)
      BY <1>6, <1>11, HeadTailProperties
    <3>2. QED BY <1>6, <3>1 DEF Entry
  <2>2. entry' = [entry EXCEPT ![c][t] = x]
    BY <1>11
  <2> HIDE DEF x
  <2>3. Settles(x) /\ Elems(x.buffer) \subseteq Elems(e.buffer)
    BY <1>1, <1>6, <1>11, <2>1 DEF Settles
  <2>4. QED BY <1>8, <1>11, <2>1, <2>2, <2>3
<1>12. CASE e.buffer # <<>> /\ Extends(e, p) /\ UNCHANGED <<calls, nextId, c2s>>
            /\ entry' = [entry EXCEPT ![c][t] = [Applied(e, p) EXCEPT !.buffer = Tail(@)]]
  <2> DEFINE x == [Applied(e, p) EXCEPT !.buffer = Tail(@)]
  <2>0. p \in Patch /\ Tail(e.buffer) \in Seq(Patch)
    BY <1>6, <1>12, HeadTailProperties
  <2>1. /\ Applied(e, p) \in Entry
        /\ Applied(e, p).buffer = e.buffer /\ Applied(e, p).status = e.status /\ Applied(e, p).inflight = 0
        /\ Applied(e, p).rev = p.rev /\ Applied(e, p).data = p.ops[e.data]
    <3>1. Applied(e, p) \in Entry
      BY <1>6, <1>12, <2>0, EntryTypes
    <3>2. QED BY <1>6, <3>1 DEF Applied, Entry
  <2>2. x \in Entry /\ x.status = e.status /\ x.inflight = 0 /\ x.rev = p.rev /\ x.data = p.ops[e.data]
        /\ x.buffer = Tail(e.buffer)
    BY <2>0, <2>1 DEF Entry
  <2>3. entry' = [entry EXCEPT ![c][t] = x]
    BY <1>12
  <2> HIDE DEF x
  <2>4. Settles(x) /\ Elems(x.buffer) \subseteq Elems(e.buffer)
    BY <1>1, <1>6, <1>12, <2>2 DEF Settles
  <2>5. p \in Elems(e.buffer) /\ p.rev = e.rev + 1
    BY <1>6, <1>12 DEF Extends
  <2>6. QED BY <1>8, <1>12, <2>2, <2>3, <2>4, <2>5
<1>13. CASE Resubscribe(c, [entry[c] EXCEPT ![t] = ready], t)
  <2> DEFINE es == [entry[c] EXCEPT ![t] = ready]
             groups == <<{t}>>
  <2>1. /\ SubscribeBatches(c, es, calls[c], groups, {t}) /\ Post(conn[c], SubscribeMsgs(c, groups))
        /\ groups \in Seq(SUBSET Topics) /\ DOMAIN groups = {1} /\ groups[1] = {t}
    BY <1>13, SingletonGroups DEF Resubscribe
  <2>2. /\ es \in [Topics -> Entry] /\ es[t].status # "replaying"
        /\ \A u \in Topics : u # t => es[u] = entry[c][u]
    BY <1>2, <1>9 DEF ClientTypeOK
  <2>3. /\ Answers(conn[c])' \subseteq Answers(conn[c])
        /\ \A u \in Topics : Patches(conn[c], u)' \subseteq Patches(conn[c], u)
    BY <1>3, <1>4, <1>5
  <2> HIDE DEF es, groups
  <2>4. Disjoint(groups)
    BY <2>1, OneGroup
  <2>5. QED BY <1>1, <1>3, <2>1, <2>2, <2>3, <2>4, BatchesOwn
<1>14. QED BY <1>10, <1>11, <1>12, <1>13 DEF Replay

LEMMA ReceiveErrorOwn ==
    ASSUME IInv, FlowInv, NEW c \in Clients, ReceiveError(c)
    PROVE  OwnInv(c)'
<1> DEFINE msg == Head(s2c[conn[c]])
           id == msg.id
           call == PendingCall(c, id)
<1>1. /\ UNCHANGED <<serverVars, link, conn, faultVars>>
      /\ Arrives(c, "error") /\ Consume(c)
  BY DEF ReceiveError
<1>2. ClientInv(c) /\ ClientTypeOK /\ NetTypeOK
  BY DEF FlowInv, IInv, TypeOK
<1>3. PICK k \in Conns : k = conn[c] /\ k # NoConn
  BY <1>1, <1>2 DEF Arrives, ClientTypeOK
<1>4. UNCHANGED <<lastRev, truth, subs, reply>> /\ conn' = conn /\ link' = link
  BY <1>1 DEF serverVars, hubVars
<1>5. /\ Answers(k)' \subseteq Answers(k)
      /\ \A t \in Topics : Patches(k, t)' \subseteq Patches(k, t)
  BY <1>1, <1>2, <1>3, <1>4, ConsumeEffect
<1>6. CASE \E order \in Orders(call.topics \cap Wanted(c)) :
             LET singles == [i \in DOMAIN order |-> {order[i]}]
             IN  /\ SubscribeBatches(c, entry[c], Settled(c, id), singles, call.was)
                 /\ Post(conn[c], SubscribeMsgs(c, singles))
  <2>1. PICK order \in Orders(call.topics \cap Wanted(c)) :
             /\ SubscribeBatches(c, entry[c], Settled(c, id), [i \in DOMAIN order |-> {order[i]}], call.was)
             /\ Post(conn[c], SubscribeMsgs(c, [i \in DOMAIN order |-> {order[i]}]))
    BY <1>6
  <2> DEFINE groups == [i \in DOMAIN order |-> {order[i]}]
  <2>2. groups \in Seq(SUBSET Topics)
    BY <1>2, PendingCallType, SingletonGroups
  <2>3. Disjoint(groups)
    BY DEF Orders, Disjoint
  <2>4. entry[c] \in [Topics -> Entry] /\ \A t \in Topics : entry[c][t].status # "replaying"
    BY <1>1, <1>2 DEF Arrives, Busy, ClientTypeOK
  <2>5. /\ SubscribeBatches(c, entry[c], Settled(c, id), groups, call.was)
        /\ Post(conn[c], SubscribeMsgs(c, groups))
    BY <2>1
  <2>6. call.was \in SUBSET Topics
    BY <1>2, PendingCallType
  <2> HIDE DEF groups, call, id
  <2>7. QED BY <1>1, <1>3, <1>5, <2>2, <2>3, <2>4, <2>5, <2>6, BatchesOwn
<1>7. CASE /\ entry' = [entry EXCEPT ![c] = [t \in Topics |->
                  IF t \in call.topics /\ Accepts(entry[c][t], id) THEN Fail(entry[c][t], t \in call.was)
                                                                 ELSE entry[c][t]]]
           /\ UNCHANGED <<nextId, c2s>>
  <2>1. ASSUME NEW t \in Topics
        PROVE  \/ entry'[c][t] = entry[c][t]
               \/ entry'[c][t].status = "error" /\ entry'[c][t].inflight = 0 /\ entry'[c][t].buffer = <<>>
    BY <1>2, <1>7, FailParts DEF ClientTypeOK
  <2>2. \A t \in Topics : entry'[c][t].status = "replaying" => entry'[c][t].inflight = 0
    BY <1>2, <2>1 DEF ClientInv
  <2>3. Asks(k)' = Asks(k) /\ nextId' = nextId /\ c2s' = c2s
    BY <1>7 DEF Asks
  <2>4. ASSUME Connected(c)
        PROVE  LineInv(c, conn[c])'
    <3>1. LineInv(c, k)
      BY <1>3, <2>4 DEF FlowInv
    <3>2. OrderInv(c, k)'
      BY <1>5, <2>3, <3>1, OrderKeeps DEF LineInv, OrderInv
    <3>3. ASSUME NEW t \in Topics
          PROVE  EntryInv(c, t, k)'
      <4>1. CASE entry'[c][t] = entry[c][t]
        BY <1>4, <1>5, <2>3, <3>1, <4>1, EntryKeeps DEF LineInv
      <4>2. CASE entry'[c][t].status = "error" /\ entry'[c][t].inflight = 0 /\ entry'[c][t].buffer = <<>>
        <5>1. nextId'[c] \in Nat \ {0}
          BY <1>2, <2>3 DEF ClientTypeOK
        <5>2. QED BY <1>4, <1>5, <3>1, <4>2, <5>1, EmptyEntry DEF LineInv
      <4>3. QED BY <2>1, <4>1, <4>2
    <3>4. QED BY <1>3, <1>4, <3>2, <3>3 DEF LineInv
  <2>5. QED BY <1>2, <1>3, <1>4, <2>2, <2>4, SameSocket
<1>8. QED BY <1>6, <1>7 DEF ReceiveError
\* A patch that arrives during a call joins the buffer.
LEMMA EntryBuffers ==
    ASSUME NEW c \in Clients, NEW t \in Topics, NEW k \in Conns, EntryInv(c, t, k), IInv,
           entry[c][t].inflight # 0, NEW p \in Patches(k, t), p \in Patch,
           entry'[c][t] = [entry[c][t] EXCEPT !.buffer = Append(@, p)], nextId'[c] = nextId[c],
           Asks(k)' = Asks(k), Answers(k)' \subseteq Answers(k), Patches(k, t)' \subseteq Patches(k, t),
           UNCHANGED <<lastRev, truth, subs>>
    PROVE  EntryInv(c, t, k)'
<1>1. entry[c][t] \in Entry /\ entry[c][t].buffer \in Seq(Patch)
  BY DEF IInv, TypeOK, ClientTypeOK, Entry
<1>2. /\ entry'[c][t].inflight = entry[c][t].inflight
      /\ entry'[c][t].buffer = Append(entry[c][t].buffer, p)
  BY <1>1 DEF Entry
<1>3. Waiting(c, t, k)' \subseteq Waiting(c, t, k)
  BY <1>1, <1>2, QueueElems DEF Waiting
<1>4. NoneAhead(c, t, k)'
  BY <1>3 DEF EntryInv, NoneAhead
<1>5. LastAsked(c, t, k)'
  BY <1>2 DEF EntryInv, LastAsked, Settles
<1>6. HeldGenuine(c, t, k)'
  BY <1>2 DEF HeldGenuine, Settles
<1>7. SnapsGenuine(c, t, k)'
  BY <1>2, <1>3 DEF EntryInv, SnapsGenuine, Genuine, AnswerFor
<1>8. QED BY <1>4, <1>5, <1>6, <1>7 DEF EntryInv

LEMMA ReceivePatchOwn ==
    ASSUME IInv, FlowInv, NEW c \in Clients, ReceivePatch(c)
    PROVE  OwnInv(c)'
<1>1. /\ UNCHANGED <<serverVars, link, conn, faultVars>>
      /\ Arrives(c, "patch") /\ Consume(c)
  BY DEF ReceivePatch
<1>2. ClientInv(c) /\ ClientTypeOK /\ NetTypeOK
  BY DEF FlowInv, IInv, TypeOK
<1>3. PICK k \in Conns : k = conn[c] /\ k # NoConn
  BY <1>1, <1>2 DEF Arrives, ClientTypeOK
<1>4. UNCHANGED <<lastRev, truth, subs, reply>> /\ conn' = conn /\ link' = link
  BY <1>1 DEF serverVars, hubVars
<1>5. PICK p \in Patch, t \in Topics :
        /\ p = Head(s2c[conn[c]]) /\ t = p.topic /\ p \in Patches(k, t)
        /\ Answers(k)' \subseteq Answers(k)
        /\ \A u \in Topics : Patches(k, u)' \subseteq Patches(k, u)
  <2> DEFINE q == Head(s2c[conn[c]])
  <2>1. /\ q \in Answer \cup Patch /\ q.kind = "patch" /\ q \in Patches(k, q.topic)
        /\ Answers(k)' \subseteq Answers(k)
        /\ \A u \in Topics : Patches(k, u)' \subseteq Patches(k, u)
    BY <1>1, <1>2, <1>3, <1>4, ConsumeEffect
  <2>2. q \in Patch
    BY <2>1, Kinds
  <2>3. q.topic \in Topics
    BY <2>2 DEF Patch
  <2>4. QED BY <2>1, <2>2, <2>3
<1> DEFINE e == entry[c][t]
<1>6. e \in Entry /\ e.status # "replaying"
  BY <1>1, <1>2 DEF ClientTypeOK, Arrives, Busy
<1>7. ASSUME NEW x \in Entry, entry'[c][t] = x, \A u \in Topics : u # t => entry'[c][u] = entry[c][u],
             UNCHANGED <<calls, nextId, c2s>>, x.status = "replaying" => x.inflight = 0,
             LineInv(c, k) => EntryInv(c, t, k)'
      PROVE  OwnInv(c)'
  <2>1. Asks(k)' = Asks(k) /\ c2s' = c2s /\ nextId' = nextId
    BY <1>7 DEF Asks
  <2>2. ASSUME Connected(c)
        PROVE  LineInv(c, conn[c])'
    <3>1. LineInv(c, k)
      BY <1>3, <2>2 DEF FlowInv
    <3>2. OrderInv(c, k)'
      BY <1>5, <2>1, <3>1, OrderKeeps DEF LineInv, OrderInv
    <3>3. ASSUME NEW u \in Topics, u # t
          PROVE  EntryInv(c, u, k)'
      BY <1>4, <1>5, <1>7, <2>1, <3>1, <3>3, EntryKeeps DEF LineInv
    <3>4. QED BY <1>3, <1>4, <1>7, <3>1, <3>2, <3>3 DEF LineInv
  <2>3. \A u \in Topics : entry'[c][u].status = "replaying" => entry'[c][u].inflight = 0
    BY <1>2, <1>7 DEF ClientInv
  <2>4. QED BY <1>2, <1>3, <1>4, <2>2, <2>3, SameSocket
<1>8. \A x \in Entry : entry' = [entry EXCEPT ![c][t] = x] =>
        entry'[c][t] = x /\ \A u \in Topics : u # t => entry'[c][u] = entry[c][u]
  BY <1>2, <1>6 DEF ClientTypeOK
<1>9. CASE UNCHANGED <<entry, calls, nextId, c2s>>
  <2>1. LineInv(c, k) => EntryInv(c, t, k)'
    <3>1. Asks(k)' = Asks(k)
      BY <1>9 DEF Asks
        <3>2. QED BY <1>4, <1>5, <1>6, <1>9, <3>1, EntryKeeps DEF LineInv
  <2>2. e.status = "replaying" => e.inflight = 0
    BY <1>6
  <2>3. entry'[c][t] = e /\ \A u \in Topics : entry'[c][u] = entry[c][u]
    BY <1>9
  <2> HIDE DEF e
  <2>4. QED BY <1>6, <1>7, <1>9, <2>1, <2>2, <2>3
<1>10. CASE e.inflight # 0 /\ entry' = [entry EXCEPT ![c][t] = [e EXCEPT !.buffer = Append(@, p)]]
            /\ UNCHANGED <<calls, nextId, c2s>>
  <2> DEFINE x == [e EXCEPT !.buffer = Append(@, p)]
  <2>1. x \in Entry /\ x.status = e.status
    <3>1. Append(e.buffer, p) \in Seq(Patch)
      BY <1>6, AppendProperties DEF Entry
    <3>2. QED BY <1>6, <3>1 DEF Entry
  <2>2. x.status # "replaying"
    BY <1>6, <2>1
  <2>3. entry'[c][t] = x /\ \A u \in Topics : u # t => entry'[c][u] = entry[c][u]
    <3> HIDE DEF x
    <3>1. entry' = [entry EXCEPT ![c][t] = x]
      BY <1>10 DEF x
    <3>2. QED BY <1>8, <2>1, <3>1
  <2>4. LineInv(c, k) => EntryInv(c, t, k)'
    <3>1. Asks(k)' = Asks(k) /\ nextId' = nextId
      BY <1>10 DEF Asks
    <3>2. entry'[c][t] = [entry[c][t] EXCEPT !.buffer = Append(@, p)] /\ entry[c][t].inflight # 0
      BY <1>10, <2>3
    <3> HIDE DEF x, e
    <3>3. QED BY <1>4, <1>5, <1>6, <3>1, <3>2, EntryBuffers DEF LineInv
  <2> HIDE DEF x, e
  <2>5. QED BY <1>7, <1>10, <2>1, <2>2, <2>3, <2>4
<1>11. CASE e.status = "ready" /\ e.inflight = 0 /\ Extends(e, p)
            /\ entry' = [entry EXCEPT ![c][t] = Applied(e, p)] /\ UNCHANGED <<calls, nextId, c2s>>
  <2> DEFINE x == Applied(e, p)
  <2>1. x \in Entry
    BY <1>6, <1>11, EntryTypes
  <2>2. x.status = "ready" /\ x.inflight = 0 /\ x.buffer = e.buffer /\ x.rev = p.rev /\ x.data = p.ops[e.data]
    BY <1>6, <1>11, <2>1 DEF Applied, Entry
  <2>3. entry'[c][t] = x /\ \A u \in Topics : u # t => entry'[c][u] = entry[c][u]
    BY <1>8, <1>11, <2>1
  <2>4. LineInv(c, k) => EntryInv(c, t, k)'
    <3>1. Asks(k)' = Asks(k) /\ nextId' = nextId
      BY <1>11 DEF Asks
    <3>2. Settles(entry[c][t]) /\ Settles(entry'[c][t])
      BY <1>11, <2>2, <2>3 DEF Settles
    <3>3. Waiting(c, t, k)' \subseteq Waiting(c, t, k) /\ p \in Waiting(c, t, k)
      BY <1>5, <1>6, <2>2, <2>3 DEF Waiting
    <3>4. p.rev = entry[c][t].rev + 1 /\ entry'[c][t].rev = p.rev /\ entry'[c][t].data = p.ops[entry[c][t].data]
      BY <1>11, <2>2, <2>3 DEF Extends
    <3> HIDE DEF x, e
    <3>5. QED BY <1>4, <1>6, <3>1, <3>2, <3>3, <3>4, EntryMoves DEF LineInv
  <2> HIDE DEF x, e
  <2>5. QED BY <1>7, <1>11, <2>1, <2>2, <2>3, <2>4
<1>12. CASE Resubscribe(c, entry[c], t)
  <2> DEFINE groups == <<{t}>>
  <2>1. /\ SubscribeBatches(c, entry[c], calls[c], groups, {t}) /\ Post(conn[c], SubscribeMsgs(c, groups))
        /\ groups \in Seq(SUBSET Topics) /\ DOMAIN groups = {1} /\ groups[1] = {t}
    BY <1>6, <1>12, SingletonGroups DEF Resubscribe
  <2>2. entry[c] \in [Topics -> Entry] /\ {t} \in SUBSET Topics /\ \A u \in Topics : entry[c][u].status # "replaying"
    BY <1>1, <1>2, <1>6 DEF ClientTypeOK, Arrives, Busy
  <2> HIDE DEF groups, e
  <2>3. Disjoint(groups)
    BY <2>1, OneGroup
  <2>4. QED BY <1>1, <1>3, <1>5, <2>1, <2>2, <2>3, BatchesOwn
<1>13. QED BY <1>5, <1>9, <1>10, <1>11, <1>12 DEF ReceivePatch

LEMMA ConnectOwn ==
    ASSUME IInv, FlowInv, NEW c \in Clients, NEW k \in Conns, Connect(c, k)
    PROVE  OwnInv(c)'
<1>1. /\ UNCHANGED <<serverVars, s2c, faultVars>> /\ conn[c] = NoConn /\ link[k] = "free"
      /\ link' = [link EXCEPT ![k] = "up"] /\ conn' = [conn EXCEPT ![c] = k]
      /\ \A t \in Topics : entry[c][t].status # "replaying"
  BY DEF Connect, Busy
<1>2. ClientInv(c) /\ ClientTypeOK /\ NetTypeOK /\ SocketInv(k) /\ SubsLinked
  BY DEF FlowInv, IInv, TypeOK
<1>3. conn'[c] = k /\ link'[k] = "up" /\ k # NoConn
  BY <1>1, <1>2 DEF ClientTypeOK, NetTypeOK
<1>4. UNCHANGED <<lastRev, truth, subs, reply, s2c>>
  BY <1>1 DEF serverVars, hubVars
<1>5. s2c[k] = <<>> /\ c2s[k] = <<>> /\ reply.conn # k /\ \A t \in Topics : k \notin subs[t]
  BY <1>1, <1>2 DEF SocketInv, SubsLinked
<1>6. LineInv(c, k)
  <2>1. Asks(k) = {} /\ Answers(k) = {} /\ \A t \in Topics : Patches(k, t) = {}
    BY <1>5, EmptyElems DEF Asks, Answers, Patches
  <2>2. Increasing(c2s[k])
    BY <1>5 DEF Increasing
  <2>3. ASSUME NEW t \in Topics
        PROVE  EntryInv(c, t, k)
    <3>1. Waiting(c, t, k) = {} /\ entry[c][t].inflight < nextId[c]
      BY <1>1, <1>2, <2>1, EmptyElems DEF Waiting, ClientInv, ClientTypeOK
    <3>2. QED BY <1>5, <2>1, <3>1 DEF EntryInv, NoneAhead, LastAsked, HeldGenuine, SnapsGenuine
  <2>4. QED BY <2>1, <2>2, <2>3 DEF LineInv, OrderInv
<1>7. Answers(k)' = Answers(k) /\ \A t \in Topics : Patches(k, t)' = Patches(k, t)
  BY <1>4, NothingRead
<1>8. CASE UNCHANGED <<entry, calls, nextId, c2s>>
  <2>1. Asks(k)' = Asks(k)
    BY <1>8 DEF Asks
  <2>2. OrderInv(c, k)'
    BY <1>6, <1>7, <1>8, <2>1, OrderKeeps DEF LineInv, OrderInv
  <2>3. \A t \in Topics : EntryInv(c, t, k)'
    BY <1>4, <1>6, <1>7, <1>8, <2>1, EntryKeeps DEF LineInv
  <2>4. LineInv(c, k)'
    BY <2>2, <2>3 DEF LineInv
  <2>5. QED BY <1>1, <1>3, <1>8, <2>4 DEF OwnInv, ClientInv
<1>9. CASE /\ SubscribeBatches(c, entry[c], calls[c], <<Wanted(c)>>, {})
           /\ c2s' = [c2s EXCEPT ![k] = SubscribeMsgs(c, <<Wanted(c)>>)]
  <2> DEFINE groups == <<Wanted(c)>>
  <2>1. groups \in Seq(SUBSET Topics) /\ DOMAIN groups = {1} /\ groups[1] = Wanted(c) /\ Disjoint(groups)
    BY SingletonGroups, OneGroup DEF Wanted
  <2>2. SubscribeBatches(c, entry[c], calls[c], groups, {}) /\ c2s' = [c2s EXCEPT ![k] = SubscribeMsgs(c, groups)]
    BY <1>9
  <2> HIDE DEF groups
  <2>3. c2s'[k] = c2s[k] \o SubscribeMsgs(c, groups)
    <3>1. SubscribeMsgs(c, groups) \in Seq(Call)
      BY <1>2, <2>1, SubscribeMsgsType
    <3>2. c2s'[k] = SubscribeMsgs(c, groups)
      BY <1>2, <2>2 DEF NetTypeOK
    <3>3. <<>> \o SubscribeMsgs(c, groups) = SubscribeMsgs(c, groups)
      BY <3>1, ConcatEmptySeq
    <3>4. QED BY <1>5, <3>2, <3>3
  <2>4. entry[c] \in [Topics -> Entry]
    BY <1>2 DEF ClientTypeOK
  <2>5. LineInv(c, k)'
    BY <1>2, <1>4, <1>6, <1>7, <2>1, <2>2, <2>3, <2>4, BatchesLine
  <2>6. ASSUME NEW t \in Topics
        PROVE  entry'[c][t].status # "replaying"
    <3>1. CASE t \in groups[1]
      <4>1. nextId[c] \in Nat
        BY <1>2 DEF ClientTypeOK
      <4>2. entry'[c][t] = Begin(entry[c][t], nextId[c] + 1 - 1)
        BY <1>2, <2>1, <2>2, <2>4, <3>1, BatchesEntries
      <4>3. nextId[c] + 1 - 1 \in Nat
        BY <4>1
      <4>4. QED BY <1>1, <2>4, <4>2, <4>3, BeginParts
    <3>2. CASE t \notin groups[1]
      BY <1>1, <1>2, <2>1, <2>2, <2>4, <3>2, BatchesEntries
    <3>3. QED BY <3>1, <3>2
  <2>7. QED BY <1>3, <2>5, <2>6 DEF OwnInv, ClientInv
<1>10. QED BY <1>8, <1>9 DEF Connect

LEMMA DisconnectedOwn ==
    ASSUME IInv, FlowInv, NEW c \in Clients, Disconnected(c)
    PROVE  OwnInv(c)'
<1>1. conn'[c] = NoConn
  BY DEF Disconnected, IInv, TypeOK, ClientTypeOK
<1>2. ASSUME NEW t \in Topics
      PROVE  entry'[c][t].inflight = 0 /\ entry'[c][t].buffer = <<>>
  <2>1. entry[c][t] \in Entry
    BY DEF IInv, TypeOK, ClientTypeOK
  <2>2. entry'[c][t] = [entry[c][t] EXCEPT !.subscribed = FALSE, !.inflight = 0, !.buffer = <<>>]
    BY DEF Disconnected, IInv, TypeOK, ClientTypeOK
  <2>3. QED BY <2>1, <2>2 DEF Entry
<1>3. QED BY <1>1, <1>2 DEF OwnInv, ClientInv, Connected
\* What a step of client c does to the rest: it works on its own socket, opens a
\* free one, or gives its own up.
KeepsSocket(c) ==
    /\ conn' = conn /\ link' = link
    /\ \A k \in Conns : /\ k # conn[c] => c2s'[k] = c2s[k] /\ s2c'[k] = s2c[k]
                        /\ link[k] = "up" \/ c2s'[k] = c2s[k]
OpensSocket(c, k) ==
    /\ conn[c] = NoConn /\ link[k] = "free"
    /\ link' = [link EXCEPT ![k] = "up"]
    /\ conn' = [conn EXCEPT ![c] = k]
    /\ s2c' = s2c
    /\ \A j \in Conns : j # k => c2s'[j] = c2s[j]
LeavesSocket(c, k, l) ==
    /\ conn[c] = k
    /\ l = "free" => link[k] = "serverGone"
    /\ link' = [link EXCEPT ![k] = l]
    /\ conn' = [conn EXCEPT ![c] = NoConn]
    /\ s2c' = [s2c EXCEPT ![k] = <<>>]
    /\ c2s' = c2s

LEMMA ClientFrame ==
    ASSUME IInv, NEW c \in Clients, ClientNext(c)
    PROVE  /\ UNCHANGED serverVars
           /\ \A d \in Clients : d # c => nextId'[d] = nextId[d]
           /\ \/ KeepsSocket(c)
              \/ \E k \in Conns : OpensSocket(c, k)
              \/ \E k \in Conns : LeavesSocket(c, k, "clientGone") \/ LeavesSocket(c, k, "free")
<1> DEFINE Rest == /\ UNCHANGED serverVars
                   /\ \A d \in Clients : d # c => nextId'[d] = nextId[d]
<1>1. ClientTypeOK /\ NetTypeOK
  BY DEF IInv, TypeOK
<1>2. ASSUME NEW es, NEW cs, NEW groups, NEW was, SubscribeBatches(c, es, cs, groups, was)
      PROVE  \A d \in Clients : d # c => nextId'[d] = nextId[d]
  BY <1>1, <1>2 DEF SubscribeBatches, ClientTypeOK
<1>3. ASSUME UNCHANGED <<conn, link>>, s2c' = s2c \/ (conn[c] \in Conns /\ Consume(c)),
             c2s' = c2s \/ (conn[c] \in Conns /\ \E msgs : Post(conn[c], msgs))
      PROVE  KeepsSocket(c)
  <2>1. \A k \in Conns : k # conn[c] => s2c'[k] = s2c[k]
    BY <1>1, <1>3 DEF Consume, NetTypeOK
  <2>2. \A k \in Conns : (k # conn[c] => c2s'[k] = c2s[k]) /\ (link[k] = "up" \/ c2s'[k] = c2s[k])
    <3>1. CASE c2s' = c2s
      BY <3>1
    <3>2. CASE conn[c] \in Conns /\ \E msgs : Post(conn[c], msgs)
      <4>1. PICK msgs : Post(conn[c], msgs)
        BY <3>2
      <4>2. QED BY <1>1, <3>2, <4>1, PostEffect
    <3>3. QED BY <1>3, <3>1, <3>2
  <2>3. QED BY <1>3, <2>1, <2>2 DEF KeepsSocket
<1>4. conn[c] # NoConn => conn[c] \in Conns
  BY <1>1 DEF ClientTypeOK
<1>5. ASSUME NEW T \in SUBSET Topics, Acquire(c, T)
      PROVE  Rest /\ KeepsSocket(c)
  <2>1. UNCHANGED <<serverVars, link, s2c, conn>>
    BY <1>5 DEF Acquire
  <2>2. nextId' = nextId \/ \E es, cs, groups, was : SubscribeBatches(c, es, cs, groups, was)
    BY <1>5 DEF Acquire
  <2>3. c2s' = c2s \/ (conn[c] \in Conns /\ \E msgs : Post(conn[c], msgs))
    BY <1>4, <1>5 DEF Acquire
  <2>4. QED BY <1>2, <1>3, <2>1, <2>2, <2>3
<1>6. ASSUME NEW t \in Topics, Release(c, t)
      PROVE  Rest /\ KeepsSocket(c)
  <2>1. UNCHANGED <<serverVars, link, s2c, conn, nextId>>
    BY <1>6 DEF Release
  <2>2. c2s' = c2s \/ (conn[c] \in Conns /\ \E msgs : Post(conn[c], msgs))
    BY <1>4, <1>6 DEF Release
  <2>3. QED BY <1>3, <2>1, <2>2
<1>7. ASSUME NEW t \in Topics, Replay(c, t)
      PROVE  Rest /\ KeepsSocket(c)
  <2>1. UNCHANGED <<serverVars, link, s2c, conn>> /\ conn[c] \in Conns
    BY <1>4, <1>7 DEF Replay, IInv, ReplaysConnected, Busy
  <2>2. /\ nextId' = nextId \/ \E es, cs, groups, was : SubscribeBatches(c, es, cs, groups, was)
        /\ c2s' = c2s \/ \E msgs : Post(conn[c], msgs)
    <3>1. \/ nextId' = nextId /\ c2s' = c2s
          \/ \E es : Resubscribe(c, es, t)
      BY <1>7 DEF Replay
    <3>2. QED BY <3>1 DEF Resubscribe
  <2>3. QED BY <1>2, <1>3, <2>1, <2>2
<1>8. CASE ReceiveResult(c)
  <2>1. UNCHANGED <<serverVars, link, c2s, conn, nextId>> /\ Consume(c) /\ conn[c] \in Conns
    BY <1>4, <1>8 DEF ReceiveResult, Arrives
  <2>2. QED BY <1>3, <2>1
<1>9. CASE ReceiveError(c)
  <2>1. UNCHANGED <<serverVars, link, conn>> /\ Consume(c) /\ conn[c] \in Conns
    BY <1>4, <1>9 DEF ReceiveError, Arrives
  <2>2. /\ nextId' = nextId \/ \E es, cs, groups, was : SubscribeBatches(c, es, cs, groups, was)
        /\ c2s' = c2s \/ \E msgs : Post(conn[c], msgs)
    BY <1>9 DEF ReceiveError
  <2>3. QED BY <1>2, <1>3, <2>1, <2>2
<1>10. CASE ReceivePatch(c)
  <2>1. UNCHANGED <<serverVars, link, conn>> /\ Consume(c) /\ conn[c] \in Conns
    BY <1>4, <1>10 DEF ReceivePatch, Arrives
  <2>2. /\ nextId' = nextId \/ \E es, cs, groups, was : SubscribeBatches(c, es, cs, groups, was)
        /\ c2s' = c2s \/ \E msgs : Post(conn[c], msgs)
    <3>1. \/ nextId' = nextId /\ c2s' = c2s
          \/ \E es, t : Resubscribe(c, es, t)
      BY <1>10 DEF ReceivePatch
    <3>2. QED BY <3>1 DEF Resubscribe
  <2>3. QED BY <1>2, <1>3, <2>1, <2>2
<1>11. ASSUME NEW k \in Conns, Connect(c, k)
       PROVE  Rest /\ OpensSocket(c, k)
  <2>1. UNCHANGED serverVars /\ conn[c] = NoConn /\ link[k] = "free" /\ s2c' = s2c
        /\ link' = [link EXCEPT ![k] = "up"] /\ conn' = [conn EXCEPT ![c] = k]
    BY <1>11 DEF Connect
  <2>2. /\ nextId' = nextId \/ \E es, cs, groups, was : SubscribeBatches(c, es, cs, groups, was)
        /\ c2s' = c2s \/ \E q : c2s' = [c2s EXCEPT ![k] = q]
    BY <1>11 DEF Connect
  <2>3. \A j \in Conns : j # k => c2s'[j] = c2s[j]
    BY <1>1, <2>2 DEF NetTypeOK
  <2>4. QED BY <1>2, <2>1, <2>2, <2>3 DEF OpensSocket
<1>12. CASE ClientLosesSocket(c) \/ ClientSeesClose(c)
  <2>1. Disconnected(c) /\ conn[c] # NoConn
    BY <1>12 DEF ClientLosesSocket, ClientSeesClose
  <2>2. PICK k \in Conns : k = conn[c]
    BY <1>4, <2>1
  <2>3. Rest /\ conn' = [conn EXCEPT ![c] = NoConn] /\ s2c' = [s2c EXCEPT ![k] = <<>>] /\ c2s' = c2s
    BY <1>1, <2>1, <2>2 DEF Disconnected, ClientTypeOK
  <2>4. LeavesSocket(c, k, "clientGone") \/ LeavesSocket(c, k, "free")
    BY <1>12, <2>2, <2>3 DEF LeavesSocket, ClientLosesSocket, ClientSeesClose
  <2>5. QED BY <2>3, <2>4
<1>13. QED BY <1>5, <1>6, <1>7, <1>8, <1>9, <1>10, <1>11, <1>12 DEF ClientNext

LEMMA ClientOwn ==
    ASSUME IInv, FlowInv, NEW c \in Clients, ClientNext(c)
    PROVE  OwnInv(c)'
<1>1. ASSUME NEW T \in SUBSET Topics, Acquire(c, T) PROVE OwnInv(c)'
  BY <1>1, AcquireOwn
<1>2. ASSUME NEW t \in Topics, Release(c, t) PROVE OwnInv(c)'
  BY <1>2, ReleaseOwn
<1>3. ASSUME NEW t \in Topics, Replay(c, t) PROVE OwnInv(c)'
  BY <1>3, ReplayOwn
<1>4. ASSUME NEW k \in Conns, Connect(c, k) PROVE OwnInv(c)'
  BY <1>4, ConnectOwn
<1>5. QED BY <1>1, <1>2, <1>3, <1>4, ReceiveResultOwn, ReceiveErrorOwn, ReceivePatchOwn, DisconnectedOwn
          DEF ClientNext, ClientLosesSocket, ClientSeesClose

LEMMA ClientFlow ==
    ASSUME IInv, FlowInv, NEW c \in Clients, ClientNext(c)
    PROVE  FlowInv'
<1>1. /\ ClientTypeOK /\ NetTypeOK /\ OneClient /\ SubsLinked
      /\ \A k \in Conns : SocketInv(k)
      /\ \A d \in Clients : ClientInv(d)
  BY DEF IInv, TypeOK, FlowInv
<1>2. /\ UNCHANGED serverVars
      /\ UNCHANGED <<lastRev, truth, subs, reply>>
      /\ \A d \in Clients : d # c => nextId'[d] = nextId[d] /\ entry'[d] = entry[d] /\ conn'[d] = conn[d]
      /\ \/ KeepsSocket(c)
         \/ \E k \in Conns : OpensSocket(c, k)
         \/ \E k \in Conns : LeavesSocket(c, k, "clientGone") \/ LeavesSocket(c, k, "free")
  BY ClientFrame, OthersUntouched DEF serverVars, hubVars
<1>3. \A k \in Conns : SocketInv(k)'
  <2>1. CASE KeepsSocket(c)
    BY <1>1, <1>2, <2>1 DEF KeepsSocket, SocketInv, ClientInv
  <2>2. ASSUME NEW k \in Conns, OpensSocket(c, k)
        PROVE  \A j \in Conns : SocketInv(j)'
    BY <1>1, <1>2, <2>2 DEF OpensSocket, SocketInv, NetTypeOK
  <2>3. ASSUME NEW k \in Conns, NEW l \in {"clientGone", "free"}, LeavesSocket(c, k, l)
        PROVE  \A j \in Conns : SocketInv(j)'
    BY <1>1, <1>2, <2>3 DEF LeavesSocket, SocketInv, NetTypeOK
  <2>4. QED BY <1>2, <2>1, <2>2, <2>3
<1>4. SubsLinked'
  <2>1. CASE KeepsSocket(c)
    BY <1>1, <1>2, <2>1 DEF KeepsSocket, SubsLinked
  <2>2. ASSUME NEW k \in Conns, OpensSocket(c, k)
        PROVE  SubsLinked'
    BY <1>1, <1>2, <2>2 DEF OpensSocket, SubsLinked, NetTypeOK, IInv, TypeOK, HubTypeOK
  <2>3. ASSUME NEW k \in Conns, NEW l \in {"clientGone", "free"}, LeavesSocket(c, k, l)
        PROVE  SubsLinked'
    BY <1>1, <1>2, <2>3 DEF LeavesSocket, SubsLinked, NetTypeOK, IInv, TypeOK, HubTypeOK
  <2>4. QED BY <1>2, <2>1, <2>2, <2>3
<1>5. OneClient'
  <2>1. CASE KeepsSocket(c)
    BY <1>1, <2>1 DEF KeepsSocket, OneClient
  <2>2. ASSUME NEW k \in Conns, OpensSocket(c, k)
        PROVE  OneClient'
    <3>1. \A d \in Clients : conn[d] # k
      BY <1>1, <2>2 DEF OpensSocket, ClientInv
    <3>2. \A d \in Clients : conn'[d] = IF d = c THEN k ELSE conn[d]
      BY <1>1, <2>2 DEF OpensSocket, ClientTypeOK
    <3>3. QED BY <1>1, <3>1, <3>2 DEF OneClient
  <2>3. ASSUME NEW k \in Conns, NEW l \in {"clientGone", "free"}, LeavesSocket(c, k, l)
        PROVE  OneClient'
    <3>1. \A d \in Clients : conn'[d] = IF d = c THEN NoConn ELSE conn[d]
      BY <1>1, <2>3 DEF LeavesSocket, ClientTypeOK
    <3>2. QED BY <1>1, <3>1 DEF OneClient
  <2>4. QED BY <1>2, <2>1, <2>2, <2>3
<1>6. ASSUME NEW d \in Clients, d # c, NEW k \in Conns, k = conn[d], k # NoConn
      PROVE  link'[k] = link[k] /\ c2s'[k] = c2s[k] /\ s2c'[k] = s2c[k]
  <2>1. k # conn[c] /\ link[k] # "free"
    BY <1>1, <1>6 DEF OneClient, ClientInv
  <2>2. QED BY <1>1, <1>2, <1>6, <2>1 DEF KeepsSocket, OpensSocket, LeavesSocket, NetTypeOK
<1>7. ASSUME NEW d \in Clients, d # c
      PROVE  OwnInv(d)'
  <2>1. ClientInv(d)'
    <3>1. conn[d] # NoConn => conn[d] \in Conns /\ link'[conn[d]] = link[conn[d]]
      BY <1>1, <1>6, <1>7 DEF ClientTypeOK
    <3>2. QED BY <1>1, <1>2, <1>7, <3>1 DEF ClientInv
  <2>2. ASSUME Connected(d)'
        PROVE  LineInv(d, conn[d])'
    <3>1. PICK k \in Conns : k = conn[d] /\ k # NoConn
      BY <1>1, <1>2, <1>7, <2>2 DEF Connected, ClientTypeOK
    <3>2. link'[k] = link[k] /\ c2s'[k] = c2s[k] /\ s2c'[k] = s2c[k] /\ conn'[d] = k
      BY <1>2, <1>6, <1>7, <3>1
    <3>3. LineInv(d, k)
      BY <2>2, <3>1, <3>2 DEF FlowInv, Connected
    <3>4. /\ Answers(k)' = Answers(k) /\ \A t \in Topics : Patches(k, t)' = Patches(k, t)
          /\ Asks(k)' = Asks(k)
      BY <1>2, <3>2, NothingRead DEF Asks
    <3>5. OrderInv(d, k)'
      BY <1>2, <1>7, <3>2, <3>3, <3>4, OrderKeeps DEF LineInv, OrderInv
    <3>6. ASSUME NEW t \in Topics
          PROVE  EntryInv(d, t, k)'
      BY <1>2, <1>7, <3>3, <3>4, EntryKeeps DEF LineInv
    <3>7. QED BY <3>2, <3>5, <3>6 DEF LineInv
  <2>3. QED BY <2>1, <2>2 DEF OwnInv
<1>8. \A d \in Clients : OwnInv(d)'
  BY <1>7, ClientOwn
<1>9. QED BY <1>3, <1>4, <1>5, <1>8 DEF FlowInv, OwnInv
-----------------------------------------------------------------------------
(* The steps of the server *)

\* The server leaves the clients alone; what is left to show of a step of its own
\* is what it does to the sockets and to the lines of the clients on them.
LEMMA ServerFlow ==
    ASSUME IInv, FlowInv, UNCHANGED clientVars,
           \A k \in Conns : SocketInv(k)', SubsLinked',
           \A k \in Conns : \/ link'[k] = link[k]
                            \/ link[k] = "up" /\ link'[k] = "serverGone"
                            \/ link[k] = "clientGone" /\ link'[k] = "free",
           \A c \in Clients, k \in Conns :
              conn[c] = k /\ link[k] = "up" /\ link'[k] = "up" /\ LineInv(c, k) => LineInv(c, k)'
    PROVE  FlowInv'
<1>1. ClientTypeOK /\ OneClient /\ \A c \in Clients : ClientInv(c)
  BY DEF IInv, TypeOK, FlowInv
<1>2. OneClient'
  BY <1>1 DEF OneClient, clientVars
<1>3. ASSUME NEW c \in Clients
      PROVE  ClientInv(c)'
  BY <1>1 DEF ClientInv, ClientTypeOK, clientVars
<1>4. ASSUME NEW c \in Clients, Connected(c)'
      PROVE  LineInv(c, conn[c])'
  <2>1. PICK k \in Conns : k = conn[c]
    BY <1>1, <1>4 DEF Connected, ClientTypeOK, clientVars
  <2>2. link'[k] = "up" /\ conn' = conn /\ k # NoConn
    BY <1>4, <2>1 DEF Connected, clientVars
  <2>3. link[k] = "up"
    BY <2>2
  <2>4. LineInv(c, k)
    BY <2>1, <2>2, <2>3 DEF FlowInv, Connected
  <2>5. LineInv(c, k)'
    BY <2>1, <2>2, <2>3, <2>4
  <2>6. QED BY <2>1, <2>2, <2>5
<1>5. QED BY <1>2, <1>3, <1>4 DEF FlowInv

\* A line on which nothing new appears keeps what it promised.
LEMMA LineKeeps ==
    ASSUME NEW c \in Clients, NEW k \in Conns, LineInv(c, k), UNCHANGED clientVars,
           Increasing(c2s'[k]), Asks(k)' \subseteq Asks(k), Answers(k)' \subseteq Answers(k),
           \A t \in Topics : /\ Patches(k, t)' \subseteq Patches(k, t)
                             /\ lastRev'[t] = lastRev[t]
                             /\ k \in subs'[t] => k \in subs[t] /\ truth'[t] = truth[t]
    PROVE  LineInv(c, k)'
<1>1. entry' = entry /\ nextId' = nextId
  BY DEF clientVars
<1>2. OrderInv(c, k)'
  BY <1>1, OrderKeeps DEF LineInv
<1>3. \A t \in Topics : EntryInv(c, t, k)'
  BY <1>1, EntryKeeps DEF LineInv
<1>4. QED BY <1>2, <1>3 DEF LineInv

\* The revs in flight are numbers.
LEMMA WaitingType ==
    ASSUME IInv, NEW c \in Clients, NEW t \in Topics, NEW k \in Conns
    PROVE  /\ Waiting(c, t, k) \subseteq Patch
           /\ \A p \in Waiting(c, t, k) : p.rev \in Nat
<1>1. /\ s2c[k] \in Seq(Answer \cup Patch) /\ entry[c][t].buffer \in Seq(Patch)
  BY SMTT(30) DEF IInv, TypeOK, NetTypeOK, ClientTypeOK, Entry
<1>2. Elems(s2c[k]) \subseteq Answer \cup Patch /\ Elems(entry[c][t].buffer) \subseteq Patch
  BY <1>1, QueueElems
<1>3. Waiting(c, t, k) \subseteq Patch
  BY <1>2, Kinds DEF Waiting, Patches
<1>4. QED BY <1>3 DEF Patch, Revs

LEMMA ServerReadsEffect ==
    ASSUME IInv, NEW k \in Conns, NEW kind, ServerReads(k, kind), Increasing(c2s[k])
    PROVE  /\ Increasing(c2s'[k]) /\ Asks(k)' \subseteq Asks(k)
           /\ Head(c2s[k]) \in Elems(c2s[k]) /\ Head(c2s[k]).kind = kind
           /\ kind = "subscribe" => \A a \in Asks(k)' : Head(c2s[k]).id < a.id
<1>1. /\ c2s[k] \in Seq(Call) /\ c2s[k] # <<>> /\ c2s'[k] = Tail(c2s[k]) /\ Head(c2s[k]).kind = kind
  BY DEF ServerReads, IInv, TypeOK, NetTypeOK
<1>2. /\ Increasing(c2s'[k])
      /\ kind = "subscribe" => \A a \in Elems(c2s'[k]) : a.kind = "subscribe" => Head(c2s[k]).id < a.id
  BY <1>1, IncreasingTail
<1>3. Head(c2s[k]) \in Elems(c2s[k]) /\ Elems(c2s'[k]) \subseteq Elems(c2s[k])
  BY <1>1, QueueElems
<1>4. QED BY <1>1, <1>2, <1>3 DEF Asks

LEMMA HandleUnsubscribeFlow ==
    ASSUME IInv, FlowInv, NEW j \in Conns, HandleUnsubscribe(j)
    PROVE  FlowInv'
<1>1. /\ ServerReads(j, "unsubscribe") /\ Unlink(j, Head(c2s[j]).topics)
      /\ UNCHANGED <<reply, link, s2c, clientVars>>
      /\ link[j] \in {"up", "clientGone"} /\ c2s' = [c2s EXCEPT ![j] = Tail(@)]
  BY DEF HandleUnsubscribe, ServerReads
<1>2. NetTypeOK /\ SubsLinked /\ \A k \in Conns : SocketInv(k)
  BY DEF IInv, TypeOK, FlowInv
<1>3. \A t \in Topics : subs'[t] \subseteq subs[t] /\ truth' = truth /\ lastRev' = lastRev
  BY <1>1 DEF Unlink
<1>4. \A k \in Conns : k # j => c2s'[k] = c2s[k]
  BY <1>1, <1>2 DEF NetTypeOK
<1>5. SubsLinked'
  BY <1>1, <1>2, <1>3 DEF SubsLinked
<1>6. \A k \in Conns : SocketInv(k)'
  BY <1>1, <1>2, <1>4 DEF SocketInv
<1>7. ASSUME NEW c \in Clients, NEW k \in Conns, LineInv(c, k)
      PROVE  LineInv(c, k)'
  <2>1. Answers(k)' = Answers(k) /\ \A t \in Topics : Patches(k, t)' = Patches(k, t)
    BY <1>1, NothingRead
  <2>2. Increasing(c2s[k])
    BY <1>7 DEF LineInv, OrderInv
  <2>3. Increasing(c2s'[k]) /\ Asks(k)' \subseteq Asks(k)
    <3>1. CASE k = j
      BY <1>1, <2>2, <3>1, ServerReadsEffect
    <3>2. CASE k # j
      BY <1>4, <2>2, <3>2 DEF Asks
    <3>3. QED BY <3>1, <3>2
  <2>4. QED BY <1>1, <1>3, <1>7, <2>1, <2>3, LineKeeps
<1>8. QED BY <1>1, <1>5, <1>6, <1>7, ServerFlow

\* The hub answers a subscribe.  On the caller's line the answer follows every
\* earlier one, and its snapshot of a topic holds all patches sent before it;
\* a topic whose contents are made anew has no other subscriber.
LEMMA HandleSubscribeFlow ==
    ASSUME IInv, FlowInv, NEW j \in Conns, HandleSubscribe(j)
    PROVE  FlowInv'
<1> DEFINE T == Head(c2s[j]).topics
           id == Head(c2s[j]).id
           First == {t \in T : subs[t] = {}}
           Kept == First \cap Persistent
<1>1. /\ ServerReads(j, "subscribe") /\ UNCHANGED <<link, s2c, clientVars>>
      /\ link[j] \in {"up", "clientGone"} /\ c2s' = [c2s EXCEPT ![j] = Tail(@)]
      /\ lastRev' = lastRev
  BY DEF HandleSubscribe, ServerReads, hubVars
<1>2. NetTypeOK /\ SubsLinked /\ \A k \in Conns : SocketInv(k)
  BY DEF IInv, TypeOK, FlowInv
<1>3. PICK U \in SUBSET Topics, h \in Nat : U = T /\ h = id
  BY <1>1, <1>2, CallType
<1>4. /\ reply'.conn = j /\ reply'.msg.id = h
      /\ \A t \in Topics : /\ subs'[t] \subseteq subs[t] \cup {j}
                           /\ t \notin U => subs'[t] = subs[t] /\ truth'[t] = truth[t]
                           /\ subs[t] # {} => truth'[t] = truth[t]
      /\ \A t \in Topics : reply'.msg.kind = "result" /\ t \in DOMAIN reply'.msg.snaps =>
            t \in U /\ subs'[t] # {} /\ reply'.msg.snaps[t] = store'[t][current'[t]]
  <2>1. CASE reply' = [conn |-> j, msg |-> ErrorMsg(id)] /\ UNCHANGED hubVars
    BY <1>3, <2>1 DEF ErrorMsg, hubVars
  <2>2. CASE ~(reply' = [conn |-> j, msg |-> ErrorMsg(id)] /\ UNCHANGED hubVars)
    <3>1. PICK which \in [First -> StoreIds], initial \in [First -> InitialData] :
            /\ subs' = [t \in Topics |-> IF t \in T THEN subs[t] \cup {j} ELSE subs[t]]
            /\ truth' = [t \in Topics |-> IF t \in First \ Kept
                  THEN [truth[t] EXCEPT ![lastRev[t]] = initial[t]] ELSE truth[t]]
      BY <2>2 DEF HandleSubscribe
    <3>2. reply' = [conn |-> j, msg |-> ResultMsg(id, [t \in T |-> store'[t][current'[t]]])]
      BY <2>2 DEF HandleSubscribe
    <3>3. /\ reply'.conn = j /\ reply'.msg.id = h /\ DOMAIN reply'.msg.snaps = U
          /\ \A t \in U : reply'.msg.snaps[t] = store'[t][current'[t]]
      BY <1>3, <3>2 DEF ResultMsg
    <3>4. ASSUME NEW t \in Topics
          PROVE  /\ subs'[t] \subseteq subs[t] \cup {j}
                 /\ t \in U => subs'[t] # {}
                 /\ t \notin U => subs'[t] = subs[t] /\ truth'[t] = truth[t]
                 /\ subs[t] # {} => truth'[t] = truth[t]
      BY <1>3, <3>1
    <3>5. QED BY <3>3, <3>4
  <2>3. QED BY <2>1, <2>2
<1>5. \A k \in Conns : k # j => c2s'[k] = c2s[k]
  BY <1>1, <1>2 DEF NetTypeOK
<1>6. SubsLinked'
  BY <1>1, <1>2, <1>4 DEF SubsLinked
<1>7. \A k \in Conns : SocketInv(k)'
  BY <1>1, <1>2, <1>4, <1>5 DEF SocketInv
<1>8. IInv' /\ \A t \in Topics : subs'[t] # {} => Leads(t, current[t])'
  <2>1. Next
    BY DEF Next, ServerNext
  <2>2. IInv'
    BY <2>1, StepInv
  <2>3. QED BY <2>2 DEF IInv, HubInv, CurrentStoreLeads
<1>9. ASSUME NEW c \in Clients, NEW k \in Conns, LineInv(c, k), k # j
      PROVE  LineInv(c, k)'
  <2>1. Increasing(c2s'[k]) /\ Asks(k)' = Asks(k)
    BY <1>5, <1>9 DEF LineInv, OrderInv, Asks
  <2>2. Answers(k)' \subseteq Answers(k) /\ \A t \in Topics : Patches(k, t)' = Patches(k, t)
    BY <1>1, <1>4, <1>9 DEF Answers, Patches
  <2>3. \A t \in Topics : k \in subs'[t] => k \in subs[t] /\ truth'[t] = truth[t]
    BY <1>4, <1>9
  <2>4. QED BY <1>1, <1>9, <2>1, <2>2, <2>3, LineKeeps
<1>10. ASSUME NEW c \in Clients, LineInv(c, j)
       PROVE  LineInv(c, j)'
  <2>1. entry' = entry /\ nextId' = nextId
    BY <1>1 DEF clientVars
  <2>2. PICK a \in Asks(j) : a = Head(c2s[j])
    BY <1>1, <1>10, ServerReadsEffect DEF LineInv, OrderInv, Asks
  <2>3. /\ Increasing(c2s'[j]) /\ Asks(j)' \subseteq Asks(j) /\ \A b \in Asks(j)' : h < b.id
        /\ a.id = h /\ a.topics = U
    BY <1>1, <1>3, <1>10, <2>2, ServerReadsEffect DEF LineInv, OrderInv
  <2>4. Answers(j)' \subseteq Answers(j) \cup {reply'.msg} /\ \A t \in Topics : Patches(j, t)' = Patches(j, t)
    BY <1>1 DEF Answers, Patches
  <2>5. h < nextId[c] /\ \A m \in Answers(j) : m.id < h
    BY <1>10, <2>2, <2>3 DEF LineInv, OrderInv
  <2>6. OrderInv(c, j)'
    BY <1>4, <1>10, <2>1, <2>3, <2>4, <2>5 DEF LineInv, OrderInv
  <2>7. ASSUME NEW t \in Topics
        PROVE  EntryInv(c, t, j)'
    <3>1. EntryInv(c, t, j) /\ Waiting(c, t, j)' = Waiting(c, t, j)
      BY <1>10, <2>1, <2>4 DEF LineInv, Waiting
    <3>2. NoneAhead(c, t, j)'
      BY <1>1, <3>1 DEF EntryInv, NoneAhead
    <3>3. LastAsked(c, t, j)'
      BY <2>1, <2>3, <3>1 DEF EntryInv, LastAsked
    <3>4. CASE t \notin U
      <4>1. subs'[t] = subs[t] /\ truth'[t] = truth[t]
        BY <1>4, <3>4
      <4>2. HeldGenuine(c, t, j)'
        BY <1>1, <2>1, <3>1, <4>1 DEF EntryInv, HeldGenuine, Genuine
      <4>3. SnapsGenuine(c, t, j)'
        <5>1. ASSUME NEW m \in Answers(j)', AnswerFor(m, c, t)'
              PROVE  m \in Answers(j) /\ AnswerFor(m, c, t)
          BY <1>4, <2>1, <2>4, <3>4, <5>1 DEF AnswerFor
        <5>2. QED BY <1>1, <2>1, <3>1, <4>1, <5>1 DEF EntryInv, SnapsGenuine, Genuine
      <4>4. QED BY <3>2, <3>3, <4>2, <4>3 DEF EntryInv
    <3>5. CASE t \in U
      <4>1. ~Settles(entry[c][t]) /\ (entry[c][t].inflight # 0 => h <= entry[c][t].inflight)
        BY <2>2, <2>3, <3>1, <3>5 DEF EntryInv, LastAsked
      <4>2. HeldGenuine(c, t, j)'
        BY <2>1, <4>1 DEF HeldGenuine
      <4>3. SnapsGenuine(c, t, j)'
        <5>1. SUFFICES ASSUME NEW m \in Answers(j)', AnswerFor(m, c, t)', entry'[c][t].inflight # 0
                       PROVE  Genuine(t, m.snaps[t], Waiting(c, t, j))'
          BY DEF SnapsGenuine
        <5>2. m = reply'.msg
          <6>1. CASE m \in Answers(j)
            <7>1. m.id < h /\ h <= entry[c][t].inflight /\ m.id = entry[c][t].inflight
              BY <2>1, <2>5, <4>1, <5>1, <6>1 DEF AnswerFor
            <7>2. h \in Nat /\ entry[c][t].inflight \in Nat
              BY DEF IInv, TypeOK, ClientTypeOK, Entry
            <7>3. QED BY <7>1, <7>2
          <6>2. QED BY <2>4, <6>1
        <5>3. subs'[t] # {} /\ m.snaps[t] = store'[t][current'[t]]
          BY <1>4, <5>1, <5>2 DEF AnswerFor
        <5>4. m.snaps[t].rev = lastRev[t] /\ m.snaps[t].data = truth'[t][lastRev[t]]
          BY <1>1, <1>8, <5>3 DEF Leads
        <5>5. lastRev[t] \in Nat
          BY DEF IInv, TypeOK, HubTypeOK, Revs
        <5>6. \A p \in Waiting(c, t, j)' : p.rev \in Nat /\ p.rev <= lastRev[t]
          BY <3>1, WaitingType DEF EntryInv, NoneAhead
        <5>7. QED BY <1>1, <5>4, <5>5, <5>6 DEF Genuine
      <4>4. QED BY <3>2, <3>3, <4>2, <4>3 DEF EntryInv
    <3>6. QED BY <3>4, <3>5
  <2>8. QED BY <2>6, <2>7 DEF LineInv
<1>11. \A c \in Clients, k \in Conns : LineInv(c, k) => LineInv(c, k)'
  BY <1>9, <1>10
<1>12. QED BY <1>1, <1>6, <1>7, <1>11, ServerFlow
\* The answer moves from the handler to the socket.
LEMMA SendReplyFlow ==
    ASSUME IInv, FlowInv, SendReply
    PROVE  FlowInv'
<1>1. /\ UNCHANGED <<lastRev, truth, subs, link, c2s, clientVars>>
      /\ s2c' = Deliver(s2c, reply.conn, reply.msg) /\ reply' = NoReply
  BY DEF SendReply, hubVars
<1>2. NetTypeOK /\ SubsLinked /\ \A k \in Conns : SocketInv(k)
  BY DEF IInv, TypeOK, FlowInv
<1>3. \A k \in Conns : reply'.conn # k
  BY <1>1 DEF NoReply
<1>4. \A k \in Conns : \/ s2c'[k] = s2c[k]
                       \/ k = reply.conn /\ link[k] = "up" /\ s2c'[k] = Append(s2c[k], reply.msg)
  BY <1>1, <1>2 DEF Deliver, NetTypeOK
<1>5. SubsLinked'
  BY <1>1, <1>2 DEF SubsLinked
<1>6. \A k \in Conns : SocketInv(k)'
  BY <1>1, <1>2, <1>3, <1>4 DEF SocketInv
<1>7. ASSUME NEW c \in Clients, NEW k \in Conns, LineInv(c, k)
      PROVE  LineInv(c, k)'
  <2>1. Answers(k)' \subseteq Answers(k) /\ \A t \in Topics : Patches(k, t)' \subseteq Patches(k, t)
    <3>1. CASE s2c'[k] = s2c[k]
      BY <1>3, <3>1 DEF Answers, Patches
    <3>2. CASE k = reply.conn /\ s2c'[k] = Append(s2c[k], reply.msg)
      <4>1. s2c[k] \in Seq(Answer \cup Patch) /\ reply.msg \in Answer
        BY <1>2 DEF NetTypeOK
      <4>2. Elems(s2c'[k]) = Elems(s2c[k]) \cup {reply.msg}
        BY <3>2, <4>1, QueueElems
      <4>3. reply.msg.kind # "patch"
        BY <4>1 DEF Answer, Result, Failure
      <4>4. QED BY <1>3, <3>2, <4>2, <4>3 DEF Answers, Patches
    <3>3. QED BY <1>4, <3>1, <3>2
  <2>2. Increasing(c2s'[k]) /\ Asks(k)' = Asks(k)
    BY <1>1, <1>7 DEF LineInv, OrderInv, Asks
  <2>3. QED BY <1>1, <1>7, <2>1, <2>2, LineKeeps
<1>8. QED BY <1>1, <1>5, <1>6, <1>7, ServerFlow

\* The next rev of a topic goes out: whoever gets its patch gets the step from the
\* contents before it to those after it.
LEMMA EntryPublishes ==
    ASSUME IInv, NEW c \in Clients, NEW t \in Topics, NEW k \in Conns, EntryInv(c, t, k),
           NEW rev \in Revs, NEW after, NEW p \in Patch, rev > lastRev[t], p.rev = rev,
           k \in subs[t] => rev = lastRev[t] + 1 /\ p.ops[truth[t][lastRev[t]]] = after,
           lastRev'[t] = rev, truth'[t] = [truth[t] EXCEPT ![rev] = after], subs' = subs,
           entry' = entry, nextId' = nextId, Asks(k)' = Asks(k), Answers(k)' = Answers(k),
           Patches(k, t)' \subseteq Patches(k, t) \cup {p}
    PROVE  EntryInv(c, t, k)'
<1>1. /\ lastRev[t] \in Nat /\ rev \in Nat /\ truth[t] \in [Revs -> Data]
      /\ \A r \in Revs : r <= lastRev[t] => truth'[t][r] = truth[t][r]
      /\ truth'[t][rev] = after
  BY DEF IInv, TypeOK, HubTypeOK, Revs
<1>2. Waiting(c, t, k)' \subseteq Waiting(c, t, k) \cup {p}
  BY DEF Waiting
<1>3. \A q \in Waiting(c, t, k) : q.rev \in Revs /\ q.rev <= lastRev[t]
  BY WaitingType DEF EntryInv, NoneAhead, Patch
<1>4. NoneAhead(c, t, k)'
  BY <1>1, <1>2, <1>3 DEF NoneAhead, Revs
<1>5. LastAsked(c, t, k)'
  BY DEF EntryInv, LastAsked
<1>6. ASSUME NEW x, x.rev \in Revs, k \in subs[t], Genuine(t, x, Waiting(c, t, k))
      PROVE  /\ x.rev <= rev /\ x.data = truth'[t][x.rev]
             /\ \A q \in Waiting(c, t, k)' : q.rev > x.rev => q.ops[truth'[t][q.rev - 1]] = truth'[t][q.rev]
  <2>1. x.rev <= lastRev[t] /\ x.rev \in Nat
    BY <1>6 DEF Genuine, Revs
  <2>2. x.rev <= rev /\ x.data = truth'[t][x.rev]
    BY <1>1, <1>6, <2>1 DEF Genuine
  <2>3. ASSUME NEW q \in Waiting(c, t, k), q.rev > x.rev
        PROVE  q.ops[truth'[t][q.rev - 1]] = truth'[t][q.rev]
    <3>1. q.rev \in Revs /\ q.rev <= lastRev[t] /\ q.rev - 1 \in Revs /\ q.rev - 1 <= lastRev[t]
      BY <1>1, <1>3, <2>1, <2>3, SMTT(30) DEF Revs
    <3>2. QED BY <1>1, <1>6, <2>3, <3>1 DEF Genuine
  <2>4. p.ops[truth'[t][p.rev - 1]] = truth'[t][p.rev]
    <3>1. p.rev - 1 = lastRev[t] /\ lastRev[t] \in Revs
      BY <1>1, <1>6, SMTT(30) DEF Revs
    <3>2. QED BY <1>1, <1>6, <3>1
  <2>5. QED BY <1>2, <2>2, <2>3, <2>4
<1>7. HeldGenuine(c, t, k)'
  <2>1. entry[c][t].rev \in Revs
    BY DEF IInv, TypeOK, ClientTypeOK, Entry
  <2>2. QED BY <1>6, <2>1 DEF EntryInv, HeldGenuine, Genuine
<1>8. SnapsGenuine(c, t, k)'
  <2>1. ASSUME NEW m \in Answers(k), AnswerFor(m, c, t)
        PROVE  m.snaps[t].rev \in Revs
    <3>1. s2c[k] \in Seq(Answer \cup Patch) /\ reply.msg \in Answer
      BY DEF IInv, TypeOK, NetTypeOK
    <3>2. m \in Answer
      BY <3>1, QueueElems DEF Answers, Answer, Patch
    <3>3. m \in Result
      BY <2>1, <3>2 DEF AnswerFor, Answer, Failure
    <3>4. m.snaps[t] \in Snapshot
      BY <2>1, <3>3 DEF AnswerFor, Result
    <3>5. QED BY <3>4 DEF Snapshot
  <2>2. SUFFICES ASSUME NEW m \in Answers(k), AnswerFor(m, c, t), entry[c][t].inflight # 0, k \in subs[t]
                 PROVE  Genuine(t, m.snaps[t], Waiting(c, t, k))'
    BY DEF SnapsGenuine, AnswerFor
  <2>3. Genuine(t, m.snaps[t], Waiting(c, t, k))
    BY <2>2 DEF EntryInv, SnapsGenuine
  <2>4. QED BY <1>6, <2>1, <2>2, <2>3 DEF Genuine
<1>9. QED BY <1>4, <1>5, <1>7, <1>8 DEF EntryInv

\* A patch that the hub accepts, whoever loses its frame.
LEMMA BroadcastFlow ==
    ASSUME IInv, FlowInv, NEW t \in Topics, NEW rev \in Revs, NEW after, NEW o \in [Data -> Data \cup {Drift}],
           NEW dropped, rev > lastRev[t],
           subs[t] # {} => rev = lastRev[t] + 1 /\ o[truth[t][lastRev[t]]] = after,
           lastRev' = [lastRev EXCEPT ![t] = rev], truth' = [truth EXCEPT ![t][rev] = after],
           Broadcast(t, PatchMsg(t, rev, o), dropped),
           UNCHANGED <<subs, reply, link, c2s, clientVars>>
    PROVE  FlowInv'
<1> DEFINE p == PatchMsg(t, rev, o)
<1>1. p \in Patch /\ p.rev = rev /\ p.ops = o /\ p.kind = "patch" /\ p.topic = t
  BY MessageTypes DEF PatchMsg
<1> HIDE DEF p
<1>2. NetTypeOK /\ HubTypeOK /\ SubsLinked /\ \A k \in Conns : SocketInv(k)
  BY DEF IInv, TypeOK, FlowInv
<1>3. \A k \in Conns : s2c'[k] = s2c[k] \/ (k \in subs[t] /\ link[k] = "up" /\ s2c'[k] = Append(s2c[k], p))
  BY DEF Broadcast, p
<1>4. SubsLinked'
  BY <1>2 DEF SubsLinked
<1>5. \A k \in Conns : SocketInv(k)'
  BY <1>2, <1>3 DEF SocketInv
<1>6. /\ lastRev'[t] = rev /\ truth'[t] = [truth[t] EXCEPT ![rev] = after]
      /\ \A u \in Topics : u # t => lastRev'[u] = lastRev[u] /\ truth'[u] = truth[u]
  BY <1>2 DEF HubTypeOK
<1>7. ASSUME NEW c \in Clients, NEW k \in Conns, LineInv(c, k)
      PROVE  LineInv(c, k)'
  <2>1. entry' = entry /\ nextId' = nextId /\ subs' = subs
    BY DEF clientVars
  <2>2. Elems(s2c'[k]) = Elems(s2c[k]) \/ Elems(s2c'[k]) = Elems(s2c[k]) \cup {p}
    <3>1. s2c[k] \in Seq(Answer \cup Patch)
      BY <1>2 DEF NetTypeOK
    <3>2. Elems(Append(s2c[k], p)) = Elems(s2c[k]) \cup {p}
      <4>1. p \in Answer \cup Patch
        BY <1>1
      <4>2. QED BY <3>1, <4>1, QueueElems
    <3>3. QED BY <1>3, <3>2
  <2>3. /\ Answers(k)' = Answers(k)
        /\ Patches(k, t)' \subseteq Patches(k, t) \cup {p}
        /\ \A u \in Topics : u # t => Patches(k, u)' = Patches(k, u)
    BY <1>1, <2>2 DEF Answers, Patches
  <2>4. Asks(k)' = Asks(k) /\ Increasing(c2s'[k])
    BY <1>7 DEF Asks, LineInv, OrderInv
  <2>5. OrderInv(c, k)'
    BY <1>7, <2>1, <2>3, <2>4, OrderKeeps DEF LineInv
  <2>6. EntryInv(c, t, k)'
    <3>1. EntryInv(c, t, k)
      BY <1>7 DEF LineInv
    <3>2. Asks(k)' = Asks(k) /\ Answers(k)' = Answers(k) /\ Patches(k, t)' \subseteq Patches(k, t) \cup {p}
      BY <2>3, <2>4
    <3>3. k \in subs[t] => rev = lastRev[t] + 1 /\ p.ops[truth[t][lastRev[t]]] = after
      BY <1>1
    <3>4. /\ IInv /\ c \in Clients /\ t \in Topics /\ k \in Conns /\ rev \in Revs /\ rev > lastRev[t]
      BY <1>7
    <3>5. QED BY ONLY <1>1, <1>6, <2>1, <3>1, <3>2, <3>3, <3>4, EntryPublishes
  <2>7. ASSUME NEW u \in Topics, u # t
        PROVE  EntryInv(c, u, k)'
    BY <1>6, <1>7, <2>1, <2>3, <2>4, <2>7, EntryKeeps DEF LineInv
  <2>8. QED BY <2>5, <2>6, <2>7 DEF LineInv
<1>8. QED BY <1>4, <1>5, <1>7, ServerFlow

\* A step that changes no more of the hub than its stores.
LEMMA NothingSent ==
    ASSUME IInv, FlowInv, UNCHANGED <<subs, lastRev, truth, reply, link, c2s, s2c, clientVars>>
    PROVE  FlowInv'
<1>1. SubsLinked /\ \A k \in Conns : SocketInv(k)
  BY DEF FlowInv
<1>2. SubsLinked' /\ \A k \in Conns : SocketInv(k)'
  BY <1>1 DEF SubsLinked, SocketInv
<1>3. ASSUME NEW c \in Clients, NEW k \in Conns, LineInv(c, k)
      PROVE  LineInv(c, k)'
  <2>1. Answers(k)' = Answers(k) /\ Asks(k)' = Asks(k) /\ \A t \in Topics : Patches(k, t)' = Patches(k, t)
    BY DEF Answers, Asks, Patches
  <2>2. Increasing(c2s'[k])
    BY <1>3 DEF LineInv, OrderInv
  <2>3. QED BY <1>3, <2>1, <2>2, LineKeeps
<1>4. QED BY <1>2, <1>3, ServerFlow

LEMMA PublishFlow ==
    ASSUME IInv, FlowInv, NEW t \in Topics, NEW s \in StoreIds, NEW o \in Ops, NEW dropped \in SUBSET Conns,
           Publish(t, s, o, dropped)
    PROVE  FlowInv'
<1> DEFINE before == store[t][s]
           after == o[before.data]
           rev == before.rev + 1
<1>1. /\ rev <= MaxRev /\ UNCHANGED <<subs, reply, link, c2s, clientVars>>
  BY DEF Publish
<1>2. HubTypeOK /\ HubInv
  BY DEF IInv, TypeOK
<1>3. rev \in Revs /\ o \in [Data -> Data \cup {Drift}] /\ lastRev[t] \in Nat
  BY <1>1, <1>2 DEF HubTypeOK, Snapshot, Revs
<1>4. CASE UNCHANGED <<lastRev, truth, s2c, lost>>
  BY <1>1, <1>4, NothingSent
<1>5. CASE ~Stale(t, s, rev)
  <2>1. /\ lastRev' = [lastRev EXCEPT ![t] = rev]
        /\ truth' = [truth EXCEPT ![t][rev] = after]
        /\ Broadcast(t, PatchMsg(t, rev, o), dropped)
    BY <1>5 DEF Publish
  <2>2. rev > lastRev[t] /\ (subs[t] # {} => current[t] = s /\ current[t] # NoStore)
    BY <1>3, <1>5 DEF Stale, Revs
  <2>3. subs[t] # {} => before.rev = lastRev[t] /\ before.data = truth[t][lastRev[t]]
    BY <1>2, <2>2 DEF HubInv, CurrentStoreLeads, Leads
  <2>4. subs[t] # {} => rev = lastRev[t] + 1 /\ o[truth[t][lastRev[t]]] = after
    BY <2>3
  <2> HIDE DEF rev, after
  <2>5. QED BY <1>1, <1>3, <2>1, <2>2, <2>4, BroadcastFlow
<1>6. QED BY <1>4, <1>5 DEF Publish

LEMMA ReplaceStoreFlow ==
    ASSUME IInv, FlowInv, NEW t \in Topics, NEW s \in StoreIds, NEW d \in InitialData, ReplaceStore(t, s, d)
    PROVE  FlowInv'
<1> DEFINE rev == lastRev[t] + 1
           o == [x \in Data |-> d]
<1>1. /\ rev <= MaxRev
      /\ lastRev' = [lastRev EXCEPT ![t] = rev]
      /\ truth' = [truth EXCEPT ![t][rev] = d]
      /\ Broadcast(t, PatchMsg(t, rev, o), {})
      /\ UNCHANGED <<subs, reply, link, c2s, clientVars>>
  BY DEF ReplaceStore, NextRev
<1>2. /\ rev \in Revs /\ rev > lastRev[t] /\ o \in [Data -> Data \cup {Drift}]
      /\ o[truth[t][lastRev[t]]] = d
  BY <1>1 DEF IInv, TypeOK, HubTypeOK, Revs
<1>3. rev = lastRev[t] + 1
  OBVIOUS
<1> HIDE DEF rev, o
<1>4. QED BY <1>1, <1>2, <1>3, BroadcastFlow

LEMMA SocketClosedFlow ==
    ASSUME IInv, FlowInv, NEW j \in Conns, ServerDropsSocket(j) \/ ServerSeesClose(j)
    PROVE  FlowInv'
<1>1. /\ reply = NoReply /\ UNCHANGED <<reply, s2c, clientVars>>
      /\ c2s' = [c2s EXCEPT ![j] = <<>>] /\ Unlink(j, SubscribedTo(j))
      /\ \/ link[j] = "up" /\ link' = [link EXCEPT ![j] = "serverGone"]
         \/ link[j] = "clientGone" /\ link' = [link EXCEPT ![j] = "free"]
  BY DEF ServerDropsSocket, ServerSeesClose, ClientClosed
<1>2. NetTypeOK /\ SubsLinked /\ \A k \in Conns : SocketInv(k)
  BY DEF IInv, TypeOK, FlowInv
<1>3. \A t \in Topics : /\ subs'[t] = subs[t] \ {j}
                        /\ truth' = truth /\ lastRev' = lastRev
  BY <1>1 DEF Unlink, SubscribedTo
<1>4. \A k \in Conns : k # j => c2s'[k] = c2s[k] /\ link'[k] = link[k]
  BY <1>1, <1>2 DEF NetTypeOK
<1>5. c2s'[j] = <<>> /\ link'[j] \in {"serverGone", "free"} /\ (link'[j] = "free" => link[j] = "clientGone")
  BY <1>1, <1>2 DEF NetTypeOK
<1>6. SubsLinked'
  BY <1>2, <1>3, <1>4 DEF SubsLinked, IInv, TypeOK, HubTypeOK
<1>7. \A k \in Conns : SocketInv(k)'
  <2>1. \A k \in Conns : reply'.conn # k
    BY <1>1 DEF NoReply
  <2>2. QED BY <1>1, <1>2, <1>4, <1>5, <2>1 DEF SocketInv
<1>8. ASSUME NEW c \in Clients, NEW k \in Conns, LineInv(c, k), link'[k] = "up"
      PROVE  LineInv(c, k)'
  <2>1. c2s'[k] = c2s[k]
    BY <1>4, <1>5, <1>8
  <2>2. Answers(k)' = Answers(k) /\ Asks(k)' = Asks(k) /\ \A t \in Topics : Patches(k, t)' = Patches(k, t)
    BY <1>1, <2>1 DEF Answers, Asks, Patches
  <2>3. Increasing(c2s'[k])
    BY <1>8, <2>1 DEF LineInv, OrderInv
  <2>4. QED BY <1>1, <1>3, <1>8, <2>2, <2>3, LineKeeps
<1>9. \A k \in Conns : \/ link'[k] = link[k]
                       \/ link[k] = "up" /\ link'[k] = "serverGone"
                       \/ link[k] = "clientGone" /\ link'[k] = "free"
  BY <1>1, <1>2 DEF NetTypeOK
<1>10. QED BY <1>1, <1>6, <1>7, <1>8, <1>9, ServerFlow

LEMMA CrashFlow ==
    ASSUME IInv, FlowInv, Crash
    PROVE  FlowInv'
<1>1. NetTypeOK /\ \A k \in Conns : SocketInv(k)
  BY DEF IInv, TypeOK, FlowInv
<1>2. \A k \in Conns : /\ link[k] = "up" => link'[k] = "serverGone"
                       /\ link[k] = "clientGone" => link'[k] = "free"
                       /\ link[k] \notin {"up", "clientGone"} => link'[k] = link[k]
  BY DEF Crash
<1>3. /\ \A k \in Conns : c2s'[k] = <<>> /\ reply'.conn # k
      /\ s2c' = s2c /\ UNCHANGED clientVars /\ \A t \in Topics : subs'[t] = {}
  BY DEF Crash, NoReply
<1>4. \A k \in Conns : SocketInv(k)'
  BY <1>1, <1>2, <1>3 DEF SocketInv
<1>5. SubsLinked'
  BY <1>3 DEF SubsLinked
<1>6. \A k \in Conns : link'[k] # "up"
  BY <1>1, <1>2
<1>7. \A k \in Conns : \/ link'[k] = link[k]
                       \/ link[k] = "up" /\ link'[k] = "serverGone"
                       \/ link[k] = "clientGone" /\ link'[k] = "free"
  BY <1>1, <1>2 DEF NetTypeOK
<1>8. QED BY <1>3, <1>4, <1>5, <1>6, <1>7, ServerFlow

\* A server without its providers serves nobody, so new ones disturb nobody.
LEMMA StartFlow ==
    ASSUME IInv, FlowInv, Restart \/ Boot
    PROVE  FlowInv'
<1>1. /\ ~booted /\ UNCHANGED <<subs, lastRev, reply, link, c2s, s2c, clientVars>>
  BY DEF IInv, HubInv, Restart, Boot, netVars
<1>2. \A t \in Topics : subs'[t] = {}
  BY <1>1 DEF IInv, HubInv, ServesNothing
<1>3. SubsLinked' /\ \A k \in Conns : SocketInv(k)'
  BY <1>1, <1>2 DEF FlowInv, SubsLinked, SocketInv
<1>4. ASSUME NEW c \in Clients, NEW k \in Conns, LineInv(c, k)
      PROVE  LineInv(c, k)'
  <2>1. Answers(k)' = Answers(k) /\ Asks(k)' = Asks(k) /\ \A t \in Topics : Patches(k, t)' = Patches(k, t)
    BY <1>1 DEF Answers, Asks, Patches
  <2>2. Increasing(c2s'[k])
    BY <1>1, <1>4 DEF LineInv, OrderInv
  <2>3. QED BY <1>1, <1>2, <1>4, <2>1, <2>2, LineKeeps
<1>5. QED BY <1>1, <1>3, <1>4, ServerFlow

LEMMA ServerStepFlow ==
    ASSUME IInv, FlowInv, ServerNext
    PROVE  FlowInv'
<1>1. ASSUME NEW k \in Conns,
             HandleSubscribe(k) \/ HandleUnsubscribe(k) \/ ServerDropsSocket(k) \/ ServerSeesClose(k)
      PROVE  FlowInv'
  BY <1>1, HandleSubscribeFlow, HandleUnsubscribeFlow, SocketClosedFlow
<1>2. ASSUME NEW t \in Topics, NEW s \in StoreIds, NEW o \in Ops, NEW dropped \in SUBSET Conns,
             Publish(t, s, o, dropped)
      PROVE  FlowInv'
  BY <1>2, PublishFlow
<1>3. ASSUME NEW t \in Topics, NEW s \in StoreIds, NEW d \in InitialData, ReplaceStore(t, s, d)
      PROVE  FlowInv'
  BY <1>3, ReplaceStoreFlow
<1>4. CASE SendReply \/ Crash \/ Restart \/ Boot
  BY <1>4, SendReplyFlow, CrashFlow, StartFlow
<1>5. QED BY <1>1, <1>2, <1>3, <1>4 DEF ServerNext
-----------------------------------------------------------------------------
(* The invariant *)

LEMMA InitFlow == Init => FlowInv
<1> SUFFICES ASSUME Init PROVE FlowInv
  OBVIOUS
<1>1. \A k \in Conns : link[k] = "free" /\ c2s[k] = <<>> /\ s2c[k] = <<>> /\ reply.conn # k
  BY DEF Init, NoReply
<1>2. \A c \in Clients : conn[c] = NoConn /\ \A t \in Topics : entry[c][t] = NoEntry
  BY DEF Init
<1>3. NoEntry.inflight = 0 /\ NoEntry.buffer = <<>> /\ NoEntry.status = "absent"
  BY DEF NoEntry
<1>4. \A t \in Topics : subs[t] = {}
  BY DEF Init
<1>5. \A k \in Conns : SocketInv(k)
  BY <1>1 DEF SocketInv
<1>6. \A c \in Clients : ClientInv(c) /\ ~Connected(c)
  BY <1>2, <1>3 DEF ClientInv, Connected
<1>7. OneClient /\ SubsLinked
  BY <1>2, <1>4 DEF OneClient, SubsLinked
<1>8. QED BY <1>5, <1>6, <1>7 DEF FlowInv

LEMMA StepFlow == IInv /\ FlowInv /\ [Next]_vars => FlowInv'
<1> SUFFICES ASSUME IInv, FlowInv, [Next]_vars PROVE FlowInv'
  OBVIOUS
<1>1. CASE ServerNext
  BY <1>1, ServerStepFlow
<1>2. ASSUME NEW c \in Clients, ClientNext(c)
      PROVE  FlowInv'
  BY <1>2, ClientFlow
<1>3. CASE UNCHANGED vars
  BY <1>3, NothingSent DEF vars, serverVars, hubVars, netVars
<1>4. QED BY <1>1, <1>2, <1>3 DEF Next

-----------------------------------------------------------------------------
(* What a client shows *)

LEMMA FollowingGenuine ==
    ASSUME IInv, FlowInv, NEW c \in Clients, NEW t \in Topics, Following(c, t)
    PROVE  /\ entry[c][t].rev \in 0 .. lastRev[t]
           /\ entry[c][t].data = truth[t][entry[c][t].rev]
<1>1. PICK k \in Conns : k = conn[c]
  BY DEF Following, IInv, TypeOK, ClientTypeOK
<1>2. k \in subs[t] /\ Settles(entry[c][t]) /\ k # NoConn
  BY <1>1 DEF Following, Settles
<1>3. link[k] = "up"
  BY <1>1, <1>2 DEF FlowInv, ClientInv, SubsLinked
<1>4. EntryInv(c, t, k)
  BY <1>1, <1>2, <1>3 DEF FlowInv, Connected, LineInv
<1>5. Genuine(t, entry[c][t], Waiting(c, t, k))
  BY <1>2, <1>4 DEF EntryInv, HeldGenuine
<1>6. entry[c][t].rev \in Nat /\ lastRev[t] \in Nat
  BY DEF IInv, TypeOK, ClientTypeOK, HubTypeOK, Entry, Revs
<1>7. QED BY <1>5, <1>6 DEF Genuine

\* A call of subscribeBatch leaves an entry alone or has it wait for the call.
LEMMA BatchesWait ==
    ASSUME ClientTypeOK, NEW c \in Clients, NEW es, NEW cs, NEW groups, NEW was, Len(groups) \in Nat,
           SubscribeBatches(c, es, cs, groups, was), NEW t \in Topics, es[t] \in Entry
    PROVE  entry'[c][t] = es[t] \/ entry'[c][t].inflight # 0
<1> DEFINE ids == nextId[c] .. nextId[c] + Len(groups) - 1
           group(id) == groups[id - nextId[c] + 1]
           chosen == CHOOSE id \in ids : t \in group(id)
<1>1. entry'[c][t] = IF \E id \in ids : t \in group(id) THEN Begin(es[t], chosen) ELSE es[t]
  BY DEF SubscribeBatches, ClientTypeOK
<1>2. \A id \in ids : id \in Nat /\ id # 0
  BY DEF ClientTypeOK
<1>3. CASE \E id \in ids : t \in group(id)
  <2>1. chosen \in ids
    <3> HIDE DEF ids, group
    <3>1. QED BY <1>3
  <2> HIDE DEF chosen, ids
  <2>2. Begin(es[t], chosen).inflight = chosen
    BY <1>2, <2>1, BeginParts
  <2>3. QED BY <1>1, <1>2, <1>3, <2>1, <2>2
<1>4. QED BY <1>1, <1>3

\* A client that shows a topic before and after its step has not gone back.
LEMMA GoesForward ==
    ASSUME IInv, NEW c \in Clients, NEW t \in Topics, ClientNext(c), Following(c, t), Following(c, t)'
    PROVE  entry'[c][t].rev >= entry[c][t].rev
<1>1. ClientTypeOK /\ NetTypeOK
  BY DEF IInv, TypeOK
<1>2. /\ conn[c] # NoConn /\ conn'[c] # NoConn
      /\ entry[c][t].status = "ready" /\ entry[c][t].inflight = 0 /\ entry'[c][t].inflight = 0
      /\ entry'[c][t].status = "ready"
  BY DEF Following
<1>3. entry[c][t] \in Entry /\ entry[c][t].rev \in Nat /\ entry[c] \in [Topics -> Entry]
  BY <1>1 DEF ClientTypeOK, Entry, Revs
<1>4. ASSUME NEW es, NEW cs, NEW groups, NEW was, Len(groups) \in Nat, SubscribeBatches(c, es, cs, groups, was),
             es[t] = entry[c][t]
      PROVE  entry'[c][t] = entry[c][t]
  BY <1>1, <1>2, <1>3, <1>4, BatchesWait
<1>5. ASSUME NEW es, NEW u \in Topics, Resubscribe(c, es, u), es[t] = entry[c][t]
      PROVE  entry'[c][t] = entry[c][t]
  <2>1. Len(<<{u}>>) \in Nat
    OBVIOUS
  <2>2. QED BY <1>4, <1>5, <2>1 DEF Resubscribe
<1>6. ASSUME NEW T \in SUBSET Topics, Acquire(c, T)
      PROVE  entry'[c][t] = entry[c][t]
  <2> DEFINE es == [u \in Topics |-> IF u \in T /\ entry[c][u].status = "absent" THEN FreshEntry ELSE entry[c][u]]
             added == {u \in T : ~es[u].subscribed}
             groups == <<added>>
  <2>1. es[t] = entry[c][t]
    BY <1>2
  <2>2. SubscribeBatches(c, es, calls[c], groups, {})
    BY <1>2, <1>6 DEF Acquire
  <2>3. Len(groups) \in Nat
    OBVIOUS
  <2> HIDE DEF es, groups
  <2>4. QED BY <1>4, <2>1, <2>2, <2>3
<1>7. ASSUME NEW u \in Topics, Release(c, u)
      PROVE  entry'[c][t] = entry[c][t]
  <2>1. entry' = [entry EXCEPT ![c][u] = NoEntry]
    BY <1>7 DEF Release
  <2>2. u # t
    BY <1>1, <1>2, <2>1 DEF ClientTypeOK, NoEntry
  <2>3. QED BY <1>1, <2>1, <2>2 DEF ClientTypeOK
<1>8. ASSUME NEW u \in Topics, Replay(c, u)
      PROVE  entry'[c][t] = entry[c][t]
  <2>1. u # t
    BY <1>2, <1>8 DEF Replay
  <2>2. \/ \E e : entry' = [entry EXCEPT ![c][u] = e]
        \/ \E e : Resubscribe(c, [entry[c] EXCEPT ![u] = e], u)
    BY <1>8 DEF Replay
  <2>3. ASSUME NEW e, entry' = [entry EXCEPT ![c][u] = e]
        PROVE  entry'[c][t] = entry[c][t]
    BY <1>1, <2>1, <2>3 DEF ClientTypeOK
  <2>4. ASSUME NEW e, Resubscribe(c, [entry[c] EXCEPT ![u] = e], u)
        PROVE  entry'[c][t] = entry[c][t]
    <3>1. [entry[c] EXCEPT ![u] = e][t] = entry[c][t]
      BY <1>3, <2>1
    <3>2. QED BY <1>5, <2>4, <3>1
  <2>5. QED BY <2>2, <2>3, <2>4
<1>9. \A id : t \in PendingCall(c, id).topics => ~Accepts(entry[c][t], id)
  BY <1>1, <1>2 DEF PendingCall, Accepts, ClientTypeOK
<1>10. CASE ReceiveResult(c)
  <2> DEFINE msg == Head(s2c[conn[c]])
             call == PendingCall(c, msg.id)
  <2>1. entry'[c][t] = entry[c][t] \/ (t \in call.topics /\ Accepts(entry[c][t], msg.id))
    BY <1>1, <1>10 DEF ReceiveResult, ClientTypeOK
  <2> HIDE DEF msg
  <2>2. QED BY <1>3, <1>9, <2>1
<1>11. CASE ReceiveError(c)
  <2> DEFINE id == Head(s2c[conn[c]]).id
             call == PendingCall(c, id)
             Retries == \E order \in Orders(call.topics \cap Wanted(c)) :
                           SubscribeBatches(c, entry[c], Settled(c, id), [i \in DOMAIN order |-> {order[i]}], call.was)
             Fails == entry' = [entry EXCEPT ![c] = [u \in Topics |->
                         IF u \in call.topics /\ Accepts(entry[c][u], id) THEN Fail(entry[c][u], u \in call.was)
                                                                        ELSE entry[c][u]]]
  <2>1. Retries \/ Fails
    BY <1>11 DEF ReceiveError
  <2>2. ASSUME Fails
        PROVE  entry'[c][t] = entry[c][t]
    <3>1. entry'[c][t] = entry[c][t] \/ (t \in call.topics /\ Accepts(entry[c][t], id))
      BY <1>1, <2>2 DEF ClientTypeOK
    <3> HIDE DEF id
    <3>2. QED BY <1>9, <3>1
  <2>3. ASSUME Retries
        PROVE  entry'[c][t] = entry[c][t]
    <3>1. PICK order \in Orders(call.topics \cap Wanted(c)) :
             SubscribeBatches(c, entry[c], Settled(c, id), [i \in DOMAIN order |-> {order[i]}], call.was)
      BY <2>3
    <3> DEFINE T == call.topics \cap Wanted(c)
               groups == [i \in DOMAIN order |-> {order[i]}]
    <3>2. T \in SUBSET Topics
      BY DEF Wanted
    <3>3. groups \in Seq(SUBSET Topics)
      BY <3>1, <3>2, SingletonGroups
    <3>4. Len(groups) \in Nat
      <4> HIDE DEF groups
      <4>1. QED BY <3>3
    <3> HIDE DEF groups
    <3>5. SubscribeBatches(c, entry[c], Settled(c, id), groups, call.was)
      BY <3>1 DEF groups
    <3>6. QED BY <1>4, <3>4, <3>5
  <2> HIDE DEF Retries, Fails
  <2>4. QED BY <1>3, <2>1, <2>2, <2>3
<1>12. CASE ReceivePatch(c)
  <2>1. PICK k \in Conns : k = conn[c] /\ s2c[k] # <<>> /\ Head(s2c[k]).kind = "patch"
    BY <1>1, <1>2, <1>12 DEF ReceivePatch, Arrives, ClientTypeOK
  <2>2. PICK p \in Patch : p = Head(s2c[conn[c]])
    <3>1. s2c[k] \in Seq(Answer \cup Patch)
      BY <1>1 DEF NetTypeOK
    <3>2. Head(s2c[k]) \in Answer \cup Patch
      BY <2>1, <3>1, QueueElems
    <3>3. QED BY <2>1, <3>2, Kinds
  <2>3. PICK u \in Topics : u = p.topic
    BY DEF Patch
  <2>4. CASE entry' = entry
    BY <1>3, <2>4
  <2>5. CASE entry[c][u].inflight # 0 /\ \E e : entry' = [entry EXCEPT ![c][u] = e]
    <3>1. u # t
      BY <1>2, <2>5
    <3>2. entry'[c][t] = entry[c][t]
      BY <1>1, <2>5, <3>1 DEF ClientTypeOK
    <3>3. QED BY <1>3, <3>2
  <2>6. CASE Extends(entry[c][u], p) /\ entry' = [entry EXCEPT ![c][u] = Applied(entry[c][u], p)]
    <3>1. CASE u = t
      <4>1. entry'[c][t] = Applied(entry[c][t], p) /\ p.rev = entry[c][t].rev + 1
        BY <1>1, <2>6, <3>1 DEF ClientTypeOK, Extends
      <4>2. entry'[c][t].rev = p.rev
        BY <1>3, <4>1 DEF Applied, Entry
      <4>3. QED BY <1>3, <4>1, <4>2
    <3>2. CASE u # t
      <4>1. entry'[c][t] = entry[c][t]
        BY <1>1, <2>6, <3>2 DEF ClientTypeOK
      <4>2. QED BY <1>3, <4>1
    <3>3. QED BY <3>1, <3>2
  <2>7. CASE Resubscribe(c, entry[c], u)
    <3>1. entry'[c][t] = entry[c][t]
      BY <1>5, <2>7
    <3>2. QED BY <1>3, <3>1
  <2>8. QED BY <1>12, <2>2, <2>3, <2>4, <2>5, <2>6, <2>7 DEF ReceivePatch
<1>13. ~ \E k \in Conns : Connect(c, k)
  BY <1>2 DEF Connect
<1>14. ~Disconnected(c)
  BY <1>1, <1>2 DEF Disconnected, ClientTypeOK
<1>15. QED BY <1>3, <1>6, <1>7, <1>8, <1>10, <1>11, <1>12, <1>13, <1>14
           DEF ClientNext, ClientLosesSocket, ClientSeesClose

\* A client shows no topic without subscribers, and none it is not connected for.
LEMMA NobodyShows ==
    ASSUME NEW c \in Clients, NEW t \in Topics, subs[t] = {}
    PROVE  ShownBy(c, t) = NoEntry
  BY DEF ShownBy, Following

\* A step of the server takes a replica from view at most: the only one that adds
\* a subscriber handles a call, for which the topics it names still wait.
LEMMA ServerShows ==
    ASSUME IInv, FlowInv, ServerNext, NEW c \in Clients, NEW t \in Topics
    PROVE  ShownBy(c, t)' = ShownBy(c, t) \/ ShownBy(c, t)' = NoEntry
<1>1. UNCHANGED clientVars
  <2>1. ASSUME NEW k \in Conns, HandleSubscribe(k) \/ HandleUnsubscribe(k)
        PROVE  UNCHANGED clientVars
    BY <2>1 DEF HandleSubscribe, HandleUnsubscribe
  <2>2. ASSUME NEW k \in Conns, ServerDropsSocket(k) \/ ServerSeesClose(k)
        PROVE  UNCHANGED clientVars
    BY <2>2 DEF ServerDropsSocket, ServerSeesClose, ClientClosed
  <2>3. ASSUME NEW u \in Topics, NEW s \in StoreIds, NEW o \in Ops, NEW dropped \in SUBSET Conns,
               Publish(u, s, o, dropped)
        PROVE  UNCHANGED clientVars
    BY <2>3 DEF Publish
  <2>4. ASSUME NEW u \in Topics, NEW s \in StoreIds, NEW d \in InitialData, ReplaceStore(u, s, d)
        PROVE  UNCHANGED clientVars
    BY <2>4 DEF ReplaceStore
  <2>5. CASE SendReply \/ Crash \/ Restart \/ Boot
    BY <2>5 DEF SendReply, Crash, Restart, Boot
  <2>6. QED BY <2>1, <2>2, <2>3, <2>4, <2>5 DEF ServerNext
<1>2. entry' = entry /\ conn' = conn
  BY <1>1 DEF clientVars
<1>3. ASSUME Following(c, t)'
      PROVE  Following(c, t)
  <2>1. PICK k \in Conns : k = conn[c]
    BY <1>2, <1>3 DEF Following, IInv, TypeOK, ClientTypeOK
  <2>2. k # NoConn /\ Settles(entry[c][t]) /\ k \in subs'[t]
    BY <1>2, <1>3, <2>1 DEF Following, Settles
  <2>3. k \in subs[t]
    <3>1. ASSUME k \notin subs[t] PROVE FALSE
      <4>1. HandleSubscribe(k) /\ t \in Head(c2s[k]).topics
        <5>1. HubTypeOK /\ (~booted => ServesNothing)
          BY DEF IInv, TypeOK, HubInv
        <5>2. ASSUME NEW j \in Conns, NEW T, Unlink(j, T)
              PROVE  k \notin subs'[t]
          BY <3>1, <5>2 DEF Unlink
        <5>3. ASSUME NEW j \in Conns, HandleUnsubscribe(j) \/ ServerDropsSocket(j) \/ ServerSeesClose(j)
              PROVE  FALSE
          BY <2>2, <5>2, <5>3 DEF HandleUnsubscribe, ServerDropsSocket, ServerSeesClose, ClientClosed
        <5>4. subs' # subs
          BY <2>2, <3>1
        <5>5. ~Crash
          BY <2>2 DEF Crash
        <5>6. \E j \in Conns : HandleSubscribe(j)
          <6>1. ASSUME NEW u \in Topics, NEW s \in StoreIds, NEW o \in Ops, NEW dropped \in SUBSET Conns,
                       Publish(u, s, o, dropped)
                PROVE  FALSE
            BY <5>4, <6>1 DEF Publish
          <6>2. ASSUME NEW u \in Topics, NEW s \in StoreIds, NEW d \in InitialData, ReplaceStore(u, s, d)
                PROVE  FALSE
            BY <5>4, <6>2 DEF ReplaceStore
          <6>3. ~SendReply /\ ~Restart /\ ~Boot
            BY <5>4 DEF SendReply, Restart, Boot, hubVars
          <6>4. QED BY <5>3, <5>5, <6>1, <6>2, <6>3 DEF ServerNext
        <5>7. PICK j \in Conns : HandleSubscribe(j)
          BY <5>6
        <5>8. subs' = [u \in Topics |-> IF u \in Head(c2s[j]).topics THEN subs[u] \cup {j} ELSE subs[u]]
          BY <5>4, <5>7 DEF HandleSubscribe, hubVars
        <5>9. QED BY <2>2, <3>1, <5>7, <5>8
      <4>2. c2s[k] \in Seq(Call) /\ c2s[k] # <<>> /\ Head(c2s[k]).kind = "subscribe" /\ link[k] \in {"up", "clientGone"}
        BY <4>1 DEF HandleSubscribe, ServerReads, IInv, TypeOK, NetTypeOK
      <4>3. Head(c2s[k]) \in Asks(k)
        BY <4>2, QueueElems DEF Asks
      <4>4. EntryInv(c, t, k)
        BY <2>1, <2>2, <4>2 DEF FlowInv, ClientInv, Connected, LineInv
      <4>5. QED BY <2>2, <4>1, <4>3, <4>4 DEF EntryInv, LastAsked
    <3>2. QED BY <3>1
  <2>4. QED BY <1>2, <1>3, <2>1, <2>3 DEF Following
<1>4. QED BY <1>2, <1>3 DEF ShownBy

\* A step of a client moves its own view only, and only forward along the line.
LEMMA ClientShows ==
    ASSUME IInv, FlowInv, NEW d \in Clients, ClientNext(d), NEW c \in Clients, NEW t \in Topics
    PROVE  /\ lastRev' = lastRev /\ truth' = truth
           /\ \/ ShownBy(c, t)' = ShownBy(c, t) \/ ShownBy(c, t)' = NoEntry
              \/ \E r \in 0 .. lastRev[t] :
                    /\ ShownBy(c, t) = NoEntry \/ ShownBy(c, t).rev <= r
                    /\ ShownBy(c, t)' = [rev |-> r, data |-> truth[t][r]]
<1>1. UNCHANGED <<lastRev, truth, subs>>
  BY ClientFrame DEF serverVars, hubVars
<1>2. CASE c # d
  <2>1. entry'[c] = entry[c] /\ conn'[c] = conn[c]
    BY <1>2, OthersUntouched
  <2>2. QED BY <1>1, <2>1 DEF ShownBy, Following
<1>3. CASE c = d
  <2>1. CASE ~Following(c, t)'
    BY <1>1, <2>1 DEF ShownBy
  <2>2. CASE Following(c, t)'
    <3> DEFINE r == entry'[c][t].rev
    <3>1. IInv' /\ FlowInv'
      BY ClientFlow, StepInv DEF Next
    <3>2. r \in 0 .. lastRev'[t] /\ entry'[c][t].data = truth'[t][r]
      <4>1. Following(c, t)' => /\ (entry[c][t].rev \in 0 .. lastRev[t])'
                                /\ (entry[c][t].data = truth[t][entry[c][t].rev])'
        BY <3>1, FollowingGenuine, PTL
      <4>2. QED BY <2>2, <4>1
    <3>3. ShownBy(c, t)' = [rev |-> r, data |-> truth[t][r]] /\ r \in 0 .. lastRev[t]
      BY <1>1, <2>2, <3>2 DEF ShownBy
    <3>4. ShownBy(c, t) = NoEntry \/ ShownBy(c, t).rev <= r
      <4>1. CASE Following(c, t)
        <5>1. r >= entry[c][t].rev /\ entry[c][t].rev \in Int /\ r \in Int
          BY <1>1, <1>3, <2>2, <3>3, <4>1, GoesForward, FollowingGenuine, SMTT(30) DEF IInv, TypeOK, HubTypeOK, Revs
        <5>2. ShownBy(c, t).rev = entry[c][t].rev
          BY <4>1 DEF ShownBy
        <5>3. QED BY <5>1, <5>2
      <4>2. CASE ~Following(c, t)
        BY <4>2 DEF ShownBy
      <4>3. QED BY <4>1, <4>2
    <3>5. QED BY <1>1, <3>3, <3>4
  <2>3. QED BY <2>1, <2>2
<1>4. QED BY <1>2, <1>3

\* A step of the server extends the line of a topic, rebuilds it while nobody
\* subscribes to it, starts it again, or leaves it.
LEMMA ServerLine ==
    ASSUME IInv, FlowInv, ServerNext, NEW t \in Topics
    PROVE  \/ /\ lastRev'[t] = lastRev[t] + 1
              /\ \E d \in Data : truth'[t] = [truth[t] EXCEPT ![lastRev[t] + 1] = d]
           \/ /\ subs[t] = {} /\ lastRev'[t] >= lastRev[t]
              /\ \E d \in Data : truth'[t] = [truth[t] EXCEPT ![lastRev'[t]] = d]
           \/ lastRev'[t] = 0 /\ subs'[t] = {}
           \/ lastRev'[t] = lastRev[t] /\ truth'[t] = truth[t]
<1> DEFINE Goal == \/ /\ lastRev'[t] = lastRev[t] + 1
                      /\ \E d \in Data : truth'[t] = [truth[t] EXCEPT ![lastRev[t] + 1] = d]
                   \/ /\ subs[t] = {} /\ lastRev'[t] >= lastRev[t]
                      /\ \E d \in Data : truth'[t] = [truth[t] EXCEPT ![lastRev'[t]] = d]
                   \/ lastRev'[t] = 0 /\ subs'[t] = {}
                   \/ lastRev'[t] = lastRev[t] /\ truth'[t] = truth[t]
<1>1. HubTypeOK /\ HubInv
  BY DEF IInv, TypeOK
<1>2. lastRev[t] \in Nat
  BY <1>1 DEF HubTypeOK, Revs
<1>3. ASSUME NEW u \in Topics, NEW rev \in Nat, NEW d \in Data, rev > lastRev[u],
             subs[u] # {} => rev = lastRev[u] + 1,
             lastRev' = [lastRev EXCEPT ![u] = rev], truth' = [truth EXCEPT ![u][rev] = d]
      PROVE  Goal
  <2>1. CASE u # t
    BY <1>1, <1>3, <2>1 DEF HubTypeOK
  <2>2. CASE u = t
    <3>1. lastRev'[t] = rev /\ truth'[t] = [truth[t] EXCEPT ![rev] = d]
      BY <1>1, <1>3, <2>2 DEF HubTypeOK
    <3>2. QED BY <1>2, <1>3, <2>2, <3>1
  <2>3. QED BY <2>1, <2>2
<1>4. ASSUME NEW u \in Topics, NEW s \in StoreIds, NEW o \in Ops, NEW dropped \in SUBSET Conns,
             Publish(u, s, o, dropped)
      PROVE  Goal
  <2> DEFINE before == store[u][s]
             after == o[before.data]
             rev == before.rev + 1
  <2>1. CASE UNCHANGED <<lastRev, truth, s2c, lost>>
    BY <2>1
  <2>2. CASE ~Stale(u, s, rev)
    <3>1. rev \in Nat /\ after \in Data /\ lastRev[u] \in Nat
      BY <1>1, <1>4 DEF Publish, HubTypeOK, Snapshot, Revs
    <3>2. lastRev' = [lastRev EXCEPT ![u] = rev] /\ truth' = [truth EXCEPT ![u][rev] = after]
      BY <1>4, <2>2 DEF Publish
    <3>3. rev > lastRev[u] /\ (subs[u] # {} => current[u] = s /\ current[u] # NoStore)
      BY <2>2, <3>1 DEF Stale
    <3>4. subs[u] # {} => rev = lastRev[u] + 1
      BY <1>1, <3>3 DEF HubInv, CurrentStoreLeads, Leads
    <3> HIDE DEF rev, after
    <3>5. QED BY <1>3, <3>1, <3>2, <3>3, <3>4
  <2>3. QED BY <1>4, <2>1, <2>2 DEF Publish
<1>5. ASSUME NEW u \in Topics, NEW s \in StoreIds, NEW d \in InitialData, ReplaceStore(u, s, d)
      PROVE  Goal
  <2> DEFINE rev == lastRev[u] + 1
  <2>1. lastRev' = [lastRev EXCEPT ![u] = rev] /\ truth' = [truth EXCEPT ![u][rev] = d]
    BY <1>5 DEF ReplaceStore, NextRev
  <2>2. rev \in Nat /\ rev > lastRev[u] /\ rev = lastRev[u] + 1 /\ d \in Data
    BY <1>1 DEF HubTypeOK, Revs
  <2> HIDE DEF rev
  <2>3. QED BY <1>3, <2>1, <2>2
<1>6. ASSUME NEW k \in Conns, HandleSubscribe(k)
      PROVE  Goal
  <2> DEFINE T == Head(c2s[k]).topics
             First == {u \in T : subs[u] = {}}
             Kept == First \cap Persistent
             Rebuilds(initial) == truth' = [u \in Topics |-> IF u \in First \ Kept
                                              THEN [truth[u] EXCEPT ![lastRev[u]] = initial[u]] ELSE truth[u]]
  <2>1. lastRev' = lastRev
    BY <1>6 DEF HandleSubscribe, hubVars
  <2>2. \/ truth' = truth
        \/ \E initial \in [First -> InitialData] : Rebuilds(initial)
    BY <1>6 DEF HandleSubscribe, hubVars
  <2>3. CASE truth' = truth
    BY <2>1, <2>3
  <2>4. ASSUME NEW initial \in [First -> InitialData],
               Rebuilds(initial)
        PROVE  Goal
    <3>1. CASE t \in First \ Kept
      <4>1. truth'[t] = [truth[t] EXCEPT ![lastRev[t]] = initial[t]] /\ subs[t] = {} /\ initial[t] \in Data
        BY <2>4, <3>1
      <4>2. lastRev'[t] >= lastRev[t]
        BY <1>2, <2>1
      <4>3. QED BY <2>1, <4>1, <4>2
    <3>2. CASE t \notin First \ Kept
      BY <2>1, <2>4, <3>2
    <3>3. QED BY <3>1, <3>2
  <2>5. QED BY <2>2, <2>3, <2>4
<1>7. ASSUME NEW k \in Conns, HandleUnsubscribe(k) \/ ServerDropsSocket(k) \/ ServerSeesClose(k)
      PROVE  Goal
  BY <1>7 DEF HandleUnsubscribe, ServerDropsSocket, ServerSeesClose, ClientClosed, Unlink
<1>8. CASE SendReply
  BY <1>8 DEF SendReply, hubVars
<1>9. CASE Crash \/ Restart \/ Boot
  <2>1. lastRev'[t] = 0 /\ subs'[t] = {}
    BY <1>1, <1>9 DEF Crash, Restart, Boot, HubInv, ServesNothing
  <2>2. QED BY <2>1
<1>10. QED BY <1>4, <1>5, <1>6, <1>7, <1>8, <1>9 DEF ServerNext

-----------------------------------------------------------------------------
(* TopicFeed *)

LEMMA InitFeed == Init => Feed!Init
<1> SUFFICES ASSUME Init PROVE Feed!Init
  OBVIOUS
<1>1. truth \in [Topics -> [Revs -> Data]]
  BY InitInv DEF IInv, TypeOK, HubTypeOK
<1>2. \A c \in Clients, t \in Topics : ShownBy(c, t) = NoEntry
  BY NobodyShows DEF Init
<1>3. lastRev = [t \in Topics |-> 0]
  BY DEF Init
<1>4. QED BY <1>1, <1>2, <1>3 DEF Feed!Init

LEMMA StepFeed == IInv /\ FlowInv /\ [Next]_vars => [Feed!Next]_Feed!vars
<1> SUFFICES ASSUME IInv, FlowInv, [Next]_vars PROVE [Feed!Next]_Feed!vars
  OBVIOUS
<1>1. CASE UNCHANGED vars
  <2>1. UNCHANGED <<truth, lastRev, subs, conn, entry>>
    BY <1>1 DEF vars, serverVars, hubVars, clientVars
  <2>2. \A c \in Clients, t \in Topics : ShownBy(c, t)' = ShownBy(c, t)
    BY <2>1 DEF ShownBy, Following
  <2>3. QED BY <2>1, <2>2 DEF Feed!vars
<1>2. ASSUME NEW d \in Clients, ClientNext(d)
      PROVE  Feed!Next
  <2>1. ASSUME NEW t \in Topics
        PROVE  Feed!LineStep(t)
    BY <1>2, ClientShows DEF Feed!LineStep
  <2>2. ASSUME NEW t \in Topics, NEW c \in Clients
        PROVE  Feed!ViewStep(c, t)
    BY <1>2, ClientShows DEF Feed!ViewStep, Feed!Hide, Feed!Show
  <2>3. QED BY <2>1, <2>2 DEF Feed!Next
<1>3. ASSUME ServerNext
      PROVE  Feed!Next
  <2>1. ASSUME NEW t \in Topics
        PROVE  Feed!LineStep(t)
    <3>1. subs[t] = {} => \A c \in Clients : ShownBy(c, t) = NoEntry
      BY NobodyShows
    <3>2. subs'[t] = {} => \A c \in Clients : ShownBy(c, t)' = NoEntry
      BY DEF ShownBy, Following
    <3>3. QED BY <1>3, <3>1, <3>2, ServerLine
              DEF Feed!LineStep, Feed!Announce, Feed!Rebuild, Feed!Restart
  <2>2. ASSUME NEW t \in Topics, NEW c \in Clients
        PROVE  Feed!ViewStep(c, t)
    BY <1>3, ServerShows DEF Feed!ViewStep, Feed!Hide
  <2>3. QED BY <2>1, <2>2 DEF Feed!Next
<1>4. QED BY <1>1, <1>2, <1>3 DEF Next

\* What a client shows while the server feeds it is what the topic held under
\* the rev the client names, whatever was lost, buffered, replayed, released or
\* asked for again, and however often sockets broke and servers died.
THEOREM ReplicasGenuine == Spec => []ReplicaIsGenuine
<1>1. IInv /\ FlowInv => ReplicaIsGenuine
  BY FollowingGenuine DEF ReplicaIsGenuine
<1>2. QED BY <1>1, InitInv, StepInv, InitFlow, StepFlow, PTL DEF Spec

\* TopicHub and TopicCache implement module TopicFeed: a client that shows a
\* topic moves only forward along the one line of its contents, and a line is
\* rebuilt or started again only while nobody shows it.
THEOREM FeedImplemented == Spec => ImplementsFeed
  BY InitInv, StepInv, InitFlow, StepFlow, InitFeed, StepFeed, PTL DEF Spec, ImplementsFeed, Feed!Spec
=============================================================================
