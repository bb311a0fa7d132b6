------------------------ MODULE TopicDeliveryProofs ------------------------
(***************************************************************************)
(* What a quiet connection owes its client, for every set of clients,      *)
(* sockets and topics: hub and cache agree on what is subscribed, what is  *)
(* shown is the latest, and no patch is missing that was not lost.         *)
(*                                                                         *)
(* FlowInv of TopicFeedProofs says that what is under way is genuine;      *)
(* DeliveryInv adds that it is complete.  Its core is Agrees: the last     *)
(* call about a topic still on the wire, or else its answer, accounts for  *)
(* every difference between what the client and the hub believe.           *)
(***************************************************************************)
EXTENDS TopicFeedProofs

\* No call of q is about t; the last one that is, is m.
Silent(q, t) == \A m \in Elems(q) : t \notin m.topics
LastAbout(q, t, m) ==
    \E i \in DOMAIN q : q[i] = m /\ t \in m.topics /\ \A j \in DOMAIN q : j > i => t \notin q[j].topics

\* What holds of client c whether or not it is connected.
Vacant(e) == ~e.subscribed /\ e.inflight = 0
RestInv(c) ==
    /\ \A t \in Topics :
          /\ entry[c][t].status = "absent" => Vacant(entry[c][t])
          /\ conn[c] = NoConn => ~entry[c][t].subscribed
          /\ entry[c][t].inflight = 0 /\ entry[c][t].status # "replaying" => entry[c][t].buffer = <<>>
    /\ \A id \in DOMAIN calls[c] :
          calls[c][id].was = {} \/ \E t \in Topics : calls[c][id].topics = {t} /\ calls[c][id].was = {t}

\* A call on the wire is pending, for the batch it names.
CallsInv(c, k) == \A a \in Asks(k) : a.id \in DOMAIN calls[c] /\ calls[c][a.id].topics = a.topics

\* No call of c for t is under way: what c believes is what it holds, and the hub
\* believes the same or is about to read that c has let t go.
Holds(e) == e.status \in {"ready", "replaying"}
IdleInv(c, t, k) ==
    entry[c][t].inflight = 0 =>
      /\ entry[c][t].subscribed <=> Holds(entry[c][t])
      /\ \/ Silent(c2s[k], t) /\ (k \in subs[t] <=> entry[c][t].subscribed)
         \/ ~entry[c][t].subscribed /\ \E m \in Elems(c2s[k]) : m.kind = "unsubscribe" /\ LastAbout(c2s[k], t, m)

\* A call of c for t is under way: nothing about t is behind it on the wire, or
\* it is answered and the answer says what the hub did.  Only a topic the hub
\* has is resubscribed.
Answered(m, c, t, k) ==
    /\ m.kind = "result" => t \in DOMAIN m.snaps /\ k \in subs[t]
    /\ m.kind = "error" /\ calls[c][m.id].topics = {t} => k \notin subs[t]
Pends(c, t, k, id) ==
    /\ id \in DOMAIN calls[c] /\ t \in calls[c][id].topics
    /\ \/ \E m \in Asks(k) : m.id = id /\ LastAbout(c2s[k], t, m)
       \/ Silent(c2s[k], t) /\ \E m \in Answers(k) : m.id = id
    /\ \A m \in Answers(k) : m.id = id => Answered(m, c, t, k)
    /\ t \in calls[c][id].was => k \in subs[t] /\ \A m \in Elems(c2s[k]) : t \in m.topics => m.kind = "subscribe"
AskedInv(c, t, k) ==
    entry[c][t].inflight # 0 => entry[c][t].subscribed /\ Pends(c, t, k, entry[c][t].inflight)
Agrees(c, t, k) == IdleInv(c, t, k) /\ AskedInv(c, t, k)

\* Every rev after that of x, up to the last one, is that of a patch c has still
\* to read or to replay, as long as no frame was lost.
Complete(x, c, t, k) == \A r \in x.rev + 1 .. lastRev[t] : \E p \in Waiting(c, t, k) : p.rev = r
HeldComplete(c, t, k) ==
    lost = 0 /\ k \in subs[t] /\ Settles(entry[c][t]) => Complete(entry[c][t], c, t, k)
SnapsComplete(c, t, k) ==
    lost = 0 /\ k \in subs[t] /\ entry[c][t].inflight # 0 =>
        \A m \in Answers(k) : AnswerFor(m, c, t) => Complete(m.snaps[t], c, t, k)

\* The patches of t wait in the order of their revs.
IsPatch(m, t) == m.kind = "patch" /\ m.topic = t
Sorted(q, t) == \A i, j \in DOMAIN q : i < j /\ IsPatch(q[i], t) /\ IsPatch(q[j], t) => q[i].rev < q[j].rev
Fed(c, t, k) == HeldComplete(c, t, k) /\ SnapsComplete(c, t, k) /\ Sorted(s2c[k], t)

DeliveryLine(c, k) == CallsInv(c, k) /\ \A t \in Topics : Agrees(c, t, k) /\ Fed(c, t, k)
DeliveryInv ==
    /\ \A c \in Clients : RestInv(c)
    /\ \A c \in Clients : Connected(c) => DeliveryLine(c, conn[c])

USE DataAssumption, SetAssumption, BoundAssumption

-----------------------------------------------------------------------------
(* Queues *)

\* Between queue q and queue r no call about t is new and the last one stays.
QueueKeeps(q, r, t) ==
    /\ \A m \in Elems(r) : t \in m.topics => m \in Elems(q)
    /\ \A m : LastAbout(q, t, m) => LastAbout(r, t, m)

LEMMA KeepsSame == \A q, t : QueueKeeps(q, q, t)
  BY DEF QueueKeeps

LEMMA LastIsThere == \A q, t, m : LastAbout(q, t, m) => m \in Elems(q) /\ t \in m.topics
  BY DEF LastAbout, Elems

LEMMA LastAppended ==
    ASSUME NEW q \in Seq(Call), NEW r \in Seq(Call), NEW t, NEW m
    PROVE  /\ LastAbout(r, t, m) => LastAbout(q \o r, t, m)
           /\ LastAbout(q, t, m) /\ Silent(r, t) => LastAbout(q \o r, t, m)
<1>1. /\ DOMAIN q = 1 .. Len(q) /\ Len(q) \in Nat /\ DOMAIN r = 1 .. Len(r) /\ Len(r) \in Nat
      /\ DOMAIN (q \o r) = 1 .. Len(q) + Len(r)
      /\ \A i \in 1 .. Len(q) + Len(r) : (q \o r)[i] = IF i <= Len(q) THEN q[i] ELSE r[i - Len(q)]
  BY ConcatProperties
<1>2. ASSUME LastAbout(r, t, m)
      PROVE  LastAbout(q \o r, t, m)
  <2>1. PICK i \in DOMAIN r : r[i] = m /\ t \in m.topics /\ \A j \in DOMAIN r : j > i => t \notin r[j].topics
    BY <1>2 DEF LastAbout
  <2> DEFINE n == i + Len(q)
  <2>2. n \in DOMAIN (q \o r) /\ (q \o r)[n] = m
    BY <1>1, <2>1
  <2>3. ASSUME NEW j \in DOMAIN (q \o r), j > n
        PROVE  t \notin (q \o r)[j].topics
    <3>1. j - Len(q) \in DOMAIN r /\ j - Len(q) > i /\ (q \o r)[j] = r[j - Len(q)]
      BY <1>1, <2>3
    <3>2. QED BY <2>1, <3>1
  <2> HIDE DEF n
  <2>4. QED BY <2>1, <2>2, <2>3 DEF LastAbout
<1>3. ASSUME LastAbout(q, t, m), Silent(r, t)
      PROVE  LastAbout(q \o r, t, m)
  <2>1. PICK i \in DOMAIN q : q[i] = m /\ t \in m.topics /\ \A j \in DOMAIN q : j > i => t \notin q[j].topics
    BY <1>3 DEF LastAbout
  <2>2. i \in DOMAIN (q \o r) /\ (q \o r)[i] = m
    BY <1>1, <2>1
  <2>3. ASSUME NEW j \in DOMAIN (q \o r), j > i
        PROVE  t \notin (q \o r)[j].topics
    <3>1. CASE j <= Len(q)
      <4>1. j \in DOMAIN q /\ (q \o r)[j] = q[j]
        BY <1>1, <3>1
      <4>2. QED BY <2>1, <2>3, <4>1
    <3>2. CASE ~(j <= Len(q))
      <4>1. j - Len(q) \in DOMAIN r /\ (q \o r)[j] = r[j - Len(q)]
        BY <1>1, <3>2
      <4>2. QED BY <1>3, <4>1 DEF Silent, Elems
    <3>3. QED BY <3>1, <3>2
  <2>4. QED BY <2>1, <2>2, <2>3 DEF LastAbout
<1>4. QED BY <1>2, <1>3

LEMMA KeepsAppended ==
    ASSUME NEW q \in Seq(Call), NEW r \in Seq(Call), NEW t, Silent(r, t)
    PROVE  QueueKeeps(q, q \o r, t)
<1>1. Elems(q \o r) = Elems(q) \cup Elems(r)
  BY QueueElems
<1>2. QED BY <1>1, LastAppended DEF QueueKeeps, Silent

LEMMA LastTail ==
    ASSUME NEW q \in Seq(Call), q # <<>>, NEW t, NEW m, LastAbout(q, t, m)
    PROVE  (m = Head(q) /\ Silent(Tail(q), t)) \/ LastAbout(Tail(q), t, m)
<1>1. /\ Len(q) \in Nat \ {0} /\ DOMAIN q = 1 .. Len(q)
      /\ Head(q) = q[1] /\ DOMAIN Tail(q) = 1 .. Len(q) - 1
      /\ \A i \in 1 .. Len(q) - 1 : Tail(q)[i] = q[i + 1]
  OBVIOUS
<1>2. PICK i \in DOMAIN q : q[i] = m /\ t \in m.topics /\ \A j \in DOMAIN q : j > i => t \notin q[j].topics
  BY DEF LastAbout
<1>3. ASSUME NEW j \in DOMAIN Tail(q), j + 1 > i
      PROVE  t \notin Tail(q)[j].topics
  <2>1. j + 1 \in DOMAIN q /\ Tail(q)[j] = q[j + 1]
    BY <1>1
  <2>2. QED BY <1>2, <1>3, <2>1
<1>4. CASE i = 1
  <2>1. \A j \in DOMAIN Tail(q) : j + 1 > i
    BY <1>1, <1>4
  <2>2. QED BY <1>1, <1>2, <1>3, <1>4, <2>1 DEF Silent, Elems
<1>5. CASE i # 1
  <2>1. i - 1 \in DOMAIN Tail(q) /\ Tail(q)[i - 1] = q[i]
    BY <1>1, <1>2, <1>5
  <2>2. \A j \in DOMAIN Tail(q) : j > i - 1 => j + 1 > i
    BY <1>1, <1>2
  <2>3. QED BY <1>2, <1>3, <2>1, <2>2 DEF LastAbout
<1>6. QED BY <1>4, <1>5

LEMMA KeepsTail ==
    ASSUME NEW q \in Seq(Call), q # <<>>, NEW t, t \notin Head(q).topics
    PROVE  QueueKeeps(q, Tail(q), t)
<1>1. Elems(Tail(q)) \subseteq Elems(q)
  BY QueueElems
<1>2. \A m : LastAbout(q, t, m) => LastAbout(Tail(q), t, m)
  BY LastTail, LastIsThere
<1>3. QED BY <1>1, <1>2 DEF QueueKeeps

\* The calls of subscribeBatch, one by one: the one for the group of t is the
\* last about t.
LEMMA NewLast ==
    ASSUME ClientTypeOK, NEW c \in Clients, NEW groups \in Seq(SUBSET Topics), Disjoint(groups), NEW t
    PROVE  /\ \A i \in DOMAIN groups : t \in groups[i] =>
                 LastAbout(SubscribeMsgs(c, groups), t, SubscribeMsg(nextId[c] + i - 1, groups[i]))
           /\ (\A i \in DOMAIN groups : t \notin groups[i]) => Silent(SubscribeMsgs(c, groups), t)
<1>1. /\ DOMAIN groups = 1 .. Len(groups) /\ Len(groups) \in Nat
      /\ DOMAIN SubscribeMsgs(c, groups) = DOMAIN groups
      /\ \A i \in DOMAIN groups : SubscribeMsgs(c, groups)[i] = SubscribeMsg(nextId[c] + i - 1, groups[i])
  BY DEF SubscribeMsgs
<1>2. \A id, T : SubscribeMsg(id, T).topics = T
  BY DEF SubscribeMsg
<1>3. ASSUME NEW i \in DOMAIN groups, t \in groups[i]
      PROVE  LastAbout(SubscribeMsgs(c, groups), t, SubscribeMsg(nextId[c] + i - 1, groups[i]))
  <2>1. ASSUME NEW j \in DOMAIN groups, j > i
        PROVE  t \notin groups[j]
    <3>1. j # i
      BY <1>1, <2>1
    <3>2. QED BY <1>3, <3>1 DEF Disjoint
  <2>2. QED BY <1>1, <1>2, <1>3, <2>1, SMTT(30) DEF LastAbout
<1>4. QED BY <1>1, <1>2, <1>3 DEF Silent, Elems

LEMMA SortedTail ==
    ASSUME NEW S, NEW q \in Seq(S), q # <<>>, NEW t, Sorted(q, t)
    PROVE  /\ Sorted(Tail(q), t)
           /\ IsPatch(Head(q), t) => \A p \in Elems(Tail(q)) : IsPatch(p, t) => Head(q).rev < p.rev
<1>1. /\ Len(q) \in Nat \ {0} /\ DOMAIN q = 1 .. Len(q)
      /\ Head(q) = q[1] /\ DOMAIN Tail(q) = 1 .. Len(q) - 1
      /\ \A i \in 1 .. Len(q) - 1 : Tail(q)[i] = q[i + 1]
  OBVIOUS
<1>2. ASSUME NEW i \in DOMAIN Tail(q), NEW j \in DOMAIN Tail(q), i < j,
             IsPatch(Tail(q)[i], t), IsPatch(Tail(q)[j], t)
      PROVE  Tail(q)[i].rev < Tail(q)[j].rev
  <2>1. i + 1 \in DOMAIN q /\ j + 1 \in DOMAIN q /\ i + 1 < j + 1
    BY <1>1, <1>2
  <2>2. Tail(q)[i] = q[i + 1] /\ Tail(q)[j] = q[j + 1]
    BY <1>1
  <2>3. QED BY <1>2, <2>1, <2>2 DEF Sorted
<1>3. ASSUME IsPatch(Head(q), t), NEW i \in DOMAIN Tail(q), IsPatch(Tail(q)[i], t)
      PROVE  Head(q).rev < Tail(q)[i].rev
  <2>1. 1 \in DOMAIN q /\ i + 1 \in DOMAIN q /\ 1 < i + 1 /\ Tail(q)[i] = q[i + 1]
    BY <1>1
  <2>2. QED BY <1>1, <1>3, <2>1 DEF Sorted
<1>4. QED BY <1>2, <1>3 DEF Sorted, Elems

LEMMA SortedAppend ==
    ASSUME NEW S, NEW q \in Seq(S), NEW t, Sorted(q, t), NEW m \in S,
           IsPatch(m, t) => \A p \in Elems(q) : IsPatch(p, t) => p.rev < m.rev
    PROVE  Sorted(Append(q, m), t)
<1>1. /\ DOMAIN q = 1 .. Len(q) /\ Len(q) \in Nat
      /\ DOMAIN Append(q, m) = 1 .. Len(q) + 1
      /\ \A i \in 1 .. Len(q) : Append(q, m)[i] = q[i]
      /\ Append(q, m)[Len(q) + 1] = m
  OBVIOUS
<1>2. ASSUME NEW i \in DOMAIN Append(q, m), NEW j \in DOMAIN Append(q, m), i < j,
             IsPatch(Append(q, m)[i], t), IsPatch(Append(q, m)[j], t)
      PROVE  Append(q, m)[i].rev < Append(q, m)[j].rev
  <2>1. i \in DOMAIN q /\ Append(q, m)[i] = q[i]
    BY <1>1, <1>2
  <2>2. CASE j \in DOMAIN q
    <3>1. Append(q, m)[j] = q[j]
      BY <1>1, <2>2
    <3>2. QED BY <1>2, <2>1, <2>2, <3>1 DEF Sorted
  <2>3. CASE j \notin DOMAIN q
    <3>1. Append(q, m)[j] = m
      BY <1>1, <2>3
    <3>2. QED BY <1>2, <2>1, <3>1 DEF Elems
  <2>4. QED BY <2>2, <2>3
<1>3. QED BY <1>2 DEF Sorted

-----------------------------------------------------------------------------
(* What keeps client and hub agreed about a topic, and the topic fed *)

\* Nothing about t is new on the line of c, and no answer that c awaits comes or goes.
LEMMA AgreesKeeps ==
    ASSUME NEW c \in Clients, NEW t \in Topics, NEW k \in Conns, Agrees(c, t, k),
           QueueKeeps(c2s[k], c2s'[k], t), k \in subs'[t] <=> k \in subs[t],
           entry'[c][t].inflight = entry[c][t].inflight,
           entry'[c][t].subscribed = entry[c][t].subscribed,
           Holds(entry'[c][t]) <=> Holds(entry[c][t]),
           entry[c][t].inflight \in DOMAIN calls[c] =>
              /\ entry[c][t].inflight \in DOMAIN calls'[c]
              /\ calls'[c][entry[c][t].inflight] = calls[c][entry[c][t].inflight],
           entry[c][t].inflight # 0 =>
              \A m : m.id = entry[c][t].inflight => (m \in Answers(k)' <=> m \in Answers(k))
    PROVE  Agrees(c, t, k)'
<1>1. /\ Silent(c2s[k], t) => Silent(c2s'[k], t)
      /\ \A m : LastAbout(c2s[k], t, m) => m \in Elems(c2s'[k]) /\ LastAbout(c2s'[k], t, m)
      /\ \A m \in Elems(c2s'[k]) : t \in m.topics => m \in Elems(c2s[k])
  BY LastIsThere DEF QueueKeeps, Silent
<1>2. IdleInv(c, t, k)'
  BY <1>1 DEF Agrees, IdleInv, Holds
<1>3. ASSUME entry[c][t].inflight # 0
      PROVE  entry'[c][t].subscribed /\ Pends(c, t, k, entry[c][t].inflight)'
  <2> DEFINE id == entry[c][t].inflight
  <2>1. entry[c][t].subscribed /\ Pends(c, t, k, id)
    BY <1>3 DEF Agrees, AskedInv
  <2>2. /\ id \in DOMAIN calls'[c] /\ calls'[c][id] = calls[c][id]
        /\ \A m : m.id = id => (m \in Answers(k)' <=> m \in Answers(k))
    BY <1>3, <2>1 DEF Pends
  <2>3. entry'[c][t].subscribed
    BY <2>1
  <2> HIDE DEF id
  <2>4. Pends(c, t, k, id)'
    <3>1. id' = id
      BY DEF id
    <3>2. id \in DOMAIN calls'[c] /\ t \in calls'[c][id].topics
      BY <2>1, <2>2 DEF Pends
    <3>3. \/ \E m \in Asks(k)' : m.id = id /\ LastAbout(c2s'[k], t, m)
          \/ Silent(c2s'[k], t) /\ \E m \in Answers(k)' : m.id = id
      <4>1. CASE \E m \in Asks(k) : m.id = id /\ LastAbout(c2s[k], t, m)
        BY <1>1, <4>1 DEF Asks
      <4>2. CASE Silent(c2s[k], t) /\ \E m \in Answers(k) : m.id = id
        BY <1>1, <2>2, <4>2
      <4>3. QED BY <2>1, <4>1, <4>2 DEF Pends
    <3>4. \A m \in Answers(k)' : m.id = id => Answered(m, c, t, k)'
      BY <2>1, <2>2 DEF Pends, Answered
    <3>5. t \in calls'[c][id].was => k \in subs'[t] /\ \A m \in Elems(c2s'[k]) : t \in m.topics => m.kind = "subscribe"
      BY <1>1, <2>1, <2>2 DEF Pends
    <3>6. QED BY <3>1, <3>2, <3>3, <3>4, <3>5 DEF Pends
  <2>5. QED BY <2>3, <2>4 DEF id
<1>4. AskedInv(c, t, k)'
  BY <1>3 DEF AskedInv
<1>5. QED BY <1>2, <1>4 DEF Agrees

\* No frame of t is lost on the way to c.
LEMMA FedKeeps ==
    ASSUME NEW c \in Clients, NEW t \in Topics, NEW k \in Conns, Fed(c, t, k), Sorted(s2c'[k], t),
           lost' = 0 => lost = 0, k \in subs'[t] => k \in subs[t], lastRev'[t] = lastRev[t],
           Waiting(c, t, k) \subseteq Waiting(c, t, k)', Answers(k)' \subseteq Answers(k),
           entry'[c][t].inflight = entry[c][t].inflight,
           Settles(entry'[c][t]) => Settles(entry[c][t]) /\ entry'[c][t].rev = entry[c][t].rev
    PROVE  Fed(c, t, k)'
<1>1. \A x : Complete(x, c, t, k) => Complete(x, c, t, k)'
  BY DEF Complete
<1>2. HeldComplete(c, t, k)'
  BY DEF Fed, HeldComplete, Complete
<1>3. SnapsComplete(c, t, k)'
  BY <1>1 DEF Fed, SnapsComplete, AnswerFor
<1>4. QED BY <1>2, <1>3 DEF Fed

\* A client that has no replica and no call under way is owed nothing.
LEMMA FedEmpty ==
    ASSUME NEW c \in Clients, NEW t \in Topics, NEW k \in Conns, Sorted(s2c'[k], t),
           entry'[c][t].inflight = 0, ~Holds(entry'[c][t])
    PROVE  Fed(c, t, k)'
  BY DEF Fed, HeldComplete, SnapsComplete, Settles, Holds

\* A call of subscribe has just been sent for t.
LEMMA AskedLine ==
    ASSUME NEW c \in Clients, NEW t \in Topics, NEW k \in Conns, NEW id \in Nat \ {0},
           entry'[c][t].inflight = id, entry'[c][t].subscribed,
           id \in DOMAIN calls'[c], t \in calls'[c][id].topics,
           NEW a \in Asks(k)', a.id = id, LastAbout(c2s'[k], t, a),
           \A m \in Answers(k)' : m.id # id,
           t \in calls'[c][id].was => k \in subs'[t] /\ \A m \in Elems(c2s'[k]) : t \in m.topics => m.kind = "subscribe",
           Sorted(s2c'[k], t)
    PROVE  Agrees(c, t, k)' /\ Fed(c, t, k)'
<1>1. Pends(c, t, k, id)'
  BY DEF Pends
<1>2. Agrees(c, t, k)'
  BY <1>1 DEF Agrees, IdleInv, AskedInv
<1>3. Fed(c, t, k)'
  BY DEF Fed, HeldComplete, SnapsComplete, Settles, AnswerFor
<1>4. QED BY <1>2, <1>3

\* The pending calls after subscribeBatch.
LEMMA BatchesCalls ==
    ASSUME ClientTypeOK, NEW c \in Clients, NEW es \in [Topics -> Entry], NEW cs,
           NEW groups \in Seq(SUBSET Topics), NEW was, SubscribeBatches(c, es, cs, groups, was)
    PROVE  /\ \A i \in DOMAIN groups :
                 /\ nextId[c] + i - 1 \in DOMAIN calls'[c]
                 /\ calls'[c][nextId[c] + i - 1].topics = groups[i]
                 /\ calls'[c][nextId[c] + i - 1].was = was \cap groups[i]
           /\ \A id \in DOMAIN cs : id < nextId[c] => id \in DOMAIN calls'[c] /\ calls'[c][id] = cs[id]
           /\ \A id \in DOMAIN calls'[c] :
                 \/ id \in DOMAIN cs /\ calls'[c][id] = cs[id]
                 \/ \E i \in DOMAIN groups : calls'[c][id].topics = groups[i] /\ calls'[c][id].was = was \cap groups[i]
<1> DEFINE ids == nextId[c] .. nextId[c] + Len(groups) - 1
           group(id) == groups[id - nextId[c] + 1]
<1>1. /\ nextId[c] \in Nat /\ Len(groups) \in Nat /\ DOMAIN groups = 1 .. Len(groups)
      /\ calls'[c] = [id \in ids \cup DOMAIN cs |->
            IF id \in ids THEN [topics |-> group(id), was |-> was \cap group(id)] ELSE cs[id]]
  BY DEF SubscribeBatches, ClientTypeOK
<1>2. \A i \in DOMAIN groups : nextId[c] + i - 1 \in ids /\ (nextId[c] + i - 1) - nextId[c] + 1 = i
  BY <1>1, SMTT(30)
<1>3. \A id \in ids : id - nextId[c] + 1 \in DOMAIN groups
  <2>1. nextId[c] \in Nat /\ Len(groups) \in Nat /\ DOMAIN groups = 1 .. Len(groups)
    BY <1>1
  <2>2. QED BY ONLY <2>1
<1>4. \A id : id < nextId[c] => id \notin ids
  BY <1>1
<1>5. ASSUME NEW i \in DOMAIN groups
      PROVE  /\ nextId[c] + i - 1 \in DOMAIN calls'[c]
             /\ calls'[c][nextId[c] + i - 1].topics = groups[i]
                 /\ calls'[c][nextId[c] + i - 1].was = was \cap groups[i]
  <2>1. PICK id \in ids : id = nextId[c] + i - 1
    BY <1>2
  <2>2. group(id) = groups[i]
    BY <1>2, <2>1
  <2> HIDE DEF ids, group
  <2>3. id \in DOMAIN calls'[c] /\ calls'[c][id] = [topics |-> group(id), was |-> was \cap group(id)]
    BY <1>1
  <2>4. QED BY <2>1, <2>2, <2>3
<1>6. \A id \in DOMAIN cs : id < nextId[c] => id \in DOMAIN calls'[c] /\ calls'[c][id] = cs[id]
  <2> HIDE DEF ids, group
  <2>1. QED BY <1>1, <1>4
<1>7. ASSUME NEW id \in DOMAIN calls'[c]
      PROVE  \/ id \in DOMAIN cs /\ calls'[c][id] = cs[id]
             \/ \E i \in DOMAIN groups : calls'[c][id].topics = groups[i] /\ calls'[c][id].was = was \cap groups[i]
  <2>1. CASE id \in ids
    <3>1. PICK i \in DOMAIN groups : i = id - nextId[c] + 1
      BY <1>3, <2>1
    <3>2. calls'[c][id] = [topics |-> group(id), was |-> was \cap group(id)]
      <4> HIDE DEF ids, group
      <4>1. QED BY <1>1, <2>1
    <3>3. QED BY <3>1, <3>2
  <2>2. CASE id \notin ids
    <3> HIDE DEF ids, group
    <3>1. QED BY <1>1, <1>7, <2>2
  <2>3. QED BY <2>1, <2>2
<1>8. QED BY <1>5, <1>6, <1>7

LEMMA BeginHolds ==
    ASSUME NEW e \in Entry, NEW id \in Nat
    PROVE  /\ Begin(e, id).subscribed /\ Begin(e, id).inflight = id
           /\ e.status # "absent" => Begin(e, id).status # "absent"
  BY DEF Begin, Entry

\* What subscribeBatch leaves of each topic, and which id its call has.
LEMMA BatchesPlaces ==
    ASSUME ClientTypeOK, NEW c \in Clients, NEW es \in [Topics -> Entry], NEW cs,
           NEW groups \in Seq(SUBSET Topics), NEW was, SubscribeBatches(c, es, cs, groups, was), Disjoint(groups)
    PROVE  /\ \A t \in Topics, i \in DOMAIN groups : t \in groups[i] =>
                 /\ nextId[c] + i - 1 \in Nat \ {0} /\ nextId[c] <= nextId[c] + i - 1
                 /\ entry'[c][t].subscribed /\ entry'[c][t].inflight = nextId[c] + i - 1
                 /\ es[t].status # "absent" => entry'[c][t].status # "absent"
           /\ \A t \in Topics : (\A i \in DOMAIN groups : t \notin groups[i]) => entry'[c][t] = es[t]
<1>1. nextId[c] \in Nat \ {0} /\ Len(groups) \in Nat /\ DOMAIN groups = 1 .. Len(groups)
  BY DEF ClientTypeOK
<1>2. /\ c \in Clients /\ ClientTypeOK /\ es \in [Topics -> Entry] /\ groups \in Seq(SUBSET Topics)
      /\ SubscribeBatches(c, es, cs, groups, was) /\ Disjoint(groups)
  OBVIOUS
<1>3. ASSUME NEW t \in Topics, NEW i \in DOMAIN groups, t \in groups[i]
      PROVE  /\ nextId[c] + i - 1 \in Nat \ {0} /\ nextId[c] <= nextId[c] + i - 1
             /\ entry'[c][t].subscribed /\ entry'[c][t].inflight = nextId[c] + i - 1
             /\ es[t].status # "absent" => entry'[c][t].status # "absent"
  <2>1. PICK id \in Nat \ {0} : id = nextId[c] + i - 1 /\ nextId[c] <= id
    BY <1>1
  <2>2. entry'[c][t] = Begin(es[t], nextId[c] + i - 1)
    BY ONLY <1>2, <1>3, BatchesEntries
  <2>3. entry'[c][t] = Begin(es[t], id) /\ es[t] \in Entry
    BY <2>1, <2>2
  <2>4. QED BY <2>1, <2>3, BeginHolds
<1>4. ASSUME NEW t \in Topics, \A i \in DOMAIN groups : t \notin groups[i]
      PROVE  entry'[c][t] = es[t]
  BY ONLY <1>2, <1>4, BatchesEntries
<1>5. QED BY <1>3, <1>4

\* Of the groups of a batch only that of a topic subscribed anew was subscribed before.
WasShape(groups, was) ==
    \A i \in DOMAIN groups :
        was \cap groups[i] = {} \/ \E t \in Topics : groups[i] = {t} /\ was \cap groups[i] = {t}

LEMMA BatchesRest ==
    ASSUME ClientTypeOK, NEW c \in Clients, NEW es \in [Topics -> Entry], NEW cs,
           NEW groups \in Seq(SUBSET Topics), NEW was, SubscribeBatches(c, es, cs, groups, was),
           Disjoint(groups), WasShape(groups, was), RestInv(c), conn'[c] # NoConn,
           \A t \in Topics : (\E i \in DOMAIN groups : t \in groups[i]) \/ es[t] = entry[c][t],
           \A t \in Topics, i \in DOMAIN groups : t \in groups[i] => es[t].status # "absent",
           \A id \in DOMAIN cs : id \in DOMAIN calls[c] /\ cs[id] = calls[c][id]
    PROVE  RestInv(c)'
<1>0. /\ ClientTypeOK /\ c \in Clients /\ es \in [Topics -> Entry] /\ groups \in Seq(SUBSET Topics)
      /\ SubscribeBatches(c, es, cs, groups, was)
  OBVIOUS
<1>1. /\ \A t \in Topics, i \in DOMAIN groups : t \in groups[i] =>
            /\ nextId[c] + i - 1 \in Nat \ {0}
            /\ entry'[c][t].inflight = nextId[c] + i - 1
            /\ es[t].status # "absent" => entry'[c][t].status # "absent"
      /\ \A t \in Topics : (\A i \in DOMAIN groups : t \notin groups[i]) => entry'[c][t] = es[t]
  BY BatchesPlaces
<1>2. ASSUME NEW t \in Topics
      PROVE  /\ entry'[c][t].status = "absent" => Vacant(entry'[c][t])
             /\ entry'[c][t].inflight = 0 /\ entry'[c][t].status # "replaying" => entry'[c][t].buffer = <<>>
  <2>1. CASE \E i \in DOMAIN groups : t \in groups[i]
    <3>1. entry'[c][t].inflight # 0 /\ entry'[c][t].status # "absent"
      BY <1>1, <2>1
    <3>2. QED BY <3>1
  <2>2. CASE \A i \in DOMAIN groups : t \notin groups[i]
    <3>1. entry'[c][t] = es[t] /\ es[t] = entry[c][t]
      BY <1>1, <2>2
    <3>2. QED BY <3>1 DEF RestInv
  <2>3. QED BY <2>1, <2>2
<1>3. ASSUME NEW id \in DOMAIN calls'[c]
      PROVE  calls'[c][id].was = {} \/ \E t \in Topics : calls'[c][id].topics = {t} /\ calls'[c][id].was = {t}
  <2>1. CASE id \in DOMAIN cs /\ calls'[c][id] = cs[id]
    <3>1. id \in DOMAIN calls[c] /\ calls'[c][id] = calls[c][id]
      BY <2>1
    <3>2. calls[c][id].was = {} \/ \E t \in Topics : calls[c][id].topics = {t} /\ calls[c][id].was = {t}
      BY <3>1 DEF RestInv
    <3>3. QED BY <3>1, <3>2
  <2>2. ASSUME NEW i \in DOMAIN groups, calls'[c][id].topics = groups[i] /\ calls'[c][id].was = was \cap groups[i]
        PROVE  calls'[c][id].was = {} \/ \E t \in Topics : calls'[c][id].topics = {t} /\ calls'[c][id].was = {t}
    <3>1. was \cap groups[i] = {} \/ \E t \in Topics : groups[i] = {t} /\ was \cap groups[i] = {t}
      BY DEF WasShape
    <3>2. QED BY ONLY <2>2, <3>1
  <2>3. \/ id \in DOMAIN cs /\ calls'[c][id] = cs[id]
        \/ \E i \in DOMAIN groups : calls'[c][id].topics = groups[i] /\ calls'[c][id].was = was \cap groups[i]
    BY ONLY <1>0, BatchesCalls
  <2>4. QED BY <2>1, <2>2, <2>3
<1>4. conn'[c] # NoConn
  OBVIOUS
<1>5. QED BY <1>2, <1>3, <1>4 DEF RestInv

\* The step that begins a batch leaves topic t alone.
Stays(c, t, k, es, cs) ==
    /\ es[t] = entry[c][t] /\ Patches(k, t)' = Patches(k, t)
    /\ entry[c][t].inflight \in DOMAIN calls[c] =>
          /\ entry[c][t].inflight \in DOMAIN cs
          /\ cs[entry[c][t].inflight] = calls[c][entry[c][t].inflight]
    /\ entry[c][t].inflight # 0 =>
          \A m \in Answers(k) : m.id = entry[c][t].inflight => m \in Answers(k)'

\* subscribeBatch, whichever handler calls it.
LEMMA BatchesDelivery ==
    ASSUME IInv, NEW c \in Clients, NEW k \in Conns, NEW es \in [Topics -> Entry], NEW cs,
           NEW groups \in Seq(SUBSET Topics), NEW was, SubscribeBatches(c, es, cs, groups, was),
           Disjoint(groups), c2s'[k] = c2s[k] \o SubscribeMsgs(c, groups), LineInv(c, k),
           Answers(k)' \subseteq Answers(k), \A t \in Topics : Sorted(s2c'[k], t),
           UNCHANGED <<lastRev, subs, lost>>,
           \A a \in Asks(k) : a.id \in DOMAIN cs /\ cs[a.id].topics = a.topics,
           \A t \in Topics :
              \/ \E i \in DOMAIN groups : t \in groups[i]
              \/ Stays(c, t, k, es, cs) /\ Agrees(c, t, k) /\ Fed(c, t, k),
           \A t \in was : (\E i \in DOMAIN groups : t \in groups[i]) => k \in subs[t] /\ Silent(c2s[k], t)
    PROVE  DeliveryLine(c, k)'
<1> DEFINE new == SubscribeMsgs(c, groups)
<1>1. /\ ClientTypeOK /\ c \in Clients /\ es \in [Topics -> Entry] /\ groups \in Seq(SUBSET Topics)
      /\ SubscribeBatches(c, es, cs, groups, was) /\ Disjoint(groups)
  BY DEF IInv, TypeOK
<1>2. /\ ClientTypeOK /\ c2s[k] \in Seq(Call) /\ nextId[c] \in Nat \ {0}
      /\ Len(groups) \in Nat /\ DOMAIN groups = 1 .. Len(groups)
  <2>1. ClientTypeOK /\ NetTypeOK
    BY DEF IInv, TypeOK
  <2>2. c2s[k] \in Seq(Call) /\ nextId[c] \in Nat \ {0}
    BY <2>1 DEF ClientTypeOK, NetTypeOK
  <2>3. QED BY <2>1, <2>2
<1>3. /\ new \in Seq(Call)
      /\ \A a \in Elems(new) : /\ a.kind = "subscribe"
                               /\ \E i \in DOMAIN groups : a.id = nextId[c] + i - 1 /\ a.topics = groups[i]
  BY <1>2, NewAsks
<1>4. \A t : /\ \A i \in DOMAIN groups : t \in groups[i] => LastAbout(new, t, SubscribeMsg(nextId[c] + i - 1, groups[i]))
             /\ (\A i \in DOMAIN groups : t \notin groups[i]) => Silent(new, t)
  BY <1>2, NewLast
<1> HIDE DEF new
<1>5. Elems(c2s'[k]) = Elems(c2s[k]) \cup Elems(new) /\ c2s'[k] = c2s[k] \o new
  BY <1>2, <1>3, QueueElems DEF new
<1>6. /\ \A a \in Asks(k) : a.id < nextId[c]
      /\ \A m \in Answers(k) : m.id < nextId[c]
  BY DEF LineInv, OrderInv
<1>7. /\ \A i \in DOMAIN groups : /\ nextId[c] + i - 1 \in DOMAIN calls'[c]
                                  /\ calls'[c][nextId[c] + i - 1].topics = groups[i]
                                  /\ calls'[c][nextId[c] + i - 1].was = was \cap groups[i]
      /\ \A id \in DOMAIN cs : id < nextId[c] => id \in DOMAIN calls'[c] /\ calls'[c][id] = cs[id]
      /\ \A id \in DOMAIN calls'[c] :
            \/ id \in DOMAIN cs /\ calls'[c][id] = cs[id]
            \/ \E i \in DOMAIN groups : calls'[c][id].topics = groups[i] /\ calls'[c][id].was = was \cap groups[i]
  BY ONLY <1>1, BatchesCalls
<1>8. /\ \A i \in DOMAIN groups : /\ nextId[c] + i - 1 \in DOMAIN calls'[c]
                                  /\ calls'[c][nextId[c] + i - 1].topics = groups[i]
                                  /\ calls'[c][nextId[c] + i - 1].was = was \cap groups[i]
      /\ \A id \in DOMAIN cs : id < nextId[c] => id \in DOMAIN calls'[c] /\ calls'[c][id] = cs[id]
  BY ONLY <1>7
<1>9. /\ \A t \in Topics, i \in DOMAIN groups : t \in groups[i] =>
            /\ nextId[c] + i - 1 \in Nat \ {0} /\ nextId[c] <= nextId[c] + i - 1
            /\ entry'[c][t].subscribed /\ entry'[c][t].inflight = nextId[c] + i - 1
      /\ \A t \in Topics : (\A i \in DOMAIN groups : t \notin groups[i]) => entry'[c][t] = es[t]
  BY ONLY <1>1, BatchesPlaces
<1>10. CallsInv(c, k)'
  <2>1. ASSUME NEW a \in Asks(k)'
        PROVE  a.id \in DOMAIN calls'[c] /\ calls'[c][a.id].topics = a.topics
    <3>1. CASE a \in Asks(k)
      BY <1>6, <1>8, <3>1
    <3>2. CASE a \in Elems(new)
      <4>1. PICK i \in DOMAIN groups : a.id = nextId[c] + i - 1 /\ a.topics = groups[i]
        BY <1>3, <3>2
      <4>2. QED BY ONLY <1>8, <4>1
    <3>3. QED BY <1>5, <3>1, <3>2 DEF Asks
  <2>2. QED BY <2>1 DEF CallsInv
<1>11. ASSUME NEW t \in Topics
      PROVE  Agrees(c, t, k)' /\ Fed(c, t, k)'
  <2>1. CASE \E i \in DOMAIN groups : t \in groups[i]
    <3>1. PICK i \in DOMAIN groups : t \in groups[i]
      BY <2>1
    <3>2. PICK id \in Nat \ {0} : id = nextId[c] + i - 1 /\ nextId[c] <= id
      <4>1. nextId[c] \in Nat \ {0} /\ i \in 1 .. Len(groups) /\ Len(groups) \in Nat
        BY <1>2
      <4>2. QED BY ONLY <4>1
    <3> DEFINE a == SubscribeMsg(id, groups[i])
    <3>3. a.id = id /\ a.kind = "subscribe" /\ a.topics = groups[i]
      BY DEF SubscribeMsg
    <3>4. LastAbout(new, t, a)
      BY <1>4, <3>1, <3>2
    <3> HIDE DEF a
    <3>5. LastAbout(c2s'[k], t, a) /\ a \in Asks(k)'
      <4>1. LastAbout(c2s'[k], t, a)
        BY <1>2, <1>3, <1>5, <3>4, LastAppended
      <4>2. QED BY <3>3, <4>1, LastIsThere DEF Asks
    <3>6. entry'[c][t].inflight = id /\ entry'[c][t].subscribed
      BY <1>9, <3>1, <3>2
    <3>7. id \in DOMAIN calls'[c] /\ calls'[c][id].topics = groups[i] /\ calls'[c][id].was = was \cap groups[i]
      BY <1>8, <3>2
    <3>8. \A m \in Answers(k)' : m.id # id
      <4>1. ASSUME NEW m \in Answers(k), m.id = id
            PROVE  FALSE
        BY <1>2, <1>6, <3>2, <4>1
      <4>2. QED BY <4>1
    <3>9. ASSUME t \in calls'[c][id].was
          PROVE  k \in subs'[t] /\ \A m \in Elems(c2s'[k]) : t \in m.topics => m.kind = "subscribe"
      <4>1. k \in subs[t] /\ Silent(c2s[k], t)
        BY <2>1, <3>7, <3>9
      <4>2. QED BY <1>3, <1>5, <4>1 DEF Silent
    <3>10. /\ c \in Clients /\ t \in Topics /\ k \in Conns /\ id \in Nat \ {0}
           /\ t \in calls'[c][id].topics /\ Sorted(s2c'[k], t)
      BY <3>1, <3>2, <3>7
    <3>11. QED BY ONLY <3>3, <3>5, <3>6, <3>7, <3>8, <3>9, <3>10, AskedLine
  <2>2. CASE \A i \in DOMAIN groups : t \notin groups[i]
    <3>1. /\ es[t] = entry[c][t] /\ Agrees(c, t, k) /\ Fed(c, t, k) /\ Patches(k, t)' = Patches(k, t)
          /\ entry[c][t].inflight \in DOMAIN calls[c] =>
                /\ entry[c][t].inflight \in DOMAIN cs
                /\ cs[entry[c][t].inflight] = calls[c][entry[c][t].inflight]
          /\ entry[c][t].inflight # 0 =>
                \A m \in Answers(k) : m.id = entry[c][t].inflight => m \in Answers(k)'
      BY <2>2 DEF Stays
    <3>2. entry'[c][t] = entry[c][t]
      BY <1>9, <2>2, <3>1
    <3>3. QueueKeeps(c2s[k], c2s'[k], t)
      BY <1>2, <1>3, <1>4, <1>5, <2>2, KeepsAppended
    <3>4. Agrees(c, t, k)'
      <4>1. entry[c][t].inflight < nextId[c]
        BY DEF LineInv, EntryInv, LastAsked
      <4>2. entry[c][t].inflight \in DOMAIN calls[c] =>
              /\ entry[c][t].inflight \in DOMAIN calls'[c]
              /\ calls'[c][entry[c][t].inflight] = calls[c][entry[c][t].inflight]
        BY <1>8, <3>1, <4>1
      <4>3. QED BY <3>1, <3>2, <3>3, <4>2, AgreesKeeps
    <3>5. Fed(c, t, k)'
      <4>1. Waiting(c, t, k)' = Waiting(c, t, k)
        BY <3>1, <3>2 DEF Waiting
      <4>2. QED BY <3>1, <3>2, <4>1, FedKeeps
    <3>6. QED BY <3>4, <3>5
  <2>3. QED BY <2>1, <2>2
<1>12. QED BY <1>10, <1>11 DEF DeliveryLine
-----------------------------------------------------------------------------
(* The steps of a client, for the client itself *)

OwnDelivery(c) == RestInv(c) /\ (Connected(c) => DeliveryLine(c, conn[c]))

\* subscribeBatch over the socket c has.
LEMMA BatchesOwnDelivery ==
    ASSUME IInv, FlowInv, NEW c \in Clients, RestInv(c), NEW k \in Conns, k = conn[c],
           NEW es \in [Topics -> Entry], NEW cs, NEW groups \in Seq(SUBSET Topics), NEW was,
           SubscribeBatches(c, es, cs, groups, was), Post(k, SubscribeMsgs(c, groups)),
           Disjoint(groups), WasShape(groups, was), UNCHANGED <<lastRev, subs, lost, conn, link>>,
           \A t \in Topics : (\E i \in DOMAIN groups : t \in groups[i]) \/ es[t] = entry[c][t],
           \A t \in Topics, i \in DOMAIN groups : t \in groups[i] => es[t].status # "absent",
           \A id \in DOMAIN cs : id \in DOMAIN calls[c] /\ cs[id] = calls[c][id],
           Connected(c) =>
              /\ DeliveryLine(c, k)
              /\ Answers(k)' \subseteq Answers(k)
              /\ \A t \in Topics : Sorted(s2c'[k], t)
              /\ \A a \in Asks(k) : a.id \in DOMAIN cs
              /\ \A t \in Topics :
                    \/ \E i \in DOMAIN groups : t \in groups[i]
                    \/ Stays(c, t, k, es, cs)
              /\ \A t \in was : (\E i \in DOMAIN groups : t \in groups[i]) => k \in subs[t] /\ Silent(c2s[k], t)
    PROVE  OwnDelivery(c)'
<1>1. ClientTypeOK /\ NetTypeOK /\ k # NoConn /\ conn'[c] = k
  BY DEF IInv, TypeOK
<1>2. RestInv(c)'
  BY <1>1, BatchesRest
<1>3. ASSUME Connected(c)
      PROVE  DeliveryLine(c, k)'
  <2>1. c2s'[k] = c2s[k] \o SubscribeMsgs(c, groups)
    <3>1. NetTypeOK /\ k \in Conns /\ Post(k, SubscribeMsgs(c, groups)) /\ link[k] = "up"
      BY <1>1, <1>3 DEF Connected
    <3>2. QED BY ONLY <3>1, PostEffect
  <2>2. LineInv(c, k)
    BY <1>3 DEF FlowInv
  <2>3. /\ \A a \in Asks(k) : a.id \in DOMAIN cs /\ cs[a.id].topics = a.topics
        /\ \A t \in Topics :
              \/ \E i \in DOMAIN groups : t \in groups[i]
              \/ Stays(c, t, k, es, cs) /\ Agrees(c, t, k) /\ Fed(c, t, k)
    BY <1>3 DEF DeliveryLine, CallsInv
  <2>4. /\ Answers(k)' \subseteq Answers(k)
        /\ \A t \in Topics : Sorted(s2c'[k], t)
        /\ \A t \in was : (\E i \in DOMAIN groups : t \in groups[i]) => k \in subs[t] /\ Silent(c2s[k], t)
    BY <1>3
  <2>5. /\ IInv /\ c \in Clients /\ k \in Conns /\ es \in [Topics -> Entry] /\ groups \in Seq(SUBSET Topics)
        /\ SubscribeBatches(c, es, cs, groups, was) /\ Disjoint(groups) /\ UNCHANGED <<lastRev, subs, lost>>
    OBVIOUS
  <2>6. QED BY ONLY <2>1, <2>2, <2>3, <2>4, <2>5, BatchesDelivery
<1>4. QED BY <1>1, <1>2, <1>3 DEF OwnDelivery, Connected

\* The shape of a batch of one group.
LEMMA OneGroupShape ==
    ASSUME NEW groups, DOMAIN groups = {1}, NEW was, was = {} \/ \E t \in Topics : groups[1] = {t} /\ was = {t}
    PROVE  WasShape(groups, was)
  BY DEF WasShape

LEMMA AcquireDelivery ==
    ASSUME IInv, FlowInv, NEW c \in Clients, OwnDelivery(c), NEW T \in SUBSET Topics, Acquire(c, T)
    PROVE  OwnDelivery(c)'
<1> DEFINE es == [t \in Topics |-> IF t \in T /\ entry[c][t].status = "absent" THEN FreshEntry ELSE entry[c][t]]
           added == {t \in T : ~es[t].subscribed}
<1>1. UNCHANGED <<serverVars, link, s2c, conn, faultVars>>
  BY DEF Acquire
<1>2. ClientTypeOK /\ NetTypeOK /\ RestInv(c) /\ UNCHANGED <<subs, lastRev, lost, reply>>
  BY <1>1 DEF IInv, TypeOK, OwnDelivery, serverVars, hubVars, faultVars
<1>3. /\ es \in [Topics -> Entry]
      /\ \A t \in Topics : es[t] = entry[c][t] \/ (t \in T /\ es[t] = FreshEntry)
      /\ \A t \in T : es[t].status # "absent"
  BY <1>2, EntryTypes, SMTT(30) DEF ClientTypeOK, FreshEntry, NoEntry
<1>4. /\ FreshEntry.status = "subscribing" /\ ~FreshEntry.subscribed
      /\ FreshEntry.inflight = 0 /\ FreshEntry.buffer = <<>>
  BY DEF FreshEntry, NoEntry
<1>5. CASE conn[c] = NoConn
  <2>1. entry' = [entry EXCEPT ![c] = es] /\ calls' = calls
    BY <1>5 DEF Acquire
  <2>2. entry'[c] = es /\ conn'[c] = NoConn
    BY <1>1, <1>2, <1>5, <2>1 DEF ClientTypeOK
  <2> HIDE DEF es
  <2>3. RestInv(c)'
    BY <1>2, <1>3, <1>4, <1>5, <2>1, <2>2 DEF RestInv, Vacant
  <2>4. QED BY <2>2, <2>3 DEF OwnDelivery, Connected
<1>6. CASE conn[c] # NoConn
  <2> DEFINE groups == <<added>>
             cs == calls[c]
             was == {}
  <2>1. SubscribeBatches(c, es, cs, groups, was) /\ Post(conn[c], SubscribeMsgs(c, groups))
    BY <1>6 DEF Acquire
  <2>2. PICK k \in Conns : k = conn[c]
    BY <1>2, <1>6 DEF ClientTypeOK
  <2>3. groups \in Seq(SUBSET Topics) /\ DOMAIN groups = {1} /\ groups[1] = added
    BY SingletonGroups
  <2>4. \A t \in Topics : t \in added \/ es[t] = entry[c][t]
    BY <1>3, <1>4
  <2>5. \A t \in added : es[t].status # "absent"
    BY <1>3
  <2>6. Answers(k)' = Answers(k) /\ \A t \in Topics : Patches(k, t)' = Patches(k, t)
    BY <1>1, <1>2, NothingRead
  <2> HIDE DEF es, added, groups, was
  <2>7. Disjoint(groups) /\ WasShape(groups, was)
    BY <2>3, OneGroup, OneGroupShape DEF was
  <2>8. /\ \A t \in Topics : (\E i \in DOMAIN groups : t \in groups[i]) \/ es[t] = entry[c][t]
        /\ \A t \in Topics, i \in DOMAIN groups : t \in groups[i] => es[t].status # "absent"
    BY <2>3, <2>4, <2>5
  <2>9. \A id \in DOMAIN cs : id \in DOMAIN calls[c] /\ cs[id] = calls[c][id]
    OBVIOUS
  <2>10. Connected(c) =>
            /\ DeliveryLine(c, k)
            /\ \A t \in Topics : Sorted(s2c'[k], t)
            /\ \A a \in Asks(k) : a.id \in DOMAIN cs
    BY <1>1, <2>2 DEF OwnDelivery, DeliveryLine, Fed, CallsInv
  <2>11. \A t \in was : (\E i \in DOMAIN groups : t \in groups[i]) => k \in subs[t] /\ Silent(c2s[k], t)
    BY DEF was
  <2>12. Connected(c) =>
            /\ DeliveryLine(c, k)
            /\ Answers(k)' \subseteq Answers(k)
            /\ \A t \in Topics : Sorted(s2c'[k], t)
            /\ \A a \in Asks(k) : a.id \in DOMAIN cs
            /\ \A t \in Topics :
                  \/ \E i \in DOMAIN groups : t \in groups[i]
                  \/ Stays(c, t, k, es, cs)
            /\ \A t \in was : (\E i \in DOMAIN groups : t \in groups[i]) => k \in subs[t] /\ Silent(c2s[k], t)
    BY <2>6, <2>8, <2>10, <2>11 DEF Stays
  <2> HIDE DEF cs
  <2>13. /\ IInv /\ FlowInv /\ c \in Clients /\ RestInv(c) /\ k \in Conns /\ k = conn[c]
         /\ es \in [Topics -> Entry] /\ groups \in Seq(SUBSET Topics)
         /\ SubscribeBatches(c, es, cs, groups, was) /\ Post(k, SubscribeMsgs(c, groups))
         /\ UNCHANGED <<lastRev, subs, lost, conn, link>>
    BY <1>1, <1>2, <1>3, <2>1, <2>2, <2>3
  <2>14. QED BY ONLY <2>7, <2>8, <2>9, <2>12, <2>13, BatchesOwnDelivery
<1>7. QED BY <1>5, <1>6
LEMMA ReleaseDelivery ==
    ASSUME IInv, FlowInv, NEW c \in Clients, OwnDelivery(c), NEW t \in Topics, Release(c, t)
    PROVE  OwnDelivery(c)'
<1>1. /\ UNCHANGED <<serverVars, link, s2c, conn, calls, nextId, faultVars>>
      /\ entry' = [entry EXCEPT ![c][t] = NoEntry]
      /\ \/ /\ conn[c] # NoConn /\ entry[c][t].subscribed
            /\ Post(conn[c], <<UnsubscribeMsg({t})>>)
         \/ /\ conn[c] = NoConn \/ ~entry[c][t].subscribed
            /\ c2s' = c2s
  BY DEF Release, Unsubscribes
<1>2. ClientTypeOK /\ NetTypeOK /\ RestInv(c) /\ UNCHANGED <<subs, lastRev, lost, reply>>
  BY <1>1 DEF IInv, TypeOK, OwnDelivery, serverVars, hubVars, faultVars
<1>3. /\ entry'[c][t] = NoEntry
      /\ \A u \in Topics : u # t => entry'[c][u] = entry[c][u]
  BY <1>1, <1>2 DEF ClientTypeOK
<1>4. NoEntry.status = "absent" /\ NoEntry.inflight = 0 /\ NoEntry.buffer = <<>> /\ ~NoEntry.subscribed
  BY DEF NoEntry
<1>5. RestInv(c)'
  BY <1>1, <1>2, <1>3, <1>4 DEF RestInv, Vacant
<1>6. ASSUME Connected(c)
      PROVE  DeliveryLine(c, conn[c])'
  <2>1. PICK k \in Conns : k = conn[c] /\ k # NoConn /\ conn'[c] = k
    BY <1>1, <1>2, <1>6 DEF Connected, ClientTypeOK
  <2>2. DeliveryLine(c, k) /\ link[k] = "up" /\ c2s[k] \in Seq(Call)
    BY <1>2, <1>6, <2>1 DEF OwnDelivery, Connected, NetTypeOK
  <2>3. Answers(k)' = Answers(k) /\ \A u \in Topics : Patches(k, u)' = Patches(k, u) /\ s2c'[k] = s2c[k]
    BY <1>1, <1>2, NothingRead
  <2> DEFINE m == UnsubscribeMsg({t})
             r == <<m>>
  <2>4. m \in Call /\ m.kind = "unsubscribe" /\ m.topics = {t}
    BY MessageTypes DEF UnsubscribeMsg
  <2> HIDE DEF m
  <2>5. r \in Seq(Call) /\ DOMAIN r = {1} /\ r[1] = m
    BY <2>4
  <2> HIDE DEF r
  <2>6. LastAbout(r, t, m) /\ Elems(r) = {m} /\ \A u \in Topics : u # t => Silent(r, u)
    BY <2>4, <2>5 DEF LastAbout, Elems, Silent
  <2>7. entry[c][t].subscribed => c2s'[k] = c2s[k] \o r
    <3>1. ASSUME entry[c][t].subscribed
          PROVE  Post(k, r)
      BY <1>1, <2>1, <3>1 DEF r, m
    <3>2. QED BY <1>2, <2>2, <3>1, PostEffect
  <2>8. ~entry[c][t].subscribed => c2s'[k] = c2s[k]
    BY <1>1
  <2>9. CallsInv(c, k)'
    <3>1. Elems(c2s[k] \o r) = Elems(c2s[k]) \cup Elems(r)
      BY <2>2, <2>5, QueueElems
    <3>2. Asks(k)' \subseteq Asks(k)
      BY <2>4, <2>6, <2>7, <2>8, <3>1 DEF Asks
    <3>3. QED BY <1>1, <2>2, <3>2 DEF DeliveryLine, CallsInv
  <2>10. Agrees(c, t, k)'
    <3>1. CASE entry[c][t].subscribed
      <4>1. LastAbout(c2s[k] \o r, t, m)
        <5>1. c2s[k] \in Seq(Call) /\ r \in Seq(Call) /\ LastAbout(r, t, m)
          BY <2>2, <2>5, <2>6
        <5>2. QED BY ONLY <5>1, LastAppended
      <4>2. LastAbout(c2s'[k], t, m)
        BY <2>7, <3>1, <4>1
      <4>3. m \in Elems(c2s'[k])
        BY <4>2, LastIsThere
      <4>4. QED BY <1>3, <1>4, <2>4, <4>2, <4>3 DEF Agrees, IdleInv, AskedInv, Holds
    <3>2. CASE ~entry[c][t].subscribed
      <4>1. Agrees(c, t, k)
        BY <2>2 DEF DeliveryLine
      <4>2. \/ Silent(c2s[k], t) /\ k \notin subs[t]
            \/ \E x \in Elems(c2s[k]) : x.kind = "unsubscribe" /\ LastAbout(c2s[k], t, x)
        BY <3>2, <4>1 DEF Agrees, IdleInv, AskedInv
      <4>3. QED BY <1>2, <1>3, <1>4, <2>8, <3>2, <4>2 DEF Agrees, IdleInv, AskedInv, Holds
    <3>3. QED BY <3>1, <3>2
  <2>11. ASSUME NEW u \in Topics, u # t
         PROVE  Agrees(c, u, k)'
    <3>1. QueueKeeps(c2s[k], c2s'[k], u)
      <4>1. QueueKeeps(c2s[k], c2s[k] \o r, u)
        <5>1. c2s[k] \in Seq(Call) /\ r \in Seq(Call) /\ Silent(r, u)
          BY <2>2, <2>5, <2>6, <2>11
        <5>2. QED BY ONLY <5>1, KeepsAppended
      <4>2. QueueKeeps(c2s[k], c2s[k], u)
        BY KeepsSame
      <4>3. QED BY <2>7, <2>8, <4>1, <4>2
    <3>2. Agrees(c, u, k) /\ entry'[c][u] = entry[c][u] /\ calls' = calls /\ subs' = subs
      BY <1>1, <1>2, <1>3, <2>2, <2>11 DEF DeliveryLine
    <3>3. QED BY <2>3, <3>1, <3>2, AgreesKeeps
  <2>12. ASSUME NEW u \in Topics
         PROVE  Fed(c, u, k)'
    <3>1. Fed(c, u, k) /\ Sorted(s2c'[k], u)
      BY <2>2, <2>3 DEF DeliveryLine, Fed
    <3>2. CASE u = t
      BY <1>3, <1>4, <3>1, <3>2, FedEmpty DEF Holds
    <3>3. CASE u # t
      <4>1. entry'[c][u] = entry[c][u] /\ Waiting(c, u, k)' = Waiting(c, u, k)
        BY <1>3, <2>3, <3>3 DEF Waiting
      <4>2. QED BY <1>2, <2>3, <3>1, <4>1, FedKeeps
    <3>4. QED BY <3>2, <3>3
  <2>13. DeliveryLine(c, k)'
    BY <2>9, <2>10, <2>11, <2>12 DEF DeliveryLine
  <2>14. QED BY <2>1, <2>13
<1>7. QED BY <1>1, <1>5, <1>6 DEF OwnDelivery, Connected

\* What client c reads is the first frame on its socket, and the rest stays.
LEMMA ReadEffect ==
    ASSUME NetTypeOK, ClientTypeOK, NEW c \in Clients, NEW kind, Arrives(c, kind), Consume(c), reply' = reply,
           NEW k \in Conns, k = conn[c]
    PROVE  /\ kind # "patch" => /\ \A t \in Topics : Patches(k, t)' = Patches(k, t)
                                /\ \A m \in Answers(k) : m = Head(s2c[k]) \/ m \in Answers(k)'
           /\ kind = "patch" => /\ Answers(k)' = Answers(k)
                                /\ \A t \in Topics : \A p \in Patches(k, t) : p = Head(s2c[k]) \/ p \in Patches(k, t)'
           /\ \A t \in Topics : Sorted(s2c[k], t) => Sorted(s2c'[k], t)
<1>1. s2c[k] \in Seq(Answer \cup Patch) /\ s2c[k] # <<>> /\ s2c'[k] = Tail(s2c[k]) /\ Head(s2c[k]).kind = kind
  BY DEF Arrives, Consume, NetTypeOK
<1>2. /\ Elems(s2c'[k]) \subseteq Elems(s2c[k])
      /\ \A m \in Elems(s2c[k]) : m = Head(s2c[k]) \/ m \in Elems(s2c'[k])
  BY <1>1, QueueElems
<1>3. \A t \in Topics : Sorted(s2c[k], t) => Sorted(s2c'[k], t)
  BY <1>1, SortedTail
<1>4. QED BY <1>1, <1>2, <1>3 DEF Answers, Patches
\* The entries that a step of c changes keep their shape, and no call is new.
LEMMA RestMoves ==
    ASSUME NEW c \in Clients, RestInv(c), conn'[c] # NoConn,
           \A t \in Topics :
              \/ entry'[c][t] = entry[c][t]
              \/ /\ entry'[c][t].status # "absent"
                 /\ entry'[c][t].inflight = 0 /\ entry'[c][t].status # "replaying" => entry'[c][t].buffer = <<>>,
           \A id \in DOMAIN calls'[c] : id \in DOMAIN calls[c] /\ calls'[c][id] = calls[c][id]
    PROVE  RestInv(c)'
<1>1. ASSUME NEW t \in Topics
      PROVE  /\ entry'[c][t].status = "absent" => Vacant(entry'[c][t])
             /\ entry'[c][t].inflight = 0 /\ entry'[c][t].status # "replaying" => entry'[c][t].buffer = <<>>
  BY DEF RestInv
<1>2. ASSUME NEW id \in DOMAIN calls'[c]
      PROVE  calls'[c][id].was = {} \/ \E t \in Topics : calls'[c][id].topics = {t} /\ calls'[c][id].was = {t}
  <2>1. id \in DOMAIN calls[c] /\ calls'[c][id] = calls[c][id]
    OBVIOUS
  <2>2. QED BY <2>1 DEF RestInv
<1>3. QED BY <1>1, <1>2 DEF RestInv

\* A topic that a step of c on its line does not touch.
LEMMA TopicKeeps ==
    ASSUME NEW c \in Clients, NEW t \in Topics, NEW k \in Conns, Agrees(c, t, k), Fed(c, t, k),
           c2s'[k] = c2s[k], UNCHANGED <<subs, lastRev, lost>>, entry'[c][t] = entry[c][t],
           Answers(k)' \subseteq Answers(k), Patches(k, t)' = Patches(k, t), Sorted(s2c'[k], t),
           entry[c][t].inflight \in DOMAIN calls[c] =>
              /\ entry[c][t].inflight \in DOMAIN calls'[c]
              /\ calls'[c][entry[c][t].inflight] = calls[c][entry[c][t].inflight],
           entry[c][t].inflight # 0 =>
              \A m \in Answers(k) : m.id = entry[c][t].inflight => m \in Answers(k)'
    PROVE  Agrees(c, t, k)' /\ Fed(c, t, k)'
<1>1. QueueKeeps(c2s[k], c2s'[k], t)
  BY KeepsSame
<1>2. Agrees(c, t, k)'
  BY <1>1, AgreesKeeps
<1>3. Waiting(c, t, k)' = Waiting(c, t, k)
  BY DEF Waiting
<1>4. Fed(c, t, k)'
  BY <1>3, FedKeeps
<1>5. QED BY <1>2, <1>4

\* A replica goes on by a patch, or passes over one that it no longer needs.
LEMMA FedMoves ==
    ASSUME NEW c \in Clients, NEW t \in Topics, NEW k \in Conns, Fed(c, t, k), Sorted(s2c'[k], t),
           UNCHANGED <<subs, lastRev, lost>>, Settles(entry[c][t]), entry'[c][t].inflight = 0,
           NEW p, Waiting(c, t, k) \subseteq Waiting(c, t, k)' \cup {p},
           entry[c][t].rev \in Nat, entry'[c][t].rev \in Nat, p.rev \in Nat,
           p.rev <= entry'[c][t].rev, entry[c][t].rev <= entry'[c][t].rev, lastRev[t] \in Nat
    PROVE  Fed(c, t, k)'
<1>1. ASSUME lost = 0, k \in subs[t], NEW r \in entry'[c][t].rev + 1 .. lastRev[t]
      PROVE  \E q \in Waiting(c, t, k)' : q.rev = r
  <2>1. r \in entry[c][t].rev + 1 .. lastRev[t] /\ r # p.rev
    BY <1>1
  <2>2. PICK q \in Waiting(c, t, k) : q.rev = r
    BY <1>1, <2>1 DEF Fed, HeldComplete, Complete
  <2>3. QED BY <2>1, <2>2
<1>2. HeldComplete(c, t, k)'
  BY <1>1 DEF HeldComplete, Complete
<1>3. SnapsComplete(c, t, k)'
  BY DEF SnapsComplete
<1>4. QED BY <1>2, <1>3 DEF Fed

LEMMA TakeParts ==
    ASSUME NEW e \in Entry, NEW snap
    PROVE  /\ Take(e, snap).status = "replaying" /\ Take(e, snap).inflight = 0
           /\ Take(e, snap).buffer = e.buffer /\ Take(e, snap).rev = snap.rev
           /\ Take(e, snap).subscribed = e.subscribed
  BY DEF Take, Entry

LEMMA FailHolds ==
    ASSUME NEW e \in Entry, NEW kept
    PROVE  Fail(e, kept).status = "error" /\ Fail(e, kept).subscribed = kept
  BY DEF Fail, Entry

\* The answer at the head of the queue is that of an earlier call than those still asked.
LEMMA HeadAnswers ==
    ASSUME IInv, NEW c \in Clients, NEW k \in Conns, LineInv(c, k), CallsInv(c, k),
           NEW msg \in Answers(k)
    PROVE  /\ \A a \in Asks(k) : a.id # msg.id
           /\ \A a \in Asks(k) : a.id \in DOMAIN calls[c] /\ calls[c][a.id].topics = a.topics
<1>1. c2s[k] \in Seq(Call) /\ s2c[k] \in Seq(Answer \cup Patch) /\ reply.msg \in Answer
  BY DEF IInv, TypeOK, NetTypeOK
<1>2. \A a \in Asks(k) : a.id \in Nat
  <2>1. Elems(c2s[k]) \subseteq Call
    BY <1>1, QueueElems
  <2>2. QED BY <2>1 DEF Asks, Call
<1>3. msg \in Answer
  <2>1. Elems(s2c[k]) \subseteq Answer \cup Patch
    BY <1>1, QueueElems
  <2>2. QED BY <1>1, <2>1 DEF Answers, Patch
<1>4. msg.id \in Nat
  BY <1>3 DEF Answer, Result, Failure
<1>5. \A a \in Asks(k) : msg.id < a.id
  BY DEF LineInv, OrderInv
<1>6. QED BY <1>2, <1>4, <1>5 DEF CallsInv

\* What the line of c keeps when c has read the answer msg: every topic whose
\* call msg does not answer.
LEMMA AnsweredLine ==
    ASSUME IInv, NEW c \in Clients, NEW k \in Conns, LineInv(c, k), DeliveryLine(c, k),
           NEW msg \in Answers(k), msg.id \in Nat, c2s'[k] = c2s[k], UNCHANGED <<subs, lastRev, lost>>,
           Answers(k)' \subseteq Answers(k), \A m \in Answers(k) : m = msg \/ m \in Answers(k)',
           \A t \in Topics : Patches(k, t)' = Patches(k, t) /\ Sorted(s2c'[k], t),
           calls'[c] = Settled(c, msg.id),
           \A t \in Topics :
              \/ /\ msg.id = 0 \/ entry[c][t].inflight # msg.id
                 /\ entry'[c][t] = entry[c][t]
              \/ /\ msg.id # 0 /\ entry[c][t].inflight = msg.id
                 /\ (t \in calls[c][msg.id].topics /\ Silent(c2s[k], t) /\ Pends(c, t, k, msg.id)
                     => Agrees(c, t, k)' /\ Fed(c, t, k)')
    PROVE  DeliveryLine(c, k)'
<1>1. /\ \A a \in Asks(k) : a.id # msg.id
      /\ \A a \in Asks(k) : a.id \in DOMAIN calls[c] /\ calls[c][a.id].topics = a.topics
  BY HeadAnswers DEF DeliveryLine
<1>2. \A i \in DOMAIN calls[c] : i # msg.id => i \in DOMAIN calls'[c] /\ calls'[c][i] = calls[c][i]
  BY DEF Settled
<1>3. CallsInv(c, k)'
  BY <1>1, <1>2 DEF CallsInv, Asks
<1>4. 0 \notin DOMAIN calls[c]
  BY DEF IInv, TypeOK, ClientTypeOK
<1>5. ASSUME NEW t \in Topics
      PROVE  Agrees(c, t, k)' /\ Fed(c, t, k)'
  <2>1. Agrees(c, t, k) /\ Fed(c, t, k)
    BY DEF DeliveryLine
  <2>2. CASE /\ msg.id = 0 \/ entry[c][t].inflight # msg.id
             /\ entry'[c][t] = entry[c][t]
    <3>1. entry[c][t].inflight \in DOMAIN calls[c] =>
              /\ entry[c][t].inflight \in DOMAIN calls'[c]
              /\ calls'[c][entry[c][t].inflight] = calls[c][entry[c][t].inflight]
      BY <1>2, <1>4, <2>2
    <3>2. entry[c][t].inflight # 0 =>
              \A m \in Answers(k) : m.id = entry[c][t].inflight => m \in Answers(k)'
      BY <2>2
    <3>3. QED BY <2>1, <2>2, <3>1, <3>2, TopicKeeps
  <2>3. CASE msg.id # 0 /\ entry[c][t].inflight = msg.id
    <3>1. Pends(c, t, k, msg.id)
      BY <2>1, <2>3 DEF Agrees, AskedInv
    <3>2. t \in calls[c][msg.id].topics /\ Silent(c2s[k], t)
      BY <1>1, <3>1 DEF Pends
    <3>3. QED BY <2>3, <3>1, <3>2
  <2>4. QED BY <2>2, <2>3
<1>6. QED BY <1>3, <1>5 DEF DeliveryLine
LEMMA ReceiveResultDelivery ==
    ASSUME IInv, FlowInv, NEW c \in Clients, OwnDelivery(c), ReceiveResult(c)
    PROVE  OwnDelivery(c)'
<1> DEFINE msg == Head(s2c[conn[c]])
           call == PendingCall(c, msg.id)
           answered(e, t) == IF t \in DOMAIN msg.snaps THEN Take(e, msg.snaps[t]) ELSE Fail(e, t \in call.was)
           es == [t \in Topics |-> IF t \in call.topics /\ Accepts(entry[c][t], msg.id)
                                     THEN answered(entry[c][t], t) ELSE entry[c][t]]
<1>1. /\ UNCHANGED <<serverVars, link, c2s, conn, nextId, faultVars>>
      /\ entry' = [entry EXCEPT ![c] = es]
      /\ calls' = [calls EXCEPT ![c] = Settled(c, msg.id)]
      /\ Arrives(c, "result") /\ Consume(c)
  BY DEF ReceiveResult
<1>2. ClientTypeOK /\ NetTypeOK /\ RestInv(c)
  BY DEF IInv, TypeOK, OwnDelivery
<1>3. PICK k \in Conns : k = conn[c]
  BY <1>1, <1>2 DEF Arrives, ClientTypeOK
<1>4. k # NoConn /\ UNCHANGED <<lastRev, subs, lost, reply>> /\ conn' = conn /\ link' = link /\ c2s'[k] = c2s[k]
  BY <1>1 DEF serverVars, hubVars, faultVars
<1>5. /\ msg \in Answers(k) /\ msg.kind = "result" /\ msg \in Answer \cup Patch
      /\ Answers(k)' \subseteq Answers(k)
  BY <1>1, <1>2, <1>3, <1>4, ConsumeEffect
<1>6. /\ \A t \in Topics : Patches(k, t)' = Patches(k, t)
      /\ \A m \in Answers(k) : m = msg \/ m \in Answers(k)'
      /\ \A t \in Topics : Sorted(s2c[k], t) => Sorted(s2c'[k], t)
  BY <1>1, <1>2, <1>3, <1>4, ReadEffect
<1>7. calls'[c] = Settled(c, msg.id) /\ msg.id \in Nat
  <2>1. msg \in Result
    BY <1>5, Kinds
  <2>2. QED BY <1>1, <1>2, <2>1 DEF ClientTypeOK, Result
<1>8. \A t \in Topics : entry'[c][t] = es[t] /\ entry[c][t] \in Entry
  BY <1>1, <1>2 DEF ClientTypeOK
<1>9. 0 \notin DOMAIN calls[c]
  BY <1>2 DEF ClientTypeOK
<1>10. ASSUME NEW t \in Topics
       PROVE  \/ entry'[c][t] = entry[c][t] /\ ~(t \in call.topics /\ entry[c][t].inflight = msg.id)
              \/ /\ entry[c][t].inflight = msg.id /\ t \in call.topics
                 /\ \/ t \in DOMAIN msg.snaps /\ entry'[c][t] = Take(entry[c][t], msg.snaps[t])
                    \/ t \notin DOMAIN msg.snaps /\ entry'[c][t] = Fail(entry[c][t], t \in call.was)
  BY <1>8 DEF Accepts
<1>11. RestInv(c)'
  <2>1. \A id \in DOMAIN calls'[c] : id \in DOMAIN calls[c] /\ calls'[c][id] = calls[c][id]
    BY <1>7 DEF Settled
  <2> HIDE DEF msg, call, es
  <2>2. ASSUME NEW t \in Topics
        PROVE  \/ entry'[c][t] = entry[c][t]
               \/ /\ entry'[c][t].status # "absent"
                  /\ entry'[c][t].inflight = 0 /\ entry'[c][t].status # "replaying" => entry'[c][t].buffer = <<>>
    <3>1. CASE entry'[c][t] = Take(entry[c][t], msg.snaps[t])
      BY <1>8, <3>1, TakeParts
    <3>2. CASE entry'[c][t] = Fail(entry[c][t], t \in call.was)
      BY <1>8, <3>2, FailParts
    <3>3. QED BY <1>10, <3>1, <3>2
  <2>3. conn'[c] # NoConn
    BY <1>3, <1>4
  <2>4. QED BY <1>2, <2>1, <2>2, <2>3, RestMoves
<1>12. ASSUME Connected(c)
       PROVE  DeliveryLine(c, k)'
  <2>1. LineInv(c, k) /\ DeliveryLine(c, k)
    BY <1>3, <1>12 DEF FlowInv, OwnDelivery
  <2>2. \A t \in Topics : Fed(c, t, k) /\ Sorted(s2c'[k], t)
    BY <1>6, <2>1 DEF DeliveryLine, Fed
  <2>3. call.topics = IF msg.id \in DOMAIN calls[c] THEN calls[c][msg.id].topics ELSE {}
    BY DEF PendingCall
  <2> HIDE DEF msg, call, es
  <2>4. ASSUME NEW t \in Topics
        PROVE  \/ /\ msg.id = 0 \/ entry[c][t].inflight # msg.id
                  /\ entry'[c][t] = entry[c][t]
               \/ /\ msg.id # 0 /\ entry[c][t].inflight = msg.id
                  /\ (t \in calls[c][msg.id].topics /\ Silent(c2s[k], t) /\ Pends(c, t, k, msg.id)
                      => Agrees(c, t, k)' /\ Fed(c, t, k)')
    <3>1. CASE msg.id = 0 \/ entry[c][t].inflight # msg.id
      BY <1>9, <1>10, <2>3, <3>1
    <3>2. CASE msg.id # 0 /\ entry[c][t].inflight = msg.id
      <4>1. ASSUME t \in calls[c][msg.id].topics, Silent(c2s[k], t), Pends(c, t, k, msg.id)
            PROVE  Agrees(c, t, k)' /\ Fed(c, t, k)'
        <5>1. t \in DOMAIN msg.snaps /\ k \in subs[t] /\ t \in call.topics
          BY <1>5, <2>3, <4>1 DEF Pends, Answered
        <5>2. entry[c][t].subscribed
          BY <2>1, <3>2 DEF DeliveryLine, Agrees, AskedInv
        <5>3. entry'[c][t] = Take(entry[c][t], msg.snaps[t])
          BY <1>10, <3>2, <5>1
        <5>4. /\ entry'[c][t].status = "replaying" /\ entry'[c][t].inflight = 0 /\ entry'[c][t].subscribed
              /\ entry'[c][t].buffer = entry[c][t].buffer /\ entry'[c][t].rev = msg.snaps[t].rev
          BY <1>8, <5>2, <5>3, TakeParts
        <5>5. Agrees(c, t, k)'
          BY <1>4, <4>1, <5>1, <5>4 DEF Agrees, IdleInv, AskedInv, Holds
        <5>6. Waiting(c, t, k)' = Waiting(c, t, k)
          BY <1>6, <5>4 DEF Waiting
        <5>7. lost = 0 => Complete(msg.snaps[t], c, t, k)
          BY <1>5, <2>2, <3>2, <5>1 DEF Fed, SnapsComplete, AnswerFor
        <5>8. lost' = lost /\ lastRev' = lastRev
          BY <1>4
        <5>9. HeldComplete(c, t, k)'
          BY <5>4, <5>6, <5>7, <5>8 DEF HeldComplete, Complete
        <5>10. SnapsComplete(c, t, k)'
          BY <5>4 DEF SnapsComplete
        <5>11. QED BY <2>2, <5>5, <5>9, <5>10 DEF Fed
      <4>2. QED BY <3>2, <4>1
    <3>3. QED BY <3>1, <3>2
  <2>5. QED BY <1>4, <1>5, <1>6, <1>7, <2>1, <2>2, <2>4, AnsweredLine
<1>13. QED BY <1>3, <1>4, <1>11, <1>12 DEF OwnDelivery, Connected
\* A topic is subscribed anew because of a gap: the hub feeds it on this socket.
LEMMA GapDelivery ==
    ASSUME IInv, FlowInv, NEW c \in Clients, OwnDelivery(c), NEW t \in Topics, NEW k \in Conns, k = conn[c],
           Settles(entry[c][t]), NEW es \in [Topics -> Entry], es[t].status # "absent",
           \A u \in Topics : u # t => es[u] = entry[c][u], Resubscribe(c, es, t),
           UNCHANGED <<serverVars, link, conn, faultVars>>,
           Answers(k)' = Answers(k), \A u \in Topics : u # t => Patches(k, u)' = Patches(k, u),
           \A u \in Topics : Sorted(s2c[k], u) => Sorted(s2c'[k], u)
    PROVE  OwnDelivery(c)'
<1> DEFINE groups == <<{t}>>
           cs == calls[c]
           was == {t}
<1>1. /\ SubscribeBatches(c, es, cs, groups, was) /\ Post(k, SubscribeMsgs(c, groups))
      /\ groups \in Seq(SUBSET Topics) /\ DOMAIN groups = {1} /\ groups[1] = {t}
  BY SingletonGroups DEF Resubscribe
<1>2. UNCHANGED <<lastRev, subs, lost, conn, link>>
  BY DEF serverVars, hubVars, faultVars
<1> HIDE DEF groups
<1>3. Disjoint(groups) /\ WasShape(groups, was)
  BY <1>1, OneGroup, OneGroupShape
<1>4. Connected(c) => DeliveryLine(c, k) /\ k \in subs[t] /\ Silent(c2s[k], t)
  <2>1. Connected(c) => DeliveryLine(c, k)
    BY DEF OwnDelivery
  <2>2. DeliveryLine(c, k) => k \in subs[t] /\ Silent(c2s[k], t)
    BY DEF DeliveryLine, Agrees, IdleInv, Holds, Settles
  <2>3. QED BY <2>1, <2>2
<1>5. /\ \A u \in Topics : (\E i \in DOMAIN groups : u \in groups[i]) \/ (es[u] = entry[c][u] /\ u # t)
      /\ \A u \in Topics, i \in DOMAIN groups : u \in groups[i] => es[u].status # "absent"
      /\ \A id \in DOMAIN cs : id \in DOMAIN calls[c] /\ cs[id] = calls[c][id]
  BY <1>1
<1>6. Connected(c) =>
         /\ DeliveryLine(c, k)
         /\ Answers(k)' \subseteq Answers(k)
         /\ \A u \in Topics : Sorted(s2c'[k], u)
         /\ \A a \in Asks(k) : a.id \in DOMAIN cs
         /\ \A u \in Topics :
               \/ \E i \in DOMAIN groups : u \in groups[i]
               \/ Stays(c, u, k, es, cs)
         /\ \A u \in was : (\E i \in DOMAIN groups : u \in groups[i]) => k \in subs[u] /\ Silent(c2s[k], u)
  <2>1. ASSUME Connected(c)
        PROVE  /\ \A u \in Topics : Sorted(s2c'[k], u)
               /\ \A a \in Asks(k) : a.id \in DOMAIN cs
    BY <1>4, <2>1 DEF DeliveryLine, Fed, CallsInv
  <2>2. QED BY <1>4, <1>5, <2>1 DEF Stays
<1> HIDE DEF cs, was
<1>7. /\ IInv /\ FlowInv /\ c \in Clients /\ RestInv(c) /\ k \in Conns /\ k = conn[c]
      /\ es \in [Topics -> Entry] /\ groups \in Seq(SUBSET Topics)
      /\ SubscribeBatches(c, es, cs, groups, was) /\ Post(k, SubscribeMsgs(c, groups))
      /\ UNCHANGED <<lastRev, subs, lost, conn, link>>
      /\ \A u \in Topics : (\E i \in DOMAIN groups : u \in groups[i]) \/ es[u] = entry[c][u]
  BY <1>1, <1>2, <1>5 DEF OwnDelivery
<1>8. QED BY ONLY <1>3, <1>5, <1>6, <1>7, BatchesOwnDelivery

LEMMA ReplayDelivery ==
    ASSUME IInv, FlowInv, NEW c \in Clients, OwnDelivery(c), NEW t \in Topics, Replay(c, t)
    PROVE  OwnDelivery(c)'
<1> DEFINE e == entry[c][t]
           p == Head(e.buffer)
           ready == [e EXCEPT !.status = "ready", !.buffer = <<>>]
<1>1. /\ UNCHANGED <<serverVars, link, s2c, conn, faultVars>>
      /\ e.status = "replaying"
  BY DEF Replay
<1>2. ClientInv(c) /\ ClientTypeOK /\ NetTypeOK /\ HubTypeOK /\ RestInv(c)
  BY DEF FlowInv, IInv, TypeOK, OwnDelivery
<1>3. PICK k \in Conns : k = conn[c] /\ k # NoConn
  BY <1>1, <1>2 DEF IInv, ReplaysConnected, Busy, ClientTypeOK
<1>4. UNCHANGED <<lastRev, subs, lost, reply>> /\ conn' = conn /\ link' = link /\ s2c'[k] = s2c[k]
  BY <1>1 DEF serverVars, hubVars, faultVars
<1>5. Answers(k)' = Answers(k) /\ \A u \in Topics : Patches(k, u)' = Patches(k, u)
  BY <1>4, NothingRead
<1>6. /\ e \in Entry /\ e.inflight = 0 /\ Settles(e) /\ e.rev \in Nat /\ lastRev[t] \in Nat
      /\ e.buffer \in Seq(Patch)
      /\ e.buffer # <<>> => /\ p \in Patch /\ p.rev \in Nat /\ Tail(e.buffer) \in Seq(Patch)
                            /\ \A q \in Elems(e.buffer) : q = p \/ q \in Elems(Tail(e.buffer))
  <2>1. e \in Entry /\ e.inflight = 0 /\ lastRev[t] \in Nat
    BY <1>1, <1>2 DEF ClientTypeOK, ClientInv, HubTypeOK, Revs
  <2>2. e.buffer \in Seq(Patch) /\ e.rev \in Nat
    BY <2>1 DEF Entry, Revs
  <2>3. e.buffer # <<>> => p \in Patch /\ Tail(e.buffer) \in Seq(Patch)
    BY <2>2, HeadTailProperties
  <2>4. e.buffer # <<>> => \A q \in Elems(e.buffer) : q = p \/ q \in Elems(Tail(e.buffer))
    BY <2>2, QueueElems
  <2>5. p \in Patch => p.rev \in Nat
    BY DEF Patch, Revs
  <2>6. Settles(e)
    BY <1>1, <2>1 DEF Settles
  <2> HIDE DEF e, p
  <2>7. QED BY <2>1, <2>2, <2>3, <2>4, <2>5, <2>6
<1>7. ASSUME NEW x \in Entry, entry' = [entry EXCEPT ![c][t] = x], UNCHANGED <<calls, nextId, c2s>>,
             Settles(x), x.subscribed = e.subscribed, x.status # "replaying" => x.buffer = <<>>,
             x.rev \in Nat, e.rev <= x.rev,
             \/ x.rev = e.rev /\ x.buffer = e.buffer
             \/ /\ e.buffer # <<>> /\ p.rev <= x.rev
                /\ x.buffer = Tail(e.buffer)
      PROVE  OwnDelivery(c)'
  <2>1. entry'[c][t] = x /\ \A u \in Topics : u # t => entry'[c][u] = entry[c][u]
    BY <1>2, <1>7 DEF ClientTypeOK
  <2>2. RestInv(c)'
    <3>1. x.status # "absent"
      BY <1>7 DEF Settles
    <3>2. QED BY <1>2, <1>3, <1>4, <1>7, <2>1, <3>1, RestMoves
  <2>3. ASSUME Connected(c)
        PROVE  DeliveryLine(c, k)'
    <3>1. DeliveryLine(c, k)
      BY <1>3, <2>3 DEF OwnDelivery
    <3>2. CallsInv(c, k)'
      BY <1>7, <3>1 DEF DeliveryLine, CallsInv, Asks
    <3>3. \A u \in Topics : Agrees(c, u, k) /\ Fed(c, u, k) /\ Sorted(s2c'[k], u)
      BY <1>4, <3>1 DEF DeliveryLine, Fed
    <3>4. \A u \in Topics : QueueKeeps(c2s[k], c2s'[k], u)
      BY <1>7, KeepsSame
    <3>5. Agrees(c, t, k)'
      <4>1. /\ entry'[c][t].inflight = entry[c][t].inflight /\ entry'[c][t].subscribed = entry[c][t].subscribed
            /\ Holds(entry'[c][t]) <=> Holds(entry[c][t])
        BY <1>6, <1>7, <2>1 DEF Settles, Holds
      <4> HIDE DEF e
      <4>2. QED BY <1>4, <1>5, <1>7, <3>3, <3>4, <4>1, AgreesKeeps
    <3>6. Fed(c, t, k)'
      <4>1. CASE x.rev = e.rev /\ x.buffer = e.buffer
        <5>1. Waiting(c, t, k)' = Waiting(c, t, k) /\ entry'[c][t].rev = entry[c][t].rev
          BY <1>5, <2>1, <4>1 DEF Waiting
        <5>2. Settles(entry[c][t]) /\ entry'[c][t].inflight = entry[c][t].inflight
          BY <1>6, <1>7, <2>1 DEF Settles
        <5> HIDE DEF e
        <5>3. QED BY <1>4, <1>5, <3>3, <5>1, <5>2, FedKeeps
      <4>2. CASE /\ e.buffer # <<>> /\ p.rev <= x.rev
                 /\ x.buffer = Tail(e.buffer)
        <5>1. Waiting(c, t, k) \subseteq Waiting(c, t, k)' \cup {p} /\ p.rev \in Nat
          BY <1>5, <1>6, <2>1, <4>2 DEF Waiting
        <5>2. /\ Settles(entry[c][t]) /\ entry'[c][t].inflight = 0
              /\ entry[c][t].rev \in Nat /\ entry'[c][t].rev \in Nat
              /\ p.rev <= entry'[c][t].rev /\ entry[c][t].rev <= entry'[c][t].rev
          BY <1>6, <1>7, <2>1, <4>2 DEF Settles
        <5> HIDE DEF e, p
        <5>3. /\ UNCHANGED <<subs, lastRev, lost>> /\ lastRev[t] \in Nat
              /\ Fed(c, t, k) /\ Sorted(s2c'[k], t)
              /\ c \in Clients /\ t \in Topics /\ k \in Conns
          BY <1>4, <1>6, <3>3
        <5>4. QED BY ONLY <5>1, <5>2, <5>3, FedMoves
      <4>3. QED BY <1>7, <4>1, <4>2
    <3>7. ASSUME NEW u \in Topics, u # t
          PROVE  Agrees(c, u, k)' /\ Fed(c, u, k)'
      BY <1>4, <1>5, <1>7, <2>1, <3>3, <3>7, TopicKeeps
    <3>8. QED BY <3>2, <3>5, <3>6, <3>7 DEF DeliveryLine
  <2>4. QED BY <1>3, <1>4, <2>2, <2>3 DEF OwnDelivery, Connected
<1>8. /\ ready \in Entry /\ ready.status = "ready" /\ ready.inflight = 0 /\ ready.rev = e.rev
      /\ ready.buffer = <<>> /\ ready.subscribed = e.subscribed
  <2>1. <<>> \in Seq(Patch)
    OBVIOUS
  <2>2. QED BY <1>6, <2>1 DEF Entry
<1>9. CASE e.buffer = <<>>
  <2>1. entry' = [entry EXCEPT ![c][t] = ready] /\ UNCHANGED <<calls, nextId, c2s>>
    BY <1>9 DEF Replay
  <2> HIDE DEF ready
  <2>2. Settles(ready)
    BY <1>8 DEF Settles
  <2>3. ready.rev \in Nat /\ e.rev <= ready.rev
    BY <1>6, <1>8
  <2> HIDE DEF e, p
  <2>4. QED BY <1>7, <1>8, <1>9, <2>1, <2>2, <2>3
<1>10. CASE e.buffer # <<>> /\ p.rev <= e.rev /\ UNCHANGED <<calls, nextId, c2s>>
            /\ entry' = [entry EXCEPT ![c][t].buffer = Tail(@)]
  <2> DEFINE x == [e EXCEPT !.buffer = Tail(@)]
  <2>1. x \in Entry /\ x.status = e.status /\ x.inflight = 0 /\ x.rev = e.rev
        /\ x.buffer = Tail(e.buffer) /\ x.subscribed = e.subscribed
    BY <1>6, <1>10 DEF Entry
  <2>2. entry' = [entry EXCEPT ![c][t] = x]
    BY <1>10
  <2> HIDE DEF x
  <2>3. Settles(x)
    BY <1>1, <2>1 DEF Settles
  <2>4. x.rev \in Nat /\ e.rev <= x.rev /\ p.rev <= x.rev
    BY <1>6, <1>10, <2>1
  <2> HIDE DEF e, p
  <2>5. QED BY <1>1, <1>7, <1>10, <2>1, <2>2, <2>3, <2>4
<1>11. CASE e.buffer # <<>> /\ Extends(e, p) /\ UNCHANGED <<calls, nextId, c2s>>
            /\ entry' = [entry EXCEPT ![c][t] = [Applied(e, p) EXCEPT !.buffer = Tail(@)]]
  <2> DEFINE x == [Applied(e, p) EXCEPT !.buffer = Tail(@)]
  <2>1. Applied(e, p) \in Entry
    BY <1>6, <1>11, EntryTypes
  <2>2. x \in Entry /\ x.status = e.status /\ x.inflight = 0 /\ x.rev = p.rev
        /\ x.buffer = Tail(e.buffer) /\ x.subscribed = e.subscribed
    BY <1>6, <1>11, <2>1 DEF Applied, Entry
  <2>3. entry' = [entry EXCEPT ![c][t] = x]
    BY <1>11
  <2> HIDE DEF x
  <2>4. Settles(x) /\ p.rev = e.rev + 1
    BY <1>1, <1>11, <2>2 DEF Settles, Extends
  <2>5. p.rev <= x.rev /\ e.rev <= x.rev /\ x.rev \in Nat
    <3> HIDE DEF e, p
    <3>1. QED BY <1>6, <1>11, <2>2, <2>4
  <2> HIDE DEF e, p
  <2>6. QED BY <1>1, <1>7, <1>11, <2>2, <2>3, <2>4, <2>5
<1>12. CASE Resubscribe(c, [entry[c] EXCEPT ![t] = ready], t)
  <2> DEFINE es == [entry[c] EXCEPT ![t] = ready]
  <2>1. /\ es \in [Topics -> Entry] /\ es[t].status # "absent"
        /\ \A u \in Topics : u # t => es[u] = entry[c][u]
    BY <1>2, <1>8 DEF ClientTypeOK
  <2>2. Resubscribe(c, es, t) /\ Settles(entry[c][t])
    BY <1>6, <1>12
  <2> HIDE DEF es, ready, p, e
  <2>3. \A u \in Topics : Sorted(s2c[k], u) => Sorted(s2c'[k], u)
    BY <1>4
  <2>4. QED BY <1>1, <1>3, <1>5, <2>1, <2>2, <2>3, GapDelivery
<1>13. QED BY <1>9, <1>10, <1>11, <1>12 DEF Replay
LEMMA ReceivePatchDelivery ==
    ASSUME IInv, FlowInv, NEW c \in Clients, OwnDelivery(c), ReceivePatch(c)
    PROVE  OwnDelivery(c)'
<1>1. /\ UNCHANGED <<serverVars, link, conn, faultVars>>
      /\ Arrives(c, "patch") /\ Consume(c)
  BY DEF ReceivePatch
<1>2. ClientInv(c) /\ ClientTypeOK /\ NetTypeOK /\ HubTypeOK /\ RestInv(c)
  BY DEF FlowInv, IInv, TypeOK, OwnDelivery
<1>3. PICK k \in Conns : k = conn[c] /\ k # NoConn
  BY <1>1, <1>2 DEF Arrives, ClientTypeOK
<1>4. UNCHANGED <<lastRev, subs, lost, reply>> /\ conn' = conn /\ link' = link
  BY <1>1 DEF serverVars, hubVars, faultVars
<1>5. PICK p \in Patch, t \in Topics :
        /\ p = Head(s2c[conn[c]]) /\ t = p.topic /\ p \in Patches(k, t)
        /\ Answers(k)' = Answers(k)
        /\ Patches(k, t) \subseteq Patches(k, t)' \cup {p}
        /\ \A u \in Topics : u # t => Patches(k, u)' = Patches(k, u)
        /\ \A u \in Topics : Sorted(s2c[k], u) => Sorted(s2c'[k], u)
  <2>1. /\ Head(s2c[k]) \in Answer \cup Patch /\ Head(s2c[k]).kind = "patch"
        /\ Head(s2c[k]) \in Patches(k, Head(s2c[k]).topic)
        /\ \A u \in Topics : Patches(k, u)' \subseteq Patches(k, u)
    BY <1>1, <1>2, <1>3, <1>4, ConsumeEffect
  <2>2. Head(s2c[k]) \in Patch
    BY <2>1, Kinds
  <2>3. Head(s2c[k]).topic \in Topics
    BY <2>2 DEF Patch
  <2>4. PICK p \in Patch, t \in Topics : p = Head(s2c[k]) /\ t = p.topic /\ p \in Patches(k, t)
    BY <2>1, <2>2, <2>3
  <2>5. /\ Answers(k)' = Answers(k)
        /\ \A u \in Topics : \A x \in Patches(k, u) : x = p \/ x \in Patches(k, u)'
        /\ \A u \in Topics : Sorted(s2c[k], u) => Sorted(s2c'[k], u)
    BY <1>1, <1>2, <1>3, <1>4, <2>4, ReadEffect
  <2>6. \A u \in Topics : \A x \in Patches(k, u) : x.topic = u
    BY DEF Patches
  <2>7. ASSUME NEW u \in Topics, u # t
        PROVE  Patches(k, u)' = Patches(k, u)
    BY <2>1, <2>4, <2>5, <2>6, <2>7
  <2>8. Patches(k, t) \subseteq Patches(k, t)' \cup {p}
    BY <2>5
  <2>9. QED BY <1>3, <2>4, <2>5, <2>7, <2>8
<1> DEFINE e == entry[c][t]
<1>6. /\ e \in Entry /\ e.status # "replaying" /\ e.rev \in Nat /\ p.rev \in Nat /\ lastRev[t] \in Nat
      /\ e.buffer \in Seq(Patch)
  <2>1. e \in Entry /\ e.status # "replaying" /\ lastRev[t] \in Nat
    BY <1>1, <1>2 DEF ClientTypeOK, Arrives, Busy, HubTypeOK, Revs
  <2>2. e.rev \in Nat /\ e.buffer \in Seq(Patch)
    BY <2>1 DEF Entry, Revs
  <2>3. p.rev \in Nat
    BY DEF Patch, Revs
  <2>4. QED BY <2>1, <2>2, <2>3
\* What is left to show where the patch starts no call: the topic stays fed.
<1>7. ASSUME UNCHANGED <<calls, nextId, c2s>>, \A u \in Topics : u # t => entry'[c][u] = entry[c][u],
             NEW x \in Entry, entry'[c][t] = x, x.inflight = e.inflight, x.subscribed = e.subscribed,
             x.status = e.status, x.buffer = e.buffer \/ e.inflight # 0,
             DeliveryLine(c, k) => Fed(c, t, k)'
      PROVE  OwnDelivery(c)'
  <2>1. RestInv(c)'
    <3>1. /\ x.status = "absent" => Vacant(x)
          /\ x.inflight = 0 /\ x.status # "replaying" => x.buffer = <<>>
      BY <1>2, <1>7 DEF RestInv, Vacant
    <3>2. ASSUME NEW u \in Topics
          PROVE  /\ entry'[c][u].status = "absent" => Vacant(entry'[c][u])
                 /\ entry'[c][u].inflight = 0 /\ entry'[c][u].status # "replaying" => entry'[c][u].buffer = <<>>
      BY <1>2, <1>7, <3>1 DEF RestInv
    <3>3. conn'[c] # NoConn /\ calls'[c] = calls[c]
      BY <1>3, <1>4, <1>7
    <3>4. QED BY <1>2, <3>2, <3>3 DEF RestInv
  <2>2. ASSUME Connected(c)
        PROVE  DeliveryLine(c, k)'
    <3>1. DeliveryLine(c, k)
      BY <1>3, <2>2 DEF OwnDelivery
    <3>2. CallsInv(c, k)'
      BY <1>7, <3>1 DEF DeliveryLine, CallsInv, Asks
    <3>3. \A u \in Topics : Agrees(c, u, k) /\ Fed(c, u, k) /\ Sorted(s2c'[k], u)
      BY <1>5, <3>1 DEF DeliveryLine, Fed
    <3>4. \A u \in Topics : QueueKeeps(c2s[k], c2s'[k], u)
      BY <1>7, KeepsSame
    <3>5. Agrees(c, t, k)'
      <4>1. /\ entry'[c][t].inflight = entry[c][t].inflight /\ entry'[c][t].subscribed = entry[c][t].subscribed
            /\ Holds(entry'[c][t]) <=> Holds(entry[c][t])
        BY <1>7 DEF Holds
      <4>2. Agrees(c, t, k) /\ QueueKeeps(c2s[k], c2s'[k], t) /\ calls' = calls /\ Answers(k)' = Answers(k) /\ subs' = subs
        BY <1>4, <1>5, <1>7, <3>3, <3>4
      <4> HIDE DEF e
      <4>3. QED BY <4>1, <4>2, AgreesKeeps
    <3>6. ASSUME NEW u \in Topics, u # t
          PROVE  Agrees(c, u, k)' /\ Fed(c, u, k)'
      BY <1>4, <1>5, <1>7, <3>3, <3>6, TopicKeeps
    <3>7. QED BY <1>7, <3>1, <3>2, <3>5, <3>6 DEF DeliveryLine
  <2>3. QED BY <1>3, <1>4, <2>1, <2>2 DEF OwnDelivery, Connected
<1>8. DeliveryLine(c, k) => Fed(c, t, k) /\ Sorted(s2c'[k], t)
  BY <1>5 DEF DeliveryLine, Fed
<1>9. \A x \in Entry : entry' = [entry EXCEPT ![c][t] = x] =>
        entry'[c][t] = x /\ \A u \in Topics : u # t => entry'[c][u] = entry[c][u]
  BY <1>2, <1>6 DEF ClientTypeOK
<1>10. ASSUME Settles(e), entry'[c][t].inflight = 0, entry'[c][t].buffer = e.buffer,
              entry'[c][t].rev \in Nat, p.rev <= entry'[c][t].rev, e.rev <= entry'[c][t].rev
       PROVE  DeliveryLine(c, k) => Fed(c, t, k)'
  <2>1. Waiting(c, t, k) \subseteq Waiting(c, t, k)' \cup {p}
    BY <1>5, <1>10 DEF Waiting
  <2>2. ASSUME DeliveryLine(c, k)
        PROVE  Fed(c, t, k)'
    <3>1. /\ UNCHANGED <<subs, lastRev, lost>> /\ Fed(c, t, k) /\ Sorted(s2c'[k], t)
          /\ c \in Clients /\ t \in Topics /\ k \in Conns
          /\ Settles(entry[c][t]) /\ entry'[c][t].inflight = 0
          /\ entry[c][t].rev \in Nat /\ entry'[c][t].rev \in Nat /\ p.rev \in Nat /\ lastRev[t] \in Nat
          /\ p.rev <= entry'[c][t].rev /\ entry[c][t].rev <= entry'[c][t].rev
      BY <1>4, <1>6, <1>8, <1>10, <2>2
    <3>2. QED BY ONLY <2>1, <3>1, FedMoves
  <2>3. QED BY <2>2
<1>11. CASE UNCHANGED <<entry, calls, nextId, c2s>> /\ (~Holds(e) /\ e.inflight = 0)
  <2>1. DeliveryLine(c, k) => Fed(c, t, k)'
    BY <1>8, <1>11, FedEmpty
  <2>2. entry'[c][t] = e /\ \A u \in Topics : entry'[c][u] = entry[c][u]
    BY <1>11
  <2> HIDE DEF e
  <2>3. QED BY <1>6, <1>7, <1>11, <2>1, <2>2
<1>12. CASE UNCHANGED <<entry, calls, nextId, c2s>> /\ Settles(e) /\ p.rev <= e.rev
  <2>1. entry'[c][t] = e /\ \A u \in Topics : entry'[c][u] = entry[c][u]
    BY <1>12
  <2> HIDE DEF e
  <2>2. DeliveryLine(c, k) => Fed(c, t, k)'
    BY <1>6, <1>10, <1>12, <2>1 DEF Settles
  <2>3. QED BY <1>6, <1>7, <1>12, <2>1, <2>2
<1>13. CASE e.inflight # 0 /\ entry' = [entry EXCEPT ![c][t] = [e EXCEPT !.buffer = Append(@, p)]]
            /\ UNCHANGED <<calls, nextId, c2s>>
  <2> DEFINE x == [e EXCEPT !.buffer = Append(@, p)]
  <2>1. x \in Entry /\ x.status = e.status /\ x.inflight = e.inflight /\ x.subscribed = e.subscribed
        /\ x.buffer = Append(e.buffer, p)
    <3>1. Append(e.buffer, p) \in Seq(Patch)
      BY <1>6, AppendProperties DEF Entry
    <3>2. QED BY <1>6, <3>1 DEF Entry
  <2>2. entry' = [entry EXCEPT ![c][t] = x]
    BY <1>13
  <2> HIDE DEF x
  <2>3. entry'[c][t] = x /\ \A u \in Topics : u # t => entry'[c][u] = entry[c][u]
    BY <1>9, <2>1, <2>2
  <2>4. Elems(x.buffer) = Elems(e.buffer) \cup {p}
    BY <1>6, <2>1, QueueElems
  <2>5. Waiting(c, t, k) \subseteq Waiting(c, t, k)'
    BY <1>5, <2>3, <2>4 DEF Waiting
  <2>6. entry'[c][t].inflight = entry[c][t].inflight /\ ~Settles(entry'[c][t])
    BY <1>13, <2>1, <2>3 DEF Settles
  <2> HIDE DEF e
  <2>7. DeliveryLine(c, k) => Fed(c, t, k)'
    BY <1>4, <1>5, <1>8, <2>5, <2>6, FedKeeps
  <2>8. QED BY <1>7, <1>13, <2>1, <2>3, <2>7
<1>14. CASE e.status = "ready" /\ e.inflight = 0 /\ Extends(e, p)
            /\ entry' = [entry EXCEPT ![c][t] = Applied(e, p)] /\ UNCHANGED <<calls, nextId, c2s>>
  <2> DEFINE x == Applied(e, p)
  <2>1. x \in Entry
    BY <1>6, <1>14, EntryTypes
  <2>2. x.status = e.status /\ x.inflight = e.inflight /\ x.subscribed = e.subscribed
        /\ x.buffer = e.buffer /\ x.rev = p.rev /\ p.rev = e.rev + 1
    BY <1>6, <1>14, <2>1 DEF Applied, Entry, Extends
  <2>3. entry'[c][t] = x /\ \A u \in Topics : u # t => entry'[c][u] = entry[c][u]
    BY <1>9, <1>14, <2>1
  <2>4. Settles(e)
    BY <1>14 DEF Settles
  <2> HIDE DEF x, e
  <2>5. e.rev <= x.rev /\ p.rev <= x.rev /\ x.rev \in Nat
    BY <1>6, <2>2
  <2>6. DeliveryLine(c, k) => Fed(c, t, k)'
    BY <1>10, <1>14, <2>2, <2>3, <2>4, <2>5
  <2>7. QED BY <1>7, <1>14, <2>1, <2>2, <2>3, <2>6
<1>15. CASE e.status = "ready" /\ e.inflight = 0 /\ Resubscribe(c, entry[c], t)
  <2>1. entry[c] \in [Topics -> Entry] /\ Settles(entry[c][t]) /\ entry[c][t].status # "absent"
    BY <1>2, <1>15 DEF ClientTypeOK, Settles
  <2>2. \A u \in Topics : entry[c][u] = entry[c][u]
    OBVIOUS
  <2> HIDE DEF e
  <2>3. Resubscribe(c, entry[c], t)
    BY <1>15
  <2>4. QED BY <1>1, <1>3, <1>5, <2>1, <2>2, <2>3, GapDelivery
<1>16. CASE e.status = "absent" /\ UNCHANGED <<entry, calls, nextId, c2s>>
  BY <1>2, <1>11, <1>16 DEF RestInv, Vacant, Holds
<1>17. CASE e.status # "absent" /\ e.inflight = 0 /\ (e.status # "ready" \/ p.rev <= e.rev)
            /\ UNCHANGED <<entry, calls, nextId, c2s>>
  BY <1>6, <1>11, <1>12, <1>17 DEF Holds, Settles
<1>18. QED BY <1>5, <1>13, <1>14, <1>15, <1>16, <1>17 DEF ReceivePatch
\* An order of a set of topics names each of them.
LEMMA OrderCovers ==
    ASSUME NEW T \in SUBSET Topics, NEW order \in Orders(T), NEW t \in T
    PROVE  \E i \in DOMAIN order : order[i] = t
<1> DEFINE n == Cardinality(T)
<1>1. IsFiniteSet(T) /\ n \in Nat
  BY FS_Subset, FS_CardinalityType
<1>3. order \in [1 .. n -> T] /\ \A i, j \in 1 .. n : order[i] = order[j] => i = j
  BY DEF Orders
<1> HIDE DEF n
<1>2. Cardinality(1 .. n) = n
  BY <1>1, FS_Interval
<1>4. order \in Injection(1 .. n, T)
  BY <1>3 DEF Injection, IsInjective
<1>5. order \in Surjection(1 .. n, T)
  BY <1>1, <1>2, <1>4, FS_Injection DEF n
<1>6. QED BY <1>3, <1>5 DEF Surjection

\* A call that several topics share subscribed none of them anew.
LEMMA SharedCall ==
    ASSUME ClientTypeOK, NEW c \in Clients, RestInv(c), NEW id
    PROVE  /\ Cardinality(PendingCall(c, id).topics) > 1 => PendingCall(c, id).was = {}
           /\ \A t \in PendingCall(c, id).topics :
                 ~(Cardinality(PendingCall(c, id).topics) > 1) => PendingCall(c, id).topics = {t}
<1> DEFINE T == PendingCall(c, id).topics
<1>1. T \in SUBSET Topics
  BY PendingCallType
<1>2. IsFiniteSet(T) /\ Cardinality(T) \in Nat
  BY <1>1, FS_Subset, FS_CardinalityType
<1>3. PendingCall(c, id).was = {} \/ \E t \in Topics : T = {t}
  BY DEF RestInv, PendingCall
<1>4. \A t : Cardinality({t}) = 1
  BY FS_Singleton
<1>5. ASSUME NEW t \in T, ~(Cardinality(T) > 1)
      PROVE  T = {t}
  <2>1. Cardinality(T) # 0
    BY <1>2, FS_EmptySet
  <2>2. Cardinality(T) = 1
    BY <1>2, <1>5, <2>1
  <2>3. \E x : T = {x}
    BY <1>2, <2>2, FS_Singleton
  <2>4. QED BY <2>3
<1> HIDE DEF T
<1>6. Cardinality(T) > 1 => PendingCall(c, id).was = {}
  <2>1. ASSUME NEW t \in Topics, T = {t}, Cardinality(T) > 1
        PROVE  FALSE
    BY <1>4, <2>1
  <2>2. QED BY <1>3, <2>1
<1>7. QED BY <1>5, <1>6 DEF T

LEMMA ReceiveErrorDelivery ==
    ASSUME IInv, FlowInv, NEW c \in Clients, OwnDelivery(c), ReceiveError(c)
    PROVE  OwnDelivery(c)'
<1>1. /\ UNCHANGED <<serverVars, link, conn, faultVars>>
      /\ Arrives(c, "error") /\ Consume(c)
  BY DEF ReceiveError
<1>2. ClientTypeOK /\ NetTypeOK /\ RestInv(c)
  BY DEF IInv, TypeOK, OwnDelivery
<1>3. PICK k \in Conns : k = conn[c] /\ k # NoConn
  BY <1>1, <1>2 DEF Arrives, ClientTypeOK
<1>4. UNCHANGED <<lastRev, subs, lost, reply>> /\ conn' = conn /\ link' = link
  BY <1>1 DEF serverVars, hubVars, faultVars
<1>5. PICK msg \in Answers(k) :
        /\ msg = Head(s2c[conn[c]]) /\ msg.kind = "error" /\ msg.id \in Nat
        /\ Answers(k)' \subseteq Answers(k)
        /\ \A t \in Topics : Patches(k, t)' = Patches(k, t)
        /\ \A m \in Answers(k) : m = msg \/ m \in Answers(k)'
        /\ \A t \in Topics : Sorted(s2c[k], t) => Sorted(s2c'[k], t)
  <2>1. /\ Head(s2c[k]) \in Answers(k) /\ Head(s2c[k]).kind = "error"
        /\ Head(s2c[k]) \in Answer \cup Patch /\ Answers(k)' \subseteq Answers(k)
    BY <1>1, <1>2, <1>3, <1>4, ConsumeEffect
  <2>2. /\ \A t \in Topics : Patches(k, t)' = Patches(k, t)
        /\ \A m \in Answers(k) : m = Head(s2c[k]) \/ m \in Answers(k)'
        /\ \A t \in Topics : Sorted(s2c[k], t) => Sorted(s2c'[k], t)
    BY <1>1, <1>2, <1>3, <1>4, ReadEffect
  <2>3. Head(s2c[k]) \in Failure
    BY <2>1, Kinds
  <2>4. Head(s2c[k]).id \in Nat
    BY <2>3 DEF Failure
  <2>5. QED BY <1>3, <2>1, <2>2, <2>4
<1> DEFINE id == msg.id
           call == PendingCall(c, id)
<1>6. /\ call.topics \in SUBSET Topics /\ call.was \in SUBSET Topics
      /\ Cardinality(call.topics) > 1 => call.was = {}
      /\ \A t \in call.topics : ~(Cardinality(call.topics) > 1) => call.topics = {t}
  BY <1>2, PendingCallType, SharedCall
<1>7. 0 \notin DOMAIN calls[c] /\ entry[c] \in [Topics -> Entry]
  BY <1>2 DEF ClientTypeOK
<1>8. /\ \A i \in DOMAIN calls[c] : i # id => i \in DOMAIN Settled(c, id) /\ Settled(c, id)[i] = calls[c][i]
      /\ \A i \in DOMAIN Settled(c, id) : i \in DOMAIN calls[c] /\ Settled(c, id)[i] = calls[c][i]
  BY DEF Settled
<1>9. id \in DOMAIN calls[c] => call = calls[c][id]
  BY DEF PendingCall
<1> HIDE DEF call
<1>10. CASE /\ Cardinality(call.topics) > 1
            /\ \E order \in Orders(call.topics \cap Wanted(c)) :
                 /\ SubscribeBatches(c, entry[c], Settled(c, id), [i \in DOMAIN order |-> {order[i]}], call.was)
                 /\ Post(conn[c], SubscribeMsgs(c, [i \in DOMAIN order |-> {order[i]}]))
  <2>1. PICK order \in Orders(call.topics \cap Wanted(c)) :
             /\ SubscribeBatches(c, entry[c], Settled(c, id), [i \in DOMAIN order |-> {order[i]}], call.was)
             /\ Post(conn[c], SubscribeMsgs(c, [i \in DOMAIN order |-> {order[i]}]))
    BY <1>10
  <2> DEFINE groups == [i \in DOMAIN order |-> {order[i]}]
             es == entry[c]
             cs == Settled(c, id)
             was == call.was
  <2>2. groups \in Seq(SUBSET Topics) /\ was = {}
    BY <1>6, <1>10, SingletonGroups
  <2>3. Disjoint(groups)
    BY DEF Orders, Disjoint
  <2>4. WasShape(groups, was)
    BY <2>2 DEF WasShape
  <2>5. \A t \in call.topics \cap Wanted(c) : \E i \in DOMAIN groups : t \in groups[i]
    <3>1. \A t \in call.topics \cap Wanted(c) : \E i \in DOMAIN order : order[i] = t
      BY <1>6, OrderCovers
    <3>2. QED BY <3>1
  <2>6. \A i \in DOMAIN groups : groups[i] \subseteq Wanted(c)
    <3>1. \A i \in DOMAIN order : order[i] \in Wanted(c)
      BY DEF Orders
    <3>2. QED BY <3>1
  <2>7. SubscribeBatches(c, es, cs, groups, was) /\ Post(k, SubscribeMsgs(c, groups))
    BY <1>3, <2>1
  <2> HIDE DEF groups
  <2>8. ASSUME Connected(c)
        PROVE  /\ DeliveryLine(c, k)
               /\ \A t \in Topics : Sorted(s2c'[k], t)
               /\ \A a \in Asks(k) : a.id \in DOMAIN cs
               /\ \A t \in Topics : (\E i \in DOMAIN groups : t \in groups[i]) \/ Stays(c, t, k, es, cs)
    <3>1. LineInv(c, k) /\ DeliveryLine(c, k)
      BY <1>3, <2>8 DEF FlowInv, OwnDelivery
    <3>2. \A a \in Asks(k) : a.id # id /\ a.id \in DOMAIN calls[c]
      BY <3>1, HeadAnswers DEF DeliveryLine
    <3>3. \A t \in Topics : Sorted(s2c'[k], t)
      BY <1>5, <3>1 DEF DeliveryLine, Fed
    <3>4. ASSUME NEW t \in Topics, ~ \E i \in DOMAIN groups : t \in groups[i]
          PROVE  Stays(c, t, k, es, cs)
      <4>1. t \notin call.topics \/ t \notin Wanted(c)
        BY <2>5, <3>4
      <4>2. CASE t \notin Wanted(c)
        <5>1. entry[c][t].inflight = 0
          BY <1>2, <4>2 DEF Wanted, RestInv, Vacant
        <5>2. QED BY <1>5, <1>7, <5>1 DEF Stays
      <4>3. CASE t \notin call.topics
        <5>1. entry[c][t].inflight # 0 => Pends(c, t, k, entry[c][t].inflight)
          BY <3>1 DEF DeliveryLine, Agrees, AskedInv
        <5>2. entry[c][t].inflight # 0 => entry[c][t].inflight # id
          BY <1>9, <4>3, <5>1 DEF Pends
        <5> HIDE DEF cs, es
        <5>3. es = entry[c] /\ \A i \in DOMAIN calls[c] : i # id => i \in DOMAIN cs /\ cs[i] = calls[c][i]
          BY <1>8 DEF cs, es
        <5>4. QED BY <1>5, <1>7, <5>2, <5>3 DEF Stays
      <4>4. QED BY <4>1, <4>2, <4>3
    <3>5. QED BY <1>8, <3>1, <3>2, <3>3, <3>4
  <2>9. /\ \A t \in Topics : (\E i \in DOMAIN groups : t \in groups[i]) \/ es[t] = entry[c][t]
        /\ \A t \in Topics, i \in DOMAIN groups : t \in groups[i] => es[t].status # "absent"
        /\ \A i \in DOMAIN cs : i \in DOMAIN calls[c] /\ cs[i] = calls[c][i]
    BY <1>8, <2>6 DEF Wanted
  <2> HIDE DEF es, cs, was, id
  <2>10. /\ IInv /\ FlowInv /\ c \in Clients /\ RestInv(c) /\ k \in Conns /\ k = conn[c]
         /\ es \in [Topics -> Entry] /\ groups \in Seq(SUBSET Topics)
         /\ SubscribeBatches(c, es, cs, groups, was) /\ Post(k, SubscribeMsgs(c, groups))
         /\ UNCHANGED <<lastRev, subs, lost, conn, link>>
    BY <1>2, <1>3, <1>4, <1>7, <2>2, <2>7 DEF es
  <2>11. Connected(c) =>
            /\ DeliveryLine(c, k)
            /\ Answers(k)' \subseteq Answers(k)
            /\ \A t \in Topics : Sorted(s2c'[k], t)
            /\ \A a \in Asks(k) : a.id \in DOMAIN cs
            /\ \A t \in Topics :
                  \/ \E i \in DOMAIN groups : t \in groups[i]
                  \/ Stays(c, t, k, es, cs)
            /\ \A t \in was : (\E i \in DOMAIN groups : t \in groups[i]) => k \in subs[t] /\ Silent(c2s[k], t)
    BY <1>5, <2>2, <2>8
  <2>12. QED BY ONLY <2>3, <2>4, <2>9, <2>10, <2>11, BatchesOwnDelivery
<1>11. CASE /\ ~(Cardinality(call.topics) > 1)
            /\ entry' = [entry EXCEPT ![c] = [t \in Topics |->
                  IF t \in call.topics /\ Accepts(entry[c][t], id) THEN Fail(entry[c][t], t \in call.was)
                                                                 ELSE entry[c][t]]]
            /\ calls' = [calls EXCEPT ![c] = Settled(c, id)]
            /\ UNCHANGED <<nextId, c2s>>
  <2>1. ASSUME NEW t \in Topics
        PROVE  \/ entry'[c][t] = entry[c][t] /\ ~(t \in call.topics /\ entry[c][t].inflight = id)
               \/ /\ entry[c][t].inflight = id /\ t \in call.topics
                  /\ entry'[c][t] = Fail(entry[c][t], t \in call.was)
    BY <1>2, <1>11 DEF ClientTypeOK, Accepts
  <2>2. calls'[c] = Settled(c, id) /\ c2s'[k] = c2s[k]
    BY <1>2, <1>11 DEF ClientTypeOK
  <2>3. RestInv(c)'
    <3>1. \A i \in DOMAIN calls'[c] : i \in DOMAIN calls[c] /\ calls'[c][i] = calls[c][i]
      BY <1>8, <2>2
    <3>2. ASSUME NEW t \in Topics
          PROVE  \/ entry'[c][t] = entry[c][t]
                 \/ /\ entry'[c][t].status # "absent"
                    /\ entry'[c][t].inflight = 0 /\ entry'[c][t].status # "replaying" => entry'[c][t].buffer = <<>>
      BY <1>7, <2>1, FailParts
    <3>3. conn'[c] # NoConn
      BY <1>3, <1>4
    <3>4. QED BY <1>2, <3>1, <3>2, <3>3, RestMoves
  <2>4. ASSUME Connected(c)
        PROVE  DeliveryLine(c, k)'
    <3>1. LineInv(c, k) /\ DeliveryLine(c, k)
      BY <1>3, <2>4 DEF FlowInv, OwnDelivery
    <3>2. \A t \in Topics : Sorted(s2c'[k], t)
      BY <1>5, <3>1 DEF DeliveryLine, Fed
    <3>3. ASSUME NEW t \in Topics, id # 0, entry[c][t].inflight = id,
                 t \in calls[c][id].topics, Silent(c2s[k], t), Pends(c, t, k, id)
          PROVE  Agrees(c, t, k)' /\ Fed(c, t, k)'
      <4>1. call = calls[c][id] /\ calls[c][id].topics = {t}
        BY <1>6, <1>9, <1>11, <3>3 DEF Pends
      <4>2. k \notin subs[t] /\ t \notin call.was
        BY <1>5, <3>3, <4>1 DEF Pends, Answered
      <4>3. entry'[c][t] = Fail(entry[c][t], t \in call.was)
        BY <2>1, <3>3, <4>1
      <4>4. /\ entry'[c][t].status = "error" /\ entry'[c][t].inflight = 0 /\ ~entry'[c][t].subscribed
        <5>1. entry[c][t] \in Entry
          BY <1>7
        <5>2. entry'[c][t].status = "error" /\ entry'[c][t].inflight = 0
          BY ONLY <4>3, <5>1, FailParts
        <5>3. entry'[c][t].subscribed = (t \in call.was)
          BY ONLY <4>3, <5>1, FailHolds, Zenon
        <5>4. ~entry'[c][t].subscribed
          BY ONLY <4>2, <5>3, Zenon
        <5>5. QED BY <5>2, <5>4
      <4>5. Agrees(c, t, k)'
        BY <1>4, <2>2, <3>3, <4>2, <4>4 DEF Agrees, IdleInv, AskedInv, Holds
      <4>6. Fed(c, t, k)'
        BY <3>2, <4>4, FedEmpty DEF Holds
      <4>7. QED BY <4>5, <4>6
    <3>4. ASSUME NEW t \in Topics
          PROVE  \/ /\ id = 0 \/ entry[c][t].inflight # id
                    /\ entry'[c][t] = entry[c][t]
                 \/ /\ id # 0 /\ entry[c][t].inflight = id
                    /\ (t \in calls[c][id].topics /\ Silent(c2s[k], t) /\ Pends(c, t, k, id)
                        => Agrees(c, t, k)' /\ Fed(c, t, k)')
      <4>1. id = 0 => call.topics = {}
        BY <1>7 DEF call, PendingCall
      <4>2. QED BY <2>1, <3>3, <4>1
    <3>5. QED BY <1>4, <1>5, <2>2, <3>1, <3>2, <3>4, AnsweredLine
  <2>5. QED BY <1>3, <1>4, <2>3, <2>4 DEF OwnDelivery, Connected
<1>12. QED
  <2>1. id = Head(s2c[conn[c]]).id /\ call = PendingCall(c, id) /\ Cardinality(call.topics) \in Nat
    <3>1. Cardinality(call.topics) \in Nat
      BY <1>6, FS_Subset, FS_CardinalityType
    <3>2. QED BY <1>5, <3>1 DEF call
  <2> HIDE DEF id
  <2>2. Cardinality(call.topics) <= 1 => ~(Cardinality(call.topics) > 1)
    BY <2>1
  <2>3. QED BY <1>10, <1>11, <2>1, <2>2 DEF ReceiveError
LEMMA ConnectDelivery ==
    ASSUME IInv, FlowInv, NEW c \in Clients, OwnDelivery(c), NEW k \in Conns, Connect(c, k)
    PROVE  OwnDelivery(c)'
<1>1. /\ UNCHANGED <<serverVars, s2c, faultVars>> /\ conn[c] = NoConn /\ link[k] = "free"
      /\ link' = [link EXCEPT ![k] = "up"] /\ conn' = [conn EXCEPT ![c] = k]
  BY DEF Connect
<1>2. ClientInv(c) /\ ClientTypeOK /\ NetTypeOK /\ SocketInv(k) /\ SubsLinked /\ RestInv(c)
  BY DEF FlowInv, IInv, TypeOK, OwnDelivery
<1>3. conn'[c] = k /\ k # NoConn
  BY <1>1, <1>2 DEF ClientTypeOK
<1>4. UNCHANGED <<lastRev, subs, lost, reply, s2c>>
  BY <1>1 DEF serverVars, hubVars, faultVars
<1>5. s2c[k] = <<>> /\ c2s[k] = <<>> /\ reply.conn # k /\ \A t \in Topics : k \notin subs[t]
  BY <1>1, <1>2 DEF SocketInv, SubsLinked
<1>6. /\ Asks(k) = {} /\ Answers(k) = {} /\ \A t \in Topics : Patches(k, t) = {}
      /\ \A t : Silent(c2s[k], t) /\ Sorted(s2c[k], t)
  BY <1>5, EmptyElems DEF Asks, Answers, Patches, Silent, Sorted
<1>7. Answers(k)' = Answers(k) /\ \A t \in Topics : Patches(k, t)' = Patches(k, t)
  BY <1>4, NothingRead
<1>8. ASSUME NEW t \in Topics, entry[c][t].status = "absent"
      PROVE  entry[c][t].inflight = 0 /\ ~entry[c][t].subscribed /\ ~Holds(entry[c][t])
  BY <1>2, <1>8 DEF RestInv, Vacant, Holds
<1>9. ASSUME UNCHANGED <<entry, calls, nextId, c2s>>, Wanted(c) = {}
      PROVE  OwnDelivery(c)'
  <2>1. RestInv(c)'
    BY <1>2, <1>3, <1>9 DEF RestInv
  <2>2. Asks(k)' = {}
    BY <1>6, <1>9 DEF Asks
  <2>3. ASSUME NEW t \in Topics
        PROVE  Agrees(c, t, k)' /\ Fed(c, t, k)'
    <3>1. entry[c][t].inflight = 0 /\ ~entry[c][t].subscribed /\ ~Holds(entry[c][t])
      BY <1>8, <1>9 DEF Wanted
    <3>2. entry'[c][t] = entry[c][t] /\ c2s' = c2s /\ subs' = subs /\ s2c' = s2c
      BY <1>4, <1>9
    <3>3. Agrees(c, t, k)'
      BY <1>5, <1>6, <3>1, <3>2 DEF Agrees, IdleInv, AskedInv
    <3>4. Fed(c, t, k)'
      BY <1>6, <3>1, <3>2, FedEmpty
    <3>5. QED BY <3>3, <3>4
  <2>4. DeliveryLine(c, k)'
    BY <2>2, <2>3 DEF DeliveryLine, CallsInv
  <2>5. QED BY <1>3, <2>1, <2>4 DEF OwnDelivery
<1>10. CASE /\ SubscribeBatches(c, entry[c], calls[c], <<Wanted(c)>>, {})
            /\ c2s' = [c2s EXCEPT ![k] = SubscribeMsgs(c, <<Wanted(c)>>)]
  <2> DEFINE groups == <<Wanted(c)>>
             es == entry[c]
             cs == calls[c]
             was == {}
  <2>1. groups \in Seq(SUBSET Topics) /\ DOMAIN groups = {1} /\ groups[1] = Wanted(c) /\ Disjoint(groups)
    BY SingletonGroups, OneGroup DEF Wanted
  <2>2. SubscribeBatches(c, es, cs, groups, was) /\ c2s' = [c2s EXCEPT ![k] = SubscribeMsgs(c, groups)]
    BY <1>10
  <2> HIDE DEF groups
  <2>3. c2s'[k] = c2s[k] \o SubscribeMsgs(c, groups)
    <3>1. SubscribeMsgs(c, groups) \in Seq(Call)
      BY <1>2, <2>1, SubscribeMsgsType
    <3>2. c2s'[k] = SubscribeMsgs(c, groups)
      BY <1>2, <2>2 DEF NetTypeOK
    <3>3. <<>> \o SubscribeMsgs(c, groups) = SubscribeMsgs(c, groups)
      BY <3>1, ConcatEmptySeq
    <3>4. QED BY <1>5, <3>2, <3>3
  <2>4. es \in [Topics -> Entry]
    BY <1>2 DEF ClientTypeOK
  <2>5. LineInv(c, k)
    <3>1. Increasing(c2s[k])
      BY <1>5 DEF Increasing
    <3>2. ASSUME NEW t \in Topics
          PROVE  EntryInv(c, t, k)
      <4>1. Waiting(c, t, k) = {} /\ entry[c][t].inflight < nextId[c]
        BY <1>1, <1>2, <1>6, EmptyElems DEF Waiting, ClientInv, ClientTypeOK
      <4>2. QED BY <1>5, <1>6, <4>1 DEF EntryInv, NoneAhead, LastAsked, HeldGenuine, SnapsGenuine
    <3>3. QED BY <1>6, <3>1, <3>2 DEF LineInv, OrderInv
  <2>6. ASSUME NEW t \in Topics, ~ \E i \in DOMAIN groups : t \in groups[i]
        PROVE  Stays(c, t, k, es, cs) /\ Agrees(c, t, k) /\ Fed(c, t, k)
    <3>1. entry[c][t].inflight = 0 /\ ~entry[c][t].subscribed /\ ~Holds(entry[c][t])
      BY <1>8, <2>1, <2>6 DEF Wanted
    <3>2. Stays(c, t, k, es, cs)
      BY <1>7, <3>1 DEF Stays
    <3>3. Agrees(c, t, k)
      BY <1>5, <1>6, <3>1 DEF Agrees, IdleInv, AskedInv
    <3>4. Fed(c, t, k)
      BY <1>6, <3>1 DEF Fed, HeldComplete, SnapsComplete, Settles, Holds
    <3>5. QED BY <3>2, <3>3, <3>4
  <2>7. /\ IInv /\ ClientTypeOK /\ c \in Clients /\ k \in Conns /\ RestInv(c) /\ conn'[c] # NoConn
        /\ groups \in Seq(SUBSET Topics) /\ Disjoint(groups)
        /\ UNCHANGED <<lastRev, subs, lost>> /\ Answers(k)' \subseteq Answers(k)
    BY <1>2, <1>3, <1>4, <1>7, <2>1
  <2>8. /\ WasShape(groups, was)
        /\ \A t \in Topics : Sorted(s2c'[k], t)
        /\ \A a \in Asks(k) : a.id \in DOMAIN cs /\ cs[a.id].topics = a.topics
        /\ \A t \in Topics : (\E i \in DOMAIN groups : t \in groups[i]) \/ es[t] = entry[c][t]
        /\ \A t \in Topics, i \in DOMAIN groups : t \in groups[i] => es[t].status # "absent"
        /\ \A id \in DOMAIN cs : id \in DOMAIN calls[c] /\ cs[id] = calls[c][id]
    BY <1>4, <1>6, <2>1 DEF WasShape, Wanted
  <2>9. /\ \A t \in Topics :
              \/ \E i \in DOMAIN groups : t \in groups[i]
              \/ Stays(c, t, k, es, cs) /\ Agrees(c, t, k) /\ Fed(c, t, k)
        /\ \A t \in was : (\E i \in DOMAIN groups : t \in groups[i]) => k \in subs[t] /\ Silent(c2s[k], t)
    BY <2>6
  <2> HIDE DEF es, cs, was
  <2>10. RestInv(c)'
    BY ONLY <2>2, <2>4, <2>7, <2>8, BatchesRest
  <2>11. DeliveryLine(c, k)'
    BY ONLY <2>2, <2>3, <2>4, <2>5, <2>7, <2>8, <2>9, BatchesDelivery
  <2>12. QED BY <1>3, <2>10, <2>11 DEF OwnDelivery
<1>11. QED BY <1>9, <1>10 DEF Connect

LEMMA DisconnectedDelivery ==
    ASSUME IInv, NEW c \in Clients, Disconnected(c)
    PROVE  OwnDelivery(c)'
<1>1. conn'[c] = NoConn /\ calls'[c] = <<>>
  BY DEF Disconnected, IInv, TypeOK, ClientTypeOK
<1>2. ASSUME NEW t \in Topics
      PROVE  ~entry'[c][t].subscribed /\ entry'[c][t].inflight = 0 /\ entry'[c][t].buffer = <<>>
  <2>1. entry[c][t] \in Entry
    BY DEF IInv, TypeOK, ClientTypeOK
  <2>2. entry'[c][t] = [entry[c][t] EXCEPT !.subscribed = FALSE, !.inflight = 0, !.buffer = <<>>]
    BY DEF Disconnected, IInv, TypeOK, ClientTypeOK
  <2>3. QED BY <2>1, <2>2 DEF Entry
<1>3. RestInv(c)'
  BY <1>1, <1>2 DEF RestInv, Vacant
<1>4. QED BY <1>1, <1>3 DEF OwnDelivery, Connected

LEMMA ClientOwnDelivery ==
    ASSUME IInv, FlowInv, NEW c \in Clients, OwnDelivery(c), ClientNext(c)
    PROVE  OwnDelivery(c)'
<1>1. ASSUME NEW T \in SUBSET Topics, Acquire(c, T) PROVE OwnDelivery(c)'
  BY <1>1, AcquireDelivery
<1>2. ASSUME NEW t \in Topics, Release(c, t) PROVE OwnDelivery(c)'
  BY <1>2, ReleaseDelivery
<1>3. ASSUME NEW t \in Topics, Replay(c, t) PROVE OwnDelivery(c)'
  BY <1>3, ReplayDelivery
<1>4. ASSUME NEW k \in Conns, Connect(c, k) PROVE OwnDelivery(c)'
  BY <1>4, ConnectDelivery
<1>5. QED BY <1>1, <1>2, <1>3, <1>4, ReceiveResultDelivery, ReceiveErrorDelivery, ReceivePatchDelivery,
             DisconnectedDelivery
          DEF ClientNext, ClientLosesSocket, ClientSeesClose

\* Nor does c touch the calls of another client.
LEMMA OthersCalls ==
    ASSUME ClientTypeOK, NEW c \in Clients, ClientNext(c), NEW d \in Clients, d # c
    PROVE  calls'[d] = calls[d] /\ lost' = lost
<1> USE DEF ClientTypeOK
<1>1. ASSUME NEW es, NEW cs, NEW groups, NEW was, SubscribeBatches(c, es, cs, groups, was)
      PROVE  calls'[d] = calls[d]
  BY <1>1 DEF SubscribeBatches
<1>2. ASSUME NEW es, NEW t, Resubscribe(c, es, t)
      PROVE  calls'[d] = calls[d]
  BY <1>1, <1>2 DEF Resubscribe
<1>3. ASSUME NEW T \in SUBSET Topics, Acquire(c, T) PROVE calls'[d] = calls[d] /\ lost' = lost
  BY <1>1, <1>3 DEF Acquire, faultVars
<1>4. ASSUME NEW t \in Topics, Release(c, t) PROVE calls'[d] = calls[d] /\ lost' = lost
  BY <1>4 DEF Release, faultVars
<1>5. ASSUME NEW t \in Topics, Replay(c, t) PROVE calls'[d] = calls[d] /\ lost' = lost
  BY <1>2, <1>5 DEF Replay, faultVars
<1>6. ASSUME NEW k \in Conns, Connect(c, k) PROVE calls'[d] = calls[d] /\ lost' = lost
  BY <1>1, <1>6 DEF Connect, faultVars
<1>7. CASE ReceiveResult(c)
  BY <1>7 DEF ReceiveResult, faultVars
<1>8. CASE ReceiveError(c)
  BY <1>1, <1>8 DEF ReceiveError, faultVars
<1>9. CASE ReceivePatch(c)
  BY <1>2, <1>9 DEF ReceivePatch, faultVars
<1>10. CASE Disconnected(c)
  BY <1>10 DEF Disconnected
<1>11. QED BY <1>3, <1>4, <1>5, <1>6, <1>7, <1>8, <1>9, <1>10 DEF ClientNext, ClientLosesSocket, ClientSeesClose

LEMMA ClientDelivery ==
    ASSUME IInv, FlowInv, DeliveryInv, NEW c \in Clients, ClientNext(c)
    PROVE  DeliveryInv'
<1>1. /\ ClientTypeOK /\ NetTypeOK /\ OneClient
      /\ \A k \in Conns : SocketInv(k)
      /\ \A d \in Clients : ClientInv(d)
      /\ \A d \in Clients : OwnDelivery(d)
  BY DEF IInv, TypeOK, FlowInv, DeliveryInv, OwnDelivery
<1>2. /\ UNCHANGED <<lastRev, subs, reply>>
      /\ \A d \in Clients : d # c =>
            entry'[d] = entry[d] /\ conn'[d] = conn[d] /\ calls'[d] = calls[d] /\ lost' = lost
      /\ \/ KeepsSocket(c)
         \/ \E k \in Conns : OpensSocket(c, k)
         \/ \E k \in Conns : LeavesSocket(c, k, "clientGone") \/ LeavesSocket(c, k, "free")
  BY <1>1, ClientFrame, OthersUntouched, OthersCalls DEF serverVars, hubVars
<1>3. ASSUME NEW d \in Clients, d # c, NEW k \in Conns, k = conn[d], k # NoConn
      PROVE  link'[k] = link[k] /\ c2s'[k] = c2s[k] /\ s2c'[k] = s2c[k]
  <2>1. k # conn[c] /\ link[k] # "free"
    BY <1>1, <1>3 DEF OneClient, ClientInv
  <2>2. QED BY <1>1, <1>2, <1>3, <2>1 DEF KeepsSocket, OpensSocket, LeavesSocket, NetTypeOK
<1>4. ASSUME NEW d \in Clients, d # c
      PROVE  OwnDelivery(d)'
  <2>1. RestInv(d)'
    BY <1>1, <1>2, <1>4 DEF OwnDelivery, RestInv
  <2>2. ASSUME Connected(d)'
        PROVE  DeliveryLine(d, conn[d])'
    <3>1. PICK k \in Conns : k = conn[d] /\ k # NoConn
      BY <1>1, <1>2, <1>4, <2>2 DEF Connected, ClientTypeOK
    <3>2. link'[k] = link[k] /\ c2s'[k] = c2s[k] /\ s2c'[k] = s2c[k] /\ conn'[d] = k
      BY <1>2, <1>3, <1>4, <3>1
    <3>3. DeliveryLine(d, k)
      BY <1>1, <2>2, <3>1, <3>2 DEF OwnDelivery, Connected
    <3>4. /\ Answers(k)' = Answers(k) /\ \A t \in Topics : Patches(k, t)' = Patches(k, t)
          /\ Asks(k)' = Asks(k)
      BY <1>2, <3>2, NothingRead DEF Asks
    <3>5. CallsInv(d, k)'
      BY <1>2, <1>4, <3>3, <3>4 DEF DeliveryLine, CallsInv
    <3>6. ASSUME NEW t \in Topics
          PROVE  Agrees(d, t, k)' /\ Fed(d, t, k)'
      <4>1. Agrees(d, t, k) /\ Fed(d, t, k) /\ Sorted(s2c'[k], t)
        BY <3>2, <3>3 DEF DeliveryLine, Fed
      <4>2. QED BY <1>2, <1>4, <3>2, <3>4, <4>1, TopicKeeps
    <3>7. QED BY <3>2, <3>5, <3>6 DEF DeliveryLine
  <2>3. QED BY <2>1, <2>2 DEF OwnDelivery
<1>5. \A d \in Clients : OwnDelivery(d)'
  BY <1>1, <1>4, ClientOwnDelivery
<1>6. QED BY <1>5 DEF DeliveryInv, OwnDelivery
-----------------------------------------------------------------------------
(* The steps of the server *)

\* What is left to show of a step of the server is what it does to the lines of
\* the clients whose socket stays up.
LEMMA ServerDelivery ==
    ASSUME IInv, FlowInv, DeliveryInv, UNCHANGED clientVars,
           \A k \in Conns : link'[k] = "up" => link[k] = "up",
           \A c \in Clients, k \in Conns :
              link'[k] = "up" /\ LineInv(c, k) /\ DeliveryLine(c, k) => DeliveryLine(c, k)'
    PROVE  DeliveryInv'
<1>1. ClientTypeOK /\ conn' = conn /\ entry' = entry /\ calls' = calls
  BY DEF IInv, TypeOK, clientVars
<1>2. \A c \in Clients : RestInv(c)'
  BY <1>1 DEF DeliveryInv, RestInv
<1>3. ASSUME NEW c \in Clients, Connected(c)'
      PROVE  DeliveryLine(c, conn[c])'
  <2>1. PICK k \in Conns : k = conn[c] /\ k # NoConn
    BY <1>1, <1>3 DEF Connected, ClientTypeOK
  <2>2. link'[k] = "up" /\ link[k] = "up"
    BY <1>1, <1>3, <2>1 DEF Connected
  <2>3. LineInv(c, k) /\ DeliveryLine(c, k)
    BY <2>1, <2>2 DEF FlowInv, DeliveryInv, Connected
  <2>4. DeliveryLine(c, k)'
    BY <2>2, <2>3
  <2>5. QED BY <1>1, <2>1, <2>4
<1>4. QED BY <1>2, <1>3 DEF DeliveryInv

\* Calls and answers are numbered.
LEMMA IdsType ==
    ASSUME NetTypeOK, NEW k \in Conns
    PROVE  /\ \A a \in Asks(k) : a.id \in Nat
           /\ \A m \in Answers(k) : m.id \in Nat
<1>1. c2s[k] \in Seq(Call) /\ s2c[k] \in Seq(Answer \cup Patch) /\ reply.msg \in Answer
  BY DEF NetTypeOK
<1>2. Elems(c2s[k]) \subseteq Call /\ Elems(s2c[k]) \subseteq Answer \cup Patch
  BY <1>1, QueueElems
<1>3. Asks(k) \subseteq Call /\ Answers(k) \subseteq Answer
  BY <1>1, <1>2 DEF Asks, Answers, Patch
<1>4. QED BY <1>3 DEF Call, Answer, Result, Failure

\* A topic that a step of the server leaves as it was for the client on k.
LEMMA TopicRests ==
    ASSUME NEW c \in Clients, NEW t \in Topics, NEW k \in Conns, Agrees(c, t, k), Fed(c, t, k),
           entry' = entry, calls' = calls, QueueKeeps(c2s[k], c2s'[k], t), Sorted(s2c'[k], t),
           k \in subs'[t] <=> k \in subs[t], lastRev'[t] = lastRev[t], lost' = 0 => lost = 0,
           Patches(k, t)' = Patches(k, t),
           entry[c][t].inflight # 0 =>
              \A m : m.id = entry[c][t].inflight => (m \in Answers(k)' <=> m \in Answers(k))
    PROVE  Agrees(c, t, k)' /\ Fed(c, t, k)'
<1>1. Agrees(c, t, k)'
  BY AgreesKeeps
<1>2. Waiting(c, t, k)' = Waiting(c, t, k)
  BY DEF Waiting
<1>3. HeldComplete(c, t, k)'
  BY <1>2 DEF Fed, HeldComplete, Complete
<1>4. SnapsComplete(c, t, k)'
  BY <1>2 DEF Fed, SnapsComplete, Complete, AnswerFor
<1>5. QED BY <1>1, <1>3, <1>4 DEF Fed

\* A line on which nothing moves.
LEMMA LineRests ==
    ASSUME NEW c \in Clients, NEW k \in Conns, DeliveryLine(c, k), UNCHANGED clientVars,
           c2s'[k] = c2s[k], Answers(k)' = Answers(k), lost' = 0 => lost = 0,
           \A t \in Topics : /\ Patches(k, t)' = Patches(k, t)
                             /\ Sorted(s2c[k], t) => Sorted(s2c'[k], t)
                             /\ k \in subs'[t] <=> k \in subs[t]
                             /\ lastRev'[t] = lastRev[t]
    PROVE  DeliveryLine(c, k)'
<1>1. entry' = entry /\ calls' = calls
  BY DEF clientVars
<1>2. CallsInv(c, k)'
  BY <1>1 DEF DeliveryLine, CallsInv, Asks
<1>3. ASSUME NEW t \in Topics
      PROVE  Agrees(c, t, k)' /\ Fed(c, t, k)'
  <2>1. Agrees(c, t, k) /\ Fed(c, t, k) /\ Sorted(s2c'[k], t)
    BY DEF DeliveryLine, Fed
  <2>2. QueueKeeps(c2s[k], c2s'[k], t)
    BY KeepsSame
  <2>3. QED BY <1>1, <2>1, <2>2, TopicRests
<1>4. QED BY <1>2, <1>3 DEF DeliveryLine

\* An unsubscribe about t reaches the hub, which had it from the client until now.
LEMMA LetsGo ==
    ASSUME NEW c \in Clients, NEW t \in Topics, NEW k \in Conns, LineInv(c, k), Agrees(c, t, k), Fed(c, t, k),
           c2s[k] \in Seq(Call), c2s[k] # <<>>, t \in Head(c2s[k]).topics, Head(c2s[k]).kind = "unsubscribe",
           \A a \in Asks(k) : a.id \in Nat, \A m \in Answers(k) : m.id \in Nat,
           c2s'[k] = Tail(c2s[k]), s2c' = s2c, entry' = entry, calls' = calls, Answers(k)' = Answers(k),
           k \notin subs'[t]
    PROVE  Agrees(c, t, k)' /\ Fed(c, t, k)'
<1> DEFINE M == Head(c2s[k])
<1>1. /\ M \in Elems(c2s[k]) /\ Elems(c2s'[k]) \subseteq Elems(c2s[k])
      /\ ~Silent(c2s[k], t)
  BY QueueElems DEF Silent
<1>2. \A m : LastAbout(c2s[k], t, m) => (m = M /\ Silent(c2s'[k], t)) \/ LastAbout(c2s'[k], t, m)
  BY LastTail
<1> HIDE DEF M
<1>3. IdleInv(c, t, k)'
  <2>1. ASSUME entry[c][t].inflight = 0
        PROVE  /\ entry[c][t].subscribed <=> Holds(entry[c][t])
               /\ ~entry[c][t].subscribed
               /\ \E m \in Elems(c2s[k]) : m.kind = "unsubscribe" /\ LastAbout(c2s[k], t, m)
    BY <1>1, <2>1 DEF Agrees, IdleInv
  <2>2. ASSUME NEW m, m.kind = "unsubscribe", LastAbout(c2s[k], t, m)
        PROVE  \/ Silent(c2s'[k], t)
               \/ \E n \in Elems(c2s'[k]) : n.kind = "unsubscribe" /\ LastAbout(c2s'[k], t, n)
    BY <1>2, <2>2, LastIsThere
  <2>3. QED BY <2>1, <2>2 DEF IdleInv, Holds
<1>4. ASSUME entry[c][t].inflight # 0
      PROVE  Pends(c, t, k, entry[c][t].inflight)'
  <2> DEFINE id == entry[c][t].inflight
  <2>1. Pends(c, t, k, id)
    BY <1>4 DEF Agrees, AskedInv
  <2>2. PICK a \in Asks(k) : a.id = id /\ LastAbout(c2s[k], t, a)
    BY <1>1, <2>1 DEF Pends
  <2>3. a \in Asks(k)' /\ LastAbout(c2s'[k], t, a)
    <3>1. a # M
      BY <2>2 DEF Asks, M
    <3>2. LastAbout(c2s'[k], t, a)
      BY <1>2, <2>2, <3>1
    <3>3. QED BY <2>2, <3>2, LastIsThere DEF Asks
  <2>4. \A m \in Answers(k)' : m.id # id
    <3>1. ASSUME NEW m \in Answers(k)
          PROVE  m.id # a.id
      <4>1. m.id < a.id /\ m.id \in Nat /\ a.id \in Nat
        BY <2>2 DEF LineInv, OrderInv
      <4>2. QED BY ONLY <4>1
    <3>2. QED BY <2>2, <3>1
  <2>5. id \in DOMAIN calls'[c] /\ t \in calls'[c][id].topics /\ t \notin calls'[c][id].was
    <3>1. ~ \A m \in Elems(c2s[k]) : t \in m.topics => m.kind = "subscribe"
      BY <1>1 DEF M
    <3>2. QED BY <2>1, <3>1 DEF Pends
  <2>6. id' = id
    OBVIOUS
  <2> HIDE DEF id
  <2>7. Pends(c, t, k, id)'
    BY <2>2, <2>3, <2>4, <2>5, <2>6 DEF Pends
  <2>8. QED BY <2>7 DEF id
<1>5. AskedInv(c, t, k)'
  BY <1>4 DEF Agrees, AskedInv
<1>6. Fed(c, t, k)'
  <2>1. HeldComplete(c, t, k)' /\ Sorted(s2c'[k], t)
    BY DEF HeldComplete, Fed
  <2>2. SnapsComplete(c, t, k)'
    BY DEF SnapsComplete
  <2>3. QED BY <2>1, <2>2 DEF Fed
<1>7. QED BY <1>3, <1>5, <1>6 DEF Agrees

LEMMA HandleUnsubscribeDelivery ==
    ASSUME IInv, FlowInv, DeliveryInv, NEW j \in Conns, HandleUnsubscribe(j)
    PROVE  DeliveryInv'
<1>1. /\ ServerReads(j, "unsubscribe") /\ Unlink(j, Head(c2s[j]).topics)
      /\ UNCHANGED <<reply, link, s2c, clientVars>> /\ lost' = lost
      /\ c2s' = [c2s EXCEPT ![j] = Tail(@)]
      /\ entry' = entry /\ calls' = calls
  BY DEF HandleUnsubscribe, ServerReads, faultVars, clientVars
<1>2. NetTypeOK
  BY DEF IInv, TypeOK
<1>3. /\ lastRev' = lastRev
      /\ \A t \in Topics : subs'[t] = IF t \in Head(c2s[j]).topics THEN subs[t] \ {j} ELSE subs[t]
  BY <1>1 DEF Unlink
<1>4. \A k \in Conns : c2s'[k] = IF k = j THEN Tail(c2s[k]) ELSE c2s[k]
  BY <1>1, <1>2 DEF NetTypeOK
<1>5. \A k \in Conns : Answers(k)' = Answers(k) /\ \A t \in Topics : Patches(k, t)' = Patches(k, t)
  BY <1>1, NothingRead
<1>6. ASSUME NEW c \in Clients, NEW k \in Conns, DeliveryLine(c, k), k # j
      PROVE  DeliveryLine(c, k)'
  <2>1. c2s'[k] = c2s[k] /\ \A t \in Topics : k \in subs'[t] <=> k \in subs[t]
    BY <1>3, <1>4, <1>6
  <2>2. QED BY <1>1, <1>3, <1>5, <1>6, <2>1, LineRests
<1>7. ASSUME NEW c \in Clients, LineInv(c, j), DeliveryLine(c, j)
      PROVE  DeliveryLine(c, j)'
  <2>1. /\ c2s[j] \in Seq(Call) /\ c2s[j] # <<>> /\ c2s'[j] = Tail(c2s[j])
        /\ Head(c2s[j]).kind = "unsubscribe"
    BY <1>1, <1>2, <1>4 DEF ServerReads, NetTypeOK
  <2>2. Asks(j)' \subseteq Asks(j)
    BY <2>1, QueueElems DEF Asks
  <2>3. /\ \A a \in Asks(j) : a.id \in Nat
        /\ \A m \in Answers(j) : m.id \in Nat
    BY <1>2, IdsType
  <2>4. ASSUME NEW t \in Topics
        PROVE  Agrees(c, t, j)' /\ Fed(c, t, j)'
    <3>1. Agrees(c, t, j) /\ Fed(c, t, j) /\ Sorted(s2c'[j], t)
      BY <1>1, <1>7 DEF DeliveryLine, Fed
    <3>2. CASE t \in Head(c2s[j]).topics
      <4>1. j \notin subs'[t]
        BY <1>3, <3>2
      <4>2. QED BY <1>1, <1>5, <1>7, <2>1, <2>3, <3>1, <3>2, <4>1, LetsGo
    <3>3. CASE t \notin Head(c2s[j]).topics
      <4>1. QueueKeeps(c2s[j], c2s'[j], t)
        BY <2>1, <3>3, KeepsTail
      <4>2. QED BY <1>1, <1>3, <1>5, <3>1, <3>3, <4>1, TopicRests
    <3>4. QED BY <3>2, <3>3
  <2>5. QED BY <1>1, <1>7, <2>2, <2>4 DEF DeliveryLine, CallsInv
<1>8. QED BY <1>1, <1>6, <1>7, ServerDelivery
\* The hub answers the call h of c for the topics U.  An answer that is an error
\* leaves it without the topic, if that was the only one called for; one that is
\* a result holds the topic's last rev.
LEMMA GetsAnswer ==
    ASSUME NEW c \in Clients, NEW t \in Topics, NEW k \in Conns, LineInv(c, k), Agrees(c, t, k), Fed(c, t, k),
           c2s[k] \in Seq(Call), c2s[k] # <<>>, t \in Head(c2s[k]).topics, Head(c2s[k]) \in Asks(k),
           NEW h \in Nat, Head(c2s[k]).id = h,
           \A a \in Asks(k) : a.id \in Nat, \A m \in Answers(k) : m.id \in Nat,
           \A b \in Asks(k)' : h < b.id, entry[c][t].inflight \in Nat,
           c2s'[k] = Tail(c2s[k]), s2c' = s2c, entry' = entry, calls' = calls, lastRev' = lastRev,
           NEW new, Answers(k)' = Answers(k) \cup {new}, new.id = h,
           subs[t] \subseteq subs'[t], Answered(new, c, t, k)',
           new.kind = "result" /\ t \in DOMAIN new.snaps => new.snaps[t].rev = lastRev[t],
           lastRev[t] \in Nat
    PROVE  Agrees(c, t, k)' /\ Fed(c, t, k)'
<1> DEFINE M == Head(c2s[k])
<1>1. /\ M \in Elems(c2s[k]) /\ Elems(c2s'[k]) \subseteq Elems(c2s[k])
      /\ ~Silent(c2s[k], t)
  BY QueueElems DEF Silent
<1>2. \A m : LastAbout(c2s[k], t, m) => (m = M /\ Silent(c2s'[k], t)) \/ LastAbout(c2s'[k], t, m)
  BY LastTail
<1>3. M \in Asks(k) /\ M.id = h /\ M.kind = "subscribe"
  BY DEF Asks
<1>4. \A m \in Answers(k) : m.id < h
  BY <1>3 DEF LineInv, OrderInv
<1>5. ~Settles(entry[c][t]) /\ (entry[c][t].inflight # 0 => h <= entry[c][t].inflight)
  BY <1>3 DEF LineInv, EntryInv, LastAsked
<1> HIDE DEF M
<1>6. IdleInv(c, t, k)'
  <2>1. ASSUME entry[c][t].inflight = 0
        PROVE  /\ entry[c][t].subscribed <=> Holds(entry[c][t])
               /\ ~entry[c][t].subscribed
               /\ \E m \in Elems(c2s[k]) : m.kind = "unsubscribe" /\ LastAbout(c2s[k], t, m)
    BY <1>1, <2>1 DEF Agrees, IdleInv
  <2>2. ASSUME NEW m, m.kind = "unsubscribe", LastAbout(c2s[k], t, m)
        PROVE  \E n \in Elems(c2s'[k]) : n.kind = "unsubscribe" /\ LastAbout(c2s'[k], t, n)
    BY <1>2, <1>3, <2>2, LastIsThere
  <2>3. QED BY <2>1, <2>2 DEF IdleInv, Holds
<1>7. ASSUME entry[c][t].inflight # 0
      PROVE  Pends(c, t, k, entry[c][t].inflight)'
  <2>0. PICK id : id = entry[c][t].inflight
    OBVIOUS
  <2>1. Pends(c, t, k, id)
    BY <1>7, <2>0 DEF Agrees, AskedInv
  <2>2. PICK a \in Asks(k) : a.id = id /\ LastAbout(c2s[k], t, a)
    BY <1>1, <2>1 DEF Pends
  <2>3. \A m \in Answers(k) : m.id # id
    <3>1. ASSUME NEW m \in Answers(k)
          PROVE  m.id # a.id
      <4>1. m.id < a.id /\ m.id \in Nat /\ a.id \in Nat
        BY <2>2 DEF LineInv, OrderInv
      <4>2. QED BY ONLY <4>1
    <3>2. QED BY <2>2, <3>1
  <2>4. /\ id \in DOMAIN calls'[c] /\ t \in calls'[c][id].topics
        /\ t \in calls'[c][id].was =>
              k \in subs'[t] /\ \A m \in Elems(c2s'[k]) : t \in m.topics => m.kind = "subscribe"
    BY <1>1, <2>1 DEF Pends
  <2>5. ASSUME LastAbout(c2s'[k], t, a)
        PROVE  Pends(c, t, k, id)'
    <3>1. a \in Asks(k)'
      BY <2>2, <2>5, LastIsThere DEF Asks
    <3>2. h # id
      <4>1. h < a.id /\ a.id = id /\ h \in Nat
        BY <2>2, <3>1
      <4>2. id \in Nat
        BY <2>0
      <4>3. QED BY ONLY <4>1, <4>2
    <3>3. \A m \in Answers(k)' : m.id # id
      BY <2>3, <3>2
    <3>4. QED BY <2>2, <2>4, <2>5, <3>1, <3>3 DEF Pends
  <2>6. ASSUME a = M, Silent(c2s'[k], t)
        PROVE  Pends(c, t, k, id)'
    <3>1. id = h
      BY <1>3, <2>2, <2>6
    <3>2. new \in Answers(k)' /\ \A m \in Answers(k)' : m.id = id => m = new
      BY <2>3
    <3>3. QED BY <2>4, <2>6, <3>1, <3>2 DEF Pends
  <2>7. Pends(c, t, k, id)'
    BY <1>2, <2>2, <2>5, <2>6
  <2>8. QED BY <2>0, <2>7 DEF Pends
<1>8. AskedInv(c, t, k)'
  BY <1>7 DEF Agrees, AskedInv
<1>9. HeldComplete(c, t, k)' /\ Sorted(s2c'[k], t)
  BY <1>5 DEF HeldComplete, Fed
<1>10. SnapsComplete(c, t, k)'
  <2>1. SUFFICES ASSUME NEW m \in Answers(k)', AnswerFor(m, c, t)', entry[c][t].inflight # 0
                 PROVE  Complete(m.snaps[t], c, t, k)'
    BY DEF SnapsComplete
  <2>2. m = new
    <3>1. CASE m \in Answers(k)
      <4>1. m.id < h /\ h <= entry[c][t].inflight /\ m.id = entry[c][t].inflight
        BY <1>4, <1>5, <2>1, <3>1 DEF AnswerFor
      <4>2. QED BY <4>1
    <3>2. QED BY <3>1
  <2>3. m.snaps[t].rev = lastRev'[t]
    BY <2>1, <2>2 DEF AnswerFor
  <2>4. QED BY <2>3 DEF Complete
<1>11. QED BY <1>6, <1>8, <1>9, <1>10 DEF Agrees, Fed

\* topics.subscribe objects to no call about one topic that its caller has.
LEMMA NeverRejected ==
    ASSUME IInv, NEW k \in Conns, NEW t \in Topics, k \in subs[t]
    PROVE  ~Rejected(k, {t})
<1>1. booted
  BY DEF IInv, HubInv, ServesNothing
<1>2. {t} \subseteq SubscribedTo(k)
  BY DEF SubscribedTo
<1>3. subs[t] # {}
  OBVIOUS
<1>4. QED BY <1>1, <1>2, <1>3 DEF Rejected

LEMMA HandleSubscribeDelivery ==
    ASSUME IInv, FlowInv, DeliveryInv, NEW j \in Conns, HandleSubscribe(j)
    PROVE  DeliveryInv'
<1> DEFINE T == Head(c2s[j]).topics
           id == Head(c2s[j]).id
           First == {t \in T : subs[t] = {}}
           Kept == First \cap Persistent
<1>1. /\ ServerReads(j, "subscribe") /\ UNCHANGED <<link, s2c, clientVars>>
      /\ reply = NoReply /\ c2s' = [c2s EXCEPT ![j] = Tail(@)]
      /\ lastRev' = lastRev /\ lost' = lost /\ entry' = entry /\ calls' = calls
  BY DEF HandleSubscribe, ServerReads, hubVars, faultVars, clientVars
<1>2. NetTypeOK /\ ClientTypeOK /\ HubTypeOK
  BY DEF IInv, TypeOK
<1>3. PICK U \in SUBSET Topics, h \in Nat : U = T /\ h = id
  BY <1>1, <1>2, CallType
<1>4. /\ reply'.conn = j /\ reply'.msg.id = h
      /\ \A t \in Topics : /\ subs'[t] \subseteq subs[t] \cup {j} /\ subs[t] \subseteq subs'[t]
                           /\ t \notin U => subs'[t] = subs[t]
      /\ reply'.msg.kind = "error" => Rejected(j, U) /\ subs' = subs
      /\ reply'.msg.kind = "result" => \A t \in U : t \in DOMAIN reply'.msg.snaps /\ j \in subs'[t]
      /\ \A t \in Topics : reply'.msg.kind = "result" /\ t \in DOMAIN reply'.msg.snaps =>
            t \in U /\ subs'[t] # {} /\ reply'.msg.snaps[t] = store'[t][current'[t]]
  <2>1. CASE Rejected(j, T) /\ reply' = [conn |-> j, msg |-> ErrorMsg(id)] /\ UNCHANGED hubVars
    BY <1>3, <2>1 DEF ErrorMsg, hubVars
  <2>2. CASE ~(Rejected(j, T) /\ reply' = [conn |-> j, msg |-> ErrorMsg(id)] /\ UNCHANGED hubVars)
    <3>1. PICK which \in [First -> StoreIds], initial \in [First -> InitialData] :
            subs' = [t \in Topics |-> IF t \in T THEN subs[t] \cup {j} ELSE subs[t]]
      BY <2>2 DEF HandleSubscribe
    <3>2. reply' = [conn |-> j, msg |-> ResultMsg(id, [t \in T |-> store'[t][current'[t]]])]
      BY <2>2 DEF HandleSubscribe
    <3>3. /\ reply'.conn = j /\ reply'.msg.id = h /\ DOMAIN reply'.msg.snaps = U
          /\ reply'.msg.kind = "result"
          /\ \A t \in U : reply'.msg.snaps[t] = store'[t][current'[t]]
      BY <1>3, <3>2 DEF ResultMsg
    <3>4. ASSUME NEW t \in Topics
          PROVE  /\ subs'[t] \subseteq subs[t] \cup {j} /\ subs[t] \subseteq subs'[t]
                 /\ t \in U => j \in subs'[t]
                 /\ t \notin U => subs'[t] = subs[t]
      BY <1>3, <3>1
    <3>5. QED BY <3>3, <3>4
  <2>3. QED BY <2>1, <2>2
<1>5. \A k \in Conns : c2s'[k] = IF k = j THEN Tail(c2s[k]) ELSE c2s[k]
  BY <1>1, <1>2 DEF NetTypeOK
<1>6. \A t \in Topics : subs'[t] # {} => Leads(t, current[t])'
  <2>1. Next
    BY DEF Next, ServerNext
  <2>2. IInv'
    BY <2>1, StepInv
  <2>3. QED BY <2>2 DEF IInv, HubInv, CurrentStoreLeads
<1>7. \A k \in Conns, t \in Topics : Patches(k, t)' = Patches(k, t)
  BY <1>1 DEF Patches
<1>8. /\ Answers(j)' = Answers(j) \cup {reply'.msg}
      /\ \A k \in Conns : k # j => Answers(k)' = Answers(k)
  <2>1. \A k \in Conns : reply.conn # k
    BY <1>1 DEF NoReply
  <2>2. QED BY <1>1, <1>4, <2>1 DEF Answers
<1>9. ASSUME NEW c \in Clients, NEW k \in Conns, DeliveryLine(c, k), k # j
      PROVE  DeliveryLine(c, k)'
  <2>1. c2s'[k] = c2s[k] /\ Answers(k)' = Answers(k) /\ \A t \in Topics : k \in subs'[t] <=> k \in subs[t]
    BY <1>4, <1>5, <1>8, <1>9
  <2>2. QED BY <1>1, <1>7, <1>9, <2>1, LineRests
<1>10. ASSUME NEW c \in Clients, LineInv(c, j), DeliveryLine(c, j)
       PROVE  DeliveryLine(c, j)'
  <2>1. c2s[j] \in Seq(Call) /\ c2s[j] # <<>> /\ c2s'[j] = Tail(c2s[j])
    BY <1>1, <1>2, <1>5 DEF ServerReads, NetTypeOK
  <2>2. /\ Head(c2s[j]) \in Asks(j) /\ Asks(j)' \subseteq Asks(j) /\ \A b \in Asks(j)' : h < b.id
    BY <1>1, <1>3, <1>10, ServerReadsEffect DEF LineInv, OrderInv, Asks
  <2>3. /\ Head(c2s[j]).topics = U /\ Head(c2s[j]).id = h
        /\ \A a \in Asks(j) : a.id \in Nat
        /\ \A m \in Answers(j) : m.id \in Nat
    BY <1>2, <1>3, IdsType
  <2>4. h \in DOMAIN calls[c] /\ calls[c][h].topics = U
    BY <1>10, <2>2, <2>3 DEF DeliveryLine, CallsInv
  <2>5. CallsInv(c, j)'
    BY <1>1, <1>10, <2>2 DEF DeliveryLine, CallsInv
  <2>6. ASSUME NEW t \in Topics
        PROVE  Agrees(c, t, j)' /\ Fed(c, t, j)'
    <3>1. Agrees(c, t, j) /\ Fed(c, t, j) /\ Sorted(s2c'[j], t)
      BY <1>1, <1>10 DEF DeliveryLine, Fed
    <3>2. CASE t \in U
      <4>1. Answered(reply.msg, c, t, j)'
        <5>1. ASSUME reply'.msg.kind = "error", U = {t}
              PROVE  j \notin subs'[t]
          BY <1>4, <5>1, NeverRejected
        <5>2. QED BY <1>1, <1>4, <2>4, <3>2, <5>1 DEF Answered
      <4>2. lastRev[t] \in Nat /\ entry[c][t].inflight \in Nat
        BY <1>2 DEF HubTypeOK, Revs, ClientTypeOK, Entry
      <4>3. reply'.msg.kind = "result" /\ t \in DOMAIN reply'.msg.snaps => reply'.msg.snaps[t].rev = lastRev[t]
        BY <1>1, <1>4, <1>6 DEF Leads
      <4>4. PICK new : new = reply'.msg
        OBVIOUS
      <4>5. /\ Answers(j)' = Answers(j) \cup {new} /\ new.id = h /\ Answered(new, c, t, j)'
            /\ new.kind = "result" /\ t \in DOMAIN new.snaps => new.snaps[t].rev = lastRev[t]
        BY <1>4, <1>8, <4>1, <4>3, <4>4 DEF Answered
      <4>6. /\ c \in Clients /\ t \in Topics /\ j \in Conns /\ h \in Nat
            /\ t \in Head(c2s[j]).topics /\ subs[t] \subseteq subs'[t]
            /\ s2c' = s2c /\ entry' = entry /\ calls' = calls /\ lastRev' = lastRev
        BY <1>1, <1>4, <2>3, <3>2
      <4>7. QED BY ONLY <1>10, <2>1, <2>2, <2>3, <3>1, <4>2, <4>5, <4>6, GetsAnswer
    <3>3. CASE t \notin U
      <4>1. QueueKeeps(c2s[j], c2s'[j], t)
        BY <2>1, <2>3, <3>3, KeepsTail
      <4>2. ASSUME entry[c][t].inflight # 0
            PROVE  entry[c][t].inflight # h
        BY <2>4, <3>1, <3>3, <4>2 DEF Agrees, AskedInv, Pends
      <4>3. QED BY <1>1, <1>4, <1>7, <1>8, <3>1, <3>3, <4>1, <4>2, TopicRests
    <3>4. QED BY <3>2, <3>3
  <2>7. QED BY <2>5, <2>6 DEF DeliveryLine
<1>11. QED BY <1>1, <1>9, <1>10, ServerDelivery
LEMMA SendReplyDelivery ==
    ASSUME IInv, FlowInv, DeliveryInv, SendReply
    PROVE  DeliveryInv'
<1>1. /\ UNCHANGED <<lastRev, subs, link, c2s, clientVars>> /\ lost' = lost
      /\ s2c' = Deliver(s2c, reply.conn, reply.msg) /\ reply' = NoReply
  BY DEF SendReply, hubVars, faultVars
<1>2. NetTypeOK
  BY DEF IInv, TypeOK
<1>3. \A k \in Conns : reply'.conn # k
  BY <1>1 DEF NoReply
<1>4. ASSUME NEW k \in Conns, link[k] = "up"
      PROVE  s2c'[k] = IF k = reply.conn THEN Append(s2c[k], reply.msg) ELSE s2c[k]
  BY <1>1, <1>2, <1>4 DEF Deliver, NetTypeOK
<1>5. ASSUME NEW k \in Conns, link[k] = "up"
      PROVE  /\ Answers(k)' = Answers(k)
             /\ \A t \in Topics : Patches(k, t)' = Patches(k, t) /\ (Sorted(s2c[k], t) => Sorted(s2c'[k], t))
  <2>1. CASE k # reply.conn
    BY <1>3, <1>4, <1>5, <2>1 DEF Answers, Patches
  <2>2. CASE k = reply.conn
    <3>1. s2c'[k] = Append(s2c[k], reply.msg) /\ s2c[k] \in Seq(Answer \cup Patch) /\ reply.msg \in Answer
      BY <1>2, <1>4, <1>5, <2>2 DEF NetTypeOK
    <3>2. Elems(s2c'[k]) = Elems(s2c[k]) \cup {reply.msg}
      BY <3>1, QueueElems
    <3>3. reply.msg.kind # "patch"
      BY <3>1 DEF Answer, Result, Failure
    <3>4. \A t \in Topics : Sorted(s2c[k], t) => Sorted(s2c'[k], t)
      BY <3>1, <3>3, SortedAppend DEF IsPatch
    <3>5. QED BY <1>3, <2>2, <3>2, <3>3, <3>4 DEF Answers, Patches
  <2>3. QED BY <2>1, <2>2
<1>6. ASSUME NEW c \in Clients, NEW k \in Conns, link'[k] = "up", DeliveryLine(c, k)
      PROVE  DeliveryLine(c, k)'
  BY <1>1, <1>5, <1>6, LineRests
<1>7. QED BY <1>1, <1>6, ServerDelivery

\* The next rev of a topic goes out.  Unless its frame is lost it is the one that
\* the replicas and snapshots of the subscribers still miss.
LEMMA TopicPublishes ==
    ASSUME NEW c \in Clients, NEW t \in Topics, NEW k \in Conns, Agrees(c, t, k), Fed(c, t, k), NoneAhead(c, t, k),
           NEW p \in Patch, p.kind = "patch", p.topic = t, lastRev[t] \in Nat, p.rev \in Nat, p.rev > lastRev[t],
           \A q \in Waiting(c, t, k) : q.rev \in Nat,
           lastRev'[t] = p.rev, k \in subs[t] => p.rev = lastRev[t] + 1,
           subs' = subs, c2s' = c2s, entry' = entry, calls' = calls, Answers(k)' = Answers(k),
           s2c[k] \in Seq(Answer \cup Patch), lost' = 0 => lost = 0,
           s2c'[k] = s2c[k] \/ s2c'[k] = Append(s2c[k], p),
           lost' = 0 /\ k \in subs[t] => s2c'[k] = Append(s2c[k], p),
           \A m \in Answers(k) : AnswerFor(m, c, t) => m.snaps[t].rev \in Nat,
           entry[c][t].rev \in Nat
    PROVE  Agrees(c, t, k)' /\ Fed(c, t, k)'
<1>1. QueueKeeps(c2s[k], c2s'[k], t)
  BY KeepsSame
<1>2. Agrees(c, t, k)'
  BY <1>1, AgreesKeeps
<1>3. Elems(Append(s2c[k], p)) = Elems(s2c[k]) \cup {p}
  <2>1. p \in Answer \cup Patch
    OBVIOUS
  <2>2. QED BY <2>1, QueueElems
<1>4. Sorted(s2c'[k], t)
  <2>1. ASSUME NEW q \in Elems(s2c[k]), IsPatch(q, t)
        PROVE  q.rev < p.rev
    <3>1. q \in Waiting(c, t, k)
      BY <2>1 DEF IsPatch, Waiting, Patches
    <3>2. q.rev \in Nat /\ q.rev <= lastRev[t]
      BY <3>1 DEF NoneAhead
    <3>3. QED BY <3>2
  <2>2. Sorted(Append(s2c[k], p), t)
    BY <2>1, SortedAppend DEF Fed
  <2>3. QED BY <2>2 DEF Fed
<1>5. ASSUME NEW x, x.rev \in Nat, Complete(x, c, t, k), lost' = 0, k \in subs[t]
      PROVE  Complete(x, c, t, k)'
  <2>1. Waiting(c, t, k)' = Waiting(c, t, k) \cup {p}
    BY <1>3, <1>5 DEF Waiting, Patches
  <2>2. ASSUME NEW r \in x.rev + 1 .. p.rev
        PROVE  \E q \in Waiting(c, t, k) \cup {p} : q.rev = r
    <3>1. CASE r = p.rev
      BY <3>1
    <3>2. CASE r # p.rev
      <4>1. r \in x.rev + 1 .. lastRev[t]
        BY <1>5, <2>2, <3>2, SMTT(30)
      <4>2. QED BY <1>5, <4>1 DEF Complete
    <3>3. QED BY <3>1, <3>2
  <2>3. QED BY <2>1, <2>2 DEF Complete
<1>6. HeldComplete(c, t, k)'
  BY <1>5 DEF Fed, HeldComplete
<1>7. SnapsComplete(c, t, k)'
  <2>1. SUFFICES ASSUME lost' = 0, k \in subs[t], entry[c][t].inflight # 0,
                        NEW m \in Answers(k), AnswerFor(m, c, t)
                 PROVE  Complete(m.snaps[t], c, t, k)'
    BY DEF SnapsComplete, AnswerFor
  <2>2. Complete(m.snaps[t], c, t, k)
    BY <2>1 DEF Fed, SnapsComplete
  <2>3. m.snaps[t].rev \in Nat
    BY <2>1
  <2>4. QED BY <1>5, <2>1, <2>2, <2>3
<1>8. QED BY <1>2, <1>4, <1>6, <1>7 DEF Fed

LEMMA SnapRevs ==
    ASSUME NetTypeOK, NEW k \in Conns, NEW c, NEW t, NEW m \in Answers(k), AnswerFor(m, c, t)
    PROVE  m.snaps[t].rev \in Nat
<1>1. s2c[k] \in Seq(Answer \cup Patch) /\ reply.msg \in Answer
  BY DEF NetTypeOK
<1>2. m \in Answer
  BY <1>1, QueueElems DEF Answers, Answer, Patch
<1>3. m \in Result
  BY <1>2 DEF AnswerFor, Answer, Failure
<1>4. m.snaps[t] \in Snapshot
  BY <1>3 DEF AnswerFor, Result
<1>5. QED BY <1>4 DEF Snapshot, Revs

LEMMA BroadcastDelivery ==
    ASSUME IInv, FlowInv, DeliveryInv, NEW t \in Topics, NEW rev \in Revs, NEW o \in [Data -> Data \cup {Drift}],
           NEW dropped, rev > lastRev[t], subs[t] # {} => rev = lastRev[t] + 1,
           lastRev' = [lastRev EXCEPT ![t] = rev], Broadcast(t, PatchMsg(t, rev, o), dropped),
           lost' = 0 => lost = 0 /\ dropped = {},
           UNCHANGED <<subs, reply, link, c2s, clientVars>>
    PROVE  DeliveryInv'
<1> DEFINE p == PatchMsg(t, rev, o)
<1>1. p \in Patch /\ p.rev = rev /\ p.kind = "patch" /\ p.topic = t
  BY MessageTypes DEF PatchMsg
<1> HIDE DEF p
<1>2. NetTypeOK /\ HubTypeOK /\ ClientTypeOK
  BY DEF IInv, TypeOK
<1>3. \A k \in Conns : s2c'[k] = IF k \in subs[t] \ dropped /\ link[k] = "up" THEN Append(s2c[k], p) ELSE s2c[k]
  BY DEF Broadcast, p
<1>4. /\ lastRev'[t] = p.rev /\ lastRev[t] \in Nat /\ rev \in Nat
      /\ \A u \in Topics : u # t => lastRev'[u] = lastRev[u]
  BY <1>1, <1>2 DEF HubTypeOK, Revs
<1>5. ASSUME NEW c \in Clients, NEW k \in Conns, link'[k] = "up", LineInv(c, k), DeliveryLine(c, k)
      PROVE  DeliveryLine(c, k)'
  <2>1. entry' = entry /\ calls' = calls /\ link[k] = "up" /\ c2s'[k] = c2s[k]
    BY <1>5 DEF clientVars
  <2>2. s2c[k] \in Seq(Answer \cup Patch) /\ (s2c'[k] = s2c[k] \/ s2c'[k] = Append(s2c[k], p))
    BY <1>2, <1>3 DEF NetTypeOK
  <2>3. p \in Answer \cup Patch
    BY <1>1
  <2>4. Elems(Append(s2c[k], p)) = Elems(s2c[k]) \cup {p}
    BY <2>2, <2>3, QueueElems
  <2>5. Answers(k)' = Answers(k) /\ \A u \in Topics : u # t => Patches(k, u)' = Patches(k, u)
    BY <1>1, <2>2, <2>4 DEF Answers, Patches
  <2>6. CallsInv(c, k)'
    BY <1>5, <2>1 DEF DeliveryLine, CallsInv, Asks
  <2>7. \A u \in Topics : Agrees(c, u, k) /\ Fed(c, u, k)
    BY <1>5 DEF DeliveryLine
  <2>8. Agrees(c, t, k)' /\ Fed(c, t, k)'
    <3>1. NoneAhead(c, t, k) /\ entry[c][t].rev \in Nat
      BY <1>2, <1>5 DEF LineInv, EntryInv, ClientTypeOK, Entry, Revs
    <3>2. /\ \A q \in Waiting(c, t, k) : q.rev \in Nat
          /\ \A m \in Answers(k) : AnswerFor(m, c, t) => m.snaps[t].rev \in Nat
      BY <1>2, WaitingType, SnapRevs
    <3>3. lost' = 0 /\ k \in subs[t] => s2c'[k] = Append(s2c[k], p)
      BY <1>3, <2>1
    <3>4. /\ c \in Clients /\ t \in Topics /\ k \in Conns /\ Agrees(c, t, k) /\ Fed(c, t, k)
          /\ p \in Patch /\ p.kind = "patch" /\ p.topic = t /\ p.rev \in Nat /\ p.rev > lastRev[t]
          /\ k \in subs[t] => p.rev = lastRev[t] + 1
          /\ subs' = subs /\ c2s' = c2s
      BY <1>1, <1>4, <2>7
    <3>5. lost' = 0 => lost = 0
      OBVIOUS
    <3>6. QED BY ONLY <1>4, <2>1, <2>2, <2>5, <3>1, <3>2, <3>3, <3>4, <3>5, TopicPublishes
  <2>9. ASSUME NEW u \in Topics, u # t
        PROVE  Agrees(c, u, k)' /\ Fed(c, u, k)'
    <3>1. Sorted(s2c'[k], u)
      <4>1. Sorted(s2c[k], u) /\ ~IsPatch(p, u)
        BY <1>1, <2>7, <2>9 DEF Fed, IsPatch
      <4>2. Sorted(Append(s2c[k], p), u)
        BY <2>2, <2>3, <4>1, SortedAppend
      <4>3. QED BY <2>2, <4>1, <4>2
    <3>2. QueueKeeps(c2s[k], c2s'[k], u)
      BY <2>1, KeepsSame
    <3>3. QED BY <1>4, <2>1, <2>5, <2>7, <2>9, <3>1, <3>2, TopicRests
  <2>10. QED BY <2>6, <2>8, <2>9 DEF DeliveryLine
<1>6. QED BY <1>5, ServerDelivery

\* A step that changes no more of the hub than its stores.
LEMMA NothingMoves ==
    ASSUME IInv, FlowInv, DeliveryInv, UNCHANGED <<subs, lastRev, reply, link, c2s, s2c, clientVars, lost>>
    PROVE  DeliveryInv'
<1>1. ASSUME NEW c \in Clients, NEW k \in Conns, DeliveryLine(c, k)
      PROVE  DeliveryLine(c, k)'
  <2>1. Answers(k)' = Answers(k) /\ \A t \in Topics : Patches(k, t)' = Patches(k, t)
    BY NothingRead
  <2>2. QED BY <1>1, <2>1, LineRests
<1>2. QED BY <1>1, ServerDelivery

LEMMA PublishDelivery ==
    ASSUME IInv, FlowInv, DeliveryInv, NEW t \in Topics, NEW s \in StoreIds, NEW o \in Ops,
           NEW dropped \in SUBSET Conns, Publish(t, s, o, dropped)
    PROVE  DeliveryInv'
<1> DEFINE rev == store[t][s].rev + 1
<1>1. /\ rev <= MaxRev /\ UNCHANGED <<subs, reply, link, c2s, clientVars>>
  BY DEF Publish
<1>2. HubTypeOK /\ HubInv /\ lost \in Nat
  BY DEF IInv, TypeOK
<1>3. rev \in Revs /\ o \in [Data -> Data \cup {Drift}] /\ lastRev[t] \in Nat
  BY <1>1, <1>2 DEF HubTypeOK, Snapshot, Revs
<1>4. CASE UNCHANGED <<lastRev, truth, s2c, lost>>
  BY <1>1, <1>4, NothingMoves
<1>5. CASE ~Stale(t, s, rev)
  <2>1. /\ lastRev' = [lastRev EXCEPT ![t] = rev]
        /\ dropped \subseteq subs[t] /\ lost' = lost + Cardinality(dropped)
        /\ Broadcast(t, PatchMsg(t, rev, o), dropped)
    BY <1>5 DEF Publish
  <2>2. rev > lastRev[t] /\ (subs[t] # {} => current[t] = s /\ current[t] # NoStore)
    BY <1>3, <1>5 DEF Stale, Revs
  <2>3. subs[t] # {} => rev = lastRev[t] + 1
    BY <1>2, <2>2 DEF HubInv, CurrentStoreLeads, Leads
  <2>4. lost' = 0 => lost = 0 /\ dropped = {}
    <3>1. IsFiniteSet(dropped)
      BY FS_Subset
    <3>2. Cardinality(dropped) \in Nat /\ (Cardinality(dropped) = 0 => dropped = {})
      BY <3>1, FS_CardinalityType, FS_EmptySet
    <3>3. QED BY <1>2, <2>1, <3>2
  <2> HIDE DEF rev
  <2>5. QED BY <1>1, <1>3, <2>1, <2>2, <2>3, <2>4, BroadcastDelivery
<1>6. QED BY <1>4, <1>5 DEF Publish

LEMMA ReplaceStoreDelivery ==
    ASSUME IInv, FlowInv, DeliveryInv, NEW t \in Topics, NEW s \in StoreIds, NEW d \in InitialData,
           ReplaceStore(t, s, d)
    PROVE  DeliveryInv'
<1> DEFINE rev == lastRev[t] + 1
           o == [x \in Data |-> d]
<1>1. /\ rev <= MaxRev /\ lastRev' = [lastRev EXCEPT ![t] = rev] /\ lost' = lost
      /\ Broadcast(t, PatchMsg(t, rev, o), {})
      /\ UNCHANGED <<subs, reply, link, c2s, clientVars>>
  BY DEF ReplaceStore, NextRev, faultVars
<1>2. rev \in Revs /\ rev > lastRev[t] /\ o \in [Data -> Data \cup {Drift}]
  BY <1>1 DEF IInv, TypeOK, HubTypeOK, Revs
<1>3. rev = lastRev[t] + 1
  OBVIOUS
<1> HIDE DEF rev, o
<1>4. QED BY <1>1, <1>2, <1>3, BroadcastDelivery

LEMMA SocketClosedDelivery ==
    ASSUME IInv, FlowInv, DeliveryInv, NEW j \in Conns, ServerDropsSocket(j) \/ ServerSeesClose(j)
    PROVE  DeliveryInv'
<1>1. /\ UNCHANGED <<reply, s2c, clientVars>> /\ lost' = lost
      /\ c2s' = [c2s EXCEPT ![j] = <<>>] /\ Unlink(j, SubscribedTo(j))
      /\ \/ link' = [link EXCEPT ![j] = "serverGone"]
         \/ link' = [link EXCEPT ![j] = "free"]
  BY DEF ServerDropsSocket, ServerSeesClose, ClientClosed
<1>2. NetTypeOK
  BY DEF IInv, TypeOK
<1>3. lastRev' = lastRev /\ \A t \in Topics : subs'[t] = subs[t] \ {j}
  BY <1>1 DEF Unlink, SubscribedTo
<1>4. \A k \in Conns : link'[k] = "up" => k # j /\ c2s'[k] = c2s[k] /\ link[k] = "up"
  BY <1>1, <1>2 DEF NetTypeOK
<1>5. ASSUME NEW c \in Clients, NEW k \in Conns, link'[k] = "up", DeliveryLine(c, k)
      PROVE  DeliveryLine(c, k)'
  <2>1. Answers(k)' = Answers(k) /\ \A t \in Topics : Patches(k, t)' = Patches(k, t)
    BY <1>1, NothingRead
  <2>2. k # j /\ c2s'[k] = c2s[k] /\ s2c' = s2c
    BY <1>1, <1>4, <1>5
  <2>3. QED BY <1>1, <1>3, <1>5, <2>1, <2>2, LineRests
<1>6. QED BY <1>1, <1>4, <1>5, ServerDelivery

LEMMA CrashDelivery ==
    ASSUME IInv, FlowInv, DeliveryInv, Crash
    PROVE  DeliveryInv'
<1>1. NetTypeOK
  BY DEF IInv, TypeOK
<1>2. \A k \in Conns : link'[k] # "up"
  BY <1>1 DEF Crash, NetTypeOK
<1>3. UNCHANGED clientVars
  BY DEF Crash
<1>4. QED BY <1>2, <1>3, ServerDelivery

LEMMA ServerStepDelivery ==
    ASSUME IInv, FlowInv, DeliveryInv, ServerNext
    PROVE  DeliveryInv'
<1>1. ASSUME NEW k \in Conns,
             HandleSubscribe(k) \/ HandleUnsubscribe(k) \/ ServerDropsSocket(k) \/ ServerSeesClose(k)
      PROVE  DeliveryInv'
  BY <1>1, HandleSubscribeDelivery, HandleUnsubscribeDelivery, SocketClosedDelivery
<1>2. ASSUME NEW t \in Topics, NEW s \in StoreIds, NEW o \in Ops, NEW dropped \in SUBSET Conns,
             Publish(t, s, o, dropped)
      PROVE  DeliveryInv'
  BY <1>2, PublishDelivery
<1>3. ASSUME NEW t \in Topics, NEW s \in StoreIds, NEW d \in InitialData, ReplaceStore(t, s, d)
      PROVE  DeliveryInv'
  BY <1>3, ReplaceStoreDelivery
<1>4. CASE SendReply \/ Crash
  BY <1>4, SendReplyDelivery, CrashDelivery
<1>5. CASE Restart \/ Boot
  BY <1>5, NothingMoves DEF Restart, Boot, netVars, faultVars
<1>6. QED BY <1>1, <1>2, <1>3, <1>4, <1>5 DEF ServerNext
-----------------------------------------------------------------------------
(* The invariant, and what follows from it when a connection is quiet *)

LEMMA InitDelivery == Init => DeliveryInv
<1> SUFFICES ASSUME Init PROVE DeliveryInv
  OBVIOUS
<1>1. \A c \in Clients : conn[c] = NoConn /\ calls[c] = <<>> /\ \A t \in Topics : entry[c][t] = NoEntry
  BY DEF Init
<1>2. ~NoEntry.subscribed /\ NoEntry.inflight = 0 /\ NoEntry.buffer = <<>>
  BY DEF NoEntry
<1>3. QED BY <1>1, <1>2 DEF DeliveryInv, RestInv, Vacant, Connected

LEMMA StepDelivery == IInv /\ FlowInv /\ DeliveryInv /\ [Next]_vars => DeliveryInv'
<1> SUFFICES ASSUME IInv, FlowInv, DeliveryInv, [Next]_vars PROVE DeliveryInv'
  OBVIOUS
<1>1. CASE ServerNext
  BY <1>1, ServerStepDelivery
<1>2. ASSUME NEW c \in Clients, ClientNext(c)
      PROVE  DeliveryInv'
  BY <1>2, ClientDelivery
<1>3. CASE UNCHANGED vars
  BY <1>3, NothingMoves DEF vars, serverVars, hubVars, netVars, faultVars
<1>4. QED BY <1>1, <1>2, <1>3 DEF Next

\* With nothing on its way to or from c, no call of c is under way.
LEMMA QuietLine ==
    ASSUME IInv, FlowInv, DeliveryInv, NEW c \in Clients, Quiet(c), NEW t \in Topics
    PROVE  /\ entry[c][t].inflight = 0
           /\ entry[c][t].subscribed <=> Holds(entry[c][t])
           /\ conn[c] \in subs[t] <=> entry[c][t].subscribed
           /\ Patches(conn[c], t) = {}
           /\ conn[c] \in Conns /\ LineInv(c, conn[c]) /\ DeliveryLine(c, conn[c])
<1>1. PICK k \in Conns : k = conn[c]
  BY DEF Quiet, IInv, TypeOK, ClientTypeOK
<1>2. Elems(c2s[k]) = {} /\ Elems(s2c[k]) = {} /\ reply.conn # k
  BY <1>1, EmptyElems DEF Quiet
<1>3. Asks(k) = {} /\ Answers(k) = {} /\ Patches(k, t) = {}
  BY <1>2 DEF Asks, Answers, Patches
<1>4. LineInv(c, k) /\ DeliveryLine(c, k)
  BY <1>1 DEF FlowInv, DeliveryInv, Connected, Quiet
<1>5. entry[c][t].inflight = 0
  BY <1>3, <1>4 DEF DeliveryLine, Agrees, AskedInv, Pends
<1>6. /\ entry[c][t].subscribed <=> Holds(entry[c][t])
      /\ k \in subs[t] <=> entry[c][t].subscribed
  BY <1>2, <1>4, <1>5 DEF DeliveryLine, Agrees, IdleInv
<1>7. QED BY <1>1, <1>3, <1>4, <1>5, <1>6

LEMMA QuietFresh ==
    ASSUME IInv, FlowInv, DeliveryInv, NEW c \in Clients, Quiet(c), NEW t \in Topics,
           lost = 0, entry[c][t].subscribed
    PROVE  /\ entry[c][t].status = "ready"
           /\ entry[c][t].rev = lastRev[t]
           /\ entry[c][t].data = store[t][current[t]].data
<1>1. PICK k \in Conns : k = conn[c] /\ LineInv(c, k) /\ DeliveryLine(c, k)
  BY QuietLine
<1>2. entry[c][t].inflight = 0 /\ Holds(entry[c][t]) /\ k \in subs[t] /\ Patches(k, t) = {}
  BY <1>1, QuietLine
<1>3. entry[c][t].status = "ready"
  BY <1>2 DEF Holds, Quiet, Busy
<1>4. Settles(entry[c][t])
  BY <1>2, <1>3 DEF Settles
<1>5. Waiting(c, t, k) = {}
  <2>1. entry[c][t].buffer = <<>>
    BY <1>2, <1>3 DEF DeliveryInv, RestInv
  <2>2. QED BY <1>2, <2>1, EmptyElems DEF Waiting
<1>6. \A r \in entry[c][t].rev + 1 .. lastRev[t] : FALSE
  BY <1>1, <1>2, <1>4, <1>5 DEF DeliveryLine, Fed, HeldComplete, Complete
<1>7. entry[c][t].rev <= lastRev[t] /\ entry[c][t].data = truth[t][entry[c][t].rev]
  BY <1>1, <1>2, <1>4 DEF LineInv, EntryInv, HeldGenuine, Genuine
<1>8. entry[c][t].rev \in Nat /\ lastRev[t] \in Nat
  BY DEF IInv, TypeOK, HubTypeOK, ClientTypeOK, Entry, Revs
<1>9. entry[c][t].rev = lastRev[t]
  <2>1. ~(entry[c][t].rev < lastRev[t])
    BY <1>6, <1>8
  <2>2. QED BY <1>7, <1>8, <2>1
<1>10. Leads(t, current[t])
  BY <1>2 DEF IInv, HubInv, CurrentStoreLeads
<1>11. QED BY <1>3, <1>7, <1>9, <1>10 DEF Leads

\* What a following client has still to read, on a connection that lost nothing,
\* comes rev by rev: a frame that is r revs ahead has at least r - 1 before it.
LEMMA NoGap ==
    ASSUME IInv, FlowInv, DeliveryInv, NEW c \in Clients, NEW t \in Topics, Following(c, t), lost = 0,
           NEW i \in DOMAIN s2c[conn[c]], IsPatch(s2c[conn[c]][i], t)
    PROVE  s2c[conn[c]][i].rev <= entry[c][t].rev +
              Cardinality({j \in 1 .. i : s2c[conn[c]][j].kind = "patch" /\ s2c[conn[c]][j].topic = t})
<1>1. PICK k \in Conns : k = conn[c]
  BY DEF Following, IInv, TypeOK, ClientTypeOK
<1>2. k # NoConn /\ k \in subs[t] /\ entry[c][t].inflight = 0 /\ entry[c][t].status = "ready"
  BY <1>1 DEF Following
<1>3. Connected(c)
  <2>1. link[k] \in {"up", "clientGone"} /\ link[k] \in {"up", "serverGone"}
    BY <1>1, <1>2 DEF FlowInv, SubsLinked, ClientInv
  <2>2. QED BY <1>1, <1>2, <2>1 DEF Connected
<1>4. LineInv(c, k) /\ DeliveryLine(c, k)
  BY <1>1, <1>3 DEF FlowInv, DeliveryInv
<1>5. PICK q : q = s2c[k]
  OBVIOUS
<1>6. q \in Seq(Answer \cup Patch) /\ DOMAIN q = 1 .. Len(q) /\ Len(q) \in Nat /\ i \in 1 .. Len(q)
  <2>1. q \in Seq(Answer \cup Patch) /\ i \in DOMAIN q
    BY <1>1, <1>5 DEF IInv, TypeOK, NetTypeOK
  <2>2. QED BY <2>1
<1> DEFINE m == q[i]
           rev == entry[c][t].rev
           S == {j \in 1 .. i : IsPatch(q[j], t)}
           R == rev + 1 .. m.rev
<1>7. Waiting(c, t, k) = {q[j] : j \in {l \in DOMAIN q : IsPatch(q[l], t)}}
  <2>1. entry[c][t].buffer = <<>>
    BY <1>2 DEF DeliveryInv, RestInv
  <2>2. Waiting(c, t, k) = Patches(k, t)
    BY <2>1, EmptyElems DEF Waiting
  <2>3. QED BY <1>5, <2>2 DEF Patches, IsPatch, Elems
<1>8. m \in Waiting(c, t, k) /\ m.rev <= lastRev[t]
  <2>1. IsPatch(m, t) /\ i \in DOMAIN q
    BY <1>1, <1>5, <1>6
  <2>2. m \in Waiting(c, t, k)
    BY <1>7, <2>1
  <2>3. QED BY <1>4, <2>2 DEF LineInv, EntryInv, NoneAhead
<1>9. m.rev \in Nat /\ rev \in Nat /\ lastRev[t] \in Nat
  <2>1. rev \in Nat /\ lastRev[t] \in Nat
    BY DEF IInv, TypeOK, HubTypeOK, ClientTypeOK, Entry, Revs
  <2>2. QED BY <1>8, <2>1, WaitingType
<1>10. IsFiniteSet(S) /\ Cardinality(S) \in Nat
  <2>1. 1 \in Int /\ i \in Int
    BY <1>6
  <2>2. IsFiniteSet(1 .. i)
    BY ONLY <2>1, FS_Interval
  <2>3. QED BY <2>2, FS_Subset, FS_CardinalityType
<1>11. ASSUME NEW r \in R
       PROVE  \E j \in S : q[j].rev = r
  <2>1. r \in rev + 1 .. lastRev[t] /\ r \in Nat /\ r <= m.rev
    BY <1>8, <1>9, <1>11
  <2>2. Complete(entry[c][t], c, t, k)
    BY <1>2, <1>4 DEF DeliveryLine, Fed, HeldComplete, Settles
  <2>3. PICK p \in Waiting(c, t, k) : p.rev = r
    BY <2>1, <2>2 DEF Complete
  <2>4. PICK j \in DOMAIN q : IsPatch(q[j], t) /\ q[j].rev = r
    BY <1>7, <2>3
  <2>5. IsPatch(m, t) /\ i \in DOMAIN q /\ Sorted(q, t)
    BY <1>1, <1>4, <1>5, <1>6 DEF DeliveryLine, Fed
  <2>6. ~(i < j)
    <3>1. ASSUME i < j
          PROVE  FALSE
      <4>1. m.rev < q[j].rev
        BY <2>4, <2>5, <3>1 DEF Sorted
      <4>2. QED BY <1>9, <2>1, <2>4, <4>1
    <3>2. QED BY <3>1
  <2>7. j \in 1 .. i
    BY <1>6, <2>6
  <2>8. QED BY <2>4, <2>7
<1>12. CASE m.rev <= rev
  <2>1. m.rev <= rev + Cardinality(S)
    <3> HIDE DEF m, rev, S
    <3>1. QED BY <1>9, <1>10, <1>12
  <2>2. QED BY <1>1, <1>5, <2>1 DEF IsPatch
<1>13. CASE ~(m.rev <= rev)
  <2> DEFINE f == [r \in R |-> CHOOSE j \in S : q[j].rev = r]
  <2>1. \A r \in R : f[r] \in S /\ q[f[r]].rev = r
    <3> HIDE DEF R, S
    <3>1. QED BY <1>11
  <2>2. f \in Injection(R, S)
    <3>1. f \in [R -> S]
      BY <2>1
    <3>2. \A a, b \in R : f[a] = f[b] => a = b
      BY <2>1
    <3> HIDE DEF f, R, S
    <3>3. QED BY <3>1, <3>2 DEF Injection, IsInjective
  <2>3. Cardinality(R) <= Cardinality(S)
    <3> HIDE DEF f, R, S
    <3>1. QED BY <1>10, <2>2, FS_Injection
  <2>4. Cardinality(R) = m.rev - rev
    <3> HIDE DEF m, rev
    <3>1. rev + 1 \in Int /\ m.rev \in Int /\ ~(rev + 1 > m.rev)
      BY <1>9, <1>13
    <3>2. Cardinality(R) = m.rev - (rev + 1) + 1
      BY <3>1, FS_Interval
    <3>3. QED BY <1>9, <3>2, SMTT(30)
  <2>5. m.rev <= rev + Cardinality(S)
    <3> HIDE DEF m, rev, S, R
    <3>1. QED BY <1>9, <1>10, <2>3, <2>4
  <2>6. QED BY <1>1, <1>5, <2>5 DEF IsPatch
<1>14. QED BY <1>12, <1>13

\* Whatever was called, answered, retried or failed before: once nothing is under
\* way between a client and the server, TopicCache and TopicHub agree on which
\* topics the client is subscribed to.
THEOREM QuietAgrees == Spec => []SubscriptionsAgree
<1>1. IInv /\ FlowInv /\ DeliveryInv => SubscriptionsAgree
  BY QuietLine DEF SubscriptionsAgree
<1>2. QED BY <1>1, InitInv, StepInv, InitFlow, StepFlow, InitDelivery, StepDelivery, PTL DEF Spec

\* And if no frame was lost, a subscribed client then shows the latest contents of
\* the topic's store, whichever of its patches came live, buffered or in a snapshot.
THEOREM QuietIsFresh == Spec => []QuietMeansFresh
<1>1. IInv /\ FlowInv /\ DeliveryInv => QuietMeansFresh
  BY QuietFresh DEF QuietMeansFresh
<1>2. QED BY <1>1, InitInv, StepInv, InitFlow, StepFlow, InitDelivery, StepDelivery, PTL DEF Spec

\* handlePatch meets a gap only on a connection that lost a frame: the patches on
\* the way to a client that follows a topic come rev by rev.
THEOREM GapsOnlyAfterLoss == Spec => []GapOnlyAfterLoss
<1>1. ASSUME IInv, FlowInv, DeliveryInv
      PROVE  GapOnlyAfterLoss
  <2>1. SUFFICES ASSUME NEW c \in Clients, NEW t \in Topics, Following(c, t), lost = 0,
                        NEW i \in DOMAIN s2c[conn[c]],
                        s2c[conn[c]][i].kind = "patch", s2c[conn[c]][i].topic = t
                 PROVE  s2c[conn[c]][i].rev <= entry[c][t].rev +
                          Cardinality({j \in 1 .. i : s2c[conn[c]][j].kind = "patch" /\ s2c[conn[c]][j].topic = t})
    BY DEF GapOnlyAfterLoss
  <2>2. IsPatch(s2c[conn[c]][i], t)
    BY <2>1 DEF IsPatch
  <2>3. QED BY <1>1, <2>1, <2>2, NoGap
<1>2. IInv /\ FlowInv /\ DeliveryInv => GapOnlyAfterLoss
  BY <1>1
<1>3. QED BY <1>2, InitInv, StepInv, InitFlow, StepFlow, InitDelivery, StepDelivery, PTL DEF Spec
=============================================================================
