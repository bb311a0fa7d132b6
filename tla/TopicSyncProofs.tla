-------------------------- MODULE TopicSyncProofs --------------------------
(***************************************************************************)
(* Type correctness of TopicSync and the hub's invariant, for every set of *)
(* clients, sockets and topics.  The two are proved together: the answer   *)
(* the hub computes for a subscribe is well formed only because a topic    *)
(* with subscribers has a current store.                                   *)
(***************************************************************************)
EXTENDS TopicSync, FiniteSetTheorems, SequenceTheorems, TLAPS

\* A client that replays a snapshot's patches is connected, so a gap among them
\* is resubscribed over a socket the client has.
ReplaysConnected == \A c \in Clients : Busy(c) => conn[c] # NoConn

IInv == TypeOK /\ HubInv /\ ReplaysConnected

USE DataAssumption, SetAssumption, BoundAssumption

-----------------------------------------------------------------------------
(* Messages, and what the client's helpers make of them *)

LEMMA MessageTypes ==
    /\ \A id \in Nat, T \in SUBSET Topics : SubscribeMsg(id, T) \in Call
    /\ \A T \in SUBSET Topics : UnsubscribeMsg(T) \in Call
    /\ \A id \in Nat : ErrorMsg(id) \in Failure
    /\ \A t \in Topics, r \in Revs, o \in [Data -> Data \cup {Drift}] : PatchMsg(t, r, o) \in Patch
    /\ \A id \in Nat, T \in SUBSET Topics : \A snaps \in [T -> Snapshot] : ResultMsg(id, snaps) \in Result
<1>1. \A id \in Nat, T \in SUBSET Topics : SubscribeMsg(id, T) \in Call
  BY DEF SubscribeMsg, Call
<1>2. \A T \in SUBSET Topics : UnsubscribeMsg(T) \in Call
  BY DEF UnsubscribeMsg, Call
<1>3. \A id \in Nat : ErrorMsg(id) \in Failure
  BY DEF ErrorMsg, Failure
<1>4. \A t \in Topics, r \in Revs, o \in [Data -> Data \cup {Drift}] : PatchMsg(t, r, o) \in Patch
  BY DEF PatchMsg, Patch
<1>5. \A id \in Nat, T \in SUBSET Topics : \A snaps \in [T -> Snapshot] : ResultMsg(id, snaps) \in Result
  BY DEF ResultMsg, Result
<1>6. QED BY <1>1, <1>2, <1>3, <1>4, <1>5

LEMMA Kinds ==
    /\ \A m \in Answer \cup Patch : m.kind = "result" => m \in Result
    /\ \A m \in Answer \cup Patch : m.kind = "error" => m \in Failure
    /\ \A m \in Answer \cup Patch : m.kind = "patch" => m \in Patch
  BY DEF Answer, Patch, Result, Failure

LEMMA EntryTypes ==
    /\ NoEntry \in Entry
    /\ FreshEntry \in Entry
    /\ \A e \in Entry, id \in Nat : Begin(e, id) \in Entry
    /\ \A e \in Entry, snap \in Snapshot : Take(e, snap) \in Entry
    /\ \A e \in Entry, kept \in BOOLEAN : Fail(e, kept) \in Entry
    /\ \A e \in Entry, p \in Patch : Extends(e, p) => Applied(e, p) \in Entry
<1>0. /\ <<>> \in Seq(Patch)
      /\ 0 \in Revs
  BY DEF Revs
<1>1. NoEntry \in Entry
  BY <1>0 DEF NoEntry, Entry
<1>2. FreshEntry \in Entry
  BY <1>1 DEF FreshEntry, Entry
<1>3. \A e \in Entry, id \in Nat : Begin(e, id) \in Entry
  BY <1>0 DEF Begin, Entry
<1>4. \A e \in Entry, snap \in Snapshot : Take(e, snap) \in Entry
  BY DEF Take, Entry, Snapshot
<1>5. \A e \in Entry, kept \in BOOLEAN : Fail(e, kept) \in Entry
  BY <1>0 DEF Fail, Entry
<1>6. \A e \in Entry, p \in Patch : Extends(e, p) => Applied(e, p) \in Entry
  BY DEF Extends, Applied, Entry, Patch
<1>7. QED BY <1>1, <1>2, <1>3, <1>4, <1>5, <1>6

LEMMA PostType ==
    ASSUME NetTypeOK, NEW k \in Conns, NEW msgs \in Seq(Call), Post(k, msgs)
    PROVE  c2s' \in [Conns -> Seq(Call)]
<1>1. c2s[k] \o msgs \in Seq(Call)
  BY ConcatProperties DEF NetTypeOK
<1>2. QED BY <1>1 DEF Post, NetTypeOK

LEMMA SubscribeMsgsType ==
    ASSUME ClientTypeOK, NEW c \in Clients, NEW groups \in Seq(SUBSET Topics)
    PROVE  SubscribeMsgs(c, groups) \in Seq(Call)
<1>1. \A i \in 1 .. Len(groups) : SubscribeMsg(nextId[c] + i - 1, groups[i]) \in Call
  BY MessageTypes DEF ClientTypeOK
<1>2. DOMAIN groups = 1 .. Len(groups) /\ Len(groups) \in Nat
  OBVIOUS
<1>3. QED BY <1>1, <1>2 DEF SubscribeMsgs

\* ClientTypeOK without the socket.
RequestsOK ==
    /\ entry \in [Clients -> [Topics -> Entry]]
    /\ DOMAIN calls = Clients
    /\ \A c \in Clients : DOMAIN calls[c] \subseteq Nat \ {0} /\ \A id \in DOMAIN calls[c] : calls[c][id] \in Pending
    /\ nextId \in [Clients -> Nat \ {0}]

\* A client's part of entry and calls after a call of subscribeBatch per group.
LEMMA SubscribeBatchesParts ==
    ASSUME ClientTypeOK, NEW c \in Clients,
           NEW es \in [Topics -> Entry],
           NEW cs, DOMAIN cs \subseteq Nat \ {0}, \A id \in DOMAIN cs : cs[id] \in Pending,
           NEW groups \in Seq(SUBSET Topics), NEW was \in SUBSET Topics,
           SubscribeBatches(c, es, cs, groups, was)
    PROVE  RequestsOK'
<1> DEFINE ids == nextId[c] .. nextId[c] + Len(groups) - 1
           group(id) == groups[id - nextId[c] + 1]
           newEntries == [t \in Topics |-> IF \E id \in ids : t \in group(id)
                            THEN Begin(es[t], CHOOSE id \in ids : t \in group(id)) ELSE es[t]]
           newCalls == [id \in ids \cup DOMAIN cs |->
                            IF id \in ids THEN [topics |-> group(id), was |-> was \cap group(id)] ELSE cs[id]]
<1>1. /\ nextId[c] \in Nat \ {0}
      /\ Len(groups) \in Nat
      /\ ids \subseteq Nat \ {0}
  BY DEF ClientTypeOK
<1>2. \A id \in ids : group(id) \in SUBSET Topics
  BY <1>1
<1>3. newEntries \in [Topics -> Entry]
  <2>1. ASSUME NEW t \in Topics, \E id \in ids : t \in group(id)
        PROVE  Begin(es[t], CHOOSE id \in ids : t \in group(id)) \in Entry
    <3>1. (CHOOSE id \in ids : t \in group(id)) \in Nat
      BY <1>1, <2>1
    <3>2. QED BY <3>1, EntryTypes
  <2>2. QED BY <2>1
<1>4. /\ DOMAIN newCalls \subseteq Nat \ {0}
      /\ \A id \in DOMAIN newCalls : newCalls[id] \in Pending
  <2>1. \A id \in ids : [topics |-> group(id), was |-> was \cap group(id)] \in Pending
    BY <1>2 DEF Pending
  <2>2. QED BY <1>1, <2>1
<1>5. /\ entry' = [entry EXCEPT ![c] = newEntries]
      /\ calls' = [calls EXCEPT ![c] = newCalls]
      /\ nextId' = [nextId EXCEPT ![c] = @ + Len(groups)]
  BY DEF SubscribeBatches
<1> HIDE DEF newEntries, newCalls
<1>6. entry' \in [Clients -> [Topics -> Entry]]
  BY <1>3, <1>5 DEF ClientTypeOK
<1>7. /\ DOMAIN calls' = Clients
      /\ \A d \in Clients : DOMAIN calls'[d] \subseteq Nat \ {0} /\ \A id \in DOMAIN calls'[d] : calls'[d][id] \in Pending
  BY <1>4, <1>5 DEF ClientTypeOK
<1>8. nextId' \in [Clients -> Nat \ {0}]
  BY <1>1, <1>5 DEF ClientTypeOK
<1>9. QED BY <1>6, <1>7, <1>8 DEF RequestsOK

LEMMA SubscribeBatchesType ==
    ASSUME ClientTypeOK, NEW c \in Clients,
           NEW es \in [Topics -> Entry],
           NEW cs, DOMAIN cs \subseteq Nat \ {0}, \A id \in DOMAIN cs : cs[id] \in Pending,
           NEW groups \in Seq(SUBSET Topics), NEW was \in SUBSET Topics,
           SubscribeBatches(c, es, cs, groups, was), UNCHANGED conn
    PROVE  ClientTypeOK'
<1>1. RequestsOK'
  BY SubscribeBatchesParts
<1>2. QED BY <1>1 DEF ClientTypeOK, RequestsOK

LEMMA SingletonGroups ==
    /\ \A T \in SUBSET Topics : <<T>> \in Seq(SUBSET Topics)
    /\ \A T \in SUBSET Topics : \A order \in Orders(T) : [i \in DOMAIN order |-> {order[i]}] \in Seq(SUBSET Topics)
<1>1. ASSUME NEW T \in SUBSET Topics, NEW order \in Orders(T)
      PROVE  [i \in DOMAIN order |-> {order[i]}] \in Seq(SUBSET Topics)
  <2>1. Cardinality(T) \in Nat
    BY FS_Subset, FS_CardinalityType
  <2>2. order \in [1 .. Cardinality(T) -> T]
    BY DEF Orders
  <2>3. QED BY <2>1, <2>2
<1>2. QED BY <1>1

-----------------------------------------------------------------------------
(* The steps of a client *)

FaultTypeOK == lost \in 0..MaxLost /\ breaks \in 0..MaxBreaks /\ crashes \in 0..MaxCrashes

LEMMA HubUntouched ==
    ASSUME IInv, UNCHANGED <<booted, up, hubVars>>
    PROVE  HubTypeOK' /\ HubInv'
<1>1. HubTypeOK'
  BY DEF IInv, TypeOK, HubTypeOK, hubVars
<1>2. HubInv'
  BY DEF IInv, HubInv, CurrentStoreLeads, KeptStores, ServesNothing, Leads, hubVars
<1>3. QED BY <1>1, <1>2

\* A client touches nothing of the server.
LEMMA ServerUntouched ==
    ASSUME IInv, UNCHANGED serverVars
    PROVE  HubTypeOK' /\ HubInv' /\ reply' \in [conn : Conns \cup {NoConn}, msg : Answer]
  BY HubUntouched DEF IInv, TypeOK, NetTypeOK, serverVars

LEMMA AcquireType ==
    ASSUME IInv, NEW c \in Clients, NEW T \in SUBSET Topics, Acquire(c, T)
    PROVE  NetTypeOK' /\ ClientTypeOK' /\ FaultTypeOK'
<1> DEFINE es == [t \in Topics |-> IF t \in T /\ entry[c][t].status = "absent" THEN FreshEntry ELSE entry[c][t]]
           added == {t \in T : ~es[t].subscribed}
<1> USE DEF IInv, TypeOK
<1>1. es \in [Topics -> Entry]
  BY EntryTypes DEF ClientTypeOK
<1>2. UNCHANGED <<serverVars, link, s2c, conn, faultVars>>
  BY DEF Acquire
<1>3. CASE conn[c] = NoConn
  <2>1. /\ entry' = [entry EXCEPT ![c] = es]
        /\ UNCHANGED <<calls, nextId, c2s>>
    BY <1>3 DEF Acquire
  <2> HIDE DEF es
  <2>2. QED BY <1>1, <1>2, <2>1 DEF NetTypeOK, ClientTypeOK, FaultTypeOK, serverVars, faultVars
<1>4. CASE conn[c] # NoConn
  <2>1. /\ SubscribeBatches(c, es, calls[c], <<added>>, {})
        /\ Post(conn[c], SubscribeMsgs(c, <<added>>))
    BY <1>4 DEF Acquire
  <2>2. /\ <<added>> \in Seq(SUBSET Topics)
        /\ conn[c] \in Conns
        /\ DOMAIN calls[c] \subseteq Nat \ {0} /\ \A id \in DOMAIN calls[c] : calls[c][id] \in Pending
    BY <1>4, SingletonGroups DEF ClientTypeOK
  <2> HIDE DEF es, added
  <2>3. ClientTypeOK'
    <3>1. conn' = conn /\ {} \in SUBSET Topics
      BY <1>2
    <3>2. ClientTypeOK
      OBVIOUS
    <3> HIDE DEF IInv, TypeOK
    <3>3. QED BY <1>1, <2>1, <2>2, <3>1, <3>2, SubscribeBatchesType
  <2>4. c2s' \in [Conns -> Seq(Call)]
    BY <2>1, <2>2, SubscribeMsgsType, PostType
  <2>5. QED BY <1>2, <2>3, <2>4 DEF NetTypeOK, FaultTypeOK, serverVars, faultVars
<1>5. QED BY <1>3, <1>4

LEMMA ReleaseType ==
    ASSUME IInv, NEW c \in Clients, NEW t \in Topics, Release(c, t)
    PROVE  NetTypeOK' /\ ClientTypeOK' /\ FaultTypeOK'
<1> USE DEF IInv, TypeOK
<1>1. UNCHANGED <<serverVars, link, s2c, conn, calls, nextId, faultVars>>
  BY DEF Release
<1>2. entry' \in [Clients -> [Topics -> Entry]]
  BY EntryTypes DEF Release, ClientTypeOK
<1>3. c2s' \in [Conns -> Seq(Call)]
  <2>1. CASE conn[c] # NoConn /\ Unsubscribes(entry[c][t])
    <3>1. Post(conn[c], <<UnsubscribeMsg({t})>>) /\ conn[c] \in Conns
      BY <2>1 DEF Release, ClientTypeOK
    <3>2. <<UnsubscribeMsg({t})>> \in Seq(Call)
      BY MessageTypes
    <3>3. QED BY <3>1, <3>2, PostType
  <2>2. CASE ~(conn[c] # NoConn /\ Unsubscribes(entry[c][t]))
    BY <2>2 DEF Release, NetTypeOK
  <2>3. QED BY <2>1, <2>2
<1>4. QED BY <1>1, <1>2, <1>3 DEF NetTypeOK, ClientTypeOK, FaultTypeOK, serverVars, faultVars

\* The frame a client reads, and the queue it leaves.
LEMMA FrameType ==
    ASSUME NetTypeOK, ClientTypeOK, NEW c \in Clients, NEW kind, Arrives(c, kind), Consume(c)
    PROVE  /\ conn[c] \in Conns
           /\ Head(s2c[conn[c]]) \in Answer \cup Patch
           /\ Head(s2c[conn[c]]).kind = kind
           /\ s2c' \in [Conns -> Seq(Answer \cup Patch)]
<1>1. conn[c] \in Conns /\ s2c[conn[c]] # <<>> /\ Head(s2c[conn[c]]).kind = kind
  BY DEF Arrives, ClientTypeOK
<1>2. s2c[conn[c]] \in Seq(Answer \cup Patch)
  BY <1>1 DEF NetTypeOK
<1>3. Head(s2c[conn[c]]) \in Answer \cup Patch /\ Tail(s2c[conn[c]]) \in Seq(Answer \cup Patch)
  BY <1>1, <1>2, HeadTailProperties
<1>4. QED BY <1>1, <1>3 DEF Consume, NetTypeOK

LEMMA PendingCallType ==
    ASSUME ClientTypeOK, NEW c \in Clients, NEW id
    PROVE  /\ PendingCall(c, id).topics \in SUBSET Topics
           /\ PendingCall(c, id).was \in SUBSET Topics
           /\ DOMAIN Settled(c, id) \subseteq Nat \ {0}
           /\ \A i \in DOMAIN Settled(c, id) : Settled(c, id)[i] \in Pending
  BY DEF ClientTypeOK, PendingCall, Settled, Pending

\* What ReceiveResult and the last failure leave of a client: each entry one of
\* its type, and the answered call gone.
LEMMA SettledType ==
    ASSUME ClientTypeOK, NEW c \in Clients, NEW id, NEW es \in [Topics -> Entry],
           entry' = [entry EXCEPT ![c] = es], calls' = [calls EXCEPT ![c] = Settled(c, id)],
           UNCHANGED <<conn, nextId>>
    PROVE  ClientTypeOK'
<1>1. entry' \in [Clients -> [Topics -> Entry]]
  BY DEF ClientTypeOK
<1>2. \A d \in Clients : DOMAIN calls'[d] \subseteq Nat \ {0} /\ \A i \in DOMAIN calls'[d] : calls'[d][i] \in Pending
  BY PendingCallType DEF ClientTypeOK
<1>3. QED BY <1>1, <1>2 DEF ClientTypeOK

LEMMA ReceiveResultType ==
    ASSUME IInv, NEW c \in Clients, ReceiveResult(c)
    PROVE  NetTypeOK' /\ ClientTypeOK' /\ FaultTypeOK'
<1> USE DEF IInv, TypeOK
<1> DEFINE msg == Head(s2c[conn[c]])
           call == PendingCall(c, msg.id)
           answered(e, t) == IF t \in DOMAIN msg.snaps THEN Take(e, msg.snaps[t]) ELSE Fail(e, t \in call.was)
           es == [t \in Topics |-> IF t \in call.topics /\ Accepts(entry[c][t], msg.id)
                                     THEN answered(entry[c][t], t) ELSE entry[c][t]]
<1>1. UNCHANGED <<serverVars, link, c2s, conn, nextId, faultVars>>
  BY DEF ReceiveResult
<1>2. msg \in Result /\ s2c' \in [Conns -> Seq(Answer \cup Patch)]
  BY FrameType, Kinds DEF ReceiveResult
<1>3. es \in [Topics -> Entry]
  <2>1. ASSUME NEW t \in DOMAIN msg.snaps
        PROVE  msg.snaps[t] \in Snapshot
    BY <1>2 DEF Result
  <2>2. \A t \in Topics : answered(entry[c][t], t) \in Entry
    <3>1. \A t \in Topics : entry[c][t] \in Entry /\ (t \in call.was) \in BOOLEAN
      BY DEF ClientTypeOK
    <3> HIDE DEF msg, call
    <3>2. QED BY <2>1, <3>1, EntryTypes
  <2>3. QED BY <2>2 DEF ClientTypeOK
<1>4. ClientTypeOK'
  <2>1. entry' = [entry EXCEPT ![c] = es] /\ calls' = [calls EXCEPT ![c] = Settled(c, msg.id)]
    BY DEF ReceiveResult
  <2> HIDE DEF es, call
  <2>2. QED BY <1>1, <1>3, <2>1, SettledType
<1>5. QED BY <1>1, <1>2, <1>4 DEF NetTypeOK, FaultTypeOK, serverVars, faultVars

\* subscribeBatch of one topic, from a gap.
LEMMA ResubscribeType ==
    ASSUME NetTypeOK, ClientTypeOK, NEW c \in Clients, NEW t \in Topics, conn[c] \in Conns,
           NEW es \in [Topics -> Entry], Resubscribe(c, es, t), UNCHANGED conn
    PROVE  ClientTypeOK' /\ c2s' \in [Conns -> Seq(Call)]
<1>1. <<{t}>> \in Seq(SUBSET Topics) /\ {t} \in SUBSET Topics
  OBVIOUS
<1>2. DOMAIN calls[c] \subseteq Nat \ {0} /\ \A id \in DOMAIN calls[c] : calls[c][id] \in Pending
  BY DEF ClientTypeOK
<1>3. SubscribeBatches(c, es, calls[c], <<{t}>>, {t}) /\ Post(conn[c], SubscribeMsgs(c, <<{t}>>))
  BY DEF Resubscribe
<1>4. ClientTypeOK'
  BY <1>1, <1>2, <1>3, SubscribeBatchesType
<1>5. c2s' \in [Conns -> Seq(Call)]
  BY <1>1, <1>3, SubscribeMsgsType, PostType
<1>6. QED BY <1>4, <1>5

LEMMA EntryChangeType ==
    ASSUME ClientTypeOK, NEW c \in Clients, NEW t \in Topics, NEW e \in Entry,
           entry' = [entry EXCEPT ![c][t] = e], UNCHANGED <<conn, calls, nextId>>
    PROVE  ClientTypeOK'
  BY DEF ClientTypeOK

LEMMA ReplayType ==
    ASSUME IInv, NEW c \in Clients, NEW t \in Topics, Replay(c, t)
    PROVE  NetTypeOK' /\ ClientTypeOK' /\ FaultTypeOK'
<1> USE DEF IInv, TypeOK
<1> DEFINE e == entry[c][t]
           p == Head(e.buffer)
           ready == [e EXCEPT !.status = "ready", !.buffer = <<>>]
<1>1. /\ UNCHANGED <<serverVars, link, s2c, faultVars>>
      /\ conn' = conn
      /\ e.status = "replaying"
  BY DEF Replay
<1>2. /\ e \in Entry
      /\ ready \in Entry
      /\ e.buffer \in Seq(Patch)
      /\ e.buffer # <<>> => p \in Patch /\ Tail(e.buffer) \in Seq(Patch)
  <2>1. e \in Entry
    BY DEF ClientTypeOK
  <2>2. <<>> \in Seq(Patch)
    OBVIOUS
  <2>3. QED BY <2>1, <2>2, HeadTailProperties DEF Entry
<1>3. conn[c] \in Conns
  BY <1>1 DEF ReplaysConnected, Busy, ClientTypeOK
<1>4. ClientTypeOK' /\ c2s' \in [Conns -> Seq(Call)]
  <2>1. CASE e.buffer = <<>>
    <3>1. entry' = [entry EXCEPT ![c][t] = ready] /\ UNCHANGED <<calls, nextId, c2s>>
      BY <2>1 DEF Replay
    <3>2. QED BY <1>1, <1>2, <3>1, EntryChangeType DEF NetTypeOK
  <2>2. CASE e.buffer # <<>> /\ p.rev <= e.rev /\ UNCHANGED <<calls, nextId, c2s>>
             /\ entry' = [entry EXCEPT ![c][t].buffer = Tail(@)]
    <3>1. [e EXCEPT !.buffer = Tail(@)] \in Entry
      BY <1>2, <2>2 DEF Entry
    <3>2. entry' = [entry EXCEPT ![c][t] = [e EXCEPT !.buffer = Tail(@)]]
      BY <2>2
    <3>3. QED BY <1>1, <2>2, <3>1, <3>2, EntryChangeType DEF NetTypeOK
  <2>3. CASE e.buffer # <<>> /\ Extends(e, p) /\ UNCHANGED <<calls, nextId, c2s>>
             /\ entry' = [entry EXCEPT ![c][t] = [Applied(e, p) EXCEPT !.buffer = Tail(@)]]
    <3>1. Applied(e, p) \in Entry
      BY <1>2, <2>3, EntryTypes
    <3>2. Applied(e, p).buffer = e.buffer
      BY <1>2 DEF Applied, Entry
    <3>3. [Applied(e, p) EXCEPT !.buffer = Tail(@)] \in Entry
      BY <1>2, <2>3, <3>1, <3>2 DEF Entry
    <3>4. QED BY <1>1, <2>3, <3>3, EntryChangeType DEF NetTypeOK
  <2>4. CASE e.buffer # <<>> /\ Resubscribe(c, [entry[c] EXCEPT ![t] = ready], t)
    <3>1. [entry[c] EXCEPT ![t] = ready] \in [Topics -> Entry]
      BY <1>2 DEF ClientTypeOK
    <3> HIDE DEF ready
    <3>2. QED BY <1>1, <1>3, <2>4, <3>1, ResubscribeType
  <2>5. QED BY <2>1, <2>2, <2>3, <2>4 DEF Replay
<1>5. QED BY <1>1, <1>4 DEF NetTypeOK, FaultTypeOK, serverVars, faultVars

LEMMA ReceiveErrorType ==
    ASSUME IInv, NEW c \in Clients, ReceiveError(c)
    PROVE  NetTypeOK' /\ ClientTypeOK' /\ FaultTypeOK'
<1> USE DEF IInv, TypeOK
<1> DEFINE id == Head(s2c[conn[c]]).id
           call == PendingCall(c, id)
<1>1. /\ UNCHANGED <<serverVars, link, faultVars>>
      /\ conn' = conn
  BY DEF ReceiveError
<1>2. conn[c] \in Conns /\ s2c' \in [Conns -> Seq(Answer \cup Patch)]
  BY FrameType DEF ReceiveError
<1>3. ClientTypeOK' /\ c2s' \in [Conns -> Seq(Call)]
  <2>1. CASE \E order \in Orders(call.topics \cap Wanted(c)) :
               LET singles == [i \in DOMAIN order |-> {order[i]}]
               IN  /\ SubscribeBatches(c, entry[c], Settled(c, id), singles, call.was)
                   /\ Post(conn[c], SubscribeMsgs(c, singles))
    <3>1. PICK order \in Orders(call.topics \cap Wanted(c)) :
               /\ SubscribeBatches(c, entry[c], Settled(c, id), [i \in DOMAIN order |-> {order[i]}], call.was)
               /\ Post(conn[c], SubscribeMsgs(c, [i \in DOMAIN order |-> {order[i]}]))
      BY <2>1
    <3> DEFINE singles == [i \in DOMAIN order |-> {order[i]}]
    <3>2. singles \in Seq(SUBSET Topics)
      BY PendingCallType, SingletonGroups
    <3>3. entry[c] \in [Topics -> Entry] /\ call.was \in SUBSET Topics
      BY PendingCallType DEF ClientTypeOK
    <3>4. SubscribeBatches(c, entry[c], Settled(c, id), singles, call.was) /\ Post(conn[c], SubscribeMsgs(c, singles))
      BY <3>1
    <3> HIDE DEF singles, call
    <3>5. ClientTypeOK'
      BY <1>1, <3>2, <3>3, <3>4, PendingCallType, SubscribeBatchesType
    <3>6. QED BY <1>2, <3>2, <3>4, <3>5, SubscribeMsgsType, PostType
  <2>2. CASE /\ entry' = [entry EXCEPT ![c] = [t \in Topics |->
                    IF t \in call.topics /\ Accepts(entry[c][t], id) THEN Fail(entry[c][t], t \in call.was) ELSE entry[c][t]]]
             /\ calls' = [calls EXCEPT ![c] = Settled(c, id)]
             /\ UNCHANGED <<nextId, c2s>>
    <3> DEFINE es == [t \in Topics |-> IF t \in call.topics /\ Accepts(entry[c][t], id)
                                        THEN Fail(entry[c][t], t \in call.was) ELSE entry[c][t]]
    <3>1. \A t \in Topics : entry[c][t] \in Entry /\ (t \in call.was) \in BOOLEAN
      BY DEF ClientTypeOK
    <3>2. es \in [Topics -> Entry]
      BY <3>1, EntryTypes
    <3>3. entry' = [entry EXCEPT ![c] = es] /\ calls' = [calls EXCEPT ![c] = Settled(c, id)]
      BY <2>2
    <3> HIDE DEF es, call
    <3>4. QED BY <1>1, <2>2, <3>2, <3>3, SettledType DEF NetTypeOK
  <2>3. QED BY <2>1, <2>2 DEF ReceiveError
<1>4. QED BY <1>1, <1>2, <1>3 DEF NetTypeOK, FaultTypeOK, serverVars, faultVars

LEMMA ReceivePatchType ==
    ASSUME IInv, NEW c \in Clients, ReceivePatch(c)
    PROVE  NetTypeOK' /\ ClientTypeOK' /\ FaultTypeOK'
<1> USE DEF IInv, TypeOK
<1> DEFINE p == Head(s2c[conn[c]])
           e == entry[c][p.topic]
<1>1. /\ UNCHANGED <<serverVars, link, faultVars>>
      /\ conn' = conn
  BY DEF ReceivePatch
<1>2. /\ conn[c] \in Conns
      /\ p \in Patch
      /\ s2c' \in [Conns -> Seq(Answer \cup Patch)]
  BY FrameType, Kinds DEF ReceivePatch
<1>3. p.topic \in Topics /\ e \in Entry
  BY <1>2 DEF Patch, ClientTypeOK
<1>4. ClientTypeOK' /\ c2s' \in [Conns -> Seq(Call)]
  <2>1. CASE UNCHANGED <<entry, calls, nextId, c2s>>
    BY <1>1, <2>1 DEF ClientTypeOK, NetTypeOK
  <2>2. CASE /\ entry' = [entry EXCEPT ![c][p.topic] = [e EXCEPT !.buffer = Append(@, p)]]
             /\ UNCHANGED <<calls, nextId, c2s>>
    <3>1. e.buffer \in Seq(Patch)
      BY <1>3 DEF Entry
    <3>2. Append(e.buffer, p) \in Seq(Patch)
      BY <1>2, <3>1, AppendProperties
    <3>3. [e EXCEPT !.buffer = Append(@, p)] \in Entry
      BY <1>3, <3>2 DEF Entry
    <3>4. QED BY <1>1, <1>3, <2>2, <3>3, EntryChangeType DEF NetTypeOK
  <2>3. CASE Extends(e, p) /\ entry' = [entry EXCEPT ![c][p.topic] = Applied(e, p)]
             /\ UNCHANGED <<calls, nextId, c2s>>
    <3>1. Applied(e, p) \in Entry
      BY <1>2, <1>3, <2>3, EntryTypes
    <3>2. QED BY <1>1, <1>3, <2>3, <3>1, EntryChangeType DEF NetTypeOK
  <2>4. CASE Resubscribe(c, entry[c], p.topic)
    <3>1. entry[c] \in [Topics -> Entry]
      BY DEF ClientTypeOK
    <3>2. QED BY <1>1, <1>2, <1>3, <2>4, <3>1, ResubscribeType
  <2>5. QED BY <2>1, <2>2, <2>3, <2>4 DEF ReceivePatch
<1>5. QED BY <1>1, <1>2, <1>4 DEF NetTypeOK, FaultTypeOK, serverVars, faultVars

LEMMA ConnectType ==
    ASSUME IInv, NEW c \in Clients, NEW k \in Conns, Connect(c, k)
    PROVE  NetTypeOK' /\ ClientTypeOK' /\ FaultTypeOK'
<1> USE DEF IInv, TypeOK
<1>1. /\ UNCHANGED <<serverVars, s2c, faultVars>>
      /\ link' = [link EXCEPT ![k] = "up"]
      /\ conn' = [conn EXCEPT ![c] = k]
  BY DEF Connect
<1>2. ClientTypeOK' /\ c2s' \in [Conns -> Seq(Call)]
  <2>1. CASE UNCHANGED <<entry, calls, nextId, c2s>>
    BY <1>1, <2>1 DEF ClientTypeOK, NetTypeOK
  <2>2. CASE /\ SubscribeBatches(c, entry[c], calls[c], <<Wanted(c)>>, {})
             /\ c2s' = [c2s EXCEPT ![k] = SubscribeMsgs(c, <<Wanted(c)>>)]
    <3>1. <<Wanted(c)>> \in Seq(SUBSET Topics) /\ {} \in SUBSET Topics
      BY DEF Wanted
    <3>2. SubscribeMsgs(c, <<Wanted(c)>>) \in Seq(Call)
      BY <3>1, SubscribeMsgsType
    <3>3. entry[c] \in [Topics -> Entry] /\ DOMAIN calls[c] \subseteq Nat \ {0} /\ \A id \in DOMAIN calls[c] : calls[c][id] \in Pending
      BY DEF ClientTypeOK
    <3>4. RequestsOK'
      <4>1. ClientTypeOK
        OBVIOUS
      <4> HIDE DEF IInv, TypeOK
      <4>2. QED BY <2>2, <3>1, <3>3, <4>1, SubscribeBatchesParts
    <3>5. QED BY <1>1, <2>2, <3>2, <3>4 DEF ClientTypeOK, RequestsOK, NetTypeOK
  <2>3. QED BY <2>1, <2>2 DEF Connect
<1>3. QED BY <1>1, <1>2 DEF NetTypeOK, FaultTypeOK, serverVars, faultVars

LEMMA DisconnectedType ==
    ASSUME IInv, NEW c \in Clients, conn[c] # NoConn, Disconnected(c)
    PROVE  /\ ClientTypeOK'
           /\ c2s' \in [Conns -> Seq(Call)]
           /\ s2c' \in [Conns -> Seq(Answer \cup Patch)]
           /\ UNCHANGED <<serverVars, lost, crashes>>
<1> USE DEF IInv, TypeOK
<1> DEFINE es == [t \in Topics |-> [entry[c][t] EXCEPT !.subscribed = FALSE, !.inflight = 0, !.buffer = <<>>]]
<1>1. es \in [Topics -> Entry]
  <2>1. <<>> \in Seq(Patch)
    OBVIOUS
  <2>2. \A e \in Entry : [e EXCEPT !.subscribed = FALSE, !.inflight = 0, !.buffer = <<>>] \in Entry
    BY <2>1 DEF Entry
  <2>3. \A t \in Topics : entry[c][t] \in Entry
    BY DEF ClientTypeOK
  <2>4. QED BY <2>2, <2>3
<1>2. /\ entry' = [entry EXCEPT ![c] = es]
      /\ calls' = [calls EXCEPT ![c] = <<>>]
      /\ nextId' = [nextId EXCEPT ![c] = 1]
      /\ conn' = [conn EXCEPT ![c] = NoConn]
  BY DEF Disconnected
<1>3. ClientTypeOK'
  <2> HIDE DEF es
  <2>1. /\ conn' \in [Clients -> Conns \cup {NoConn}]
        /\ entry' \in [Clients -> [Topics -> Entry]]
        /\ nextId' \in [Clients -> Nat \ {0}]
    BY <1>1, <1>2 DEF ClientTypeOK
  <2>2. DOMAIN calls' = Clients /\ \A d \in Clients : calls'[d] = IF d = c THEN <<>> ELSE calls[d]
    BY <1>2 DEF ClientTypeOK
  <2>3. \A d \in Clients : DOMAIN calls'[d] \subseteq Nat \ {0} /\ \A id \in DOMAIN calls'[d] : calls'[d][id] \in Pending
    <3>1. DOMAIN <<>> = {}
      OBVIOUS
    <3>2. QED BY <2>2, <3>1 DEF ClientTypeOK
  <2>4. QED BY <2>1, <2>2, <2>3 DEF ClientTypeOK
<1>4. s2c' \in [Conns -> Seq(Answer \cup Patch)]
  <2>1. <<>> \in Seq(Answer \cup Patch)
    OBVIOUS
  <2>2. QED BY <2>1 DEF Disconnected, NetTypeOK
<1>5. QED BY <1>3, <1>4 DEF Disconnected, NetTypeOK

LEMMA ClosedByClientType ==
    ASSUME IInv, NEW c \in Clients, conn[c] # NoConn, Disconnected(c),
           NEW l \in {"clientGone", "free"}, link' = [link EXCEPT ![conn[c]] = l]
    PROVE  NetTypeOK'
<1>1. UNCHANGED serverVars /\ c2s' \in [Conns -> Seq(Call)] /\ s2c' \in [Conns -> Seq(Answer \cup Patch)]
  BY DisconnectedType
<1>2. QED BY <1>1 DEF IInv, TypeOK, NetTypeOK, serverVars

\* Every step of a client keeps the types.
LEMMA ClientStepType ==
    ASSUME IInv, NEW c \in Clients, ClientNext(c)
    PROVE  HubTypeOK' /\ HubInv' /\ NetTypeOK' /\ ClientTypeOK' /\ FaultTypeOK'
<1>0. HubTypeOK' /\ HubInv'
  <2>1. UNCHANGED serverVars
    BY DEF ClientNext, Acquire, Release, Replay, ReceiveResult, ReceiveError, ReceivePatch, Connect,
           ClientLosesSocket, ClientSeesClose, Disconnected
  <2>2. QED BY <2>1, ServerUntouched
<1>1. ASSUME NEW T \in SUBSET Topics, Acquire(c, T)
      PROVE  NetTypeOK' /\ ClientTypeOK' /\ FaultTypeOK'
  BY <1>1, AcquireType
<1>2. ASSUME NEW t \in Topics, Release(c, t)
      PROVE  NetTypeOK' /\ ClientTypeOK' /\ FaultTypeOK'
  BY <1>2, ReleaseType
<1>3. ASSUME NEW t \in Topics, Replay(c, t)
      PROVE  NetTypeOK' /\ ClientTypeOK' /\ FaultTypeOK'
  BY <1>3, ReplayType
<1>4. CASE ReceiveResult(c)
  BY <1>4, <1>0, ReceiveResultType
<1>5. CASE ReceiveError(c)
  BY <1>5, <1>0, ReceiveErrorType
<1>6. CASE ReceivePatch(c)
  BY <1>6, <1>0, ReceivePatchType
<1>7. ASSUME NEW k \in Conns, Connect(c, k)
      PROVE  NetTypeOK' /\ ClientTypeOK' /\ FaultTypeOK'
  BY <1>7, ConnectType
<1>8. CASE ClientLosesSocket(c)
  <2>1. /\ Disconnected(c) /\ conn[c] # NoConn /\ conn[c] \in Conns
        /\ link' = [link EXCEPT ![conn[c]] = "clientGone"]
        /\ breaks < MaxBreaks /\ breaks' = breaks + 1
    BY <1>8 DEF ClientLosesSocket, IInv, TypeOK, ClientTypeOK
  <2>2. ClientTypeOK' /\ lost' = lost /\ crashes' = crashes
    BY <2>1, DisconnectedType
  <2>3. NetTypeOK'
    BY <2>1, ClosedByClientType
  <2>4. FaultTypeOK'
    BY <2>1, <2>2 DEF IInv, TypeOK, FaultTypeOK
  <2>5. QED BY <1>0, <2>2, <2>3, <2>4
<1>9. CASE ClientSeesClose(c)
  <2>1. /\ Disconnected(c) /\ conn[c] # NoConn /\ conn[c] \in Conns
        /\ link' = [link EXCEPT ![conn[c]] = "free"]
        /\ breaks' = breaks
    BY <1>9 DEF ClientSeesClose, IInv, TypeOK, ClientTypeOK
  <2>2. ClientTypeOK' /\ lost' = lost /\ crashes' = crashes
    BY <2>1, DisconnectedType
  <2>3. NetTypeOK'
    BY <2>1, ClosedByClientType
  <2>4. FaultTypeOK'
    BY <2>1, <2>2 DEF IInv, TypeOK, FaultTypeOK
  <2>5. QED BY <1>0, <2>2, <2>3, <2>4
<1>10. QED BY <1>0, <1>1, <1>2, <1>3, <1>4, <1>5, <1>6, <1>7, <1>8, <1>9 DEF ClientNext

\* A step of client c is seen by no other client.
LEMMA OthersUntouched ==
    ASSUME IInv, NEW c \in Clients, ClientNext(c), NEW d \in Clients, d # c
    PROVE  entry'[d] = entry[d] /\ conn'[d] = conn[d]
<1> USE DEF IInv, TypeOK, ClientTypeOK
<1>1. ASSUME NEW es, NEW cs, NEW groups, NEW was, SubscribeBatches(c, es, cs, groups, was)
      PROVE  entry'[d] = entry[d]
  BY <1>1 DEF SubscribeBatches
<1>2. ASSUME NEW T \in SUBSET Topics, Acquire(c, T)
      PROVE  entry'[d] = entry[d] /\ conn'[d] = conn[d]
  BY <1>1, <1>2 DEF Acquire
<1>3. ASSUME NEW t \in Topics, Release(c, t)
      PROVE  entry'[d] = entry[d] /\ conn'[d] = conn[d]
  BY <1>3 DEF Release
<1>4. ASSUME NEW t \in Topics, Replay(c, t)
      PROVE  entry'[d] = entry[d] /\ conn'[d] = conn[d]
  BY <1>1, <1>4 DEF Replay, Resubscribe
<1>5. CASE ReceiveResult(c)
  BY <1>5 DEF ReceiveResult
<1>6. CASE ReceiveError(c)
  BY <1>1, <1>6 DEF ReceiveError
<1>7. CASE ReceivePatch(c)
  BY <1>1, <1>7 DEF ReceivePatch, Resubscribe
<1>8. ASSUME NEW k \in Conns, Connect(c, k)
      PROVE  entry'[d] = entry[d] /\ conn'[d] = conn[d]
  BY <1>1, <1>8 DEF Connect
<1>9. CASE Disconnected(c)
  BY <1>9 DEF Disconnected
<1>10. QED BY <1>2, <1>3, <1>4, <1>5, <1>6, <1>7, <1>8, <1>9 DEF ClientNext, ClientLosesSocket, ClientSeesClose

LEMMA ClientStepConnected ==
    ASSUME IInv, NEW c \in Clients, ClientNext(c)
    PROVE  ReplaysConnected'
<1> USE DEF IInv, TypeOK
<1>1. ASSUME NEW d \in Clients, d # c
      PROVE  Busy(d)' => conn'[d] # NoConn
  BY <1>1, OthersUntouched DEF ReplaysConnected, Busy
<1>2. ASSUME conn'[c] = NoConn
      PROVE  ~Busy(c)'
  <2>1. ASSUME NEW T \in SUBSET Topics, Acquire(c, T)
        PROVE  ~Busy(c)'
    <3>1. conn[c] = NoConn
      BY <1>2, <2>1 DEF Acquire
    <3>2. \A t \in Topics : entry'[c][t].status \in {entry[c][t].status, "subscribing"}
      BY <2>1, <3>1 DEF Acquire, FreshEntry, NoEntry, ClientTypeOK
    <3>3. QED BY <2>1, <3>2 DEF Acquire, Busy
  <2>2. ASSUME NEW t \in Topics, Release(c, t)
        PROVE  ~Busy(c)'
    BY <2>2 DEF Release, Busy, NoEntry, ClientTypeOK
  <2>3. ~ \E t \in Topics : Replay(c, t)
    BY <1>2 DEF Replay, ReplaysConnected, Busy
  <2>4. ~ \E k \in Conns : Connect(c, k)
    BY <1>2 DEF Connect, ClientTypeOK
  <2>5. ~ReceiveResult(c) /\ ~ReceiveError(c) /\ ~ReceivePatch(c)
    BY <1>2 DEF ReceiveResult, ReceiveError, ReceivePatch, Arrives
  <2>6. CASE ~Busy(c) /\ Disconnected(c)
    <3>1. \A t \in Topics : entry'[c][t].status = entry[c][t].status
      <4>1. \A e \in Entry : [e EXCEPT !.subscribed = FALSE, !.inflight = 0, !.buffer = <<>>].status = e.status
        BY DEF Entry
      <4>2. \A t \in Topics : entry[c][t] \in Entry
        BY DEF ClientTypeOK
      <4>3. entry'[c] = [t \in Topics |-> [entry[c][t] EXCEPT !.subscribed = FALSE, !.inflight = 0, !.buffer = <<>>]]
        BY <2>6 DEF Disconnected, ClientTypeOK
      <4>4. QED BY <4>1, <4>2, <4>3
    <3>2. QED BY <2>6, <3>1 DEF Busy
  <2>7. QED BY <2>1, <2>2, <2>3, <2>4, <2>5, <2>6 DEF ClientNext, ClientLosesSocket, ClientSeesClose
<1>3. QED BY <1>1, <1>2 DEF ReplaysConnected

-----------------------------------------------------------------------------
(* The steps of the server *)

LEMMA ClientsUntouched ==
    ASSUME IInv, UNCHANGED clientVars
    PROVE  ClientTypeOK' /\ ReplaysConnected'
  BY DEF IInv, TypeOK, ClientTypeOK, ReplaysConnected, Busy, clientVars

\* The call the server reads, and the queue it leaves.
LEMMA CallType ==
    ASSUME NetTypeOK, NEW k \in Conns, NEW kind, ServerReads(k, kind)
    PROVE  /\ Head(c2s[k]) \in Call
           /\ Head(c2s[k]).topics \in SUBSET Topics /\ Head(c2s[k]).id \in Nat
           /\ c2s' \in [Conns -> Seq(Call)]
<1>1. c2s[k] \in Seq(Call) /\ c2s[k] # <<>>
  BY DEF ServerReads, NetTypeOK
<1>2. Head(c2s[k]) \in Call /\ Tail(c2s[k]) \in Seq(Call)
  BY <1>1, HeadTailProperties
<1>3. QED BY <1>2 DEF ServerReads, NetTypeOK, Call

\* The last subscriber of a topic takes the current store with it.
LEMMA UnlinkInv ==
    ASSUME HubTypeOK, HubInv, NEW k \in Conns, NEW T \in SUBSET Topics, Unlink(k, T), UNCHANGED <<booted, up>>
    PROVE  HubTypeOK' /\ HubInv'
<1>1. HubTypeOK'
  BY DEF Unlink, HubTypeOK
<1>2. CurrentStoreLeads'
  BY DEF Unlink, HubTypeOK, HubInv, CurrentStoreLeads, Leads
<1>3. KeptStores'
  BY DEF Unlink, HubTypeOK, HubInv, KeptStores, Leads
<1>4. ServesNothing => ServesNothing'
  BY DEF Unlink, ServesNothing
<1>5. QED BY <1>1, <1>2, <1>3, <1>4 DEF HubInv

LEMMA DeliverType ==
    ASSUME NetTypeOK, NEW k \in Conns, NEW msg \in Answer \cup Patch
    PROVE  Deliver(s2c, k, msg) \in [Conns -> Seq(Answer \cup Patch)]
<1>1. Append(s2c[k], msg) \in Seq(Answer \cup Patch)
  BY AppendProperties DEF NetTypeOK
<1>2. QED BY <1>1 DEF Deliver, NetTypeOK

LEMMA BroadcastType ==
    ASSUME NetTypeOK, NEW t, NEW msg \in Answer \cup Patch, NEW dropped, Broadcast(t, msg, dropped)
    PROVE  s2c' \in [Conns -> Seq(Answer \cup Patch)]
<1>1. \A k \in Conns : Append(s2c[k], msg) \in Seq(Answer \cup Patch)
  BY AppendProperties DEF NetTypeOK
<1>2. QED BY <1>1 DEF Broadcast, NetTypeOK

\* Providers registered on a hub that served nothing start level with it.
LEMMA ProvideInv ==
    ASSUME HubTypeOK, HubInv, ~booted, Provide(live', store', truth'),
           up', booted' = TRUE, UNCHANGED <<subs, current, lastRev>>
    PROVE  HubTypeOK' /\ HubInv'
<1>1. ServesNothing
  BY DEF HubInv
<1>2. PICK which \in [Persistent -> StoreIds], initial \in [Persistent -> InitialData] :
        /\ live' = [t \in Topics |-> IF t \in Persistent THEN {which[t]} ELSE {}]
        /\ store' = [t \in Topics |-> [s \in StoreIds |->
              [rev |-> 0, data |-> IF t \in Persistent /\ s = which[t] THEN initial[t] ELSE EmptyData]]]
        /\ truth' = [t \in Topics |-> [r \in Revs |->
              IF t \in Persistent /\ r = 0 THEN initial[t] ELSE EmptyData]]
  BY DEF Provide
<1>3. 0 \in Revs
  BY DEF Revs
<1>4. HubTypeOK'
  BY <1>2, <1>3 DEF HubTypeOK, Snapshot
<1>5. CurrentStoreLeads'
  BY <1>1 DEF ServesNothing, CurrentStoreLeads
<1>6. KeptStores'
  <2>1. ASSUME NEW t \in Persistent, NEW s \in live'[t]
        PROVE  s = which[t] /\ Leads(t, s)'
    <3>1. t \in Topics /\ s = which[t] /\ s \in StoreIds
      BY <1>2, <2>1
    <3>2. store'[t][s] = [rev |-> 0, data |-> initial[t]]
      BY <1>2, <3>1
    <3>3. truth'[t][0] = initial[t]
      BY <1>2, <1>3, <3>1
    <3>4. lastRev'[t] = 0
      BY <1>1, <3>1 DEF ServesNothing
    <3>5. store'[t][s].rev = 0 /\ store'[t][s].data = initial[t]
      BY <3>2
    <3>6. QED BY <2>1, <3>1, <3>3, <3>4, <3>5 DEF Leads
  <2>2. \A t \in Persistent : live'[t] # {}
    BY <1>2
  <2>3. QED BY <2>1, <2>2 DEF KeptStores
<1>7. QED BY <1>4, <1>5, <1>6 DEF HubInv

\* A server step that only reads a frame or closes a socket's subscriptions.
LEMMA UnlinkStepType ==
    ASSUME IInv, NEW k \in Conns, NEW T \in SUBSET Topics, Unlink(k, T), UNCHANGED <<booted, up, reply, s2c>>,
           c2s' \in [Conns -> Seq(Call)], link' \in [Conns -> {"free", "up", "clientGone", "serverGone"}]
    PROVE  HubTypeOK' /\ HubInv' /\ NetTypeOK'
<1>1. HubTypeOK' /\ HubInv'
  BY UnlinkInv DEF IInv, TypeOK
<1>2. QED BY <1>1 DEF IInv, TypeOK, NetTypeOK

LEMMA HandleUnsubscribeInv ==
    ASSUME IInv, NEW k \in Conns, HandleUnsubscribe(k)
    PROVE  HubTypeOK' /\ HubInv' /\ NetTypeOK' /\ FaultTypeOK'
<1>1. /\ Unlink(k, Head(c2s[k]).topics)
      /\ UNCHANGED <<booted, up, reply, s2c>> /\ link' = link /\ UNCHANGED faultVars
  BY DEF HandleUnsubscribe
<1>2. Head(c2s[k]).topics \in SUBSET Topics /\ c2s' \in [Conns -> Seq(Call)]
  BY CallType DEF HandleUnsubscribe, IInv, TypeOK
<1>3. link' \in [Conns -> {"free", "up", "clientGone", "serverGone"}]
  BY <1>1 DEF IInv, TypeOK, NetTypeOK
<1>4. FaultTypeOK'
  BY <1>1 DEF IInv, TypeOK, FaultTypeOK, faultVars
<1>5. QED BY <1>1, <1>2, <1>3, <1>4, UnlinkStepType

LEMMA ClientClosedInv ==
    ASSUME IInv, NEW k \in Conns, ClientClosed(k), NEW l \in {"free", "serverGone"}, link' = [link EXCEPT ![k] = l]
    PROVE  HubTypeOK' /\ HubInv' /\ NetTypeOK'
<1>1. Unlink(k, SubscribedTo(k)) /\ UNCHANGED <<booted, up, reply, s2c>>
  BY DEF ClientClosed
<1>2. SubscribedTo(k) \in SUBSET Topics
  BY DEF SubscribedTo
<1>3. c2s' \in [Conns -> Seq(Call)]
  <2>1. <<>> \in Seq(Call)
    OBVIOUS
  <2>2. QED BY <2>1 DEF ClientClosed, IInv, TypeOK, NetTypeOK
<1>4. link' \in [Conns -> {"free", "up", "clientGone", "serverGone"}]
  BY DEF IInv, TypeOK, NetTypeOK
<1>5. QED BY <1>1, <1>2, <1>3, <1>4, UnlinkStepType

\* The store of a subscribed topic leads it after the hub accepts the call; the
\* answer therefore holds a snapshot of every topic asked for.
LEMMA HandleSubscribeInv ==
    ASSUME IInv, NEW k \in Conns, HandleSubscribe(k)
    PROVE  HubTypeOK' /\ HubInv' /\ NetTypeOK' /\ FaultTypeOK'
<1> DEFINE T == Head(c2s[k]).topics
           id == Head(c2s[k]).id
           First == {t \in T : subs[t] = {}}
           Kept == First \cap Persistent
<1>1. UNCHANGED <<booted, up, link, s2c, faultVars>>
  BY DEF HandleSubscribe
<1>2. T \in SUBSET Topics /\ id \in Nat /\ c2s' \in [Conns -> Seq(Call)]
  BY CallType DEF HandleSubscribe, IInv, TypeOK
<1>3. HubTypeOK' /\ HubInv' /\ reply' \in [conn : Conns \cup {NoConn}, msg : Answer]
  <2>1. CASE Rejected(k, T) /\ reply' = [conn |-> k, msg |-> ErrorMsg(id)] /\ UNCHANGED hubVars
    <3>1. HubTypeOK' /\ HubInv'
      BY <1>1, <2>1, HubUntouched
    <3>2. ErrorMsg(id) \in Answer
      BY <1>2, MessageTypes DEF Answer
    <3>3. QED BY <2>1, <3>1, <3>2
  <2>2. CASE ~(Rejected(k, T) /\ reply' = [conn |-> k, msg |-> ErrorMsg(id)] /\ UNCHANGED hubVars)
    <3>1. PICK which \in [First -> StoreIds], initial \in [First -> InitialData] :
            /\ \A t \in Kept : which[t] \in live[t]
            /\ subs' = [t \in Topics |-> IF t \in T THEN subs[t] \cup {k} ELSE subs[t]]
            /\ current' = [t \in Topics |-> IF t \in First THEN which[t] ELSE current[t]]
            /\ store' = [t \in Topics |-> IF t \in First \ Kept
                  THEN [store[t] EXCEPT ![which[t]] = [rev |-> lastRev[t], data |-> initial[t]]] ELSE store[t]]
            /\ live' = [t \in Topics |-> IF t \in First THEN live[t] \cup {which[t]} ELSE live[t]]
            /\ truth' = [t \in Topics |-> IF t \in First \ Kept
                  THEN [truth[t] EXCEPT ![lastRev[t]] = initial[t]] ELSE truth[t]]
      BY <2>2 DEF HandleSubscribe
    <3>2. /\ lastRev' = lastRev /\ booted
          /\ reply' = [conn |-> k, msg |-> ResultMsg(id, [t \in T |-> store'[t][current'[t]]])]
      BY <2>2 DEF HandleSubscribe, Rejected
    <3>3. HubTypeOK /\ HubInv
      BY DEF IInv, TypeOK
    <3> HIDE DEF T, id
    <3>4. \A t \in Topics : lastRev[t] \in Revs
      BY <3>3 DEF HubTypeOK
    <3>5. HubTypeOK'
      <4>1. \A t \in First : [rev |-> lastRev[t], data |-> initial[t]] \in Snapshot
        BY <1>2, <3>4 DEF Snapshot
      <4>2. subs' \in [Topics -> SUBSET Conns] /\ current' \in [Topics -> StoreIds \cup {NoStore}]
        BY <3>1, <3>3 DEF HubTypeOK
      <4>3. live' \in [Topics -> SUBSET StoreIds] /\ store' \in [Topics -> [StoreIds -> Snapshot]]
        BY <3>1, <3>3, <4>1 DEF HubTypeOK
      <4>4. truth' \in [Topics -> [Revs -> Data]]
        BY <3>1, <3>3, <3>4 DEF HubTypeOK
      <4>5. QED BY <1>1, <3>2, <3>3, <4>2, <4>3, <4>4 DEF HubTypeOK
    <3>6. ASSUME NEW t \in Topics, NEW s \in StoreIds, Leads(t, s), t \notin First \ Kept
          PROVE  Leads(t, s)'
      BY <3>1, <3>2, <3>6 DEF Leads
    <3>7. \A t \in Kept : live[t] = {which[t]} /\ live'[t] = live[t] /\ Leads(t, which[t])
      <4>1. ASSUME NEW t \in Kept
            PROVE  live[t] = {which[t]} /\ live'[t] = live[t] /\ Leads(t, which[t])
        <5>1. t \in Persistent /\ t \in First /\ which[t] \in live[t]
          BY <3>1
        <5>2. live[t] = {which[t]} /\ Leads(t, which[t])
          BY <3>3, <5>1 DEF HubInv, KeptStores
        <5>3. live'[t] = live[t] \cup {which[t]}
          BY <3>1, <5>1
        <5>4. QED BY <5>2, <5>3
      <4>2. QED BY <4>1
    <3>8. ASSUME NEW t \in First
          PROVE  Leads(t, current[t])' /\ current'[t] \in StoreIds
      <4>1. t \in Topics /\ current'[t] = which[t] /\ which[t] \in StoreIds /\ which[t] \in live'[t]
        BY <1>2, <3>1, <3>8
      <4>2. CASE t \in Kept
        BY <3>6, <3>7, <4>1, <4>2
      <4>3. CASE t \notin Kept
        <5>1. store'[t][which[t]] = [rev |-> lastRev[t], data |-> initial[t]]
          BY <3>1, <3>3, <4>1, <4>3 DEF HubTypeOK
        <5>2. truth'[t][lastRev[t]] = initial[t]
          BY <3>1, <3>3, <3>4, <4>1, <4>3 DEF HubTypeOK
        <5>3. store'[t][which[t]].rev = lastRev[t] /\ store'[t][which[t]].data = initial[t]
          BY <5>1
        <5>4. QED BY <3>2, <4>1, <5>2, <5>3 DEF Leads
      <4>4. QED BY <4>2, <4>3
    <3>9. CurrentStoreLeads'
      <4>1. ASSUME NEW t \in Topics, t \notin First
            PROVE  /\ current'[t] = NoStore <=> subs'[t] = {}
                   /\ current'[t] # NoStore => Leads(t, current[t])'
        <5>1. current'[t] = current[t]
          BY <3>1, <4>1
        <5>2. subs'[t] = {} <=> subs[t] = {}
          BY <3>1, <4>1
        <5>3. current[t] # NoStore => current[t] \in StoreIds /\ Leads(t, current[t])
          BY <3>3 DEF HubTypeOK, HubInv, CurrentStoreLeads
        <5>4. QED BY <3>3, <3>6, <4>1, <5>1, <5>2, <5>3 DEF HubInv, CurrentStoreLeads
      <4>2. ASSUME NEW t \in First
            PROVE  current'[t] # NoStore /\ subs'[t] # {}
        BY <1>2, <3>1, <3>8, <4>2
      <4>3. QED BY <3>8, <4>1, <4>2 DEF CurrentStoreLeads
    <3>10. KeptStores'
      <4>1. ASSUME NEW t \in Persistent
            PROVE  live'[t] = live[t] /\ t \in Topics /\ t \notin First \ Kept
        BY <3>1, <3>7
      <4>2. \A t \in Persistent : \A s \in live[t] : s \in StoreIds
        BY <3>3 DEF HubTypeOK
      <4>3. QED BY <1>1, <3>3, <3>6, <4>1, <4>2 DEF HubInv, KeptStores
    <3>11. HubInv'
      BY <1>1, <3>2, <3>3, <3>9, <3>10 DEF HubInv
    <3>12. reply' \in [conn : Conns \cup {NoConn}, msg : Answer]
      <4>1. ASSUME NEW t \in T
            PROVE  store'[t][current'[t]] \in Snapshot
        <5>1. t \in Topics /\ subs'[t] # {}
          BY <1>2, <3>1, <4>1
        <5>2. current'[t] \in StoreIds
          BY <3>5, <3>9, <5>1 DEF HubTypeOK, CurrentStoreLeads
        <5>3. QED BY <3>5, <5>1, <5>2 DEF HubTypeOK
      <4>2. [t \in T |-> store'[t][current'[t]]] \in [T -> Snapshot]
        BY <4>1
      <4>3. ResultMsg(id, [t \in T |-> store'[t][current'[t]]]) \in Answer
        BY <1>2, <4>2, MessageTypes DEF Answer
      <4>4. QED BY <3>2, <4>3
    <3>13. QED BY <3>5, <3>11, <3>12
  <2>3. QED BY <2>1, <2>2
<1>4. NetTypeOK' /\ FaultTypeOK'
  BY <1>1, <1>2, <1>3 DEF IInv, TypeOK, NetTypeOK, FaultTypeOK, faultVars
<1>5. QED BY <1>3, <1>4

LEMMA SendReplyInv ==
    ASSUME IInv, SendReply
    PROVE  HubTypeOK' /\ HubInv' /\ NetTypeOK' /\ FaultTypeOK'
<1>1. UNCHANGED <<booted, up, hubVars>> /\ UNCHANGED <<link, c2s, faultVars>>
  BY DEF SendReply
<1>2. HubTypeOK' /\ HubInv'
  BY <1>1, HubUntouched
<1>3. NetTypeOK
  BY DEF IInv, TypeOK
<1>4. reply.conn \in Conns \cup {NoConn} /\ reply.msg \in Answer
  BY <1>3 DEF NetTypeOK
<1>5. s2c' \in [Conns -> Seq(Answer \cup Patch)]
  <2>1. CASE reply.conn \in Conns
    BY <1>3, <1>4, <2>1, DeliverType DEF SendReply
  <2>2. CASE reply.conn \notin Conns
    BY <1>3, <2>2 DEF SendReply, Deliver, NetTypeOK
  <2>3. QED BY <2>1, <2>2
<1>6. reply' \in [conn : Conns \cup {NoConn}, msg : Answer]
  BY MessageTypes DEF SendReply, NoReply, Answer
<1>7. QED BY <1>1, <1>2, <1>3, <1>5, <1>6 DEF IInv, TypeOK, NetTypeOK, FaultTypeOK, faultVars

\* A store that is the topic's current one, or whose topic nobody watches, numbers
\* its patch next to lastRev; so a patch that is dropped comes from a store that
\* lost its place, never from the one a provider keeps.
LEMMA PublishInv ==
    ASSUME IInv, NEW t \in Topics, NEW s \in StoreIds, NEW o \in Ops, NEW dropped \in SUBSET Conns,
           Publish(t, s, o, dropped)
    PROVE  HubTypeOK' /\ HubInv' /\ NetTypeOK' /\ FaultTypeOK'
<1> DEFINE before == store[t][s]
           after == o[before.data]
           rev == before.rev + 1
<1>1. /\ s \in live[t] /\ after # Drift /\ rev <= MaxRev
      /\ store' = [store EXCEPT ![t][s] = [rev |-> rev, data |-> after]]
      /\ UNCHANGED <<booted, up, subs, current, live, reply, link, c2s, breaks, crashes>>
  BY DEF Publish
<1>2. HubTypeOK /\ HubInv /\ NetTypeOK
  BY DEF IInv, TypeOK
<1>3. before \in Snapshot /\ rev \in Revs /\ after \in Data /\ o \in [Data -> Data \cup {Drift}]
  <2>1. before \in Snapshot
    BY <1>2 DEF HubTypeOK
  <2>2. rev \in Revs
    BY <1>1, <2>1 DEF Snapshot, Revs
  <2>3. QED BY <1>1, <2>1, <2>2 DEF Snapshot
<1>4. booted
  BY <1>1, <1>2 DEF HubInv, ServesNothing
<1>5. /\ lastRev[t] \in Revs
      /\ (current[t] = s \/ t \in Persistent) => before.rev = lastRev[t]
      /\ (t \in Persistent /\ current[t] # NoStore) => current[t] = s
  BY <1>1, <1>2 DEF HubTypeOK, HubInv, CurrentStoreLeads, KeptStores, Leads
<1>6. [rev |-> rev, data |-> after] \in Snapshot
  BY <1>3 DEF Snapshot
<1>7. store'[t][s].rev = rev /\ store'[t][s].data = after
  BY <1>1, <1>2 DEF HubTypeOK
<1> HIDE DEF before, after, rev
<1>8. CASE Stale(t, s, rev) /\ UNCHANGED <<lastRev, truth, s2c, lost>>
  <2>1. current[t] # s /\ t \notin Persistent
    <3>1. ~(rev <= lastRev[t]) \/ (current[t] # s /\ t \notin Persistent)
      BY <1>5, <1>3 DEF rev, Revs, Snapshot
    <3>2. s # NoStore /\ (subs[t] # {} => current[t] # NoStore)
      BY <1>2 DEF HubInv, CurrentStoreLeads
    <3>3. QED BY <1>5, <1>8, <3>1, <3>2 DEF Stale
  <2>2. HubTypeOK'
    BY <1>1, <1>2, <1>6, <1>8 DEF HubTypeOK
  <2>3. ASSUME NEW u \in Topics, NEW r \in StoreIds, Leads(u, r), u # t \/ r # s
        PROVE  Leads(u, r)'
    BY <1>1, <1>2, <1>8, <2>3 DEF Leads, HubTypeOK
  <2>4. CurrentStoreLeads'
    BY <1>1, <1>2, <2>1, <2>3 DEF HubTypeOK, HubInv, CurrentStoreLeads
  <2>5. KeptStores'
    BY <1>1, <1>2, <2>1, <2>3 DEF HubTypeOK, HubInv, KeptStores
  <2>6. HubInv'
    BY <1>1, <1>2, <1>4, <2>4, <2>5 DEF HubInv
  <2>7. QED BY <1>1, <1>2, <1>8, <2>2, <2>6 DEF IInv, TypeOK, NetTypeOK, FaultTypeOK
<1>9. CASE ~Stale(t, s, rev)
  <2>1. /\ dropped \subseteq subs[t] /\ lost + Cardinality(dropped) <= MaxLost
        /\ lost' = lost + Cardinality(dropped)
        /\ lastRev' = [lastRev EXCEPT ![t] = rev]
        /\ truth' = [truth EXCEPT ![t][rev] = after]
        /\ Broadcast(t, PatchMsg(t, rev, o), dropped)
    BY <1>9 DEF Publish, before, after, rev
  <2>2. current[t] = s \/ (current[t] = NoStore /\ subs[t] = {})
    BY <1>9 DEF Stale
  <2>3. HubTypeOK'
    BY <1>1, <1>2, <1>3, <1>6, <2>1 DEF HubTypeOK
  <2>4. Leads(t, s)'
    <3>1. lastRev'[t] = rev /\ truth'[t][rev] = after
      BY <1>2, <1>3, <2>1 DEF HubTypeOK
    <3>2. QED BY <1>1, <1>7, <3>1 DEF Leads
  <2>5. ASSUME NEW u \in Topics, NEW r \in StoreIds, Leads(u, r), u # t
        PROVE  Leads(u, r)'
    BY <1>1, <1>2, <2>1, <2>5 DEF Leads, HubTypeOK
  <2>6. CurrentStoreLeads'
    BY <1>1, <1>2, <2>2, <2>4, <2>5 DEF HubTypeOK, HubInv, CurrentStoreLeads
  <2>7. KeptStores'
    <3>1. t \in Persistent => live[t] = {s}
      BY <1>1, <1>2 DEF HubInv, KeptStores
    <3>2. QED BY <1>1, <1>2, <2>4, <2>5, <3>1 DEF HubTypeOK, HubInv, KeptStores
  <2>8. HubInv'
    BY <1>1, <1>2, <1>4, <2>6, <2>7 DEF HubInv
  <2>9. s2c' \in [Conns -> Seq(Answer \cup Patch)]
    BY <1>2, <1>3, <2>1, MessageTypes, BroadcastType
  <2>10. lost' \in 0..MaxLost
    <3>1. Cardinality(dropped) \in Nat
      BY FS_Subset, FS_CardinalityType
    <3>2. QED BY <2>1, <3>1 DEF IInv, TypeOK
  <2>11. QED BY <1>1, <1>2, <2>3, <2>8, <2>9, <2>10 DEF IInv, TypeOK, NetTypeOK, FaultTypeOK
<1>10. QED BY <1>8, <1>9 DEF Publish, before, after, rev

LEMMA ReplaceStoreInv ==
    ASSUME IInv, NEW t \in Topics, NEW s \in StoreIds, NEW d \in InitialData, ReplaceStore(t, s, d)
    PROVE  HubTypeOK' /\ HubInv' /\ NetTypeOK' /\ FaultTypeOK'
<1> DEFINE rev == lastRev[t] + 1
<1>1. /\ booted /\ subs[t] # {} /\ t \notin Persistent /\ rev <= MaxRev
      /\ store' = [store EXCEPT ![t][s] = [rev |-> rev, data |-> d]]
      /\ live' = [live EXCEPT ![t] = @ \cup {s}]
      /\ current' = [current EXCEPT ![t] = s]
      /\ lastRev' = [lastRev EXCEPT ![t] = rev]
      /\ truth' = [truth EXCEPT ![t][rev] = d]
      /\ Broadcast(t, PatchMsg(t, rev, [x \in Data |-> d]), {})
      /\ UNCHANGED <<booted, up, subs, reply, link, c2s, faultVars>>
  BY DEF ReplaceStore, NextRev
<1>2. HubTypeOK /\ HubInv /\ NetTypeOK
  BY DEF IInv, TypeOK
<1>3. rev \in Revs /\ d \in Data /\ [x \in Data |-> d] \in [Data -> Data \cup {Drift}]
  BY <1>1, <1>2 DEF HubTypeOK, Revs
<1>4. [rev |-> rev, data |-> d] \in Snapshot
  BY <1>3 DEF Snapshot
<1> HIDE DEF rev
<1>5. HubTypeOK'
  BY <1>1, <1>2, <1>3, <1>4 DEF HubTypeOK
<1>6. Leads(t, s)'
  <2>1. store'[t][s].rev = rev /\ store'[t][s].data = d /\ s \in live'[t]
    BY <1>1, <1>2 DEF HubTypeOK
  <2>2. lastRev'[t] = rev /\ truth'[t][rev] = d
    BY <1>1, <1>2, <1>3 DEF HubTypeOK
  <2>3. QED BY <2>1, <2>2 DEF Leads
<1>7. ASSUME NEW u \in Topics, NEW r \in StoreIds, Leads(u, r), u # t
      PROVE  Leads(u, r)'
  BY <1>1, <1>2, <1>7 DEF Leads, HubTypeOK
<1>8. CurrentStoreLeads'
  BY <1>1, <1>2, <1>6, <1>7 DEF HubTypeOK, HubInv, CurrentStoreLeads
<1>9. KeptStores'
  BY <1>1, <1>2, <1>7 DEF HubTypeOK, HubInv, KeptStores
<1>10. s2c' \in [Conns -> Seq(Answer \cup Patch)]
  BY <1>1, <1>2, <1>3, MessageTypes, BroadcastType
<1>11. HubInv'
  BY <1>1, <1>2, <1>8, <1>9 DEF HubInv
<1>12. QED BY <1>1, <1>2, <1>5, <1>10, <1>11 DEF IInv, TypeOK, NetTypeOK, FaultTypeOK, faultVars

LEMMA CrashInv ==
    ASSUME IInv, Crash
    PROVE  HubTypeOK' /\ HubInv' /\ NetTypeOK' /\ FaultTypeOK'
<1>1. 0 \in Revs /\ [rev |-> 0, data |-> EmptyData] \in Snapshot
  BY DEF Revs, Snapshot
<1>2. HubTypeOK'
  BY <1>1 DEF Crash, HubTypeOK
<1>3. CurrentStoreLeads' /\ ServesNothing'
  BY DEF Crash, CurrentStoreLeads, ServesNothing
<1>4. KeptStores'
  BY DEF Crash, KeptStores
<1>5. HubInv'
  BY <1>3, <1>4 DEF Crash, HubInv
<1>6. NetTypeOK'
  <2>1. reply' \in [conn : Conns \cup {NoConn}, msg : Answer]
    BY MessageTypes DEF Crash, NoReply, Answer
  <2>2. link' \in [Conns -> {"free", "up", "clientGone", "serverGone"}]
    BY DEF Crash, IInv, TypeOK, NetTypeOK
  <2>3. c2s' \in [Conns -> Seq(Call)] /\ s2c' = s2c
    <3>1. <<>> \in Seq(Call)
      OBVIOUS
    <3>2. QED BY <3>1 DEF Crash
  <2>4. QED BY <2>1, <2>2, <2>3 DEF IInv, TypeOK, NetTypeOK
<1>7. FaultTypeOK'
  BY DEF Crash, IInv, TypeOK, FaultTypeOK
<1>8. QED BY <1>2, <1>5, <1>6, <1>7

LEMMA StartInv ==
    ASSUME IInv, Restart \/ Boot
    PROVE  HubTypeOK' /\ HubInv' /\ NetTypeOK' /\ FaultTypeOK'
<1>1. /\ HubTypeOK /\ HubInv /\ NetTypeOK
      /\ ~booted
  BY DEF IInv, TypeOK, HubInv, Restart, Boot
<1>2. UNCHANGED <<subs, current, lastRev, reply, netVars, faultVars>> /\ up' = TRUE
  BY <1>1 DEF Restart, Boot, HubTypeOK
<1>3. HubTypeOK' /\ HubInv'
  <2>1. CASE booted' = TRUE /\ Provide(live', store', truth')
    BY <1>1, <1>2, <2>1, ProvideInv
  <2>2. CASE booted' = FALSE /\ UNCHANGED <<live, store, truth>>
    BY <1>1, <1>2, <2>2 DEF HubTypeOK, HubInv, CurrentStoreLeads, KeptStores, ServesNothing, Leads
  <2>3. QED BY <2>1, <2>2 DEF Restart, Boot
<1>4. QED BY <1>1, <1>2, <1>3 DEF IInv, TypeOK, NetTypeOK, FaultTypeOK, netVars, faultVars

LEMMA SocketClosedInv ==
    ASSUME IInv, NEW k \in Conns, ServerDropsSocket(k) \/ ServerSeesClose(k)
    PROVE  HubTypeOK' /\ HubInv' /\ NetTypeOK' /\ FaultTypeOK'
<1>1. /\ ClientClosed(k)
      /\ link' = [link EXCEPT ![k] = "serverGone"] \/ link' = [link EXCEPT ![k] = "free"]
      /\ breaks' = breaks \/ (breaks < MaxBreaks /\ breaks' = breaks + 1)
  BY DEF ServerDropsSocket, ServerSeesClose
<1>2. HubTypeOK' /\ HubInv' /\ NetTypeOK'
  BY <1>1, ClientClosedInv
<1>3. FaultTypeOK'
  BY <1>1 DEF ClientClosed, IInv, TypeOK, FaultTypeOK
<1>4. QED BY <1>2, <1>3

LEMMA ServerStepInv ==
    ASSUME IInv, ServerNext
    PROVE  IInv'
<1>1. UNCHANGED clientVars
  <2>1. ASSUME NEW k \in Conns, HandleSubscribe(k) \/ HandleUnsubscribe(k) \/ ClientClosed(k)
        PROVE  UNCHANGED clientVars
    BY <2>1 DEF HandleSubscribe, HandleUnsubscribe, ClientClosed
  <2>2. ASSUME NEW t, NEW s, NEW o, NEW dropped, Publish(t, s, o, dropped) \/ ReplaceStore(t, s, o)
        PROVE  UNCHANGED clientVars
    BY <2>2 DEF Publish, ReplaceStore
  <2>3. SendReply \/ Crash \/ Restart \/ Boot => UNCHANGED clientVars
    BY DEF SendReply, Crash, Restart, Boot
  <2>4. QED BY <2>1, <2>2, <2>3 DEF ServerNext, ServerDropsSocket, ServerSeesClose
<1>2. ClientTypeOK' /\ ReplaysConnected'
  BY <1>1, ClientsUntouched
<1>3. HubTypeOK' /\ HubInv' /\ NetTypeOK' /\ FaultTypeOK'
  <2>1. ASSUME NEW k \in Conns, HandleSubscribe(k)
        PROVE  HubTypeOK' /\ HubInv' /\ NetTypeOK' /\ FaultTypeOK'
    BY <2>1, HandleSubscribeInv
  <2>2. ASSUME NEW k \in Conns, HandleUnsubscribe(k)
        PROVE  HubTypeOK' /\ HubInv' /\ NetTypeOK' /\ FaultTypeOK'
    BY <2>2, HandleUnsubscribeInv
  <2>3. ASSUME NEW k \in Conns, ServerDropsSocket(k) \/ ServerSeesClose(k)
        PROVE  HubTypeOK' /\ HubInv' /\ NetTypeOK' /\ FaultTypeOK'
    BY <2>3, SocketClosedInv
  <2>4. CASE SendReply
    BY <2>4, SendReplyInv
  <2>5. ASSUME NEW t \in Topics, NEW s \in StoreIds, NEW o \in Ops, NEW dropped \in SUBSET Conns,
               Publish(t, s, o, dropped)
        PROVE  HubTypeOK' /\ HubInv' /\ NetTypeOK' /\ FaultTypeOK'
    BY <2>5, PublishInv
  <2>6. ASSUME NEW t \in Topics, NEW s \in StoreIds, NEW d \in InitialData, ReplaceStore(t, s, d)
        PROVE  HubTypeOK' /\ HubInv' /\ NetTypeOK' /\ FaultTypeOK'
    BY <2>6, ReplaceStoreInv
  <2>7. CASE Crash
    BY <2>7, CrashInv
  <2>8. CASE Restart \/ Boot
    BY <2>8, StartInv
  <2>9. QED BY <2>1, <2>2, <2>3, <2>4, <2>5, <2>6, <2>7, <2>8 DEF ServerNext
<1>4. QED BY <1>2, <1>3 DEF IInv, TypeOK, FaultTypeOK

-----------------------------------------------------------------------------
(* The theorems *)

LEMMA InitInv == Init => IInv
<1> SUFFICES ASSUME Init PROVE IInv
  OBVIOUS
<1>1. PICK which \in [Persistent -> StoreIds], initial \in [Persistent -> InitialData] :
        /\ live = [t \in Topics |-> IF t \in Persistent THEN {which[t]} ELSE {}]
        /\ store = [t \in Topics |-> [s \in StoreIds |->
              [rev |-> 0, data |-> IF t \in Persistent /\ s = which[t] THEN initial[t] ELSE EmptyData]]]
        /\ truth = [t \in Topics |-> [r \in Revs |->
              IF t \in Persistent /\ r = 0 THEN initial[t] ELSE EmptyData]]
  BY DEF Init, Provide
<1>2. 0 \in Revs
  BY DEF Revs
<1>3. HubTypeOK
  BY <1>1, <1>2 DEF Init, HubTypeOK, Snapshot
<1>4. HubInv
  <2>1. CurrentStoreLeads
    BY DEF Init, CurrentStoreLeads
  <2>2. ASSUME NEW t \in Persistent, NEW s \in live[t]
        PROVE  s = which[t] /\ Leads(t, s)
    <3>1. t \in Topics /\ s = which[t] /\ s \in StoreIds /\ lastRev[t] = 0
      BY <1>1, <2>2 DEF Init
    <3>2. store[t][s] = [rev |-> 0, data |-> initial[t]]
      BY <1>1, <3>1
    <3>3. truth[t][0] = initial[t]
      BY <1>1, <1>2, <3>1
    <3>4. store[t][s].rev = 0 /\ store[t][s].data = initial[t]
      BY <3>2
    <3>5. QED BY <2>2, <3>1, <3>3, <3>4 DEF Leads
  <2>3. \A t \in Persistent : live[t] # {}
    BY <1>1
  <2>4. QED BY <2>1, <2>2, <2>3 DEF HubInv, KeptStores, Init
<1>5. NetTypeOK
  <2>1. NoReply \in [conn : Conns \cup {NoConn}, msg : Answer]
    BY MessageTypes DEF NoReply, Answer
  <2>2. <<>> \in Seq(Call) /\ <<>> \in Seq(Answer \cup Patch)
    OBVIOUS
  <2>3. QED BY <2>1, <2>2 DEF Init, NetTypeOK
<1>6. ClientTypeOK
  <2>1. DOMAIN <<>> = {}
    OBVIOUS
  <2>2. calls = [c \in Clients |-> <<>>]
    BY DEF Init
  <2>3. QED BY <2>1, <2>2, EntryTypes DEF Init, ClientTypeOK
<1>7. ReplaysConnected
  BY DEF Init, ReplaysConnected, Busy, NoEntry
<1>8. QED BY <1>3, <1>4, <1>5, <1>6, <1>7 DEF Init, IInv, TypeOK

LEMMA StepInv == IInv /\ [Next]_vars => IInv'
<1> SUFFICES ASSUME IInv, [Next]_vars PROVE IInv'
  OBVIOUS
<1>1. CASE ServerNext
  BY <1>1, ServerStepInv
<1>2. ASSUME NEW c \in Clients, ClientNext(c)
      PROVE  IInv'
  BY <1>2, ClientStepType, ClientStepConnected DEF IInv, TypeOK, FaultTypeOK
<1>3. CASE UNCHANGED vars
  <2>1. UNCHANGED serverVars /\ UNCHANGED clientVars /\ UNCHANGED netVars /\ UNCHANGED faultVars
    BY <1>3 DEF vars
  <2>2. HubTypeOK' /\ HubInv' /\ ClientTypeOK' /\ ReplaysConnected'
    BY <2>1, ServerUntouched, ClientsUntouched
  <2>3. QED BY <2>1, <2>2 DEF IInv, TypeOK, NetTypeOK, serverVars, netVars, faultVars
<1>4. QED BY <1>1, <1>2, <1>3 DEF Next

\* Whatever the clients subscribe, release or resubscribe, and whatever is lost,
\* broken or restarted, every variable keeps its type: in particular each answer
\* to topics.subscribe holds a snapshot of a store the hub has, each queue only
\* frames of the protocol, and each rev the hub hands out is one of the topic's.
THEOREM TypeCorrect == Spec => []TypeOK
<1>1. IInv => TypeOK
  BY DEF IInv
<1>2. QED BY <1>1, InitInv, StepInv, PTL DEF Spec

\* TopicHub keeps a current store exactly while a topic has subscribers, and that
\* store holds the last rev handed out, whichever store objects of the topic
\* providers still hold and publish to.
THEOREM HubLeads == Spec => []CurrentStoreLeads
<1>1. IInv => CurrentStoreLeads
  BY DEF IInv, HubInv
<1>2. QED BY <1>1, InitInv, StepInv, PTL DEF Spec

=============================================================================
