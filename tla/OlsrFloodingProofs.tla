-------------------------- MODULE OlsrFloodingProofs --------------------------
(***************************************************************************)
(* Proofs about OlsrFlooding, for any network, topology, messages and      *)
(* disturbances: the types, one event per duplicate tuple, that no node    *)
(* sends a message on twice, and that an undisturbed flood reaches all the *)
(* nodes of a connected network.                                           *)
(***************************************************************************)
EXTENDS OlsrFlooding, ListLemmas

-----------------------------------------------------------------------------
(* The first inductive invariant: types, and every duplicate tuple has     *)
(* exactly one event, every event a tuple.                                 *)

CopyOK(copy) == copy \in Copy /\ copy.ttl + copy.hops <= MaxTtl

Timed(state) ==
    /\ \A d, e \in state.duplicates : d.id = e.id => d = e
    /\ \A t, u \in state.timers : t.id = u.id => t = u
    /\ \A d \in state.duplicates : \E t \in state.timers : t.id = d.id
    /\ \A t \in state.timers : \E d \in state.duplicates : d.id = t.id /\ t.left <= d.left + 1

NodeOK(state) ==
    /\ state \in NodeState
    /\ \A k \in DOMAIN state.queue : CopyOK(state.queue[k])
    /\ Timed(state)

PacketOK(packet) ==
    /\ packet \in Packet
    /\ Len(packet.messages) \in 1 .. OLSR_MAX_MSGS
    /\ \A k \in DOMAIN packet.messages : CopyOK(packet.messages[k])

TypeInv ==
    /\ node \in [Nodes -> NodeState]
    /\ \A n \in Nodes : NodeOK(node[n])
    /\ queueTimer \in [Nodes -> NotRunning .. MaxJitter]
    /\ DOMAIN arriving = Ifaces
    /\ \A i \in Ifaces : arriving[i] \in Seq(Packet) /\ \A k \in DOMAIN arriving[i] : PacketOK(arriving[i][k])
    /\ sym \subseteq Nodes \X Ifaces
    /\ selectors \subseteq Nodes \X Nodes
    /\ originated \subseteq Messages
    /\ disturbances \in 0 .. MaxDisturbances

\* The fields of a node's state.
LEMMA NodeFields ==
    ASSUME NEW state \in NodeState
    PROVE  /\ state.queue \in Seq(Copy)
           /\ state.duplicates \in SUBSET DuplicateTuple /\ state.timers \in SUBSET DupTimer
           /\ state.processed \in [Messages -> Seen] /\ state.forwarded \in [Messages -> Seen]
  BY DEF NodeState

\* A state that differs from another in what it has processed, or not at all.
SameBut(new, state) ==
    /\ new \in NodeState
    /\ new.queue = state.queue /\ new.duplicates = state.duplicates
    /\ new.timers = state.timers /\ new.forwarded = state.forwarded

\* What a node has processed is history: it disturbs nothing.
LEMMA SameIsOK ==
    ASSUME NEW state, NodeOK(state), NEW new, SameBut(new, state)
    PROVE  NodeOK(new)
  BY DEF NodeOK, SameBut, Timed

\* ProcessHello and the like change nothing that forwarding reads.
LEMMA ReadKeeps ==
    ASSUME NEW state \in NodeState, NEW m \in Messages
    PROVE  SameBut([state EXCEPT !.processed[m] = Once(@)], state)
  <1> DEFINE list == [state.processed EXCEPT ![m] = Once(state.processed[m])]
             new == [state EXCEPT !.processed = list]
  <1>1. list \in [Messages -> Seen]
    BY NodeFields DEF Seen, Once
  <1> HIDE DEF list
  <1>2. SameBut(new, state)
    BY <1>1 DEF NodeState, SameBut
  <1>3. QED BY <1>2 DEF list

\* The copy is queued again, and counted.
Requeued(new, state, copy) ==
    /\ new.duplicates = state.duplicates
    /\ new.queue = Append(state.queue, Forwarded(copy))
    /\ new.forwarded = [state.forwarded EXCEPT ![copy.id] = Once(state.forwarded[copy.id])]

\* A copy that may still be sent on is well formed with one hop more.
LEMMA ForwardedOK ==
    ASSUME NEW copy, CopyOK(copy), copy.ttl > 1
    PROVE  Forwarded(copy) \in Copy /\ CopyOK(Forwarded(copy))
  <1>1. /\ copy.ttl \in 1 .. MaxTtl /\ copy.hops \in 0 .. MaxTtl - 1 /\ MaxTtl \in Nat
        /\ copy.ttl + copy.hops <= MaxTtl /\ copy.id \in Messages
    BY FloodingAssumption DEF Copy, CopyOK
  <1>2. Forwarded(copy) = [id |-> copy.id, ttl |-> copy.ttl - 1, hops |-> copy.hops + 1]
    BY DEF Forwarded
  <1>3. copy.ttl - 1 \in 1 .. MaxTtl /\ copy.hops + 1 \in 0 .. MaxTtl - 1
    BY <1>1
  <1>4. Forwarded(copy) \in Copy
    BY <1>1, <1>2, <1>3 DEF Copy
  <1>5. QED BY <1>1, <1>2, <1>4 DEF CopyOK

\* So is the state that queues it.
LEMMA QueueKeeps ==
    ASSUME NEW state, NodeOK(state), NEW copy, CopyOK(copy), copy.ttl > 1
    PROVE  NodeOK(QueueAgain(state, copy)) /\ Requeued(QueueAgain(state, copy), state, copy)
  <1> DEFINE new == QueueAgain(state, copy)
             queue == Append(state.queue, Forwarded(copy))
             count == [state.forwarded EXCEPT ![copy.id] = Once(state.forwarded[copy.id])]
  <1>1. state \in NodeState /\ copy \in Copy /\ copy.id \in Messages
    BY DEF NodeOK, CopyOK, Copy
  <1>2. Forwarded(copy) \in Copy /\ CopyOK(Forwarded(copy))
    BY ForwardedOK
  <1>3. queue \in Seq(Copy)
    BY <1>1, <1>2, NodeFields, ListOfAppend
  <1>4. count \in [Messages -> Seen]
    BY <1>1, NodeFields DEF Seen, Once
  <1>5. \A k \in DOMAIN queue : CopyOK(queue[k])
    <2>1. state.queue \in Seq(Copy) /\ \A k \in DOMAIN state.queue : CopyOK(state.queue[k])
      BY <1>1, NodeFields DEF NodeOK
    <2>2. \A k \in DOMAIN queue : 
            queue[k] = Forwarded(copy) \/ (k \in DOMAIN state.queue /\ queue[k] = state.queue[k])
      BY <1>2, <2>1, AppendElements
    <2>3. QED BY <1>2, <2>1, <2>2
  <1>6. new = [state EXCEPT !.queue = queue, !.forwarded = count]
    BY DEF QueueAgain
  <1> HIDE DEF new, queue, count
  <1>7. /\ new \in NodeState /\ new.queue = queue /\ new.forwarded = count
        /\ new.duplicates = state.duplicates /\ new.timers = state.timers
    BY <1>1, <1>3, <1>4, <1>6 DEF NodeState
  <1>8. NodeOK(new)
    BY <1>5, <1>7 DEF NodeOK, Timed
  <1>9. QED BY <1>7, <1>8 DEF new, queue, count, Requeued

\* The tuple of a message is replaced by one of full age, with an event if it
\* had none.
Recorded(new, state, m, retransmitted) ==
    /\ new.queue = state.queue /\ new.forwarded = state.forwarded
    /\ \A d \in state.duplicates : d.id # m => d \in new.duplicates
    /\ \E d \in new.duplicates : d.id = m /\ d.retransmitted = retransmitted
    /\ \A d \in new.duplicates :
          \/ d \in state.duplicates
          \/ d.id = m /\ d.left = OLSR_DUP_HOLD_TIME

\* RecordDuplicate keeps the types and one event per tuple.
LEMMA RecordKeeps ==
    ASSUME NEW state, NodeOK(state), NEW m \in Messages, NEW iface \in Ifaces,
           NEW retransmitted \in BOOLEAN
    PROVE  /\ NodeOK(RecordDuplicate(state, m, iface, retransmitted))
           /\ Recorded(RecordDuplicate(state, m, iface, retransmitted), state, m, retransmitted)
  <1> DEFINE new == RecordDuplicate(state, m, iface, retransmitted)
             old == {t \in state.duplicates : t.id = m}
             tuple == [id |-> m, retransmitted |-> retransmitted,
                       ifaceList |-> {iface} \cup UNION {t.ifaceList : t \in old},
                       left |-> OLSR_DUP_HOLD_TIME]
             event == [id |-> m, left |-> OLSR_DUP_HOLD_TIME]
             duplicates == (state.duplicates \ old) \cup {tuple}
             timers == IF old = {} THEN state.timers \cup {event} ELSE state.timers
  <1>1. state \in NodeState /\ Timed(state)
    BY DEF NodeOK
  <1>2. OLSR_DUP_HOLD_TIME \in Nat
    BY FloodingAssumption
  <1>3. tuple \in DuplicateTuple
    <2>1. \A t \in old : t.ifaceList \in SUBSET Ifaces
      BY <1>1, NodeFields DEF DuplicateTuple
    <2>2. {iface} \cup UNION {t.ifaceList : t \in old} \in SUBSET Ifaces
      BY <2>1
    <2>3. QED BY <1>2, <2>2 DEF DuplicateTuple
  <1>4. event \in DupTimer
    BY <1>2 DEF DupTimer
  <1>5. tuple.id = m /\ tuple.left = OLSR_DUP_HOLD_TIME /\ tuple.retransmitted = retransmitted
    OBVIOUS
  <1>6. event.id = m /\ event.left = OLSR_DUP_HOLD_TIME
    OBVIOUS
  <1>7. new = [state EXCEPT !.duplicates = duplicates, !.timers = timers]
    BY DEF RecordDuplicate
  <1>8. duplicates \in SUBSET DuplicateTuple /\ timers \in SUBSET DupTimer
    BY <1>1, <1>3, <1>4, NodeFields
  <1> HIDE DEF tuple, event
  <1>9. /\ \A d, e \in duplicates : d.id = e.id => d = e
        /\ \A t, u \in timers : t.id = u.id => t = u
        /\ \A d \in duplicates : \E t \in timers : t.id = d.id
        /\ \A t \in timers : \E d \in duplicates : d.id = t.id /\ t.left <= d.left + 1
    <2>1. /\ \A d, e \in state.duplicates : d.id = e.id => d = e
          /\ \A t, u \in state.timers : t.id = u.id => t = u
          /\ \A d \in state.duplicates : \E t \in state.timers : t.id = d.id
          /\ \A t \in state.timers : \E d \in state.duplicates : d.id = t.id /\ t.left <= d.left + 1
      BY <1>1 DEF Timed
    <2>2. \A d, e \in duplicates : d.id = e.id => d = e
      BY <1>5, <2>1
    <2>3. \A t, u \in timers : t.id = u.id => t = u
      <3>1. CASE old = {}
        <4>1. \A t \in state.timers : t.id # m
          BY <2>1, <3>1
        <4>2. QED BY <1>6, <2>1, <3>1, <4>1
      <3>2. CASE old # {}
        BY <2>1, <3>2
      <3>3. QED BY <3>1, <3>2
    <2>4. \A d \in duplicates : \E t \in timers : t.id = d.id
      <3>1. CASE old = {}
        <4>1. timers = state.timers \cup {event} /\ duplicates = state.duplicates \cup {tuple}
          BY <3>1
        <4> HIDE DEF timers, duplicates
        <4>2. QED BY <1>5, <1>6, <2>1, <4>1
      <3>2. CASE old # {}
        <4>1. PICK t \in state.timers : t.id = m
          BY <2>1, <3>2
        <4>2. timers = state.timers
          BY <3>2
        <4>3. \A d \in duplicates : d.id = m \/ d \in state.duplicates
          BY <1>5
        <4> HIDE DEF timers, duplicates
        <4>4. QED BY <2>1, <4>1, <4>2, <4>3
      <3>3. QED BY <3>1, <3>2
    <2>5. ASSUME NEW t \in timers PROVE \E d \in duplicates : d.id = t.id /\ t.left <= d.left + 1
      <3>1. CASE t = event
        <4>1. tuple \in duplicates
          OBVIOUS
        <4> HIDE DEF duplicates
        <4>2. QED BY <1>2, <1>5, <1>6, <3>1, <4>1
      <3>2. CASE t # event
        <4>1. t \in state.timers
          BY <3>2
        <4>2. PICK d \in state.duplicates : d.id = t.id /\ t.left <= d.left + 1
          BY <2>1, <4>1
        <4>3. CASE d.id = m
          <5>1. d.left \in -1 .. OLSR_DUP_HOLD_TIME /\ t.left \in Int
            BY <1>1, <4>1, NodeFields DEF DuplicateTuple, DupTimer
          <5>2. t.left <= OLSR_DUP_HOLD_TIME + 1
            BY <1>2, <4>2, <5>1
          <5>3. tuple \in duplicates
            OBVIOUS
          <5> HIDE DEF duplicates
          <5>4. QED BY <1>5, <4>2, <4>3, <5>2, <5>3
        <4>4. CASE d.id # m
          <5>1. d \in duplicates
            BY <4>4
          <5>2. QED BY <4>2, <5>1
        <4>5. QED BY <4>3, <4>4
      <3>3. QED BY <3>1, <3>2
    <2>6. QED BY <2>2, <2>3, <2>4, <2>5
  <1>10. \A d \in duplicates : d \in state.duplicates \/ d = tuple
    OBVIOUS
  <1>11. tuple \in duplicates /\ \A d \in state.duplicates : d.id # m => d \in duplicates
    OBVIOUS
  <1> HIDE DEF new, duplicates, timers
  <1>12. /\ new \in NodeState /\ new.duplicates = duplicates /\ new.timers = timers
         /\ new.queue = state.queue /\ new.forwarded = state.forwarded
    BY <1>1, <1>7, <1>8 DEF NodeState
  <1>13. NodeOK(new)
    BY <1>9, <1>12 DEF NodeOK, Timed
  <1>14. Recorded(new, state, m, retransmitted)
    BY <1>5, <1>10, <1>11, <1>12 DEF Recorded
  <1>15. QED BY <1>13, <1>14 DEF new

\* What one message may do to a node: nothing but count as processed; be
\* recorded; or be queued again and recorded as retransmitted.
Ignored(new, state) ==
    /\ new.queue = state.queue /\ new.forwarded = state.forwarded
    /\ new.duplicates = state.duplicates

Noted(new, state, copy) ==
    ~AlreadyRetransmitted(state, copy.id) /\ Recorded(new, state, copy.id, FALSE)

SentOn(new, state, n, copy) ==
    /\ ~AlreadyRetransmitted(state, copy.id)
    /\ Originator[copy.id] # n
    /\ \E queued : Requeued(queued, state, copy) /\ Recorded(new, queued, copy.id, TRUE)

\* Those are all the effects a message can have.
LEMMA ReceiveMessageEffect ==
    ASSUME NEW n \in Nodes, NEW iface \in Ifaces, NEW sender \in Ifaces, NEW state, NodeOK(state),
           NEW copy, CopyOK(copy), NEW new, new = ReceiveMessage(n, iface, sender, state, copy)
    PROVE  /\ NodeOK(new)
           /\ Ignored(new, state) \/ Noted(new, state, copy) \/ SentOn(new, state, n, copy)
  <1> DEFINE read == IF ~\E t \in state.duplicates : t.id = copy.id
                       THEN [state EXCEPT !.processed[copy.id] = Once(@)] ELSE state
             retransmitted == MustRetransmit(n, sender, copy)
             again == QueueAgain(read, copy)
             queued == IF retransmitted THEN again ELSE read
             recorded == RecordDuplicate(queued, copy.id, iface, retransmitted)
  <1>1. state \in NodeState /\ copy.id \in Messages
    BY DEF NodeOK, CopyOK, Copy
  <1>2. SameBut(read, state)
    BY <1>1, ReadKeeps DEF SameBut
  <1>3. retransmitted \in BOOLEAN /\ (retransmitted => copy.ttl > 1)
    BY DEF MustRetransmit
  <1>4. \/ new = state \/ new = read
        \/ /\ Originator[copy.id] # n /\ ~AlreadyRetransmitted(read, copy.id)
           /\ new = recorded
    BY DEF ReceiveMessage, ForwardDefault
  <1> HIDE DEF read, retransmitted
  <1>5. NodeOK(read)
    BY <1>2, SameIsOK
  <1>6. AlreadyRetransmitted(read, copy.id) = AlreadyRetransmitted(state, copy.id)
    BY <1>2 DEF AlreadyRetransmitted, SameBut
  <1>7. CASE new = state \/ new = read
    BY <1>2, <1>5, <1>7 DEF Ignored, SameBut
  <1>8. CASE /\ Originator[copy.id] # n /\ ~AlreadyRetransmitted(read, copy.id)
             /\ new = recorded
    <2>1. CASE retransmitted
      <3>1. queued = again /\ (retransmitted <=> TRUE)
        BY <1>3, <2>1
      <3>2. new = RecordDuplicate(again, copy.id, iface, retransmitted)
        BY <1>8, <3>1
      <3>3. NodeOK(again) /\ Requeued(again, read, copy)
        BY <1>3, <1>5, <2>1, QueueKeeps
      <3> HIDE DEF again, queued, recorded
      <3>4. NodeOK(new) /\ Recorded(new, again, copy.id, retransmitted)
        BY <1>1, <1>3, <3>2, <3>3, RecordKeeps
      <3>5. Recorded(new, again, copy.id, TRUE)
        BY <1>3, <2>1, <3>4, Zenon
      <3>6. Requeued(again, state, copy)
        BY <1>2, <3>3 DEF Requeued, SameBut
      <3>7. QED BY <1>6, <1>8, <3>4, <3>5, <3>6 DEF SentOn
    <2>2. CASE ~retransmitted
      <3>1. queued = read
        BY <2>2
      <3>2. new = RecordDuplicate(read, copy.id, iface, retransmitted)
        BY <1>8, <3>1
      <3> HIDE DEF queued, recorded
      <3>3. NodeOK(new) /\ Recorded(new, read, copy.id, retransmitted)
        BY <1>1, <1>3, <1>5, <3>2, RecordKeeps
      <3>4. Recorded(new, read, copy.id, FALSE)
        BY <1>3, <2>2, <3>3, Zenon
      <3>5. Recorded(new, state, copy.id, FALSE)
        BY <1>2, <3>4 DEF Recorded, SameBut
      <3>6. QED BY <1>6, <1>8, <3>3, <3>5 DEF Noted
    <2>3. QED BY <2>1, <2>2
  <1>9. QED BY <1>4, <1>7, <1>8

\* The states the loop over the messages of a packet goes through.
Run(after, n, iface, packet, state) ==
    /\ after[0] = state
    /\ \A k \in 1 .. Len(packet.messages) :
          after[k] = ReceiveMessage(n, iface, packet.sender, after[k - 1], packet.messages[k])
    /\ ReceivePacket(n, iface, packet, state) = after[Len(packet.messages)]

KeptBy(T, n, iface, packet) ==
    \A s \in T, k \in 1 .. Len(packet.messages) :
        ReceiveMessage(n, iface, packet.sender, s, packet.messages[k]) \in T

\* They stay in any set of states that each message keeps.
LEMMA PacketLoop ==
    ASSUME NEW n, NEW iface, NEW packet, Len(packet.messages) \in Nat, NEW T, NEW state \in T,
           KeptBy(T, n, iface, packet)
    PROVE  \E after \in [0 .. Len(packet.messages) -> T] : Run(after, n, iface, packet, state)
  <1> DEFINE len == Len(packet.messages)
             Step(s, k) == ReceiveMessage(n, iface, packet.sender, s, packet.messages[k])
             g == [p \in (1 .. len) \X T |-> Step(p[2], p[1])]
             Is(f) == f = [k \in 0 .. len |-> IF k = 0 THEN state ELSE Step(f[k - 1], k)]
             after == CHOOSE f : Is(f)
             U == {k \in 0 .. len : after[k] \in T}
  <1>1. len \in Nat
    OBVIOUS
  <1>2. ASSUME NEW s \in T, NEW k \in 1 .. len PROVE Step(s, k) \in T
    BY DEF KeptBy
  <1>3. ReceivePacket(n, iface, packet, state) = after[len]
    BY DEF ReceivePacket
  <1> SUFFICES \E f \in [0 .. len -> T] :
                  /\ f[0] = state /\ \A k \in 1 .. len : f[k] = Step(f[k - 1], k)
                  /\ after[len] = f[len]
    BY <1>3 DEF Run
  <1> HIDE DEF len, Step
  <1>4. \A s \in T, k \in 1 .. len : g[<<k, s>>] = Step(s, k)
    BY <1>2
  <1>5. g \in [(1 .. len) \X T -> T]
    BY <1>2
  <1> HIDE DEF g
  <1>6. PICK f \in [0 .. len -> T] : IsLoop(f, len, state, g)
    BY <1>1, <1>5, LoopExists
  <1>7. ASSUME NEW k \in 0 .. len
        PROVE  f[k] = IF k = 0 THEN state ELSE Step(f[k - 1], k)
    <2>1. CASE k = 0
      BY <1>6, <2>1 DEF IsLoop
    <2>2. CASE k # 0
      <3>1. k \in 1 .. len /\ k - 1 \in 0 .. len
        BY <1>1, <2>2
      <3>2. f[k] = g[<<k, f[k - 1]>>] /\ f[k - 1] \in T
        BY <1>6, <3>1 DEF IsLoop
      <3>3. QED BY <1>4, <2>2, <3>1, <3>2
    <2>3. QED BY <2>1, <2>2
  <1>8. Is(f)
    BY <1>6, <1>7
  <1>9. Is(after)
    BY <1>8
  <1> HIDE DEF after
  <1>10. after[0] = state /\ \A k \in 1 .. len : after[k] = Step(after[k - 1], k)
    BY <1>1, <1>9
  <1>11. 0 \in U /\ \A k \in 1 .. len : k - 1 \in U => k \in U
    BY <1>1, <1>2, <1>10
  <1> HIDE DEF U
  <1>12. \A k \in 0 .. len : k \in U
    BY <1>1, <1>11, InductionUpTo
  <1>13. after \in [0 .. len -> T]
    BY <1>9, <1>12 DEF U
  <1>14. QED BY <1>10, <1>13

\* So does the state after the packet.
LEMMA ReceivePacketStays ==
    ASSUME NEW n, NEW iface, NEW packet, Len(packet.messages) \in Nat, NEW T, NEW state \in T,
           KeptBy(T, n, iface, packet)
    PROVE  ReceivePacket(n, iface, packet, state) \in T
  <1>1. PICK after \in [0 .. Len(packet.messages) -> T] : Run(after, n, iface, packet, state)
    BY PacketLoop
  <1>2. Len(packet.messages) \in 0 .. Len(packet.messages)
    OBVIOUS
  <1>3. QED BY <1>1, <1>2 DEF Run

\* So a packet leaves a node well formed.
LEMMA ReceivePacketOK ==
    ASSUME NEW n \in Nodes, NEW iface \in Ifaces, NEW packet, PacketOK(packet), NEW state, NodeOK(state)
    PROVE  NodeOK(ReceivePacket(n, iface, packet, state))
  <1> DEFINE T == {s \in NodeState : NodeOK(s)}
  <1>1. packet.sender \in Ifaces /\ Len(packet.messages) \in Nat /\ packet.messages \in Seq(Copy)
    BY DEF PacketOK, Packet
  <1>2. state \in T
    BY DEF NodeOK
  <1>3. ASSUME NEW s \in T, NEW k \in 1 .. Len(packet.messages)
        PROVE  ReceiveMessage(n, iface, packet.sender, s, packet.messages[k]) \in T
    <2>1. CopyOK(packet.messages[k])
      BY <1>1 DEF PacketOK
    <2>2. NodeOK(s)
      OBVIOUS
    <2>3. NodeOK(ReceiveMessage(n, iface, packet.sender, s, packet.messages[k]))
      BY <1>1, <2>1, <2>2, ReceiveMessageEffect
    <2>4. QED BY <2>3 DEF NodeOK
  <1> HIDE DEF T
  <1>4. ReceivePacket(n, iface, packet, state) \in T
    BY <1>1, <1>2, <1>3, ReceivePacketStays DEF KeptBy
  <1>5. QED BY <1>4 DEF T

\* What SendQueuedMessages puts on the air: packets of 1 to OLSR_MAX_MSGS
\* messages, all of them from the queue.
LEMMA PacketsOK ==
    ASSUME NEW q \in Seq(Copy)
    PROVE  /\ Packets(q) \in Seq(Seq(Copy))
           /\ \A k \in DOMAIN Packets(q) :
                 /\ Len(Packets(q)[k]) \in 1 .. OLSR_MAX_MSGS
                 /\ \A j \in DOMAIN Packets(q)[k] : \E i \in DOMAIN q : Packets(q)[k][j] = q[i]
  <1> DEFINE M == OLSR_MAX_MSGS
             len == Len(q)
             count == (len + M - 1) \div M
  <1>1. M \in Nat /\ M >= 1 /\ len \in Nat
    BY FloodingAssumption
  <1>2. count \in Nat /\ count * M <= len + M - 1
    BY <1>1
  <1> DEFINE Part(k) == SubSeq(q, (k - 1) * M + 1, Min({k * M, len}))
  <1>3. ASSUME NEW k \in 1 .. count
        PROVE  /\ Part(k) \in Seq(Copy) /\ Len(Part(k)) \in 1 .. M
               /\ \A j \in DOMAIN Part(k) : \E i \in DOMAIN q : Part(k)[j] = q[i]
    <2> DEFINE first == (k - 1) * M + 1
               last == Min({k * M, len})
               packet == SubSeq(q, first, last)
    <2>1. k * M <= count * M /\ (k - 1) * M = k * M - M /\ k * M \in Nat /\ (k - 1) * M \in Nat
      BY <1>1, <1>2
    <2>2. k * M - M + 1 <= len
      BY <1>1, <1>2, <2>1
    <2>3. last \in {k * M, len} /\ last <= k * M /\ last <= len
      <3>1. {k * M, len} \in SUBSET Nat /\ {k * M, len} # {}
        BY <1>1, <2>1
      <3>2. QED BY <3>1, MinIn
    <2>4. first \in 1 .. len /\ last \in Nat /\ first <= last /\ last - first + 1 <= M
      BY <1>1, <2>1, <2>2, <2>3
    <2>5. q = [i \in 1 .. len |-> q[i]] /\ DOMAIN q = 1 .. len /\ \A i \in 1 .. len : q[i] \in Copy
      OBVIOUS
    <2> HIDE DEF first, last, len
    <2>6. \A i \in first .. last : q[i] \in Copy /\ i \in DOMAIN q
      <3>1. len \in Nat /\ first \in Nat /\ 1 <= first /\ last \in Nat /\ last <= len
        BY <1>1, <2>3, <2>4
      <3>2. \A i \in first .. last : i \in 1 .. len
        BY <3>1
      <3>3. QED BY <2>5, <3>2
    <2>7. packet \in Seq(Copy) /\ Len(packet) = last - first + 1
      BY <2>3, <2>4, <2>5, <2>6 DEF len
    <2>8. ASSUME NEW j \in DOMAIN packet PROVE \E i \in DOMAIN q : packet[j] = q[i]
      <3>1. j \in 1 .. last - first + 1
        BY <2>7
      <3>2. packet[j] = q[first + j - 1]
        BY <2>3, <2>4, <3>1 DEF len
      <3>3. first + j - 1 \in first .. last
        BY <2>4, <3>1
      <3>4. QED BY <2>6, <3>2, <3>3
    <2>9. Len(packet) \in 1 .. M
      BY <1>1, <2>4, <2>7
    <2>10. QED BY <2>7, <2>8, <2>9 DEF first, last
  <1>4. Packets(q) = [k \in 1 .. count |-> Part(k)]
    BY DEF Packets
  <1> HIDE DEF M, len, count, Part
  <1>5. DOMAIN Packets(q) = 1 .. count /\ \A k \in 1 .. count : Packets(q)[k] = Part(k)
    BY <1>4
  <1>6. Packets(q) \in [1 .. count -> Seq(Copy)]
    BY <1>3, <1>4, <1>5
  <1>7. Packets(q) \in Seq(Seq(Copy))
    BY <1>2, <1>6
  <1>8. ASSUME NEW k \in DOMAIN Packets(q)
        PROVE  /\ Len(Packets(q)[k]) \in 1 .. M
               /\ \A j \in DOMAIN Packets(q)[k] : \E i \in DOMAIN q : Packets(q)[k][j] = q[i]
    <2>1. k \in 1 .. count /\ Packets(q)[k] = Part(k)
      BY <1>5
    <2>2. QED BY <1>3, <2>1
  <1>9. QED BY <1>7, <1>8 DEF M

\* The sockets are interfaces.
LEMMA SendSocketsOK ==
    ASSUME NEW n \in Nodes, NEW iface \in Ifaces
    PROVE  SendSockets[n][iface] \in Seq(Ifaces)
  <1> DEFINE inRange == {s \in Ifaces : Owner[s] = n /\ <<s, iface>> \in Reach}
  <1>1. IsFiniteSet(inRange) /\ inRange \in SUBSET Ifaces
    BY FloodingAssumption, FS_Subset
  <1>2. SendSockets[n][iface] = SetToSeq(inRange)
    BY DEF SendSockets
  <1> HIDE DEF inRange
  <1>3. QED BY <1>1, <1>2, SetToSeqKeeps

\* What a neighbour hears are packets with the messages that were sent.
LEMMA HeardOK ==
    ASSUME NEW n \in Nodes, NEW iface \in Ifaces, NEW packets \in Seq(Seq(Copy))
    PROVE  /\ Heard(n, iface, packets) \in Seq(Packet)
           /\ \A k \in DOMAIN Heard(n, iface, packets) : \E j \in DOMAIN packets :
                 Heard(n, iface, packets)[k].messages = packets[j]
  <1> DEFINE sockets == SendSockets[n][iface]
             L == Len(sockets)
             P == Len(packets)
             heard == [k \in 1 .. P * L |->
                 [sender |-> sockets[((k - 1) % L) + 1], messages |-> packets[((k - 1) \div L) + 1]]]
  <1>1. sockets \in Seq(Ifaces)
    BY SendSocketsOK
  <1>2. Heard(n, iface, packets) = heard
    BY DEF Heard
  <1> HIDE DEF sockets
  <1>3. L \in Nat /\ P \in Nat /\ P * L \in Nat
    BY <1>1
  <1>4. /\ \A k \in 1 .. L : sockets[k] \in Ifaces
        /\ \A k \in 1 .. P : packets[k] \in Seq(Copy) /\ k \in DOMAIN packets
    BY <1>1
  <1> HIDE DEF L, P
  <1>5. ASSUME NEW k \in 1 .. P * L
        PROVE  ((k - 1) % L) + 1 \in 1 .. L /\ ((k - 1) \div L) + 1 \in 1 .. P
    <2>1. L > 0 /\ k - 1 \in Nat /\ k - 1 < P * L
      BY <1>3
    <2>2. ((k - 1) % L) \in 0 .. L - 1
      BY <1>3, <2>1
    <2> DEFINE d == (k - 1) \div L
    <2>3. d \in Nat /\ L * d <= k - 1
      BY <1>3, <2>1
    <2>4. L * d < L * P
      BY <1>3, <2>1, <2>3
    <2> HIDE DEF d
    <2>5. d < P
      BY <1>3, <2>1, <2>3, <2>4
    <2>6. QED BY <1>3, <2>2, <2>3, <2>5 DEF d
  <1>6. ASSUME NEW k \in 1 .. P * L
        PROVE  heard[k] \in Packet /\ \E j \in DOMAIN packets : heard[k].messages = packets[j]
    <2>1. heard[k] = [sender |-> sockets[((k - 1) % L) + 1], messages |-> packets[((k - 1) \div L) + 1]]
      OBVIOUS
    <2>2. ((k - 1) % L) + 1 \in 1 .. L /\ ((k - 1) \div L) + 1 \in 1 .. P
      BY <1>5
    <2>3. /\ sockets[((k - 1) % L) + 1] \in Ifaces
          /\ packets[((k - 1) \div L) + 1] \in Seq(Copy) /\ ((k - 1) \div L) + 1 \in DOMAIN packets
      BY <1>4, <2>2
    <2> HIDE DEF heard
    <2>4. QED BY <2>1, <2>3 DEF Packet
  <1>7. DOMAIN heard = 1 .. P * L /\ heard = [k \in 1 .. P * L |-> heard[k]]
    OBVIOUS
  <1> HIDE DEF heard
  <1>8. heard \in [1 .. P * L -> Packet]
    BY <1>6, <1>7
  <1>9. heard \in Seq(Packet)
    BY <1>3, <1>8
  <1>10. QED BY <1>2, <1>6, <1>7, <1>9

-----------------------------------------------------------------------------
(* Every step keeps the types.                                             *)

NodesOK == node \in [Nodes -> NodeState] /\ \A n \in Nodes : NodeOK(node[n])

AirOK ==
    /\ DOMAIN arriving = Ifaces
    /\ \A i \in Ifaces : arriving[i] \in Seq(Packet) /\ \A k \in DOMAIN arriving[i] : PacketOK(arriving[i][k])

\* One node changes.
LEMMA OneNode ==
    ASSUME NodesOK, NEW n \in Nodes, NEW new, NodeOK(new), node' = [node EXCEPT ![n] = new]
    PROVE  NodesOK'
  BY DEF NodesOK, NodeOK

\* The first packet is taken from the air.
LEMMA OneReceived ==
    ASSUME AirOK, NEW iface \in Ifaces, arriving[iface] # <<>>,
           arriving' = [arriving EXCEPT ![iface] = Tail(@)]
    PROVE  AirOK'
  <1>1. /\ arriving[iface] \in Seq(Packet)
        /\ \A k \in DOMAIN arriving[iface] : PacketOK(arriving[iface][k])
    BY DEF AirOK
  <1>2. Tail(arriving[iface]) \in Seq(Packet)
    BY <1>1
  <1>3. \A k \in DOMAIN Tail(arriving[iface]) :
           k + 1 \in DOMAIN arriving[iface] /\ Tail(arriving[iface])[k] = arriving[iface][k + 1]
    BY <1>1
  <1>4. \A k \in DOMAIN Tail(arriving[iface]) : PacketOK(Tail(arriving[iface])[k])
    BY <1>1, <1>3
  <1>5. DOMAIN arriving' = Ifaces /\ arriving'[iface] = Tail(arriving[iface])
        /\ \A i \in Ifaces \ {iface} : arriving'[i] = arriving[i]
    BY DEF AirOK
  <1>6. QED BY <1>2, <1>4, <1>5 DEF AirOK

\* m_queuedMessagesTimer stays within MaxJitter.
LEMMA TimerStarted ==
    ASSUME queueTimer \in [Nodes -> NotRunning .. MaxJitter], NEW n \in Nodes, NEW state,
           StartQueueTimer(n, state)
    PROVE  queueTimer' \in [Nodes -> NotRunning .. MaxJitter]
  <1>1. MaxJitter \in Nat /\ NotRunning = -1
    BY FloodingAssumption DEF NotRunning
  <1>2. queueTimer' = queueTimer \/ \E jitter \in 0 .. MaxJitter : queueTimer' = [queueTimer EXCEPT ![n] = jitter]
    BY DEF StartQueueTimer
  <1>3. QED BY <1>1, <1>2

\* The empty network is well formed.
LEMMA TypeInvInit == Init => TypeInv
  <1> SUFFICES ASSUME Init PROVE TypeInv
    OBVIOUS
  <1> DEFINE zero == [m \in Messages |-> 0]
             first == [queue |-> <<>>, duplicates |-> {}, timers |-> {},
                       processed |-> zero, forwarded |-> zero]
  <1>1. zero \in [Messages -> Seen]
    BY DEF Seen
  <1>2. node = [n \in Nodes |-> first]
    BY DEF Init
  <1> HIDE DEF zero
  <1>3. first \in NodeState
    BY <1>1 DEF NodeState
  <1>4. NodeOK(first)
    BY <1>3 DEF NodeOK, Timed
  <1> HIDE DEF first
  <1>5. node \in [Nodes -> NodeState] /\ \A n \in Nodes : NodeOK(node[n])
    BY <1>2, <1>3, <1>4
  <1>6. /\ DOMAIN arriving = Ifaces
        /\ \A i \in Ifaces : arriving[i] \in Seq(Packet) /\ \A k \in DOMAIN arriving[i] : PacketOK(arriving[i][k])
    BY DEF Init
  <1>7. queueTimer \in [Nodes -> NotRunning .. MaxJitter]
    BY FloodingAssumption DEF Init, NotRunning
  <1>8. sym \subseteq Nodes \X Ifaces /\ selectors \subseteq Nodes \X Nodes /\ originated \subseteq Messages
    BY FloodingAssumption DEF Init
  <1>9. disturbances \in 0 .. MaxDisturbances
    BY FloodingAssumption DEF Init
  <1>10. QED BY <1>5, <1>6, <1>7, <1>8, <1>9 DEF TypeInv

\* A message of its own fits a node's queue.
LEMMA OriginateOK ==
    ASSUME TypeInv, NEW m \in Messages, Originate(m)
    PROVE  TypeInv'
  <1> DEFINE n == Originator[m]
             copy == [id |-> m, ttl |-> IF m \in Hellos THEN 1 ELSE MaxTtl, hops |-> 0]
             queue == Append(node[n].queue, copy)
             new == [node[n] EXCEPT !.queue = queue]
  <1>1. n \in Nodes /\ NodeOK(node[n]) /\ node[n] \in NodeState
    BY FloodingAssumption DEF TypeInv
  <1>2. copy \in Copy /\ CopyOK(copy)
    BY FloodingAssumption DEF Copy, CopyOK
  <1>3. node' = [node EXCEPT ![n] = new]
    BY <1>1 DEF Originate, TypeInv
  <1>4. StartQueueTimer(n, node'[n])
    BY DEF Originate
  <1> HIDE DEF copy, n
  <1>5. queue \in Seq(Copy)
    BY <1>1, <1>2, NodeFields, ListOfAppend
  <1>6. \A k \in DOMAIN queue : CopyOK(queue[k])
    <2>1. node[n].queue \in Seq(Copy) /\ \A k \in DOMAIN node[n].queue : CopyOK(node[n].queue[k])
      BY <1>1, NodeFields DEF NodeOK
    <2>2. \A k \in DOMAIN queue :
            queue[k] = copy \/ (k \in DOMAIN node[n].queue /\ queue[k] = node[n].queue[k])
      BY <1>2, <2>1, AppendElements
    <2>3. QED BY <1>2, <2>1, <2>2
  <1> HIDE DEF queue
  <1> HIDE DEF new
  <1>7. NodeOK(new)
    <2>1. /\ new \in NodeState /\ new.queue = queue
          /\ new.duplicates = node[n].duplicates /\ new.timers = node[n].timers
      BY <1>1, <1>5 DEF new, NodeState
    <2>2. QED BY <1>1, <1>6, <2>1 DEF NodeOK, Timed
  <1>8. NodesOK'
    BY <1>1, <1>3, <1>7, OneNode DEF NodesOK, TypeInv
  <1>9. queueTimer' \in [Nodes -> NotRunning .. MaxJitter]
    BY <1>1, <1>4, TimerStarted DEF TypeInv
  <1>10. QED BY <1>8, <1>9 DEF Originate, environment, TypeInv, NodesOK

\* SendQueuedMessages puts well formed packets on the air.
LEMMA SendOK ==
    ASSUME TypeInv, NEW n \in Nodes, SendQueuedMessages(n)
    PROVE  TypeInv'
  <1> DEFINE new == [node[n] EXCEPT !.queue = <<>>]
             packets == Packets(node[n].queue)
  <1>1. NodeOK(node[n]) /\ node[n] \in NodeState /\ node[n].queue \in Seq(Copy)
    BY NodeFields DEF TypeInv
  <1>2. node' = [node EXCEPT ![n] = new]
    BY DEF SendQueuedMessages, EmptyQueue
  <1>3. NodeOK(new)
    <2> DEFINE empty == <<>>
    <2>1. empty \in Seq(Copy) /\ DOMAIN empty = {}
      OBVIOUS
    <2>2. new = [node[n] EXCEPT !.queue = empty]
      OBVIOUS
    <2> HIDE DEF empty, new
    <2>3. /\ new \in NodeState /\ new.queue = empty
          /\ new.duplicates = node[n].duplicates /\ new.timers = node[n].timers
      BY <1>1, <2>1, <2>2 DEF NodeState
    <2>4. QED BY <1>1, <2>1, <2>3 DEF NodeOK, Timed
  <1> HIDE DEF new
  <1>4. NodesOK'
    BY <1>2, <1>3, OneNode DEF NodesOK, TypeInv
  <1>5. /\ packets \in Seq(Seq(Copy))
        /\ \A k \in DOMAIN packets :
              /\ Len(packets[k]) \in 1 .. OLSR_MAX_MSGS
              /\ \A j \in DOMAIN packets[k] : \E i \in DOMAIN node[n].queue : packets[k][j] = node[n].queue[i]
    BY <1>1, PacketsOK
  <1>6. /\ DOMAIN arriving' = Ifaces
        /\ \A i \in Ifaces : arriving'[i] = arriving[i] \/ arriving'[i] = Heard(n, i, packets)
    BY DEF SendQueuedMessages
  <1>7. \A k \in DOMAIN node[n].queue : CopyOK(node[n].queue[k])
    BY <1>1 DEF NodeOK
  <1> HIDE DEF packets
  <1>8. ASSUME NEW i \in Ifaces
        PROVE  Heard(n, i, packets) \in Seq(Packet)
               /\ \A k \in DOMAIN Heard(n, i, packets) : PacketOK(Heard(n, i, packets)[k])
    <2> DEFINE heard == Heard(n, i, packets)
    <2>1. /\ heard \in Seq(Packet)
          /\ \A k \in DOMAIN heard : \E j \in DOMAIN packets : heard[k].messages = packets[j]
      BY <1>5, HeardOK
    <2> HIDE DEF heard
    <2>2. ASSUME NEW k \in DOMAIN heard PROVE PacketOK(heard[k])
      <3>1. PICK j \in DOMAIN packets : heard[k].messages = packets[j]
        BY <2>1
      <3>2. heard[k] \in Packet
        BY <2>1
      <3>3. \A l \in DOMAIN packets[j] : CopyOK(packets[j][l])
        BY <1>5, <1>7
      <3>4. QED BY <1>5, <3>1, <3>2, <3>3 DEF PacketOK
    <2>3. QED BY <2>1, <2>2 DEF heard
  <1>9. AirOK'
    BY <1>6, <1>8 DEF AirOK, TypeInv
  <1>10. queueTimer' \in [Nodes -> NotRunning .. MaxJitter]
    BY FloodingAssumption DEF SendQueuedMessages, TypeInv, NotRunning
  <1>11. QED BY <1>4, <1>9, <1>10 DEF SendQueuedMessages, environment, TypeInv, NodesOK, AirOK

\* RecvOlsr keeps the receiver well formed and takes the packet from the air.
LEMMA RecvOK ==
    ASSUME TypeInv, NEW iface \in Ifaces, RecvOlsr(iface)
    PROVE  TypeInv'
  <1> DEFINE n == Owner[iface]
             packet == Head(arriving[iface])
             new == ReceivePacket(n, iface, packet, node[n])
  <1>1. n \in Nodes /\ NodeOK(node[n])
    BY FloodingAssumption DEF TypeInv
  <1>2. arriving[iface] # <<>> /\ arriving[iface] \in Seq(Packet) /\ PacketOK(arriving[iface][1])
    <2>1. arriving[iface] # <<>> /\ arriving[iface] \in Seq(Packet)
      BY DEF RecvOlsr, TypeInv
    <2>2. 1 \in DOMAIN arriving[iface]
      BY <2>1
    <2>3. QED BY <2>1, <2>2 DEF TypeInv
  <1>3. PacketOK(packet)
    BY <1>2
  <1>4. node' = [node EXCEPT ![n] = new] /\ StartQueueTimer(n, node'[n])
    BY DEF RecvOlsr
  <1>5. arriving' = [arriving EXCEPT ![iface] = Tail(@)]
    BY DEF RecvOlsr
  <1> HIDE DEF n, packet
  <1>6. NodeOK(new)
    BY <1>1, <1>3, ReceivePacketOK
  <1> HIDE DEF new
  <1>7. NodesOK'
    BY <1>1, <1>4, <1>6, OneNode DEF NodesOK, TypeInv
  <1>8. AirOK'
    BY <1>2, <1>5, OneReceived DEF AirOK, TypeInv
  <1>9. queueTimer' \in [Nodes -> NotRunning .. MaxJitter]
    BY <1>1, <1>4, TimerStarted DEF TypeInv
  <1>10. QED BY <1>7, <1>8, <1>9 DEF RecvOlsr, environment, TypeInv, NodesOK, AirOK

\* An event of the duplicate set: its tuple expires, or it is scheduled again.
LEMMA ExpireKeeps ==
    ASSUME NEW state, NodeOK(state), NEW timer \in state.timers, timer.left = 0, NEW tuple, NEW expired,
           tuple = {t \in state.duplicates : t.id = timer.id},
           expired = {t \in tuple : t.left < 0},
           NEW new,
           new = [state EXCEPT
              !.duplicates = state.duplicates \ expired,
              !.timers = (state.timers \ {timer}) \cup
                   {[id |-> t.id, left |-> DELAY(t.left)] : t \in tuple \ expired}]
    PROVE  NodeOK(new)
  <1> DEFINE duplicates == state.duplicates \ expired
             timers == (state.timers \ {timer}) \cup
                   {[id |-> t.id, left |-> DELAY(t.left)] : t \in tuple \ expired}
  <1>1. state \in NodeState /\ OLSR_DUP_HOLD_TIME \in Nat
    BY FloodingAssumption DEF NodeOK
  <1>2. /\ \A d, e \in state.duplicates : d.id = e.id => d = e
        /\ \A t, u \in state.timers : t.id = u.id => t = u
        /\ \A d \in state.duplicates : \E t \in state.timers : t.id = d.id
        /\ \A t \in state.timers : \E d \in state.duplicates : d.id = t.id /\ t.left <= d.left + 1
    BY DEF NodeOK, Timed
  <1>3. PICK d \in state.duplicates : d.id = timer.id
    BY <1>2
  <1>4. tuple = {d} /\ d \in DuplicateTuple /\ d.id \in Messages /\ d.left \in -1 .. OLSR_DUP_HOLD_TIME
    BY <1>1, <1>2, <1>3, NodeFields DEF DuplicateTuple
  <1>5. state.duplicates \in SUBSET DuplicateTuple /\ state.timers \in SUBSET DupTimer
    BY <1>1, NodeFields
  <1>6. CASE d.left < 0
    <2>1. duplicates = state.duplicates \ {d} /\ timers = state.timers \ {timer}
      BY <1>4, <1>6
    <2> DEFINE tuples == state.duplicates \ {d}
               events == state.timers \ {timer}
    <2>2. /\ new = [state EXCEPT !.duplicates = tuples, !.timers = events]
          /\ tuples \in SUBSET DuplicateTuple /\ events \in SUBSET DupTimer
      BY <1>5, <2>1
    <2>3. /\ new \in NodeState /\ new.queue = state.queue
          /\ new.duplicates = state.duplicates \ {d} /\ new.timers = state.timers \ {timer}
      <3> HIDE DEF tuples, events
      <3>1. /\ new \in NodeState /\ new.queue = state.queue
            /\ new.duplicates = tuples /\ new.timers = events
        BY <1>1, <2>2 DEF NodeState
      <3>2. QED BY <3>1 DEF tuples, events
    <2>4. Timed(new)
      BY <1>2, <1>3, <2>3 DEF Timed
    <2>5. QED BY <2>3, <2>4 DEF NodeOK
  <1>7. CASE ~(d.left < 0)
    <2> DEFINE event == [id |-> d.id, left |-> d.left + 1]
    <2>1. event \in DupTimer
      BY <1>1, <1>4, <1>7 DEF DupTimer
    <2>2. event.id = d.id /\ event.left = d.left + 1
      OBVIOUS
    <2>3. DELAY(d.left) = d.left + 1
      BY <1>7 DEF DELAY
    <2>4. duplicates = state.duplicates /\ timers = (state.timers \ {timer}) \cup {event}
      BY <1>4, <1>7, <2>3
    <2> HIDE DEF event
    <2> DEFINE events == (state.timers \ {timer}) \cup {event}
    <2>5. new = [state EXCEPT !.duplicates = state.duplicates, !.timers = events] /\ events \in SUBSET DupTimer
      BY <1>5, <2>1, <2>4
    <2>6. /\ new \in NodeState /\ new.queue = state.queue
          /\ new.duplicates = state.duplicates /\ new.timers = (state.timers \ {timer}) \cup {event}
      <3> HIDE DEF events
      <3>1. /\ new \in NodeState /\ new.queue = state.queue
            /\ new.duplicates = state.duplicates /\ new.timers = events
        BY <1>1, <1>5, <2>5 DEF NodeState
      <3>2. QED BY <3>1 DEF events
    <2>7. /\ \A t, u \in new.timers : t.id = u.id => t = u
          /\ \A e \in new.duplicates : \E t \in new.timers : t.id = e.id
      BY <1>2, <1>3, <2>2, <2>6
    <2>8. ASSUME NEW t \in new.timers PROVE \E e \in new.duplicates : e.id = t.id /\ t.left <= e.left + 1
      <3>1. CASE t = event
        BY <1>3, <1>4, <2>2, <2>6, <3>1
      <3>2. CASE t # event
        BY <1>2, <2>6, <3>2
      <3>3. QED BY <3>1, <3>2
    <2>9. Timed(new)
      BY <1>2, <2>6, <2>7, <2>8 DEF Timed
    <2>10. QED BY <2>6, <2>9 DEF NodeOK
  <1>8. QED BY <1>6, <1>7

\* The same for the event and the node it runs in.
LEMMA ExpireOK ==
    ASSUME TypeInv, NEW n \in Nodes, NEW timer \in node[n].timers, DupTupleTimerExpire(n, timer)
    PROVE  TypeInv'
  <1> DEFINE tuple == {t \in node[n].duplicates : t.id = timer.id}
             expired == {t \in tuple : t.left < 0}
             again == {[id |-> t.id, left |-> DELAY(t.left)] : t \in tuple \ expired}
             new == [node[n] EXCEPT !.duplicates = node[n].duplicates \ expired,
                                    !.timers = (node[n].timers \ {timer}) \cup again]
  <1>1. node \in [Nodes -> NodeState] /\ NodeOK(node[n]) /\ timer.left = 0
    BY DEF TypeInv, DupTupleTimerExpire
  <1>2. node' = [node EXCEPT ![n].duplicates = @ \ expired,
                             ![n].timers = (@ \ {timer}) \cup again]
    BY DEF DupTupleTimerExpire
  <1>3. new = [node[n] EXCEPT !.duplicates = node[n].duplicates \ expired,
                  !.timers = (node[n].timers \ {timer}) \cup
                       {[id |-> t.id, left |-> DELAY(t.left)] : t \in tuple \ expired}]
    OBVIOUS
  <1>4. NodeOK(new)
    BY <1>1, ExpireKeeps
  <1>5. node' = [node EXCEPT ![n] = new]
    <2> HIDE DEF tuple, expired, again
    <2>1. QED BY <1>1, <1>2
  <1> HIDE DEF new
  <1>6. NodesOK'
    BY <1>4, <1>5, OneNode DEF NodesOK, TypeInv
  <1>7. QED BY <1>6 DEF DupTupleTimerExpire, environment, TypeInv, NodesOK

\* Time passes: no event is due, so no tuple is more than just expired.
LEMMA TickKeeps ==
    ASSUME NEW state, NodeOK(state), \A t \in state.timers : t.left > 0, NEW new,
           new = [state EXCEPT !.duplicates = Older(state.duplicates), !.timers = Older(state.timers)]
    PROVE  NodeOK(new)
  <1>1. state \in NodeState /\ OLSR_DUP_HOLD_TIME \in Nat
    BY FloodingAssumption DEF NodeOK
  <1>2. /\ \A d, e \in state.duplicates : d.id = e.id => d = e
        /\ \A t, u \in state.timers : t.id = u.id => t = u
        /\ \A d \in state.duplicates : \E t \in state.timers : t.id = d.id
        /\ \A t \in state.timers : \E d \in state.duplicates : d.id = t.id /\ t.left <= d.left + 1
    BY DEF NodeOK, Timed
  <1>3. state.duplicates \in SUBSET DuplicateTuple /\ state.timers \in SUBSET DupTimer
    BY <1>1, NodeFields
  <1>4. \A d \in state.duplicates : d.left \in -1 .. OLSR_DUP_HOLD_TIME
    BY <1>3 DEF DuplicateTuple
  <1>5. \A t \in state.timers : t.left \in 1 .. OLSR_DUP_HOLD_TIME + 1
    BY <1>1, <1>3 DEF DupTimer
  <1>6. \A d \in state.duplicates : d.left >= 0
    BY <1>1, <1>2, <1>4, <1>5
  <1>7. \A d \in state.duplicates : [d EXCEPT !.left = @ - 1] \in DuplicateTuple
    BY <1>1, <1>3, <1>4, <1>6 DEF DuplicateTuple
  <1>8. \A t \in state.timers : [t EXCEPT !.left = @ - 1] \in DupTimer
    BY <1>1, <1>3, <1>5 DEF DupTimer
  <1>9. Older(state.duplicates) \in SUBSET DuplicateTuple /\ Older(state.timers) \in SUBSET DupTimer
    BY <1>7, <1>8 DEF Older
  <1>10. /\ new \in NodeState /\ new.queue = state.queue
         /\ new.duplicates = Older(state.duplicates) /\ new.timers = Older(state.timers)
    BY <1>1, <1>9 DEF NodeState
  <1>11. \A d \in state.duplicates :
            [d EXCEPT !.left = @ - 1].id = d.id /\ [d EXCEPT !.left = @ - 1].left = d.left - 1
    BY <1>3 DEF DuplicateTuple
  <1>12. \A t \in state.timers :
            [t EXCEPT !.left = @ - 1].id = t.id /\ [t EXCEPT !.left = @ - 1].left = t.left - 1
    BY <1>3 DEF DupTimer
  <1>13. /\ \A d \in state.duplicates : \E e \in new.duplicates :
               e = [d EXCEPT !.left = @ - 1] /\ e.id = d.id /\ e.left = d.left - 1
         /\ \A e \in new.duplicates : \E d \in state.duplicates :
               e = [d EXCEPT !.left = @ - 1] /\ e.id = d.id /\ e.left = d.left - 1
    BY <1>10, <1>11 DEF Older
  <1>14. /\ \A t \in state.timers : \E u \in new.timers :
               u = [t EXCEPT !.left = @ - 1] /\ u.id = t.id /\ u.left = t.left - 1
         /\ \A u \in new.timers : \E t \in state.timers :
               u = [t EXCEPT !.left = @ - 1] /\ u.id = t.id /\ u.left = t.left - 1
    BY <1>10, <1>12 DEF Older
  <1>15. \A d, e \in new.duplicates : d.id = e.id => d = e
    BY <1>2, <1>13
  <1>16. \A t, u \in new.timers : t.id = u.id => t = u
    BY <1>2, <1>14
  <1>17. \A d \in new.duplicates : \E t \in new.timers : t.id = d.id
    BY <1>2, <1>13, <1>14
  <1>18. ASSUME NEW u \in new.timers PROVE \E e \in new.duplicates : e.id = u.id /\ u.left <= e.left + 1
    <2>1. PICK t \in state.timers : u.id = t.id /\ u.left = t.left - 1
      BY <1>14
    <2>2. PICK d \in state.duplicates : d.id = t.id /\ t.left <= d.left + 1
      BY <1>2
    <2>3. PICK e \in new.duplicates : e.id = d.id /\ e.left = d.left - 1
      BY <1>13
    <2>4. d.left \in Int /\ t.left \in Int
      BY <1>4, <1>5
    <2>5. QED BY <2>1, <2>2, <2>3, <2>4
  <1>19. Timed(new)
    BY <1>15, <1>16, <1>17, <1>18 DEF Timed
  <1>20. QED BY <1>10, <1>19 DEF NodeOK

\* The same for all nodes.
LEMMA TickOK ==
    ASSUME TypeInv, Tick
    PROVE  TypeInv'
  <1> DEFINE New(n) == [node[n] EXCEPT !.duplicates = Older(node[n].duplicates),
                                       !.timers = Older(node[n].timers)]
  <1>1. node' = [n \in Nodes |-> New(n)]
    BY DEF Tick
  <1>2. ASSUME NEW n \in Nodes PROVE NodeOK(New(n))
    <2>1. NodeOK(node[n]) /\ \A t \in node[n].timers : t.left > 0
      BY DEF TypeInv, Tick
    <2>2. QED BY <2>1, TickKeeps
  <1> HIDE DEF New
  <1>3. NodesOK'
    BY <1>1, <1>2 DEF NodesOK, NodeOK
  <1>4. queueTimer' \in [Nodes -> NotRunning .. MaxJitter]
    <2>1. MaxJitter \in Nat /\ NotRunning = -1
      BY FloodingAssumption DEF NotRunning
    <2>2. /\ \A n \in Nodes : queueTimer[n] \in NotRunning .. MaxJitter /\ queueTimer[n] # 0
          /\ queueTimer' = [n \in Nodes |-> IF queueTimer[n] = NotRunning THEN NotRunning
                                                                          ELSE queueTimer[n] - 1]
      BY DEF Tick, TypeInv
    <2>3. QED BY <2>1, <2>2
  <1>5. QED BY <1>3, <1>4 DEF Tick, environment, TypeInv, NodesOK

\* A lost packet.
LEMMA LoseOK ==
    ASSUME TypeInv, NEW iface \in Ifaces, Lose(iface)
    PROVE  TypeInv'
  <1>1. AirOK'
    BY OneReceived DEF AirOK, TypeInv, Lose
  <1>2. disturbances' \in 0 .. MaxDisturbances
    BY FloodingAssumption DEF TypeInv, Lose, Disturb
  <1>3. QED BY <1>1, <1>2 DEF Lose, Disturb, TypeInv, AirOK

\* A link or a selector that comes or goes.
LEMMA ChangeOK ==
    ASSUME TypeInv, NEW n \in Nodes,
           (\E s \in Ifaces : LinkChange(n, s)) \/ (\E m \in Neighbours[n] : SelectorChange(n, m))
    PROVE  TypeInv'
  <1>1. Neighbours[n] \subseteq Nodes
    BY DEF Neighbours
  <1>2. Disturb /\ UNCHANGED arriving
    BY DEF LinkChange, SelectorChange
  <1>3. disturbances' \in 0 .. MaxDisturbances /\ UNCHANGED <<node, queueTimer, originated, arriving>>
    BY <1>2, FloodingAssumption DEF TypeInv, Disturb
  <1>4. CASE \E s \in Ifaces : LinkChange(n, s)
    <2>1. PICK s \in Ifaces : LinkChange(n, s)
      BY <1>4
    <2>2. sym' \subseteq Nodes \X Ifaces /\ selectors' = selectors
      BY <2>1 DEF TypeInv, LinkChange
    <2>3. QED BY <1>3, <2>2 DEF TypeInv
  <1>5. CASE \E m \in Neighbours[n] : SelectorChange(n, m)
    <2>1. PICK m \in Neighbours[n] : SelectorChange(n, m)
      BY <1>5
    <2>2. selectors' \subseteq Nodes \X Nodes /\ sym' = sym
      BY <1>1, <2>1 DEF TypeInv, SelectorChange
    <2>3. QED BY <1>3, <2>2 DEF TypeInv
  <1>6. QED BY <1>4, <1>5

\* The first invariant is inductive.
LEMMA TypeInvStep == TypeInv /\ [Next]_vars => TypeInv'
  <1> SUFFICES ASSUME TypeInv, [Next]_vars PROVE TypeInv'
    OBVIOUS
  <1>1. CASE \E m \in Messages : Originate(m)
    BY <1>1, OriginateOK
  <1>2. CASE \E n \in Nodes : SendQueuedMessages(n)
    BY <1>2, SendOK
  <1>3. CASE \E i \in Ifaces : RecvOlsr(i)
    BY <1>3, RecvOK
  <1>4. CASE \E n \in Nodes : \E t \in node[n].timers : DupTupleTimerExpire(n, t)
    BY <1>4, ExpireOK
  <1>5. CASE \E i \in Ifaces : Lose(i)
    BY <1>5, LoseOK
  <1>6. CASE \E n \in Nodes : \E s \in Ifaces : Owner[s] \in Neighbours[n] /\ LinkChange(n, s)
    BY <1>6, ChangeOK
  <1>7. CASE \E n \in Nodes : \E m \in Neighbours[n] : SelectorChange(n, m)
    BY <1>7, ChangeOK
  <1>8. CASE Tick
    BY <1>8, TickOK
  <1>9. CASE UNCHANGED vars
    BY <1>9 DEF vars, TypeInv
  <1>10. QED BY <1>1, <1>2, <1>3, <1>4, <1>5, <1>6, <1>7, <1>8, <1>9 DEF Next

\* It holds in every reachable state.
LEMMA AlwaysTypeInv == Spec => []TypeInv
  BY TypeInvInit, TypeInvStep, PTL DEF Spec

\* Every queue, duplicate set and packet on the air is well formed whatever is
\* sent, lost or removed: a time to live never leaves its range, and a packet
\* never holds more than OLSR_MAX_MSGS messages.
THEOREM FloodTypes == Spec => []TypeOK
  <1>1. TypeInv => TypeOK
    <2> SUFFICES ASSUME TypeInv PROVE TypeOK
      OBVIOUS
    <2>1. ASSUME NEW n \in Nodes
          PROVE  /\ \A k \in DOMAIN node[n].queue : node[n].queue[k] \in Copy
                 /\ node[n].duplicates \subseteq DuplicateTuple
                 /\ node[n].timers \subseteq DupTimer
                 /\ node[n].processed \in [Messages -> Seen]
                 /\ node[n].forwarded \in [Messages -> Seen]
      BY NodeFields DEF TypeInv, NodeOK, CopyOK
    <2>2. ASSUME NEW i \in Ifaces, NEW k \in DOMAIN arriving[i]
          PROVE  /\ arriving[i][k].sender \in Ifaces
                 /\ Len(arriving[i][k].messages) \in 1 .. OLSR_MAX_MSGS
                 /\ Range(arriving[i][k].messages) \subseteq Copy
      <3>1. PacketOK(arriving[i][k])
        BY DEF TypeInv
      <3>2. QED BY <3>1 DEF PacketOK, CopyOK, Packet, Range
    <2>3. QED BY <2>1, <2>2 DEF TypeInv, TypeOK
  <1>2. QED BY <1>1, AlwaysTypeInv, PTL

\* A duplicate tuple has one event on its way at every moment, so that
\* DupTupleTimerExpire removes it, and the event never comes later than just
\* after the deadline: updates of the tuple start no second chain of events.
THEOREM TuplesHaveOneEvent == Spec => []DuplicatesAreTimed
  <1>1. TypeInv => DuplicatesAreTimed
    <2> SUFFICES ASSUME TypeInv, NEW n \in Nodes, NEW d \in node[n].duplicates
                 PROVE  /\ Cardinality({t \in node[n].duplicates : t.id = d.id}) = 1
                        /\ Cardinality({t \in node[n].timers : t.id = d.id}) = 1
                        /\ \A t \in node[n].timers : t.id = d.id => t.left <= d.left + 1
      BY DEF DuplicatesAreTimed
    <2>1. Timed(node[n])
      BY DEF TypeInv, NodeOK
    <2>2. {t \in node[n].duplicates : t.id = d.id} = {d}
      BY <2>1 DEF Timed
    <2>3. PICK u \in node[n].timers : {t \in node[n].timers : t.id = d.id} = {u}
      BY <2>1 DEF Timed
    <2>4. \A t \in node[n].timers : t.id = d.id => t.left <= d.left + 1
      BY <2>1 DEF Timed
    <2>5. QED BY <2>2, <2>3, <2>4, FS_Singleton
  <1>2. QED BY <1>1, AlwaysTypeInv, PTL

-----------------------------------------------------------------------------
(* What a tuple says of its message lasts until its deadline has passed.   *)

\* `later` says of every message what `tuples` say, for as long.
Lasting(tuples, later) ==
    \A d \in tuples : \E e \in later :
        /\ e.id = d.id /\ e.left >= d.left
        /\ d.retransmitted => e.retransmitted
        /\ d.ifaceList \subseteq e.ifaceList

LEMMA LastingChain ==
    ASSUME NEW a \in SUBSET DuplicateTuple, NEW b \in SUBSET DuplicateTuple,
           NEW c \in SUBSET DuplicateTuple, Lasting(a, b), Lasting(b, c)
    PROVE  Lasting(a, c)
  <1> SUFFICES ASSUME NEW d \in a
               PROVE  \E f \in c : /\ f.id = d.id /\ f.left >= d.left
                                   /\ d.retransmitted => f.retransmitted
                                   /\ d.ifaceList \subseteq f.ifaceList
    BY DEF Lasting
  <1>1. PICK e \in b : /\ e.id = d.id /\ e.left >= d.left
                       /\ d.retransmitted => e.retransmitted
                       /\ d.ifaceList \subseteq e.ifaceList
    BY DEF Lasting
  <1>2. PICK f \in c : /\ f.id = e.id /\ f.left >= e.left
                       /\ e.retransmitted => f.retransmitted
                       /\ e.ifaceList \subseteq f.ifaceList
    BY DEF Lasting
  <1>3. d.left \in Int /\ e.left \in Int /\ f.left \in Int
    BY DEF DuplicateTuple
  <1>4. f.id = d.id /\ f.left >= d.left
    BY <1>1, <1>2, <1>3
  <1>5. d.ifaceList \subseteq f.ifaceList
    BY <1>1, <1>2
  <1>6. d.retransmitted => f.retransmitted
    BY <1>1, <1>2, Zenon
  <1>7. QED BY <1>4, <1>5, <1>6

\* RecordDuplicate puts a tuple in the place of one that was not yet marked as
\* retransmitted, with its interfaces and a new deadline.
LEMMA RecordLasts ==
    ASSUME NEW state, NodeOK(state), NEW m \in Messages, ~AlreadyRetransmitted(state, m),
           NEW iface \in Ifaces, NEW retransmitted \in BOOLEAN,
           NEW new, new = RecordDuplicate(state, m, iface, retransmitted)
    PROVE  Lasting(state.duplicates, new.duplicates)
  <1> DEFINE old == {t \in state.duplicates : t.id = m}
             tuple == [id |-> m, retransmitted |-> retransmitted,
                       ifaceList |-> {iface} \cup UNION {t.ifaceList : t \in old},
                       left |-> OLSR_DUP_HOLD_TIME]
             event == [id |-> m, left |-> OLSR_DUP_HOLD_TIME]
             duplicates == (state.duplicates \ old) \cup {tuple}
             timers == IF old = {} THEN state.timers \cup {event} ELSE state.timers
  <1>1. new = [state EXCEPT !.duplicates = duplicates, !.timers = timers]
    BY DEF RecordDuplicate
  <1>2. /\ tuple.id = m /\ tuple.left = OLSR_DUP_HOLD_TIME
        /\ \A d \in old : d.ifaceList \subseteq tuple.ifaceList
    OBVIOUS
  <1>3. state.duplicates \in SUBSET DuplicateTuple /\ OLSR_DUP_HOLD_TIME \in Nat
    BY NodeFields, FloodingAssumption DEF NodeOK
  <1> HIDE DEF tuple
  <1>4. tuple \in duplicates /\ \A d \in state.duplicates : d.id # m => d \in duplicates
    OBVIOUS
  <1>5. \A d \in old : d \in state.duplicates /\ d.id = m
    OBVIOUS
  <1>6. \A d \in state.duplicates : d.id = m => d \in old
    OBVIOUS
  <1> HIDE DEF duplicates, timers, old
  <1>7. new.duplicates = duplicates
    BY <1>1 DEF NodeOK, NodeState
  <1>8. ASSUME NEW d \in state.duplicates
        PROVE  \E e \in duplicates : /\ e.id = d.id /\ e.left >= d.left
                                     /\ d.retransmitted => e.retransmitted
                                     /\ d.ifaceList \subseteq e.ifaceList
    <2>1. d.left \in -1 .. OLSR_DUP_HOLD_TIME
      BY <1>3 DEF DuplicateTuple
    <2>2. CASE d.id = m
      <3>1. ~d.retransmitted
        BY <2>2, Zenon DEF AlreadyRetransmitted
      <3>2. tuple.id = d.id /\ tuple.left >= d.left /\ d.ifaceList \subseteq tuple.ifaceList
        BY <1>2, <1>3, <1>6, <2>1, <2>2
      <3>3. QED BY <1>4, <3>1, <3>2, Zenon
    <2>3. CASE d.id # m
      <3>1. d \in duplicates /\ d.left >= d.left
        BY <1>4, <2>1, <2>3
      <3>2. QED BY <3>1, Zenon
    <2>4. QED BY <2>2, <2>3
  <1>9. QED BY <1>7, <1>8 DEF Lasting

\* What one message of a packet does to the tuples.
LEMMA MessageLasts ==
    ASSUME NEW n \in Nodes, NEW iface \in Ifaces, NEW sender \in Ifaces, NEW state, NodeOK(state),
           NEW copy, CopyOK(copy), NEW new, new = ReceiveMessage(n, iface, sender, state, copy)
    PROVE  Lasting(state.duplicates, new.duplicates)
  <1> DEFINE read == IF ~\E t \in state.duplicates : t.id = copy.id
                       THEN [state EXCEPT !.processed[copy.id] = Once(@)] ELSE state
             retransmitted == MustRetransmit(n, sender, copy)
             again == QueueAgain(read, copy)
             queued == IF retransmitted THEN again ELSE read
             recorded == RecordDuplicate(queued, copy.id, iface, retransmitted)
  <1>1. state \in NodeState /\ copy.id \in Messages
    BY DEF NodeOK, CopyOK, Copy
  <1>2. SameBut(read, state)
    BY <1>1, ReadKeeps DEF SameBut
  <1>3. retransmitted \in BOOLEAN /\ (retransmitted => copy.ttl > 1)
    BY DEF MustRetransmit
  <1>4. \/ new = state \/ new = read
        \/ ~AlreadyRetransmitted(read, copy.id) /\ new = recorded
    BY DEF ReceiveMessage, ForwardDefault
  <1> HIDE DEF read, retransmitted
  <1>5. NodeOK(read)
    BY <1>2, SameIsOK
  <1>6. NodeOK(queued) /\ queued.duplicates = state.duplicates
    <2>1. CASE retransmitted
      <3>1. NodeOK(again) /\ Requeued(again, read, copy)
        BY <1>3, <1>5, <2>1, QueueKeeps
      <3> HIDE DEF again
      <3>2. again.duplicates = state.duplicates
        BY <1>2, <3>1 DEF Requeued, SameBut
      <3>3. QED BY <2>1, <3>1, <3>2
    <2>2. CASE ~retransmitted
      BY <1>2, <1>5, <2>2 DEF SameBut
    <2>3. QED BY <2>1, <2>2
  <1>7. \A d \in state.duplicates : d.left \in Int
    BY <1>1, NodeFields DEF DuplicateTuple
  <1>8. Lasting(state.duplicates, state.duplicates)
    <2>1. \A d \in state.duplicates : d.left >= d.left
      BY <1>7
    <2>2. QED BY <2>1, Zenon DEF Lasting
  <1>9. CASE new = state \/ new = read
    BY <1>2, <1>8, <1>9 DEF SameBut
  <1>10. CASE ~AlreadyRetransmitted(read, copy.id) /\ new = recorded
    <2>1. ~AlreadyRetransmitted(queued, copy.id)
      BY <1>2, <1>6, <1>10 DEF AlreadyRetransmitted, SameBut
    <2> HIDE DEF queued
    <2>2. Lasting(queued.duplicates, new.duplicates)
      BY <1>1, <1>3, <1>6, <1>10, <2>1, RecordLasts
    <2>3. QED BY <1>6, <2>2
  <1>11. QED BY <1>4, <1>9, <1>10

\* The messages of a packet, one after the other.
LEMMA PacketLasts ==
    ASSUME NEW n \in Nodes, NEW iface \in Ifaces, NEW packet, PacketOK(packet), NEW state, NodeOK(state)
    PROVE  Lasting(state.duplicates, ReceivePacket(n, iface, packet, state).duplicates)
  <1> DEFINE T == {s \in NodeState : NodeOK(s) /\ Lasting(state.duplicates, s.duplicates)}
  <1>1. packet.sender \in Ifaces /\ Len(packet.messages) \in Nat /\ packet.messages \in Seq(Copy)
    BY DEF PacketOK, Packet
  <1>2. state \in T
    <2>1. state \in NodeState /\ state.duplicates \in SUBSET DuplicateTuple
      BY NodeFields DEF NodeOK
    <2>2. \A d \in state.duplicates : d.left >= d.left
      BY <2>1 DEF DuplicateTuple
    <2>3. Lasting(state.duplicates, state.duplicates)
      BY <2>2, Zenon DEF Lasting
    <2>4. QED BY <2>1, <2>3
  <1>3. ASSUME NEW s \in T, NEW k \in 1 .. Len(packet.messages)
        PROVE  ReceiveMessage(n, iface, packet.sender, s, packet.messages[k]) \in T
    <2> DEFINE new == ReceiveMessage(n, iface, packet.sender, s, packet.messages[k])
    <2>1. CopyOK(packet.messages[k])
      BY <1>1 DEF PacketOK
    <2>2. NodeOK(s) /\ Lasting(state.duplicates, s.duplicates)
      OBVIOUS
    <2>3. NodeOK(new) /\ Lasting(s.duplicates, new.duplicates)
      BY <1>1, <2>1, <2>2, ReceiveMessageEffect, MessageLasts
    <2> HIDE DEF new
    <2>4. /\ state.duplicates \in SUBSET DuplicateTuple /\ s.duplicates \in SUBSET DuplicateTuple
          /\ new.duplicates \in SUBSET DuplicateTuple /\ new \in NodeState
      BY <2>2, <2>3, NodeFields DEF NodeOK
    <2>5. Lasting(state.duplicates, new.duplicates)
      BY <2>2, <2>3, <2>4, LastingChain
    <2>6. new \in T
      BY <2>3, <2>4, <2>5
    <2>7. QED BY <2>6 DEF new
  <1> HIDE DEF T
  <1>4. ReceivePacket(n, iface, packet, state) \in T
    BY <1>1, <1>2, <1>3, ReceivePacketStays DEF KeptBy
  <1>5. QED BY <1>4 DEF T

\* Until its deadline has passed a duplicate tuple is neither removed nor made
\* to say less: the event that looks at it leaves it, and ForwardDefault only
\* writes to tuples of messages that were not retransmitted.
THEOREM HeldLongEnough == Spec => DuplicatesOutliveHold
  <1>1. TypeInv /\ [Next]_vars =>
           [\A n \in Nodes : \A d \in node[n].duplicates :
               d.left >= 0 => StillKnown(d, node'[n].duplicates)]_vars
    <2> SUFFICES ASSUME TypeInv, Next, NEW n \in Nodes, NEW d \in node[n].duplicates, d.left >= 0
                 PROVE  StillKnown(d, node'[n].duplicates)
      OBVIOUS
    <2>1. /\ node \in [Nodes -> NodeState] /\ NodeOK(node[n])
          /\ d \in DuplicateTuple /\ d.left \in Nat /\ OLSR_DUP_HOLD_TIME \in Nat
      BY NodeFields, FloodingAssumption DEF TypeInv, DuplicateTuple
    <2>2. ASSUME d \in node'[n].duplicates PROVE StillKnown(d, node'[n].duplicates)
      <3>1. d.left + 1 >= d.left
        BY <2>1
      <3>2. QED BY <2>2, <3>1, Zenon DEF StillKnown
    <2>3. CASE node' = node
      BY <2>2, <2>3
    <2>4. ASSUME NEW m \in Messages, Originate(m) PROVE StillKnown(d, node'[n].duplicates)
      <3> DEFINE o == Originator[m]
                 copy == [id |-> m, ttl |-> IF m \in Hellos THEN 1 ELSE MaxTtl, hops |-> 0]
                 q == Append(node[o].queue, copy)
      <3>1. o \in Nodes /\ node' = [node EXCEPT ![o].queue = q]
        BY <2>4, FloodingAssumption DEF Originate
      <3> HIDE DEF o, q
      <3>2. node'[n].duplicates = node[n].duplicates
        BY <2>1, <3>1 DEF NodeState
      <3>3. QED BY <2>2, <3>2
    <2>5. ASSUME NEW o \in Nodes, SendQueuedMessages(o) PROVE StillKnown(d, node'[n].duplicates)
      <3>1. node' = [node EXCEPT ![o].queue = <<>>]
        BY <2>5 DEF SendQueuedMessages, EmptyQueue
      <3>2. node'[n].duplicates = node[n].duplicates
        BY <2>1, <3>1 DEF NodeState
      <3>3. QED BY <2>2, <3>2
    <2>6. ASSUME NEW iface \in Ifaces, RecvOlsr(iface) PROVE StillKnown(d, node'[n].duplicates)
      <3> DEFINE o == Owner[iface]
                 packet == Head(arriving[iface])
                 new == ReceivePacket(o, iface, packet, node[o])
      <3>1. o \in Nodes /\ NodeOK(node[o])
        BY FloodingAssumption DEF TypeInv
      <3>2. PacketOK(packet)
        <4>1. arriving[iface] # <<>> /\ arriving[iface] \in Seq(Packet)
          BY <2>6 DEF RecvOlsr, TypeInv
        <4>2. 1 \in DOMAIN arriving[iface] /\ packet = arriving[iface][1]
          BY <4>1
        <4>3. QED BY <4>1, <4>2 DEF TypeInv
      <3>3. node' = [node EXCEPT ![o] = new]
        BY <2>6 DEF RecvOlsr
      <3> HIDE DEF o, packet
      <3>4. NodeOK(new) /\ Lasting(node[o].duplicates, new.duplicates)
        BY <3>1, <3>2, ReceivePacketOK, PacketLasts
      <3> HIDE DEF new
      <3>5. CASE n = o
        <4>1. PICK e \in new.duplicates : /\ e.id = d.id /\ e.left >= d.left
                                          /\ d.retransmitted => e.retransmitted
                                          /\ d.ifaceList \subseteq e.ifaceList
          BY <3>4, <3>5 DEF Lasting
        <4>2. node'[n] = new
          BY <2>1, <3>3, <3>5
        <4>3. e.left \in Int
          BY <3>4, NodeFields DEF NodeOK, DuplicateTuple
        <4>4. e.left + 1 >= d.left
          BY <2>1, <4>1, <4>3
        <4>5. QED BY <4>1, <4>2, <4>4, Zenon DEF StillKnown
      <3>6. CASE n # o
        BY <2>1, <2>2, <3>3, <3>6
      <3>7. QED BY <3>5, <3>6
    <2>7. ASSUME NEW o \in Nodes, NEW t \in node[o].timers, DupTupleTimerExpire(o, t)
          PROVE  StillKnown(d, node'[n].duplicates)
      <3> DEFINE tuple == {u \in node[o].duplicates : u.id = t.id}
                 expired == {u \in tuple : u.left < 0}
                 events == (node[o].timers \ {t}) \cup
                           {[id |-> u.id, left |-> DELAY(u.left)] : u \in tuple \ expired}
                 rest == node[o].duplicates \ expired
      <3>1. node' = [node EXCEPT ![o].duplicates = rest, ![o].timers = events]
        BY <2>7 DEF DupTupleTimerExpire
      <3>2. d \notin expired
        BY <2>1
      <3>3. \A u \in node[o].duplicates : u \in rest \/ u \in expired
        OBVIOUS
      <3> HIDE DEF events, rest, expired, tuple
      <3>4. node'[n].duplicates = IF n = o THEN rest ELSE node[n].duplicates
        BY <2>1, <3>1 DEF NodeState
      <3>5. QED BY <2>2, <3>2, <3>3, <3>4
    <2>8. CASE Tick
      <3> DEFINE e == [d EXCEPT !.left = @ - 1]
                 New(k) == [node[k] EXCEPT !.duplicates = Older(node[k].duplicates),
                                           !.timers = Older(node[k].timers)]
      <3>1. node' = [k \in Nodes |-> New(k)]
        BY <2>8 DEF Tick
      <3>2. New(n).duplicates = Older(node[n].duplicates)
        <4>1. ASSUME NEW state \in NodeState, NEW duplicates, NEW timers
              PROVE  [state EXCEPT !.duplicates = duplicates, !.timers = timers].duplicates = duplicates
          BY DEF NodeState
        <4>2. node[n] \in NodeState
          BY <2>1
        <4>3. QED BY <4>1, <4>2
      <3> HIDE DEF New
      <3>3. node'[n].duplicates = Older(node[n].duplicates)
        BY <3>1, <3>2
      <3>4. e \in Older(node[n].duplicates)
        BY DEF Older
      <3>5. /\ e.id = d.id /\ e.left = d.left - 1
            /\ e.retransmitted = d.retransmitted /\ e.ifaceList = d.ifaceList
        BY <2>1 DEF DuplicateTuple
      <3> HIDE DEF e
      <3>6. e.left + 1 >= d.left
        BY <2>1, <3>5
      <3>7. QED BY <3>3, <3>4, <3>5, <3>6, Zenon DEF StillKnown
    <2>9. CASE \/ \E i \in Ifaces : Lose(i)
               \/ \E k \in Nodes : \E s \in Ifaces : LinkChange(k, s)
               \/ \E k \in Nodes : \E m \in Neighbours[k] : SelectorChange(k, m)
      BY <2>3, <2>9 DEF Lose, LinkChange, SelectorChange, Disturb
    <2>10. QED BY <2>4, <2>5, <2>6, <2>7, <2>8, <2>9 DEF Next
  <1>2. QED BY <1>1, AlwaysTypeInv, PTL DEF Spec, DuplicatesOutliveHold

-----------------------------------------------------------------------------
(* The second invariant: how long a copy has been under way bounds the age *)
(* of every duplicate tuple of its message, and its hops count the nodes   *)
(* that have retransmitted it, each of which still holds the tuple.        *)

Forwarders(nodes, m) == {n \in Nodes : nodes[n].forwarded[m] # 0}

Holds(state, m) == \E d \in state.duplicates : d.id = m /\ d.retransmitted

Age(d) == OLSR_DUP_HOLD_TIME - d.left

\* A copy on its way, when no tuple of its message is older than `time`.
UnderWay(nodes, sent, copy, time) ==
    /\ copy.id \in sent
    /\ copy.hops <= Cardinality(Forwarders(nodes, copy.id))
    /\ \A n \in Forwarders(nodes, copy.id) : Holds(nodes[n], copy.id)
    /\ \A n \in Nodes : \A d \in nodes[n].duplicates : d.id = copy.id => Age(d) <= time

FloodsInv(nodes, sent) ==
    /\ \A n \in Nodes, m \in Messages : nodes[n].forwarded[m] \in {0, 1}
    /\ \A m \in Messages : Originator[m] \notin Forwarders(nodes, m)
    /\ \A m \in Messages \ sent :
          Forwarders(nodes, m) = {} /\ \A n \in Nodes : \A d \in nodes[n].duplicates : d.id # m

QueueTime(copy, left) == copy.hops * MaxJitter + MaxJitter - left

QueuesInv(nodes, sent, timers) ==
    \A n \in Nodes :
        /\ nodes[n].queue # <<>> => timers[n] # NotRunning
        /\ \A k \in DOMAIN nodes[n].queue :
              UnderWay(nodes, sent, nodes[n].queue[k], QueueTime(nodes[n].queue[k], timers[n]))

AirTime(copy) == copy.hops * MaxJitter + MaxJitter

AirInv(nodes, sent, air) ==
    \A i \in Ifaces : \A k \in DOMAIN air[i] : \A j \in DOMAIN air[i][k].messages :
        UnderWay(nodes, sent, air[i][k].messages[j], AirTime(air[i][k].messages[j]))

OnceInv ==
    FloodsInv(node, originated) /\ QueuesInv(node, originated, queueTimer) /\ AirInv(node, originated, arriving)

\* A flood is over within the hold time: its copies take at most MaxJitter per
\* hop, over no more hops than there are nodes and than a message may live.
FloodsAreShort ==
    \/ Cardinality(Nodes) * MaxJitter <= OLSR_DUP_HOLD_TIME
    \/ MaxTtl * MaxJitter <= OLSR_DUP_HOLD_TIME

\* The nodes that have sent a message on can be counted.
LEMMA ForwardersFinite ==
    ASSUME NEW nodes, NEW m
    PROVE  /\ IsFiniteSet(Forwarders(nodes, m)) /\ Cardinality(Forwarders(nodes, m)) \in Nat
           /\ Forwarders(nodes, m) \subseteq Nodes
  <1>1. Forwarders(nodes, m) \in SUBSET Nodes /\ IsFiniteSet(Nodes)
    BY FloodingAssumption DEF Forwarders
  <1>2. QED BY <1>1, FS_Subset, FS_CardinalityType

\* What keeps a copy under way.
LEMMA StillUnderWay ==
    ASSUME NEW nodes, NEW nodes2, NEW sent, NEW sent2, sent \subseteq sent2, NEW copy, copy.hops \in Nat,
           NEW time, NEW time2, UnderWay(nodes, sent, copy, time),
           Forwarders(nodes, copy.id) \subseteq Forwarders(nodes2, copy.id),
           \A n \in Forwarders(nodes2, copy.id) : Holds(nodes2[n], copy.id),
           \A n \in Nodes : \A d \in nodes2[n].duplicates : d.id = copy.id => Age(d) <= time2
    PROVE  UnderWay(nodes2, sent2, copy, time2)
  <1> DEFINE old == Forwarders(nodes, copy.id)
             new == Forwarders(nodes2, copy.id)
  <1>1. /\ IsFiniteSet(new) /\ Cardinality(old) \in Nat /\ Cardinality(new) \in Nat
        /\ old \in SUBSET new
    BY ForwardersFinite
  <1>2. copy.id \in sent /\ copy.hops <= Cardinality(old)
    BY DEF UnderWay
  <1> HIDE DEF old, new
  <1>3. Cardinality(old) <= Cardinality(new)
    BY <1>1, FS_Subset
  <1>4. copy.hops <= Cardinality(new)
    BY <1>1, <1>2, <1>3
  <1>5. QED BY <1>2, <1>4 DEF UnderWay, new

\* Nothing about the floods changes but what is sent.
SameFloods(nodes, nodes2) ==
    \A n \in Nodes : nodes2[n].forwarded = nodes[n].forwarded /\ nodes2[n].duplicates = nodes[n].duplicates

\* A step that changes no duplicate set and no count leaves the copies under way.
LEMMA SameUnderWay ==
    ASSUME NEW nodes, NEW nodes2, SameFloods(nodes, nodes2), NEW sent, NEW sent2, sent \subseteq sent2,
           NEW copy, NEW time, UnderWay(nodes, sent, copy, time)
    PROVE  UnderWay(nodes2, sent2, copy, time)
  <1>1. Forwarders(nodes2, copy.id) = Forwarders(nodes, copy.id)
    BY DEF Forwarders, SameFloods
  <1>2. \A n \in Nodes : nodes2[n].duplicates = nodes[n].duplicates
    BY DEF SameFloods
  <1>3. \A n \in Forwarders(nodes, copy.id) : n \in Nodes
    BY DEF Forwarders
  <1>4. QED BY <1>1, <1>2, <1>3 DEF UnderWay, Holds

\* It leaves the tuples and counts as they should be.
LEMMA SameFloodsInv ==
    ASSUME NEW nodes, NEW nodes2, SameFloods(nodes, nodes2), NEW sent, NEW sent2, sent \subseteq sent2,
           FloodsInv(nodes, sent)
    PROVE  FloodsInv(nodes2, sent2)
  <1>1. \A m : Forwarders(nodes2, m) = Forwarders(nodes, m)
    BY DEF Forwarders, SameFloods
  <1>2. QED BY <1>1 DEF FloodsInv, SameFloods

\* And the packets on the air.
LEMMA SameAirInv ==
    ASSUME NEW nodes, NEW nodes2, SameFloods(nodes, nodes2), NEW sent, NEW sent2, sent \subseteq sent2,
           NEW air, AirInv(nodes, sent, air)
    PROVE  AirInv(nodes2, sent2, air)
  BY SameUnderWay DEF AirInv

\* What is taken from the air leaves the rest as it was.
LEMMA LessAirInv ==
    ASSUME AirOK, NEW nodes, NEW sent, AirInv(nodes, sent, arriving), NEW iface \in Ifaces,
           arriving[iface] # <<>>, arriving' = [arriving EXCEPT ![iface] = Tail(@)]
    PROVE  AirInv(nodes, sent, arriving')
  <1>1. arriving[iface] \in Seq(Packet) /\ DOMAIN arriving = Ifaces
    BY DEF AirOK
  <1>2. \A k \in DOMAIN Tail(arriving[iface]) :
           k + 1 \in DOMAIN arriving[iface] /\ Tail(arriving[iface])[k] = arriving[iface][k + 1]
    BY <1>1
  <1>3. arriving'[iface] = Tail(arriving[iface]) /\ \A i \in Ifaces \ {iface} : arriving'[i] = arriving[i]
    BY <1>1
  <1>4. \A i \in Ifaces : \A k \in DOMAIN arriving'[i] :
           \E l \in DOMAIN arriving[i] : arriving'[i][k] = arriving[i][l]
    BY <1>2, <1>3
  <1>5. ASSUME NEW i \in Ifaces, NEW k \in DOMAIN arriving'[i], NEW j \in DOMAIN arriving'[i][k].messages
        PROVE  UnderWay(nodes, sent, arriving'[i][k].messages[j], AirTime(arriving'[i][k].messages[j]))
    <2>1. PICK l \in DOMAIN arriving[i] : arriving'[i][k] = arriving[i][l]
      BY <1>4
    <2>2. UnderWay(nodes, sent, arriving[i][l].messages[j], AirTime(arriving[i][l].messages[j]))
      BY <2>1 DEF AirInv
    <2>3. QED BY <2>1, <2>2
  <1>6. QED BY <1>5 DEF AirInv

\* Nothing is under way at the start.
LEMMA OnceInit == Init => OnceInv
  <1> SUFFICES ASSUME Init PROVE OnceInv
    OBVIOUS
  <1>1. \A n \in Nodes : /\ node[n].queue = <<>> /\ node[n].duplicates = {}
                         /\ node[n].forwarded = [m \in Messages |-> 0]
    BY DEF Init
  <1>2. \A m \in Messages : Forwarders(node, m) = {}
    BY <1>1 DEF Forwarders
  <1>3. FloodsInv(node, originated)
    BY <1>1, <1>2 DEF FloodsInv
  <1>4. QueuesInv(node, originated, queueTimer)
    BY <1>1 DEF QueuesInv
  <1>5. AirInv(node, originated, arriving)
    BY DEF Init, AirInv
  <1>6. QED BY <1>3, <1>4, <1>5 DEF OnceInv

\* A message is new to every duplicate set when its originator queues it.
LEMMA OriginateOnce ==
    ASSUME TypeInv, OnceInv, NEW m \in Messages, Originate(m)
    PROVE  OnceInv'
  <1> DEFINE n == Originator[m]
             copy == [id |-> m, ttl |-> IF m \in Hellos THEN 1 ELSE MaxTtl, hops |-> 0]
             queue == Append(node[n].queue, copy)
             new == [node[n] EXCEPT !.queue = queue]
  <1>1. n \in Nodes /\ NodeOK(node[n]) /\ node[n] \in NodeState /\ m \notin originated
    BY FloodingAssumption DEF TypeInv, Originate
  <1>2. copy \in Copy /\ copy.id = m /\ copy.hops = 0
    BY FloodingAssumption DEF Copy
  <1>3. node' = [node EXCEPT ![n] = new] /\ originated' = originated \cup {m} /\ arriving' = arriving
    BY <1>1 DEF Originate, TypeInv
  <1>4. StartQueueTimer(n, node'[n])
    BY DEF Originate
  <1> HIDE DEF copy, n
  <1>5. queue # <<>> /\ \A k \in DOMAIN queue :
          queue[k] = copy \/ (k \in DOMAIN node[n].queue /\ queue[k] = node[n].queue[k])
    <2>1. node[n].queue \in Seq(Copy)
      BY <1>1, NodeFields
    <2>2. queue # <<>>
      BY <1>2, <2>1
    <2>3. QED BY <1>2, <2>1, <2>2, AppendElements
  <1> HIDE DEF queue
  <1>6. new.queue = queue /\ new.forwarded = node[n].forwarded /\ new.duplicates = node[n].duplicates
    BY <1>1 DEF NodeState
  <1> HIDE DEF new
  <1>7. /\ node'[n].queue = queue /\ \A p \in Nodes \ {n} : node'[p] = node[p]
        /\ SameFloods(node, node')
    BY <1>1, <1>3, <1>6 DEF TypeInv, SameFloods
  <1>8. originated \subseteq originated'
    BY <1>3
  <1>9. FloodsInv(node', originated') /\ AirInv(node', originated', arriving')
    BY <1>3, <1>7, <1>8, SameFloodsInv, SameAirInv DEF OnceInv
  <1>10. ASSUME NEW time PROVE UnderWay(node', originated', copy, time)
    <2>1. /\ Forwarders(node, m) = {}
          /\ \A p \in Nodes : \A d \in node[p].duplicates : d.id # m
      BY <1>1 DEF OnceInv, FloodsInv
    <2>2. Forwarders(node', m) = {} /\ \A p \in Nodes : \A d \in node'[p].duplicates : d.id # m
      BY <1>7, <2>1 DEF Forwarders, SameFloods
    <2>3. Cardinality(Forwarders(node', m)) \in Nat
      BY ForwardersFinite
    <2>4. copy.hops <= Cardinality(Forwarders(node', m)) /\ copy.id \in originated'
      BY <1>2, <1>3, <2>3
    <2>5. QED BY <1>2, <2>2, <2>4 DEF UnderWay
  <1>11. /\ \A p \in Nodes \ {n} : queueTimer'[p] = queueTimer[p]
         /\ queueTimer'[n] = queueTimer[n] \/ queueTimer[n] = NotRunning
         /\ queueTimer'[n] # NotRunning
    BY <1>1, <1>4, <1>5, <1>7, FloodingAssumption DEF StartQueueTimer, TypeInv, NotRunning
  <1>12. ASSUME NEW p \in Nodes
         PROVE  /\ node'[p].queue # <<>> => queueTimer'[p] # NotRunning
                /\ \A k \in DOMAIN node'[p].queue :
                      UnderWay(node', originated', node'[p].queue[k], QueueTime(node'[p].queue[k], queueTimer'[p]))
    <2>1. /\ node[p].queue # <<>> => queueTimer[p] # NotRunning
          /\ \A k \in DOMAIN node[p].queue :
                UnderWay(node, originated, node[p].queue[k], QueueTime(node[p].queue[k], queueTimer[p]))
      BY DEF OnceInv, QueuesInv
    <2>2. \A k \in DOMAIN node[p].queue :
             UnderWay(node', originated', node[p].queue[k], QueueTime(node[p].queue[k], queueTimer[p]))
      BY <1>7, <1>8, <2>1, SameUnderWay
    <2>3. CASE p # n
      BY <1>7, <1>11, <2>1, <2>2, <2>3
    <2>4. CASE p = n
      <3>1. ASSUME NEW k \in DOMAIN queue
            PROVE  UnderWay(node', originated', queue[k], QueueTime(queue[k], queueTimer'[n]))
        <4>1. CASE queue[k] = copy
          BY <1>10, <4>1
        <4>2. CASE k \in DOMAIN node[n].queue /\ queue[k] = node[n].queue[k]
          <5>1. node[n].queue # <<>>
            BY <4>2
          <5>2. queueTimer'[n] = queueTimer[n]
            BY <1>11, <2>1, <2>4, <5>1
          <5>3. QED BY <2>2, <2>4, <4>2, <5>2
        <4>3. QED BY <1>5, <4>1, <4>2
      <3>2. QED BY <1>7, <1>11, <2>4, <3>1
    <2>5. QED BY <2>3, <2>4
  <1>13. QueuesInv(node', originated', queueTimer')
    BY <1>12 DEF QueuesInv
  <1>14. QED BY <1>9, <1>13 DEF OnceInv

\* SendQueuedMessages ends the wait of a queued copy, at most MaxJitter long.
LEMMA SendOnce ==
    ASSUME TypeInv, OnceInv, NEW n \in Nodes, SendQueuedMessages(n)
    PROVE  OnceInv'
  <1> DEFINE packets == Packets(node[n].queue)
  <1>1. node[n] \in NodeState /\ node[n].queue \in Seq(Copy) /\ queueTimer[n] = 0
    BY NodeFields DEF TypeInv, SendQueuedMessages
  <1>2. /\ node'[n].queue = <<>> /\ \A p \in Nodes \ {n} : node'[p] = node[p]
        /\ SameFloods(node, node') /\ originated' = originated
    BY DEF SendQueuedMessages, EmptyQueue, TypeInv, SameFloods, NodeState
  <1>3. /\ packets \in Seq(Seq(Copy))
        /\ \A k \in DOMAIN packets : \A j \in DOMAIN packets[k] :
              \E i \in DOMAIN node[n].queue : packets[k][j] = node[n].queue[i]
    BY <1>1, PacketsOK
  <1>4. \A i \in Ifaces : arriving'[i] = arriving[i] \/ arriving'[i] = Heard(n, i, packets)
    BY DEF SendQueuedMessages
  <1>5. \A p \in Nodes \ {n} : queueTimer'[p] = queueTimer[p]
    BY DEF SendQueuedMessages, TypeInv
  <1> HIDE DEF packets
  <1>6. FloodsInv(node', originated') /\ AirInv(node', originated', arriving)
    BY <1>2, SameFloodsInv, SameAirInv DEF OnceInv
  <1>7. QueuesInv(node', originated', queueTimer')
    BY <1>2, <1>5, SameUnderWay DEF OnceInv, QueuesInv
  <1>8. ASSUME NEW i \in Ifaces, NEW k \in DOMAIN arriving'[i], NEW j \in DOMAIN arriving'[i][k].messages
        PROVE  UnderWay(node', originated', arriving'[i][k].messages[j], AirTime(arriving'[i][k].messages[j]))
    <2>1. CASE arriving'[i] = arriving[i]
      BY <1>6, <2>1 DEF AirInv
    <2>2. CASE arriving'[i] = Heard(n, i, packets)
      <3>1. PICK l \in DOMAIN packets : arriving'[i][k].messages = packets[l]
        BY <1>3, <2>2, HeardOK
      <3>2. PICK q \in DOMAIN node[n].queue : arriving'[i][k].messages[j] = node[n].queue[q]
        BY <1>3, <3>1
      <3>3. UnderWay(node, originated, node[n].queue[q], QueueTime(node[n].queue[q], 0))
        BY <1>1 DEF OnceInv, QueuesInv
      <3>4. node[n].queue[q] \in Copy
        BY <1>1
      <3>5. QueueTime(node[n].queue[q], 0) = AirTime(node[n].queue[q])
        <4>1. node[n].queue[q].hops \in Int /\ MaxJitter \in Nat
          BY <3>4, FloodingAssumption DEF Copy
        <4>2. node[n].queue[q].hops * MaxJitter \in Int
          BY <4>1
        <4>3. QED BY <4>1, <4>2 DEF QueueTime, AirTime
      <3>6. UnderWay(node', originated', node[n].queue[q], AirTime(node[n].queue[q]))
        BY <1>2, <3>3, <3>5, SameUnderWay
      <3>7. QED BY <3>2, <3>6
    <2>3. QED BY <1>4, <2>1, <2>2
  <1>9. AirInv(node', originated', arriving')
    BY <1>8 DEF AirInv
  <1>10. QED BY <1>6, <1>7, <1>9 DEF OnceInv

\* While a copy is under way no tuple of its message has expired.
LEMMA TuplesLast ==
    ASSUME TypeInv, FloodsAreShort, FloodsInv(node, originated), NEW copy \in Copy, NEW time \in Int,
           time <= AirTime(copy), UnderWay(node, originated, copy, time)
    PROVE  \A n \in Nodes : \A d \in node[n].duplicates : d.id = copy.id => ~(d.left < 0)
  <1> DEFINE H == OLSR_DUP_HOLD_TIME
             N == Cardinality(Nodes)
  <1>1. /\ H \in Nat /\ MaxJitter \in Nat /\ MaxTtl \in Nat /\ N \in Nat
        /\ copy.hops \in 0 .. MaxTtl - 1 /\ copy.id \in Messages
    BY FloodingAssumption, FS_CardinalityType DEF Copy
  <1>2. copy.hops + 1 <= N
    <2> DEFINE F == Forwarders(node, copy.id)
    <2>1. F \in SUBSET Nodes /\ Originator[copy.id] \notin F /\ copy.hops <= Cardinality(F)
      BY <1>1, ForwardersFinite DEF FloodsInv, UnderWay
    <2>2. Originator[copy.id] \in Nodes /\ IsFiniteSet(Nodes) /\ IsFiniteSet(F) /\ Cardinality(F) \in Nat
      BY <1>1, FloodingAssumption, ForwardersFinite
    <2> HIDE DEF F
    <2>3. Cardinality(F \cup {Originator[copy.id]}) = Cardinality(F) + 1
      BY <2>1, <2>2, FS_AddElement
    <2>4. F \cup {Originator[copy.id]} \in SUBSET Nodes
      BY <2>1, <2>2
    <2>5. Cardinality(F \cup {Originator[copy.id]}) <= N
      BY <2>2, <2>4, FS_Subset
    <2>6. QED BY <1>1, <2>1, <2>2, <2>3, <2>5
  <1> HIDE DEF N
  <1>3. AirTime(copy) = (copy.hops + 1) * MaxJitter
    BY <1>1 DEF AirTime
  <1>4. (copy.hops + 1) * MaxJitter <= H
    <2>1. (copy.hops + 1) * MaxJitter <= N * MaxJitter
      BY <1>1, <1>2
    <2>2. (copy.hops + 1) * MaxJitter <= MaxTtl * MaxJitter
      BY <1>1
    <2>3. /\ (copy.hops + 1) * MaxJitter \in Nat /\ N * MaxJitter \in Nat /\ MaxTtl * MaxJitter \in Nat
          /\ N * MaxJitter <= H \/ MaxTtl * MaxJitter <= H
      BY <1>1 DEF FloodsAreShort, N
    <2>4. QED BY <1>1, <2>1, <2>2, <2>3
  <1>5. ASSUME NEW n \in Nodes, NEW d \in node[n].duplicates, d.id = copy.id
        PROVE  ~(d.left < 0)
    <2>1. d.left \in Int
      BY NodeFields DEF TypeInv, DuplicateTuple
    <2>2. Age(d) <= time
      BY <1>5 DEF UnderWay
    <2>3. (copy.hops + 1) * MaxJitter \in Int
      BY <1>1
    <2>4. QED BY <1>1, <1>3, <1>4, <2>1, <2>2, <2>3 DEF Age
  <1>6. QED BY <1>5

\* The times of the copies in the queues.
LEMMA QueueTimes ==
    ASSUME TypeInv, QueuesInv(node, originated, queueTimer), NEW n \in Nodes, NEW k \in DOMAIN node[n].queue
    PROVE  /\ node[n].queue[k] \in Copy /\ queueTimer[n] \in 0 .. MaxJitter
           /\ QueueTime(node[n].queue[k], queueTimer[n]) \in Nat
           /\ QueueTime(node[n].queue[k], queueTimer[n]) <= AirTime(node[n].queue[k])
  <1>1. node[n].queue \in Seq(Copy)
    BY NodeFields DEF TypeInv
  <1>2. node[n].queue[k] \in Copy /\ node[n].queue # <<>>
    BY <1>1
  <1>3. queueTimer[n] \in NotRunning .. MaxJitter /\ queueTimer[n] # NotRunning
    BY <1>2 DEF QueuesInv, TypeInv
  <1>4. node[n].queue[k].hops \in Nat /\ MaxJitter \in Nat
    BY <1>2, FloodingAssumption DEF Copy
  <1>5. node[n].queue[k].hops * MaxJitter \in Nat
    BY <1>4
  <1> DEFINE time == node[n].queue[k].hops * MaxJitter
  <1>6. /\ QueueTime(node[n].queue[k], queueTimer[n]) = time + MaxJitter - queueTimer[n]
        /\ AirTime(node[n].queue[k]) = time + MaxJitter
    BY DEF QueueTime, AirTime
  <1>7. queueTimer[n] \in 0 .. MaxJitter
    BY <1>3, <1>4 DEF NotRunning
  <1>8. time \in Nat
    BY <1>5
  <1> HIDE DEF time
  <1>9. QED BY <1>2, <1>4, <1>6, <1>7, <1>8

\* The copies on the air.
LEMMA AirTimes ==
    ASSUME TypeInv, NEW i \in Ifaces, NEW k \in DOMAIN arriving[i],
           NEW j \in DOMAIN arriving[i][k].messages
    PROVE  /\ arriving[i][k].messages[j] \in Copy /\ CopyOK(arriving[i][k].messages[j])
           /\ AirTime(arriving[i][k].messages[j]) \in Nat
  <1>1. PacketOK(arriving[i][k])
    BY DEF TypeInv
  <1>2. CopyOK(arriving[i][k].messages[j])
    BY <1>1 DEF PacketOK
  <1>3. arriving[i][k].messages[j] \in Copy
    BY <1>2 DEF CopyOK
  <1>4. arriving[i][k].messages[j].hops \in Nat /\ MaxJitter \in Nat
    BY <1>3, FloodingAssumption DEF Copy
  <1>5. QED BY <1>2, <1>3, <1>4 DEF AirTime

\* DupTupleTimerExpire removes no tuple of a copy that is under way.
LEMMA ExpireOnce ==
    ASSUME TypeInv, OnceInv, FloodsAreShort, NEW n \in Nodes, NEW timer \in node[n].timers,
           DupTupleTimerExpire(n, timer)
    PROVE  OnceInv'
  <1> DEFINE expired == {t \in {t \in node[n].duplicates : t.id = timer.id} : t.left < 0}
             again == {[id |-> t.id, left |-> DELAY(t.left)] :
                          t \in {t \in node[n].duplicates : t.id = timer.id} \ expired}
  <1>1. node' = [node EXCEPT ![n].duplicates = @ \ expired, ![n].timers = (@ \ {timer}) \cup again]
    BY DEF DupTupleTimerExpire
  <1>2. /\ queueTimer' = queueTimer /\ arriving' = arriving /\ originated' = originated
        /\ node \in [Nodes -> NodeState] /\ \A d \in expired : d.left < 0
    BY DEF DupTupleTimerExpire, TypeInv
  <1> HIDE DEF expired, again
  <1>3. /\ node'[n].duplicates = node[n].duplicates \ expired
        /\ \A p \in Nodes \ {n} : node'[p].duplicates = node[p].duplicates
        /\ \A p \in Nodes : node'[p].forwarded = node[p].forwarded /\ node'[p].queue = node[p].queue
    BY <1>1, <1>2 DEF NodeState
  <1>4. \A p \in Nodes : node'[p].duplicates \subseteq node[p].duplicates
    BY <1>3
  <1>5. \A m : Forwarders(node', m) = Forwarders(node, m)
    BY <1>3 DEF Forwarders
  <1>6. FloodsInv(node', originated')
    BY <1>2, <1>3, <1>4, <1>5 DEF OnceInv, FloodsInv
  <1>7. ASSUME NEW copy \in Copy, NEW time \in Int, time <= AirTime(copy),
               UnderWay(node, originated, copy, time)
        PROVE  UnderWay(node', originated', copy, time)
    <2>1. \A d \in node[n].duplicates : d.id = copy.id => d \notin expired
      BY <1>2, <1>7, TuplesLast DEF OnceInv
    <2>2. ASSUME NEW p \in Forwarders(node', copy.id) PROVE Holds(node'[p], copy.id)
      <3>1. p \in Nodes /\ Holds(node[p], copy.id)
        BY <1>5, <1>7 DEF UnderWay, Forwarders
      <3>2. PICK d \in node[p].duplicates : d.id = copy.id /\ d.retransmitted
        BY <3>1 DEF Holds
      <3>3. d \in node'[p].duplicates
        BY <1>3, <2>1, <3>1, <3>2
      <3>4. QED BY <3>2, <3>3 DEF Holds
    <2>3. \A p \in Nodes : \A d \in node'[p].duplicates : d.id = copy.id => Age(d) <= time
      BY <1>4, <1>7 DEF UnderWay
    <2>4. copy.hops \in Nat
      BY FloodingAssumption DEF Copy
    <2>5. QED BY <1>2, <1>5, <1>7, <2>2, <2>3, <2>4, StillUnderWay
  <1>8. ASSUME NEW p \in Nodes, NEW k \in DOMAIN node'[p].queue
        PROVE  UnderWay(node', originated', node'[p].queue[k], QueueTime(node'[p].queue[k], queueTimer'[p]))
    <2>1. node'[p].queue = node[p].queue /\ queueTimer'[p] = queueTimer[p] /\ k \in DOMAIN node[p].queue
      BY <1>2, <1>3
    <2>2. /\ node[p].queue[k] \in Copy
          /\ QueueTime(node[p].queue[k], queueTimer[p]) \in Int
          /\ QueueTime(node[p].queue[k], queueTimer[p]) <= AirTime(node[p].queue[k])
      BY <2>1, QueueTimes DEF OnceInv
    <2>3. UnderWay(node, originated, node[p].queue[k], QueueTime(node[p].queue[k], queueTimer[p]))
      BY <2>1 DEF OnceInv, QueuesInv
    <2>4. QED BY <1>7, <2>1, <2>2, <2>3
  <1>9. QueuesInv(node', originated', queueTimer')
    BY <1>2, <1>3, <1>8 DEF OnceInv, QueuesInv
  <1>10. ASSUME NEW i \in Ifaces, NEW k \in DOMAIN arriving[i], NEW j \in DOMAIN arriving[i][k].messages
         PROVE  UnderWay(node', originated', arriving[i][k].messages[j], AirTime(arriving[i][k].messages[j]))
    <2>1. arriving[i][k].messages[j] \in Copy /\ AirTime(arriving[i][k].messages[j]) \in Int
      BY AirTimes
    <2>2. UnderWay(node, originated, arriving[i][k].messages[j], AirTime(arriving[i][k].messages[j]))
      BY DEF OnceInv, AirInv
    <2>3. AirTime(arriving[i][k].messages[j]) <= AirTime(arriving[i][k].messages[j])
      BY <2>1
    <2>4. QED BY <1>7, <2>1, <2>2, <2>3
  <1>11. AirInv(node', originated', arriving')
    BY <1>2, <1>10 DEF AirInv
  <1>12. QED BY <1>6, <1>9, <1>11 DEF OnceInv

\* A loss only takes copies away.
LEMMA LoseOnce ==
    ASSUME TypeInv, OnceInv, NEW iface \in Ifaces, Lose(iface)
    PROVE  OnceInv'
  <1>1. /\ node' = node /\ originated' = originated /\ queueTimer' = queueTimer
        /\ arriving[iface] # <<>> /\ arriving' = [arriving EXCEPT ![iface] = Tail(@)]
    BY DEF Lose, Disturb
  <1>2. AirInv(node, originated, arriving')
    BY <1>1, LessAirInv DEF OnceInv, TypeInv, AirOK
  <1>3. QED BY <1>1, <1>2 DEF OnceInv

\* Tuples and the copies in the queues age together; nothing is on the air.
LEMMA TickOnce ==
    ASSUME TypeInv, OnceInv, Tick
    PROVE  OnceInv'
  <1>1. /\ node' = [n \in Nodes |-> [node[n] EXCEPT !.duplicates = Older(node[n].duplicates),
                                                    !.timers = Older(node[n].timers)]]
        /\ queueTimer' = [n \in Nodes |-> IF queueTimer[n] = NotRunning THEN NotRunning
                                                                        ELSE queueTimer[n] - 1]
        /\ arriving' = arriving /\ originated' = originated /\ \A i \in Ifaces : arriving[i] = <<>>
    BY DEF Tick
  <1>2. \A n \in Nodes : node[n] \in NodeState
    BY DEF TypeInv
  <1>3. \A n \in Nodes : /\ node'[n].duplicates = Older(node[n].duplicates)
                         /\ node'[n].forwarded = node[n].forwarded /\ node'[n].queue = node[n].queue
    BY <1>1, <1>2 DEF NodeState
  <1>4. ASSUME NEW n \in Nodes, NEW d \in node[n].duplicates
        PROVE  \E e \in node'[n].duplicates : e.id = d.id /\ e.retransmitted = d.retransmitted
    <2>1. d \in DuplicateTuple
      BY <1>2, NodeFields
    <2> DEFINE e == [d EXCEPT !.left = @ - 1]
    <2>2. e.id = d.id /\ e.retransmitted = d.retransmitted
      BY <2>1 DEF DuplicateTuple
    <2>3. e \in node'[n].duplicates
      BY <1>3 DEF Older
    <2>4. QED BY <2>2, <2>3
  <1>5. ASSUME NEW n \in Nodes, NEW e \in node'[n].duplicates
        PROVE  \E d \in node[n].duplicates : e.id = d.id /\ Age(e) = Age(d) + 1 /\ Age(d) \in Int
    <2>1. PICK d \in node[n].duplicates : e = [d EXCEPT !.left = @ - 1]
      BY <1>3 DEF Older
    <2>2. d \in DuplicateTuple /\ OLSR_DUP_HOLD_TIME \in Nat
      BY <1>2, NodeFields, FloodingAssumption
    <2>3. e.id = d.id /\ e.left = d.left - 1 /\ d.left \in Int
      BY <2>1, <2>2 DEF DuplicateTuple
    <2>4. QED BY <2>2, <2>3 DEF Age
  <1>6. \A m : Forwarders(node', m) = Forwarders(node, m)
    BY <1>3 DEF Forwarders
  <1>7. FloodsInv(node', originated')
    <2>1. \A m \in Messages \ originated : \A n \in Nodes : \A e \in node'[n].duplicates : e.id # m
      BY <1>5 DEF OnceInv, FloodsInv
    <2>2. QED BY <1>1, <1>3, <1>6, <2>1 DEF OnceInv, FloodsInv
  <1>8. ASSUME NEW copy \in Copy, NEW time \in Int, UnderWay(node, originated, copy, time)
        PROVE  UnderWay(node', originated', copy, time + 1)
    <2>1. ASSUME NEW n \in Forwarders(node', copy.id) PROVE Holds(node'[n], copy.id)
      <3>1. n \in Nodes /\ Holds(node[n], copy.id)
        BY <1>6, <1>8 DEF UnderWay, Forwarders
      <3>2. PICK d \in node[n].duplicates : d.id = copy.id /\ d.retransmitted
        BY <3>1 DEF Holds
      <3>3. PICK e \in node'[n].duplicates : e.id = d.id /\ e.retransmitted = d.retransmitted
        BY <1>4, <3>1
      <3>4. QED BY <3>2, <3>3 DEF Holds
    <2>2. ASSUME NEW n \in Nodes, NEW e \in node'[n].duplicates, e.id = copy.id
          PROVE  Age(e) <= time + 1
      <3>1. PICK d \in node[n].duplicates : e.id = d.id /\ Age(e) = Age(d) + 1 /\ Age(d) \in Int
        BY <1>5
      <3>2. Age(d) <= time
        BY <1>8, <2>2, <3>1 DEF UnderWay
      <3>3. QED BY <3>1, <3>2
    <2>3. copy.hops \in Nat
      BY FloodingAssumption DEF Copy
    <2>4. QED BY <1>1, <1>6, <1>8, <2>1, <2>2, <2>3, StillUnderWay
  <1>9. ASSUME NEW n \in Nodes, NEW k \in DOMAIN node'[n].queue
        PROVE  /\ queueTimer'[n] # NotRunning
               /\ UnderWay(node', originated', node'[n].queue[k], QueueTime(node'[n].queue[k], queueTimer'[n]))
    <2>1. node'[n].queue = node[n].queue /\ k \in DOMAIN node[n].queue
      BY <1>3
    <2> DEFINE copy == node[n].queue[k]
    <2>2. copy \in Copy /\ queueTimer[n] \in 0 .. MaxJitter /\ QueueTime(copy, queueTimer[n]) \in Int
      BY <2>1, QueueTimes DEF OnceInv
    <2>3. UnderWay(node, originated, copy, QueueTime(copy, queueTimer[n]))
      BY <2>1 DEF OnceInv, QueuesInv
    <2>4. queueTimer[n] # 0
      BY DEF Tick
    <2>5. queueTimer'[n] = queueTimer[n] - 1 /\ queueTimer'[n] # NotRunning
      <3>1. MaxJitter \in Nat /\ NotRunning = -1
        BY FloodingAssumption DEF NotRunning
      <3>2. queueTimer[n] \in 1 .. MaxJitter
        BY <2>2, <2>4, <3>1
      <3>3. queueTimer'[n] = IF queueTimer[n] = NotRunning THEN NotRunning ELSE queueTimer[n] - 1
        BY <1>1
      <3>4. QED BY <3>1, <3>2, <3>3
    <2> HIDE DEF copy
    <2>6. copy.hops \in Nat /\ MaxJitter \in Nat
      BY <2>2, FloodingAssumption DEF Copy
    <2>7. copy.hops * MaxJitter \in Nat
      BY <2>6
    <2>8. QueueTime(copy, queueTimer'[n]) = QueueTime(copy, queueTimer[n]) + 1
      BY <2>2, <2>5, <2>6, <2>7 DEF QueueTime
    <2>9. UnderWay(node', originated', copy, QueueTime(copy, queueTimer[n]) + 1)
      BY <1>8, <2>2, <2>3
    <2>10. UnderWay(node', originated', copy, QueueTime(copy, queueTimer'[n]))
      BY <2>8, <2>9
    <2>11. QED BY <2>1, <2>5, <2>10 DEF copy
  <1>10. QueuesInv(node', originated', queueTimer')
    <2>1. \A n \in Nodes : node'[n].queue # <<>> => DOMAIN node'[n].queue # {}
      <3> SUFFICES ASSUME NEW n \in Nodes, node'[n].queue # <<>> PROVE 1 \in DOMAIN node'[n].queue
        OBVIOUS
      <3>1. node'[n].queue \in Seq(Copy)
        BY <1>2, <1>3, NodeFields
      <3>2. QED BY <3>1
    <2>2. QED BY <1>9, <2>1 DEF QueuesInv
  <1>11. AirInv(node', originated', arriving')
    <2>1. \A i \in Ifaces : arriving'[i] = <<>>
      BY <1>1
    <2>2. DOMAIN <<>> = {}
      OBVIOUS
    <2>3. QED BY <2>1, <2>2 DEF AirInv
  <1>12. QED BY <1>7, <1>10, <1>11 DEF OnceInv

\* What the loop over the messages of a packet may do to a node: its queue
\* grows by copies of messages on the air that it had not sent on, its tuples
\* are the old ones or new, and it keeps those that say `retransmitted'.
OnAir(copy) ==
    \E i \in Ifaces : \E k \in DOMAIN arriving[i] :
        \E j \in DOMAIN arriving[i][k].messages : arriving[i][k].messages[j] = copy

HeardOf(m) == \E copy \in Copy : OnAir(copy) /\ copy.id = m

FirstTime(old, new, n, m) ==
    /\ old.forwarded[m] = 0 /\ new.forwarded[m] = 1
    /\ Originator[m] # n /\ HeardOf(m) /\ Holds(new, m)

QueuedAgain(old, new, n, copy) ==
    \E heard \in Copy : OnAir(heard) /\ copy = Forwarded(heard) /\ FirstTime(old, new, n, heard.id)

InPacket(old, new, n) ==
    /\ NodeOK(new)
    /\ \A k \in DOMAIN new.queue :
          \/ k \in DOMAIN old.queue /\ new.queue[k] = old.queue[k]
          \/ QueuedAgain(old, new, n, new.queue[k])
    /\ \A d \in new.duplicates : d \in old.duplicates \/ (HeardOf(d.id) /\ d.left = OLSR_DUP_HOLD_TIME)
    /\ \A m \in Messages : new.forwarded[m] = old.forwarded[m] \/ FirstTime(old, new, n, m)
    /\ \A m \in Messages : Holds(old, m) => Holds(new, m)

\* Tuples of other messages, and those of a message itself that say
\* `retransmitted', survive its record.
LEMMA RecordHolds ==
    ASSUME NEW new, NEW state, NEW m, NEW retransmitted, Recorded(new, state, m, retransmitted),
           ~AlreadyRetransmitted(state, m), NEW k, Holds(state, k)
    PROVE  k # m /\ Holds(new, k)
  BY DEF Recorded, AlreadyRetransmitted, Holds

\* A step that leaves queue and counts, and adds a tuple of a message heard.
LEMMA InPacketNoted ==
    ASSUME NEW n \in Nodes, NEW old, NEW state, InPacket(old, state, n), NEW new, NodeOK(new),
           new.queue = state.queue, new.forwarded = state.forwarded,
           \A m \in Messages : Holds(state, m) => Holds(new, m),
           \A d \in new.duplicates :
               d \in state.duplicates \/ (HeardOf(d.id) /\ d.left = OLSR_DUP_HOLD_TIME)
    PROVE  InPacket(old, new, n)
  <1>1. ASSUME NEW m \in Messages, FirstTime(old, state, n, m) PROVE FirstTime(old, new, n, m)
    BY <1>1 DEF FirstTime
  <1>2. ASSUME NEW copy, QueuedAgain(old, state, n, copy) PROVE QueuedAgain(old, new, n, copy)
    BY <1>1, <1>2 DEF QueuedAgain, Copy
  <1>3. \A k \in DOMAIN new.queue :
          \/ k \in DOMAIN old.queue /\ new.queue[k] = old.queue[k]
          \/ QueuedAgain(old, new, n, new.queue[k])
    BY <1>2 DEF InPacket
  <1>4. \A d \in new.duplicates : d \in old.duplicates \/ (HeardOf(d.id) /\ d.left = OLSR_DUP_HOLD_TIME)
    BY DEF InPacket
  <1>5. \A m \in Messages : new.forwarded[m] = old.forwarded[m] \/ FirstTime(old, new, n, m)
    BY <1>1 DEF InPacket
  <1>6. \A m \in Messages : Holds(old, m) => Holds(new, m)
    BY DEF InPacket
  <1>7. QED BY <1>3, <1>4, <1>5, <1>6 DEF InPacket

\* One message of a packet: it is sent on only if no tuple says it was, and then
\* it never was, for a node that did holds such a tuple while copies are under way.
LEMMA InPacketKeeps ==
    ASSUME NEW n \in Nodes, NEW iface \in Ifaces, NEW sender \in Ifaces, NEW old, NEW state,
           InPacket(old, state, n), NEW copy \in Copy, CopyOK(copy), OnAir(copy),
           old.forwarded[copy.id] # 0 => Holds(old, copy.id)
    PROVE  InPacket(old, ReceiveMessage(n, iface, sender, state, copy), n)
  <1> DEFINE new == ReceiveMessage(n, iface, sender, state, copy)
             m == copy.id
  <1> SUFFICES InPacket(old, new, n)
    OBVIOUS
  <1>1. NodeOK(state) /\ m \in Messages /\ HeardOf(m)
    BY DEF InPacket, Copy, HeardOf
  <1>2. NodeOK(new) /\ (Ignored(new, state) \/ Noted(new, state, copy) \/ SentOn(new, state, n, copy))
    BY <1>1, ReceiveMessageEffect
  <1>3. state \in NodeState /\ state.queue \in Seq(Copy) /\ state.forwarded \in [Messages -> Seen]
    BY <1>1, NodeFields DEF NodeOK
  <1> HIDE DEF new
  <1>4. CASE Ignored(new, state)
    BY <1>2, <1>4, InPacketNoted DEF Ignored, Holds
  <1>5. CASE Noted(new, state, copy)
    <2>1. Recorded(new, state, m, FALSE) /\ ~AlreadyRetransmitted(state, m)
      BY <1>5 DEF Noted
    <2>2. \A k \in Messages : Holds(state, k) => Holds(new, k)
      BY <2>1, RecordHolds
    <2>3. /\ new.queue = state.queue /\ new.forwarded = state.forwarded
          /\ \A d \in new.duplicates :
                d \in state.duplicates \/ (HeardOf(d.id) /\ d.left = OLSR_DUP_HOLD_TIME)
      BY <1>1, <2>1 DEF Recorded
    <2>4. QED BY <1>2, <2>2, <2>3, InPacketNoted
  <1>6. CASE SentOn(new, state, n, copy)
    <2>1. PICK queued : Requeued(queued, state, copy) /\ Recorded(new, queued, m, TRUE)
      BY <1>6 DEF SentOn
    <2>2. ~AlreadyRetransmitted(state, m) /\ Originator[m] # n
      BY <1>6 DEF SentOn
    <2>3. ~AlreadyRetransmitted(queued, m) /\ queued.duplicates = state.duplicates
      BY <2>1, <2>2 DEF AlreadyRetransmitted, Requeued
    <2>4. ASSUME NEW k, Holds(state, k) PROVE k # m /\ Holds(new, k)
      <3>1. Holds(queued, k)
        BY <2>3, <2>4 DEF Holds
      <3>2. QED BY <2>1, <2>3, <3>1, RecordHolds
    <2>5. Holds(new, m)
      BY <2>1 DEF Recorded, Holds
    <2>6. ~Holds(state, m)
      BY <2>2 DEF AlreadyRetransmitted, Holds
    <2>7. state.forwarded[m] = 0 /\ old.forwarded[m] = 0
      <3>1. state.forwarded[m] = old.forwarded[m]
        BY <1>1, <2>6 DEF InPacket, FirstTime
      <3>2. ~Holds(old, m)
        BY <1>1, <2>6 DEF InPacket
      <3>3. QED BY <3>1, <3>2
    <2>8. /\ new.queue = Append(state.queue, Forwarded(copy))
          /\ new.forwarded = [state.forwarded EXCEPT ![m] = Once(state.forwarded[m])]
      BY <2>1 DEF Requeued, Recorded
    <2>9. new.forwarded[m] = 1 /\ \A k \in Messages \ {m} : new.forwarded[k] = state.forwarded[k]
      BY <1>1, <1>3, <2>7, <2>8 DEF Once
    <2>10. FirstTime(old, new, n, m)
      BY <1>1, <2>2, <2>5, <2>7, <2>9 DEF FirstTime
    <2>11. ASSUME NEW k \in Messages, FirstTime(old, state, n, k) PROVE FirstTime(old, new, n, k)
      <3>1. Holds(state, k)
        BY <2>11 DEF FirstTime
      <3>2. k # m /\ Holds(new, k)
        BY <2>4, <3>1
      <3>3. QED BY <2>9, <2>11, <3>2 DEF FirstTime
    <2>12. ASSUME NEW c, QueuedAgain(old, state, n, c) PROVE QueuedAgain(old, new, n, c)
      BY <2>11, <2>12 DEF QueuedAgain, Copy
    <2>13. QueuedAgain(old, new, n, Forwarded(copy))
      BY <2>10 DEF QueuedAgain
    <2>14. ASSUME NEW k \in DOMAIN new.queue
           PROVE  \/ k \in DOMAIN old.queue /\ new.queue[k] = old.queue[k]
                  \/ QueuedAgain(old, new, n, new.queue[k])
      <3>1. \/ new.queue[k] = Forwarded(copy)
            \/ k \in DOMAIN state.queue /\ new.queue[k] = state.queue[k]
        <4>1. /\ DOMAIN new.queue = 1 .. Len(state.queue) + 1 /\ DOMAIN state.queue = 1 .. Len(state.queue)
              /\ Len(state.queue) \in Nat /\ new.queue[Len(state.queue) + 1] = Forwarded(copy)
              /\ \A i \in 1 .. Len(state.queue) : new.queue[i] = state.queue[i]
          BY <1>3, <2>8
        <4>2. QED BY <4>1
      <3>2. CASE new.queue[k] = Forwarded(copy)
        BY <2>13, <3>2
      <3>3. CASE k \in DOMAIN state.queue /\ new.queue[k] = state.queue[k]
        <4>1. \/ k \in DOMAIN old.queue /\ state.queue[k] = old.queue[k]
              \/ QueuedAgain(old, state, n, state.queue[k])
          BY <3>3 DEF InPacket
        <4>2. QED BY <2>12, <3>3, <4>1
      <3>4. QED BY <3>1, <3>2, <3>3
    <2>15. ASSUME NEW d \in new.duplicates
           PROVE  d \in old.duplicates \/ (HeardOf(d.id) /\ d.left = OLSR_DUP_HOLD_TIME)
      <3>1. d \in state.duplicates \/ (d.id = m /\ d.left = OLSR_DUP_HOLD_TIME)
        BY <2>1, <2>3 DEF Recorded
      <3>2. QED BY <1>1, <3>1 DEF InPacket
    <2>16. \A k \in Messages : new.forwarded[k] = old.forwarded[k] \/ FirstTime(old, new, n, k)
      BY <2>9, <2>10, <2>11 DEF InPacket
    <2>17. \A k \in Messages : Holds(old, k) => Holds(new, k)
      BY <2>4 DEF InPacket
    <2>18. QED BY <1>2, <2>14, <2>15, <2>16, <2>17 DEF InPacket
  <1>7. QED BY <1>2, <1>4, <1>5, <1>6

\* The copies under way stay under way when a packet is received.
LEMMA UnderWayReceived ==
    ASSUME TypeInv, NEW n \in Nodes, NEW new, InPacket(node[n], new, n), node' = [node EXCEPT ![n] = new],
           NEW copy \in Copy, NEW time \in Nat, UnderWay(node, originated, copy, time)
    PROVE  UnderWay(node', originated, copy, time)
  <1>1. copy.id \in Messages /\ copy.hops \in Nat /\ OLSR_DUP_HOLD_TIME \in Nat
    BY FloodingAssumption DEF Copy
  <1>2. node'[n] = new /\ \A p \in Nodes \ {n} : node'[p] = node[p]
    BY DEF TypeInv
  <1>3. new.forwarded[copy.id] = node[n].forwarded[copy.id] \/ FirstTime(node[n], new, n, copy.id)
    BY <1>1 DEF InPacket
  <1>4. Holds(node[n], copy.id) => Holds(new, copy.id)
    BY <1>1 DEF InPacket
  <1>5. Forwarders(node, copy.id) \subseteq Forwarders(node', copy.id)
    BY <1>2, <1>3 DEF Forwarders, FirstTime
  <1>6. ASSUME NEW p \in Forwarders(node', copy.id) PROVE Holds(node'[p], copy.id)
    <2>1. CASE p # n
      BY <1>2, <1>6, <2>1 DEF UnderWay, Forwarders
    <2>2. CASE p = n
      <3>1. CASE FirstTime(node[n], new, n, copy.id)
        BY <1>2, <2>2, <3>1 DEF FirstTime
      <3>2. CASE new.forwarded[copy.id] = node[n].forwarded[copy.id]
        BY <1>2, <1>4, <1>6, <2>2, <3>2 DEF UnderWay, Forwarders
      <3>3. QED BY <1>3, <3>1, <3>2
    <2>3. QED BY <2>1, <2>2
  <1>7. ASSUME NEW p \in Nodes, NEW d \in node'[p].duplicates, d.id = copy.id PROVE Age(d) <= time
    <2>1. CASE d \in node[p].duplicates
      BY <1>7, <2>1 DEF UnderWay
    <2>2. CASE d \notin node[p].duplicates
      <3>1. d.left = OLSR_DUP_HOLD_TIME
        BY <1>2, <2>2 DEF InPacket
      <3>2. QED BY <1>1, <3>1 DEF Age
    <2>3. QED BY <2>1, <2>2
  <1>8. QED BY <1>1, <1>5, <1>6, <1>7, StillUnderWay

\* A copy that is queued again is under way.
LEMMA QueuedAgainUnderWay ==
    ASSUME TypeInv, OnceInv, NEW n \in Nodes, NEW new, InPacket(node[n], new, n),
           node' = [node EXCEPT ![n] = new], NEW copy, QueuedAgain(node[n], new, n, copy),
           NEW left \in NotRunning .. MaxJitter
    PROVE  UnderWay(node', originated, copy, QueueTime(copy, left))
  <1>1. PICK heard \in Copy : /\ OnAir(heard) /\ copy = Forwarded(heard)
                              /\ FirstTime(node[n], new, n, heard.id)
    BY DEF QueuedAgain
  <1>2. UnderWay(node, originated, heard, AirTime(heard)) /\ AirTime(heard) \in Nat
    <2>1. PICK i \in Ifaces : \E k \in DOMAIN arriving[i] :
             \E j \in DOMAIN arriving[i][k].messages : arriving[i][k].messages[j] = heard
      BY <1>1 DEF OnAir
    <2>2. PICK k \in DOMAIN arriving[i] :
             \E j \in DOMAIN arriving[i][k].messages : arriving[i][k].messages[j] = heard
      BY <2>1
    <2>3. PICK j \in DOMAIN arriving[i][k].messages : arriving[i][k].messages[j] = heard
      BY <2>2
    <2>4. UnderWay(node, originated, arriving[i][k].messages[j], AirTime(arriving[i][k].messages[j]))
      BY DEF OnceInv, AirInv
    <2>5. AirTime(arriving[i][k].messages[j]) \in Nat
      BY AirTimes
    <2>6. QED BY <2>3, <2>4, <2>5
  <1>3. UnderWay(node', originated, heard, AirTime(heard))
    BY <1>2, UnderWayReceived
  <1> DEFINE m == heard.id
             F == Forwarders(node, m)
             G == Forwarders(node', m)
  <1>4. copy.id = m /\ copy.hops = heard.hops + 1 /\ heard.hops \in Nat /\ MaxJitter \in Nat /\ m \in Messages
    BY <1>1, FloodingAssumption DEF Forwarded, Copy
  <1>5. copy.hops <= Cardinality(G)
    <2>1. node'[n] = new /\ \A p \in Nodes \ {n} : node'[p] = node[p]
      BY DEF TypeInv
    <2>2. n \notin F /\ G = F \cup {n}
      BY <1>1, <2>1 DEF Forwarders, FirstTime
    <2>3. IsFiniteSet(F) /\ Cardinality(F) \in Nat /\ heard.hops <= Cardinality(F)
      BY <1>2, ForwardersFinite DEF UnderWay
    <2> HIDE DEF F, G
    <2>4. Cardinality(G) = Cardinality(F) + 1
      BY <2>2, <2>3, FS_AddElement
    <2>5. QED BY <1>4, <2>3, <2>4
  <1>6. AirTime(heard) <= QueueTime(copy, left) /\ QueueTime(copy, left) \in Int
    <2>1. left \in Int /\ left <= MaxJitter
      BY <1>4 DEF NotRunning
    <2>2. copy.hops * MaxJitter = heard.hops * MaxJitter + MaxJitter /\ heard.hops * MaxJitter \in Nat
      BY <1>4
    <2>3. QED BY <1>4, <2>1, <2>2 DEF AirTime, QueueTime
  <1>7. ASSUME NEW p \in Nodes, NEW d \in node'[p].duplicates, d.id = m PROVE Age(d) <= QueueTime(copy, left)
    <2>1. Age(d) <= AirTime(heard)
      BY <1>3, <1>7 DEF UnderWay
    <2>2. Age(d) \in Int
      <3>1. d \in DuplicateTuple
        <4>1. node[p] \in NodeState /\ NodeOK(new)
          BY DEF TypeInv, InPacket
        <4>2. new \in NodeState
          BY <4>1 DEF NodeOK
        <4>3. node'[p] \in NodeState
          BY <4>1, <4>2 DEF TypeInv
        <4>4. QED BY <4>3, NodeFields
      <3>2. d.left \in Int /\ OLSR_DUP_HOLD_TIME \in Int
        BY <3>1, FloodingAssumption DEF DuplicateTuple
      <3>3. QED BY <3>2 DEF Age
    <2>3. QED BY <1>2, <1>6, <2>1, <2>2
  <1>8. QED BY <1>3, <1>4, <1>5, <1>7 DEF UnderWay

\* RecvOlsr keeps the second invariant.
LEMMA RecvOnce ==
    ASSUME TypeInv, OnceInv, NEW iface \in Ifaces, RecvOlsr(iface)
    PROVE  OnceInv'
  <1> DEFINE n == Owner[iface]
             packet == Head(arriving[iface])
             new == ReceivePacket(n, iface, packet, node[n])
             T == {s \in NodeState : InPacket(node[n], s, n)}
  <1>1. n \in Nodes /\ NodeOK(node[n]) /\ node[n] \in NodeState
    BY FloodingAssumption DEF TypeInv
  <1>2. /\ arriving[iface] # <<>> /\ arriving[iface] \in Seq(Packet)
        /\ 1 \in DOMAIN arriving[iface] /\ packet = arriving[iface][1] /\ PacketOK(packet)
    <2>1. arriving[iface] # <<>> /\ arriving[iface] \in Seq(Packet)
      BY DEF RecvOlsr, TypeInv
    <2>2. 1 \in DOMAIN arriving[iface] /\ packet = arriving[iface][1]
      BY <2>1
    <2>3. QED BY <2>1, <2>2 DEF TypeInv
  <1>3. /\ node' = [node EXCEPT ![n] = new] /\ StartQueueTimer(n, node'[n]) /\ originated' = originated
        /\ arriving' = [arriving EXCEPT ![iface] = Tail(@)]
    BY DEF RecvOlsr
  <1> HIDE DEF n, packet
  <1>4. packet.sender \in Ifaces /\ Len(packet.messages) \in Nat /\ packet.messages \in Seq(Copy)
    BY <1>2 DEF PacketOK, Packet
  <1>5. node[n] \in T
    BY <1>1 DEF InPacket
  <1>6. ASSUME NEW s \in T, NEW k \in 1 .. Len(packet.messages)
        PROVE  ReceiveMessage(n, iface, packet.sender, s, packet.messages[k]) \in T
    <2> DEFINE copy == packet.messages[k]
    <2>1. k \in DOMAIN packet.messages /\ copy \in Copy
      BY <1>4
    <2>2. CopyOK(copy) /\ OnAir(copy)
      BY <1>2, <2>1 DEF PacketOK, OnAir
    <2>3. UnderWay(node, originated, copy, AirTime(copy)) /\ copy.id \in Messages
      BY <1>2, <2>1 DEF OnceInv, AirInv, Copy
    <2>4. node[n].forwarded[copy.id] # 0 => Holds(node[n], copy.id)
      BY <1>1, <2>3 DEF UnderWay, Forwarders
    <2> HIDE DEF copy
    <2>5. InPacket(node[n], s, n)
      OBVIOUS
    <2>6. InPacket(node[n], ReceiveMessage(n, iface, packet.sender, s, copy), n)
      BY <1>1, <1>4, <2>1, <2>2, <2>4, <2>5, InPacketKeeps
    <2>7. QED BY <2>6 DEF InPacket, NodeOK, copy
  <1> HIDE DEF T
  <1>7. new \in T
    BY <1>4, <1>5, <1>6, ReceivePacketStays DEF KeptBy
  <1> HIDE DEF new
  <1>8. InPacket(node[n], new, n) /\ new.queue \in Seq(Copy)
    BY <1>7, NodeFields DEF T
  <1>9. node'[n] = new /\ \A p \in Nodes \ {n} : node'[p] = node[p]
    BY <1>1, <1>3 DEF TypeInv
  <1>10. /\ queueTimer' \in [Nodes -> NotRunning .. MaxJitter]
         /\ \A p \in Nodes \ {n} : queueTimer'[p] = queueTimer[p]
         /\ queueTimer'[n] = queueTimer[n] \/ queueTimer[n] = NotRunning
         /\ node'[n].queue # <<>> => queueTimer'[n] # NotRunning
    <2>1. queueTimer' \in [Nodes -> NotRunning .. MaxJitter]
      BY <1>1, <1>3, TimerStarted DEF TypeInv
    <2>2. DOMAIN queueTimer = Nodes /\ MaxJitter \in Nat /\ NotRunning = -1
      BY FloodingAssumption DEF TypeInv, NotRunning
    <2>3. CASE queueTimer[n] = NotRunning /\ node'[n].queue # <<>>
      <3>1. PICK jitter \in 0 .. MaxJitter : queueTimer' = [queueTimer EXCEPT ![n] = jitter]
        BY <1>3, <2>3 DEF StartQueueTimer
      <3>2. QED BY <1>1, <2>1, <2>2, <2>3, <3>1
    <2>4. CASE ~(queueTimer[n] = NotRunning /\ node'[n].queue # <<>>)
      <3>1. queueTimer' = queueTimer
        BY <1>3, <2>4 DEF StartQueueTimer
      <3>2. QED BY <2>1, <2>4, <3>1
    <2>5. QED BY <2>3, <2>4
  <1>11. ASSUME NEW m, HeardOf(m) PROVE m \in originated
    BY <1>11 DEF HeardOf, OnAir, OnceInv, AirInv, UnderWay
  <1>12. FloodsInv(node', originated')
    <2>1. ASSUME NEW p \in Nodes, NEW m \in Messages
          PROVE  node'[p].forwarded[m] \in {0, 1}
      BY <1>8, <1>9 DEF OnceInv, FloodsInv, InPacket, FirstTime
    <2>2. ASSUME NEW m \in Messages
          PROVE  Forwarders(node', m) = Forwarders(node, m)
                 \/ (HeardOf(m) /\ Originator[m] # n /\ Forwarders(node', m) = Forwarders(node, m) \cup {n})
      BY <1>1, <1>8, <1>9 DEF InPacket, FirstTime, Forwarders
    <2>3. \A m \in Messages : Originator[m] \notin Forwarders(node', m)
      BY <2>2 DEF OnceInv, FloodsInv
    <2>4. ASSUME NEW m \in Messages \ originated
          PROVE  Forwarders(node', m) = {} /\ \A p \in Nodes : \A d \in node'[p].duplicates : d.id # m
      <3>1. ~HeardOf(m) /\ Forwarders(node, m) = {} /\ \A p \in Nodes : \A d \in node[p].duplicates : d.id # m
        BY <1>11 DEF OnceInv, FloodsInv
      <3>2. \A d \in new.duplicates : d.id # m
        BY <1>1, <1>8, <3>1 DEF InPacket
      <3>3. QED BY <1>9, <2>2, <3>1, <3>2
    <2>5. QED BY <1>3, <2>1, <2>3, <2>4 DEF FloodsInv
  <1>13. ASSUME NEW p \in Nodes, NEW k \in DOMAIN node[p].queue
         PROVE  UnderWay(node', originated, node[p].queue[k], QueueTime(node[p].queue[k], queueTimer[p]))
    <2>1. /\ node[p].queue[k] \in Copy
          /\ QueueTime(node[p].queue[k], queueTimer[p]) \in Nat
      BY QueueTimes DEF OnceInv
    <2>2. UnderWay(node, originated, node[p].queue[k], QueueTime(node[p].queue[k], queueTimer[p]))
      BY DEF OnceInv, QueuesInv
    <2>3. QED BY <1>1, <1>3, <1>8, <2>1, <2>2, UnderWayReceived
  <1>14. ASSUME NEW p \in Nodes
         PROVE  /\ node'[p].queue # <<>> => queueTimer'[p] # NotRunning
                /\ \A k \in DOMAIN node'[p].queue :
                      UnderWay(node', originated', node'[p].queue[k], QueueTime(node'[p].queue[k], queueTimer'[p]))
    <2>1. CASE p # n
      BY <1>3, <1>9, <1>10, <1>13, <2>1 DEF OnceInv, QueuesInv
    <2>2. CASE p = n
      <3>1. ASSUME NEW k \in DOMAIN new.queue
            PROVE  UnderWay(node', originated, new.queue[k], QueueTime(new.queue[k], queueTimer'[n]))
        <4>1. CASE k \in DOMAIN node[n].queue /\ new.queue[k] = node[n].queue[k]
          <5>1. node[n].queue # <<>>
            BY <4>1
          <5>2. queueTimer'[n] = queueTimer[n]
            BY <1>1, <1>10, <5>1 DEF OnceInv, QueuesInv
          <5>3. QED BY <1>1, <1>13, <4>1, <5>2
        <4>2. CASE QueuedAgain(node[n], new, n, new.queue[k])
          <5>1. queueTimer'[n] \in NotRunning .. MaxJitter
            BY <1>1, <1>10
          <5>2. QED BY <1>1, <1>3, <1>8, <4>2, <5>1, QueuedAgainUnderWay
        <4>3. QED BY <1>8, <4>1, <4>2 DEF InPacket
      <3>2. QED BY <1>3, <1>9, <1>10, <2>2, <3>1
    <2>3. QED BY <2>1, <2>2
  <1>15. QueuesInv(node', originated', queueTimer')
    BY <1>14 DEF QueuesInv
  <1>16. AirInv(node', originated', arriving)
    <2>1. ASSUME NEW i \in Ifaces, NEW k \in DOMAIN arriving[i], NEW j \in DOMAIN arriving[i][k].messages
          PROVE  UnderWay(node', originated, arriving[i][k].messages[j], AirTime(arriving[i][k].messages[j]))
      <3>1. arriving[i][k].messages[j] \in Copy /\ AirTime(arriving[i][k].messages[j]) \in Nat
        BY AirTimes
      <3>2. UnderWay(node, originated, arriving[i][k].messages[j], AirTime(arriving[i][k].messages[j]))
        BY DEF OnceInv, AirInv
      <3>3. QED BY <1>1, <1>3, <1>8, <3>1, <3>2, UnderWayReceived
    <2>2. QED BY <1>3, <2>1 DEF AirInv
  <1>17. AirInv(node', originated', arriving')
    BY <1>2, <1>3, <1>16, LessAirInv DEF TypeInv, AirOK
  <1>18. QED BY <1>12, <1>15, <1>17 DEF OnceInv

\* The second invariant is inductive, given the first.
LEMMA OnceStep == FloodsAreShort /\ TypeInv /\ OnceInv /\ [Next]_vars => OnceInv'
  <1> SUFFICES ASSUME FloodsAreShort, TypeInv, OnceInv, [Next]_vars PROVE OnceInv'
    OBVIOUS
  <1>1. CASE \E m \in Messages : Originate(m)
    BY <1>1, OriginateOnce
  <1>2. CASE \E n \in Nodes : SendQueuedMessages(n)
    BY <1>2, SendOnce
  <1>3. CASE \E i \in Ifaces : RecvOlsr(i)
    BY <1>3, RecvOnce
  <1>4. CASE \E n \in Nodes : \E t \in node[n].timers : DupTupleTimerExpire(n, t)
    BY <1>4, ExpireOnce
  <1>5. CASE \E i \in Ifaces : Lose(i)
    BY <1>5, LoseOnce
  <1>6. CASE \E n \in Nodes : \E s \in Ifaces : Owner[s] \in Neighbours[n] /\ LinkChange(n, s)
    BY <1>6 DEF LinkChange, Disturb, OnceInv
  <1>7. CASE \E n \in Nodes : \E m \in Neighbours[n] : SelectorChange(n, m)
    BY <1>7 DEF SelectorChange, Disturb, OnceInv
  <1>8. CASE Tick
    BY <1>8, TickOnce
  <1>9. CASE UNCHANGED vars
    BY <1>9 DEF vars, OnceInv
  <1>10. QED BY <1>1, <1>2, <1>3, <1>4, <1>5, <1>6, <1>7, <1>8, <1>9 DEF Next

\* No node sends a message on twice, in any network, under any loss, change of
\* links or selectors, as long as a flood cannot outlast the tuples that
\* remember it.
THEOREM SentOnOnce ==
    ASSUME FloodsAreShort
    PROVE  Spec => []RetransmittedOnce
  <1>1. OnceInv => RetransmittedOnce
    BY DEF OnceInv, FloodsInv, RetransmittedOnce
  <1>2. TypeInv /\ OnceInv /\ [Next]_vars => OnceInv'
    BY OnceStep
  <1>3. QED BY <1>1, <1>2, OnceInit, AlwaysTypeInv, PTL DEF Spec

-----------------------------------------------------------------------------
(* The third invariant: how a flood spreads while nothing is lost and no   *)
(* link or selector changes.                                               *)

Flooded == Messages \ Hellos

Senders(nodes, m) == Forwarders(nodes, m) \cup {Originator[m]}

Has(list, m) == \E k \in DOMAIN list : list[k].id = m

Pending(air, i, m) == \E k \in DOMAIN air[i] : Has(air[i][k].messages, m)

Knows(state, m) == \E d \in state.duplicates : d.id = m

\* What a node remembers of a message agrees with what it did.
Told(state, m) ==
    /\ state.processed[m] \in {0, 1}
    /\ Knows(state, m) => state.processed[m] # 0
    /\ state.forwarded[m] # 0 => state.processed[m] # 0
    /\ Holds(state, m) => state.forwarded[m] # 0

ToldInv(nodes, sent) ==
    /\ \A n \in Nodes, m \in Flooded : Told(nodes[n], m)
    /\ \A m \in Flooded \ sent, n \in Nodes : nodes[n].processed[m] = 0

\* While a copy is on its way nobody has forgotten its message, and its time
\* to live has gone down by its hops only.
Remembered(nodes, copy) ==
    copy.id \in Flooded =>
        /\ copy.ttl + copy.hops = MaxTtl
        /\ \A n \in Nodes : nodes[n].processed[copy.id] # 0 => Knows(nodes[n], copy.id)

QueuedInv(nodes) ==
    \A n \in Nodes : \A k \in DOMAIN nodes[n].queue :
        /\ Remembered(nodes, nodes[n].queue[k])
        /\ nodes[n].queue[k].id \in Flooded => n \in Senders(nodes, nodes[n].queue[k].id)

CarriedInv(nodes, air) ==
    \A i \in Ifaces : \A k \in DOMAIN air[i] :
        /\ <<air[i][k].sender, i>> \in Reach
        /\ \A j \in DOMAIN air[i][k].messages : Remembered(nodes, air[i][k].messages[j])

\* A message that was sent is queued, on the air or processed at every
\* interface in range.
Delivered(nodes, air, i, m) == Pending(air, i, m) \/ nodes[Owner[i]].processed[m] # 0

ReachedInv(nodes, air, sent) ==
    \A m \in Flooded \cap sent : \A x \in Senders(nodes, m) :
        \/ Has(nodes[x].queue, m)
        \/ \A l \in Reach : Owner[l[1]] = x /\ Owner[l[2]] # Originator[m] => Delivered(nodes, air, l[2], m)

\* t has nothing of m and has no neighbour that sent it.
LeftOut(nodes, t, m) ==
    /\ t # Originator[m] /\ nodes[t].processed[m] = 0
    /\ \A p \in Neighbours[t] : p \notin Senders(nodes, m)

Near(nodes, air, t, m) ==
    \E i \in Ifaces : Owner[i] \in Neighbours[t] /\ Delivered(nodes, air, i, m)

TwoHops(u, t) ==
    u # t /\ t \notin Neighbours[u] /\ \E r \in Neighbours[u] : t \in Neighbours[r]

\* The first copies of m on interface i are those of u, and are still to come.
FirstHeard(nodes, air, u, i, m) ==
    /\ Pending(air, i, m)
    /\ \A k \in DOMAIN air[i] : Owner[air[i][k].sender] = u
    /\ \A d \in nodes[Owner[i]].duplicates : d.id = m => i \notin d.ifaceList

Awaited(nodes, air, u, t, m) ==
    \A l \in Reach :
        Owner[l[1]] = u /\ t \in Neighbours[Owner[l[2]]] /\ <<Owner[l[2]], u>> \in Selectors
          => FirstHeard(nodes, air, u, l[2], m)

\* The first node that sends m two hops from t has relays towards t that have
\* yet to receive it, from that node before any other.
FirstInv(nodes, air) ==
    \A m \in Flooded, t \in Nodes :
        LeftOut(nodes, t, m) /\ Near(nodes, air, t, m) =>
            \E u \in Nodes : TwoHops(u, t) /\ Awaited(nodes, air, u, t, m)

Undisturbed ==
    selectors = Selectors /\ \A l \in Reach : <<Owner[l[2]], l[1]>> \in sym

SpreadInv ==
    /\ Undisturbed
    /\ ToldInv(node, originated) /\ QueuedInv(node) /\ CarriedInv(node, arriving)
    /\ ReachedInv(node, arriving, originated)
    /\ FirstInv(node, arriving)

CompleteInv == disturbances = 0 => SpreadInv
-----------------------------------------------------------------------------
(* What receiving does to what a node knows of a flood.                    *)

\* Of the other messages nothing changes.
SameOthers(new, state, m) ==
    /\ \A k \in Messages \ {m} : new.processed[k] = state.processed[k] /\ new.forwarded[k] = state.forwarded[k]
    /\ \A d \in new.duplicates : d.id # m => d \in state.duplicates
    /\ \A d \in state.duplicates : d.id # m => d \in new.duplicates

\* The message is recorded, and queued again if it must be.
Considered(new, state, n, iface, sender, copy) ==
    LET m == copy.id
    IN  /\ SameOthers(new, state, m)
        /\ new.processed[m] = IF Knows(state, m) THEN state.processed[m] ELSE Once(state.processed[m])
        /\ Knows(new, m)
        /\ \A d \in new.duplicates : d.id = m =>
              /\ d.retransmitted => MustRetransmit(n, sender, copy)
              /\ \A i \in d.ifaceList :
                    i = iface \/ \E e \in state.duplicates : e.id = m /\ i \in e.ifaceList
        /\ MustRetransmit(n, sender, copy) =>
              new.queue = Append(state.queue, Forwarded(copy)) /\ new.forwarded[m] = Once(state.forwarded[m])
        /\ ~MustRetransmit(n, sender, copy) =>
              new.queue = state.queue /\ new.forwarded[m] = state.forwarded[m]

Taken(new, state, n, iface, sender, copy) ==
    LET m == copy.id
    IN  \/ new = state /\ Originator[m] = n
        \/ new = state /\ m \in Flooded /\ Knows(state, m)
              /\ (~DoForwarding(state, m, iface) \/ Holds(state, m))
        \/ m \notin Flooded /\ new.queue = state.queue /\ SameOthers(new, state, m)
        \/ /\ m \in Flooded /\ Originator[m] # n /\ ~Holds(state, m)
           /\ Considered(new, state, n, iface, sender, copy)

\* Reading a message changes no more than its count.
Counted(state, m) == [state EXCEPT !.processed[m] = Once(@)]

LEMMA ReadEffect ==
    ASSUME NEW state \in NodeState, NEW m \in Messages
    PROVE  /\ SameBut(Counted(state, m), state)
           /\ Counted(state, m).processed[m] = Once(state.processed[m])
           /\ \A k \in Messages \ {m} : Counted(state, m).processed[k] = state.processed[k]
  <1> DEFINE read == Counted(state, m)
             list == [state.processed EXCEPT ![m] = Once(state.processed[m])]
  <1>1. read = [state EXCEPT !.processed = list]
    BY DEF Counted
  <1>2. list[m] = Once(state.processed[m]) /\ \A k \in Messages \ {m} : list[k] = state.processed[k]
    BY NodeFields
  <1>3. SameBut(read, state)
    BY ReadKeeps DEF Counted
  <1> HIDE DEF list, read
  <1>4. read.processed = list
    BY <1>1 DEF NodeState
  <1>5. QED BY <1>2, <1>3, <1>4 DEF read

\* RecordDuplicate adds the interface to the list of the tuple.
LEMMA RecordEffect ==
    ASSUME NEW state \in NodeState, NEW m \in Messages, NEW iface \in Ifaces, NEW retransmitted \in BOOLEAN,
           NEW new, new = RecordDuplicate(state, m, iface, retransmitted)
    PROVE  /\ new.queue = state.queue /\ new.processed = state.processed /\ new.forwarded = state.forwarded
           /\ Knows(new, m)
           /\ \A d \in new.duplicates : d.id # m => d \in state.duplicates
           /\ \A d \in state.duplicates : d.id # m => d \in new.duplicates
           /\ \A d \in new.duplicates : d.id = m =>
                 /\ d.retransmitted = retransmitted
                 /\ \A i \in d.ifaceList :
                       i = iface \/ \E e \in state.duplicates : e.id = m /\ i \in e.ifaceList
  <1> DEFINE old == {t \in state.duplicates : t.id = m}
             tuple == [id |-> m, retransmitted |-> retransmitted,
                       ifaceList |-> {iface} \cup UNION {t.ifaceList : t \in old},
                       left |-> OLSR_DUP_HOLD_TIME]
             event == [id |-> m, left |-> OLSR_DUP_HOLD_TIME]
             duplicates == (state.duplicates \ old) \cup {tuple}
             timers == IF old = {} THEN state.timers \cup {event} ELSE state.timers
  <1>1. new = [state EXCEPT !.duplicates = duplicates, !.timers = timers]
    BY DEF RecordDuplicate
  <1>2. tuple.id = m /\ tuple.retransmitted = retransmitted
        /\ \A i \in tuple.ifaceList : i = iface \/ \E e \in state.duplicates : e.id = m /\ i \in e.ifaceList
    OBVIOUS
  <1> HIDE DEF tuple
  <1>3. \A d \in duplicates : d = tuple \/ (d \in state.duplicates /\ d.id # m)
    OBVIOUS
  <1>4. tuple \in duplicates /\ \A d \in state.duplicates : d.id # m => d \in duplicates
    OBVIOUS
  <1> HIDE DEF duplicates, timers
  <1>5. /\ new.queue = state.queue /\ new.processed = state.processed /\ new.forwarded = state.forwarded
        /\ new.duplicates = duplicates
    BY <1>1 DEF NodeState
  <1>6. Knows(new, m)
    BY <1>2, <1>4, <1>5 DEF Knows
  <1>7. QED BY <1>2, <1>3, <1>4, <1>5, <1>6

\* What one message does, if the link to its sender is symmetric.
LEMMA MessageTaken ==
    ASSUME NEW n \in Nodes, NEW iface \in Ifaces, NEW sender \in Ifaces, <<n, sender>> \in sym,
           NEW state, NodeOK(state), NEW copy, CopyOK(copy),
           NEW new, new = ReceiveMessage(n, iface, sender, state, copy)
    PROVE  Taken(new, state, n, iface, sender, copy)
  <1> DEFINE m == copy.id
             isNew == ~\E t \in state.duplicates : t.id = m
             read == IF isNew THEN Counted(state, m) ELSE state
             retransmitted == MustRetransmit(n, sender, copy)
             again == QueueAgain(read, copy)
             queued == IF retransmitted THEN again ELSE read
             recorded == RecordDuplicate(queued, m, iface, retransmitted)
  <1>1. state \in NodeState /\ m \in Messages /\ copy.ttl # 0
    BY FloodingAssumption DEF NodeOK, CopyOK, Copy
  <1>2. isNew = ~Knows(state, m)
    BY DEF Knows
  <1>3. /\ SameBut(read, state) /\ \A k \in Messages \ {m} : read.processed[k] = state.processed[k]
        /\ read.processed[m] = IF Knows(state, m) THEN state.processed[m] ELSE Once(state.processed[m])
    <2>1. CASE isNew
      <3>1. read = Counted(state, m)
        BY <2>1
      <3> HIDE DEF isNew, read, m
      <3>2. QED BY <1>1, <1>2, <2>1, <3>1, ReadEffect
    <2>2. CASE ~isNew
      BY <1>1, <1>2, <2>2 DEF SameBut
    <2>3. QED BY <2>1, <2>2
  <1>4. CASE Originator[m] = n
    BY <1>4 DEF ReceiveMessage, Taken
  <1>5. CASE Originator[m] # n /\ m \in Hellos
    <2>1. new = read
      BY <1>1, <1>5 DEF ReceiveMessage, Counted
    <2> HIDE DEF read
    <2>2. new.queue = state.queue /\ SameOthers(new, state, m)
      BY <1>3, <2>1 DEF SameOthers, SameBut
    <2>3. QED BY <1>5, <2>2 DEF Taken, Flooded
  <1>6. CASE Originator[m] # n /\ m \notin Hellos /\ ~DoForwarding(state, m, iface)
    <2>1. Knows(state, m)
      BY <1>6 DEF DoForwarding, Knows
    <2>2. new = state
      BY <1>1, <1>2, <1>6, <2>1 DEF ReceiveMessage, Counted
    <2>3. QED BY <1>1, <1>6, <2>1, <2>2 DEF Taken, Flooded
  <1>7. CASE Originator[m] # n /\ m \notin Hellos /\ DoForwarding(state, m, iface)
    <2>1. new = ForwardDefault(n, iface, sender, read, copy)
      BY <1>1, <1>7 DEF ReceiveMessage, Counted
    <2>2. new = IF AlreadyRetransmitted(read, m) THEN read ELSE recorded
      BY <2>1 DEF ForwardDefault
    <2> HIDE DEF read, isNew
    <2>3. AlreadyRetransmitted(read, m) = Holds(state, m)
      BY <1>3 DEF AlreadyRetransmitted, Holds, SameBut
    <2>4. CASE Holds(state, m)
      <3>1. Knows(state, m)
        BY <2>4 DEF Holds, Knows
      <3>2. new = state
        BY <1>2, <2>2, <2>3, <2>4, <3>1 DEF read
      <3>3. QED BY <1>1, <1>7, <2>4, <3>1, <3>2 DEF Taken, Flooded
    <2>5. CASE ~Holds(state, m)
      <3>1. new = recorded
        BY <2>2, <2>3, <2>5
      <3>2. retransmitted \in BOOLEAN /\ (retransmitted => copy.ttl > 1)
        BY DEF MustRetransmit
      <3>3. NodeOK(read) /\ read \in NodeState
        BY <1>3, SameIsOK DEF SameBut
      <3> HIDE DEF retransmitted
      <3>4. /\ queued \in NodeState /\ queued.duplicates = state.duplicates
            /\ queued.processed = read.processed
            /\ \A k \in Messages \ {m} : queued.forwarded[k] = state.forwarded[k]
            /\ retransmitted => /\ queued.queue = Append(state.queue, Forwarded(copy))
                                /\ queued.forwarded[m] = Once(state.forwarded[m])
            /\ ~retransmitted => queued.queue = state.queue /\ queued.forwarded[m] = state.forwarded[m]
        <4>1. CASE retransmitted
          <5>1. NodeOK(again) /\ Requeued(again, read, copy)
            BY <3>2, <3>3, <4>1, QueueKeeps
          <5>2. again.processed = read.processed
            <6> DEFINE queue == Append(read.queue, Forwarded(copy))
                       count == [read.forwarded EXCEPT ![m] = Once(read.forwarded[m])]
            <6>1. again = [read EXCEPT !.queue = queue, !.forwarded = count]
              BY DEF QueueAgain
            <6> HIDE DEF queue, count, again
            <6>2. QED BY <3>3, <6>1 DEF NodeState
          <5>3. queued = again
            BY <4>1
          <5> HIDE DEF again, queued
          <5>4. again.forwarded = [state.forwarded EXCEPT ![m] = Once(state.forwarded[m])]
            BY <1>3, <5>1 DEF Requeued, SameBut
          <5>5. state.forwarded \in [Messages -> Seen]
            BY <1>1, NodeFields
          <5>6. QED BY <1>1, <1>3, <4>1, <5>1, <5>2, <5>3, <5>4, <5>5 DEF Requeued, SameBut, NodeOK
        <4>2. CASE ~retransmitted
          <5>1. queued = read
            BY <4>2
          <5> HIDE DEF queued
          <5>2. QED BY <1>3, <3>3, <4>2, <5>1 DEF SameBut
        <4>3. QED BY <4>1, <4>2
      <3> HIDE DEF queued
      <3>5. new = RecordDuplicate(queued, m, iface, retransmitted)
        BY <3>1
      <3> HIDE DEF recorded
      <3>6. /\ new.queue = queued.queue /\ new.processed = queued.processed /\ new.forwarded = queued.forwarded
            /\ Knows(new, m)
            /\ \A d \in new.duplicates : d.id # m => d \in queued.duplicates
            /\ \A d \in queued.duplicates : d.id # m => d \in new.duplicates
            /\ \A d \in new.duplicates : d.id = m =>
                  /\ d.retransmitted = retransmitted
                  /\ \A i \in d.ifaceList :
                        i = iface \/ \E e \in queued.duplicates : e.id = m /\ i \in e.ifaceList
        BY <1>1, <3>2, <3>4, <3>5, RecordEffect
      <3>7. SameOthers(new, state, m)
        BY <1>3, <3>4, <3>6 DEF SameOthers
      <3>8. Considered(new, state, n, iface, sender, copy)
        BY <1>3, <3>4, <3>6, <3>7 DEF Considered, retransmitted
      <3>9. QED BY <1>1, <1>7, <2>5, <3>8 DEF Taken, Flooded
    <2>6. QED BY <2>4, <2>5
  <1>8. QED BY <1>4, <1>5, <1>6, <1>7

\* Whether m is among the first k messages of a packet.
Among(packet, k, m) == \E j \in 1 .. k : packet.messages[j].id = m

\* n must send m on when the packet brings it: the sender has selected n, the
\* copy may live on, and m was not considered on this interface before.
MustRelay(n, iface, packet, old, m) ==
    /\ Originator[m] # n /\ <<n, Owner[packet.sender]>> \in selectors
    /\ \A j \in DOMAIN packet.messages : packet.messages[j].id = m => packet.messages[j].ttl > 1
    /\ \A d \in old.duplicates : d.id = m => iface \notin d.ifaceList

\* What the first k messages of a packet have done to a node, for one message.
TakenSoFar(new, old, n, iface, packet, k, m) ==
    /\ Told(new, m)
    /\ Among(packet, k, m) /\ Originator[m] # n => new.processed[m] # 0
    /\ new.processed[m] = old.processed[m] \/ Among(packet, k, m)
    /\ Knows(old, m) => Knows(new, m)
    /\ Has(packet.messages, m) /\ new.processed[m] # 0 => Knows(new, m)
    /\ old.forwarded[m] # 0 => new.forwarded[m] # 0
    /\ new.forwarded[m] # 0 => old.forwarded[m] # 0 \/ Has(new.queue, m)
    /\ Has(old.queue, m) => Has(new.queue, m)
    /\ Among(packet, k, m) /\ MustRelay(n, iface, packet, old, m) => new.forwarded[m] # 0
    /\ \A d \in new.duplicates : d.id = m => \A i \in d.ifaceList :
          \/ i = iface /\ Among(packet, k, m)
          \/ \E e \in old.duplicates : e.id = m /\ i \in e.ifaceList

\* The copies a packet makes a node queue.
QueuedOn(new, old, packet, copy) ==
    copy.id \in Flooded =>
        copy.ttl + copy.hops = MaxTtl /\ new.forwarded[copy.id] # 0 /\ Has(packet.messages, copy.id)

AfterSome(new, old, n, iface, packet, k) ==
    /\ \A m \in Flooded : TakenSoFar(new, old, n, iface, packet, k, m)
    /\ \A q \in DOMAIN new.queue :
          \/ q \in DOMAIN old.queue /\ new.queue[q] = old.queue[q]
          \/ QueuedOn(new, old, packet, new.queue[q])

\* Elements and ids of a list with one more.
LEMMA HasMore ==
    ASSUME NEW list \in Seq(Copy), NEW copy \in Copy, NEW m
    PROVE  Has(Append(list, copy), m) <=> Has(list, m) \/ copy.id = m
  <1> DEFINE more == Append(list, copy)
  <1>1. /\ DOMAIN more = 1 .. Len(list) + 1 /\ DOMAIN list = 1 .. Len(list) /\ Len(list) \in Nat
        /\ more[Len(list) + 1] = copy
        /\ \A i \in 1 .. Len(list) : more[i] = list[i]
    OBVIOUS
  <1> HIDE DEF more
  <1>2. ASSUME Has(list, m) \/ copy.id = m PROVE Has(more, m)
    <2>1. CASE copy.id = m
      <3>1. Len(list) + 1 \in DOMAIN more
        BY <1>1
      <3>2. QED BY <1>1, <2>1, <3>1 DEF Has
    <2>2. CASE Has(list, m)
      <3>1. PICK k \in 1 .. Len(list) : list[k].id = m
        BY <1>1, <2>2 DEF Has
      <3>2. k \in DOMAIN more
        BY <1>1
      <3>3. QED BY <1>1, <3>1, <3>2 DEF Has
    <2>3. QED BY <1>2, <2>1, <2>2
  <1>3. ASSUME Has(more, m) PROVE Has(list, m) \/ copy.id = m
    <2>1. PICK k \in 1 .. Len(list) + 1 : more[k].id = m
      BY <1>1, <1>3 DEF Has
    <2>2. CASE k = Len(list) + 1
      BY <1>1, <2>1, <2>2
    <2>3. CASE k # Len(list) + 1
      <3>1. k \in 1 .. Len(list)
        BY <1>1, <2>3
      <3>2. QED BY <1>1, <2>1, <3>1 DEF Has
    <2>4. QED BY <2>2, <2>3
  <1>4. QED BY <1>2, <1>3 DEF more

\* One message more of a packet, as it comes to another message.
LEMMA OthersTaken ==
    ASSUME NEW n, NEW iface, NEW packet, NEW old, NEW state, NEW new, NEW k \in Nat, NEW m \in Flooded,
           NEW id, m # id, SameOthers(new, state, id), TakenSoFar(state, old, n, iface, packet, k - 1, m),
           Among(packet, k, m) <=> Among(packet, k - 1, m),
           Has(state.queue, m) => Has(new.queue, m)
    PROVE  TakenSoFar(new, old, n, iface, packet, k, m)
  <1>1. m \in Messages \ {id}
    BY DEF Flooded
  <1>2. /\ new.processed[m] = state.processed[m] /\ new.forwarded[m] = state.forwarded[m]
        /\ \A d \in new.duplicates : d.id = m => d \in state.duplicates
        /\ \A d \in state.duplicates : d.id = m => d \in new.duplicates
    BY <1>1 DEF SameOthers
  <1>3. Knows(new, m) = Knows(state, m) /\ Holds(new, m) = Holds(state, m)
    BY <1>2 DEF Knows, Holds
  <1>4. Told(new, m)
    BY <1>2, <1>3 DEF TakenSoFar, Told
  <1>5. QED BY <1>2, <1>3, <1>4 DEF TakenSoFar

\* Nothing happened to a message that is known and may not be sent on.
LEMMA PassedBy ==
    ASSUME NEW n, NEW iface, NEW packet, NEW old, NEW state, NEW k \in Nat, NEW m,
           TakenSoFar(state, old, n, iface, packet, k - 1, m),
           \A i \in 1 .. k - 1 : i \in 1 .. k,
           Among(packet, k - 1, m) => Among(packet, k, m),
           Originator[m] = n \/ (Knows(state, m) /\ (~DoForwarding(state, m, iface) \/ Holds(state, m)))
    PROVE  TakenSoFar(state, old, n, iface, packet, k, m)
  <1>1. CASE Originator[m] = n
    BY <1>1 DEF TakenSoFar, MustRelay
  <1>2. CASE Originator[m] # n /\ Knows(state, m) /\ Holds(state, m)
    BY <1>2 DEF TakenSoFar, Told
  <1>3. CASE Originator[m] # n /\ Knows(state, m) /\ ~DoForwarding(state, m, iface)
    <2>1. PICK d \in state.duplicates : d.id = m /\ iface \in d.ifaceList
      BY <1>3 DEF DoForwarding
    <2>2. MustRelay(n, iface, packet, old, m) => Among(packet, k - 1, m)
      BY <2>1 DEF TakenSoFar, MustRelay
    <2>3. MustRelay(n, iface, packet, old, m) => state.forwarded[m] # 0
      BY <2>2 DEF TakenSoFar
    <2>4. QED BY <1>3, <2>3 DEF TakenSoFar, Told
  <1>4. QED BY <1>1, <1>2, <1>3

\* A message that is considered.
LEMMA ConsideredTaken ==
    ASSUME NEW n \in Nodes, NEW iface, NEW packet, NEW old, NEW state, NodeOK(state), NEW new,
           NEW k \in DOMAIN packet.messages, NEW copy \in Copy, copy = packet.messages[k], copy.id \in Flooded,
           TakenSoFar(state, old, n, iface, packet, k - 1, copy.id),
           \A m : Among(packet, k, m) <=> Among(packet, k - 1, m) \/ m = copy.id,
           ~Holds(state, copy.id), Considered(new, state, n, iface, packet.sender, copy),
           MustRetransmit(n, packet.sender, copy) => Forwarded(copy) \in Copy
    PROVE  TakenSoFar(new, old, n, iface, packet, k, copy.id)
  <1> DEFINE m == copy.id
             again == MustRetransmit(n, packet.sender, copy)
  <1>1. m \in Messages /\ Among(packet, k, m)
    BY DEF Copy
  <1>2. state.processed[m] \in {0, 1} /\ state.forwarded[m] \in Seen /\ state.queue \in Seq(Copy)
    BY <1>1, NodeFields DEF NodeOK, TakenSoFar, Told
  <1>3. Knows(state, m) => state.processed[m] = 1
    BY <1>2 DEF TakenSoFar, Told
  <1>4. Knows(new, m) /\ new.processed[m] = IF Knows(state, m) THEN state.processed[m] ELSE Once(state.processed[m])
    BY DEF Considered
  <1>5. Has(packet.messages, m)
    BY DEF Has
  <1>6. new.processed[m] = 1
    <2>1. CASE Knows(state, m)
      BY <1>3, <1>4, <2>1
    <2>2. CASE ~Knows(state, m)
      <3>1. state.processed[m] = 0
        BY <1>2, <1>5, <2>2 DEF TakenSoFar
      <3>2. QED BY <1>4, <2>2, <3>1 DEF Once
    <2>3. QED BY <2>1, <2>2
  <1>7. /\ state.forwarded[m] # 0 => new.forwarded[m] # 0
        /\ again => new.forwarded[m] # 0 /\ Has(new.queue, m)
        /\ Has(state.queue, m) => Has(new.queue, m)
        /\ ~again => new.forwarded[m] = state.forwarded[m]
    <2>1. CASE again
      <3>1. new.queue = Append(state.queue, Forwarded(copy)) /\ new.forwarded[m] = Once(state.forwarded[m])
        BY <2>1 DEF Considered
      <3>2. Has(new.queue, m)
        <4>1. Forwarded(copy) \in Copy /\ Forwarded(copy).id = m
          BY <2>1 DEF Forwarded
        <4>2. QED BY <1>2, <3>1, <4>1, HasMore
      <3>3. new.forwarded[m] # 0
        BY <1>2, <3>1 DEF Once, Seen
      <3>4. QED BY <2>1, <3>2, <3>3
    <2>2. CASE ~again
      BY <2>2 DEF Considered
    <2>3. QED BY <2>1, <2>2
  <1>8. Holds(new, m) => again
    BY DEF Considered, Holds
  <1>9. Told(new, m)
    BY <1>6, <1>7, <1>8 DEF Told
  <1>10. MustRelay(n, iface, packet, old, m) => again
    BY DEF MustRelay, MustRetransmit
  <1>11. ASSUME NEW d \in new.duplicates, d.id = m, NEW i \in d.ifaceList
         PROVE  i = iface \/ \E e \in old.duplicates : e.id = m /\ i \in e.ifaceList
    <2>1. i = iface \/ \E e \in state.duplicates : e.id = m /\ i \in e.ifaceList
      BY <1>11 DEF Considered
    <2>2. QED BY <2>1 DEF TakenSoFar
  <1> HIDE DEF m, again
  <1>12. QED BY <1>1, <1>4, <1>6, <1>7, <1>9, <1>10, <1>11 DEF TakenSoFar, m

\* One message more.
LEMMA OneMore ==
    ASSUME NEW n \in Nodes, NEW iface \in Ifaces, NEW packet, PacketOK(packet),
           NEW old, NEW state, NodeOK(state), NEW new,
           NEW k \in 1 .. Len(packet.messages), NEW copy, copy = packet.messages[k], CopyOK(copy),
           copy.id \in Flooded => copy.ttl + copy.hops = MaxTtl,
           AfterSome(state, old, n, iface, packet, k - 1),
           Taken(new, state, n, iface, packet.sender, copy)
    PROVE  AfterSome(new, old, n, iface, packet, k)
  <1> DEFINE id == copy.id
             again == MustRetransmit(n, packet.sender, copy)
  <1>1. /\ Len(packet.messages) \in Nat /\ DOMAIN packet.messages = 1 .. Len(packet.messages)
        /\ k \in Nat /\ copy \in Copy /\ id \in Messages
    BY DEF PacketOK, Packet, CopyOK, Copy
  <1>2. ASSUME NEW m PROVE Among(packet, k, m) <=> Among(packet, k - 1, m) \/ m = id
    <2>1. 1 .. k = (1 .. k - 1) \cup {k}
      BY <1>1
    <2>2. QED BY <2>1 DEF Among
  <1>3. state.queue \in Seq(Copy)
    BY NodeFields DEF NodeOK
  <1>4. again => Forwarded(copy) \in Copy /\ Forwarded(copy).id = id
                 /\ (id \in Flooded => Forwarded(copy).ttl + Forwarded(copy).hops = MaxTtl)
    <2>1. ASSUME again PROVE Forwarded(copy) \in Copy
      BY <2>1, ForwardedOK DEF MustRetransmit
    <2>2. copy.ttl \in Int /\ copy.hops \in Int /\ MaxTtl \in Int
      BY <1>1, FloodingAssumption DEF Copy
    <2>3. /\ Forwarded(copy).id = id /\ Forwarded(copy).ttl = copy.ttl - 1
          /\ Forwarded(copy).hops = copy.hops + 1
      BY DEF Forwarded
    <2>4. QED BY <2>1, <2>2, <2>3
  <1>5. \A m \in Flooded : TakenSoFar(state, old, n, iface, packet, k - 1, m)
    BY DEF AfterSome
  <1>6. CASE new = state /\ (Originator[id] = n \/ (id \in Flooded /\ Knows(state, id)
                              /\ (~DoForwarding(state, id, iface) \/ Holds(state, id))))
    <2>1. ASSUME NEW m \in Flooded PROVE TakenSoFar(new, old, n, iface, packet, k, m)
      <3>1. TakenSoFar(state, old, n, iface, packet, k - 1, m)
        BY <1>5
      <3>2. CASE m = id
        <4>1. Among(packet, k - 1, m) => Among(packet, k, m)
          BY <1>2
        <4>2. \A i \in 1 .. k - 1 : i \in 1 .. k
          BY <1>1
        <4> HIDE DEF id
        <4>3. QED BY <1>1, <1>6, <3>1, <3>2, <4>1, <4>2, PassedBy
      <3>3. CASE m # id
        <4>1. SameOthers(new, state, id)
          BY <1>6 DEF SameOthers
        <4>2. Among(packet, k, m) <=> Among(packet, k - 1, m)
          BY <1>2, <3>3
        <4>3. Has(state.queue, m) => Has(new.queue, m)
          BY <1>6
        <4> HIDE DEF id
        <4>4. QED BY <1>1, <3>1, <3>3, <4>1, <4>2, <4>3, OthersTaken
      <3>4. QED BY <3>2, <3>3
    <2>2. QED BY <1>6, <2>1 DEF AfterSome, QueuedOn
  <1>7. CASE id \notin Flooded /\ new.queue = state.queue /\ SameOthers(new, state, id)
    <2>1. ASSUME NEW m \in Flooded PROVE TakenSoFar(new, old, n, iface, packet, k, m)
      <3>1. TakenSoFar(state, old, n, iface, packet, k - 1, m) /\ m # id
        BY <1>5, <1>7
      <3>2. Among(packet, k, m) <=> Among(packet, k - 1, m)
        BY <1>2, <3>1
      <3>3. Has(state.queue, m) => Has(new.queue, m)
        BY <1>7
      <3> HIDE DEF id
      <3>4. QED BY <1>1, <1>7, <3>1, <3>2, <3>3, OthersTaken
    <2>2. ASSUME NEW m \in Flooded PROVE new.forwarded[m] = state.forwarded[m]
      BY <1>7 DEF SameOthers, Flooded
    <2>3. QED BY <1>7, <2>1, <2>2 DEF AfterSome, QueuedOn
  <1>8. CASE id \in Flooded /\ Originator[id] # n /\ ~Holds(state, id)
             /\ Considered(new, state, n, iface, packet.sender, copy)
    <2>1. \/ again /\ new.queue = Append(state.queue, Forwarded(copy))
          \/ ~again /\ new.queue = state.queue
      BY <1>8 DEF Considered
    <2>2. SameOthers(new, state, id)
      BY <1>8 DEF Considered
    <2>3. ASSUME NEW m, Has(state.queue, m) PROVE Has(new.queue, m)
      <3>1. CASE again
        <4>1. new.queue = Append(state.queue, Forwarded(copy)) /\ Forwarded(copy) \in Copy
          BY <1>4, <2>1, <3>1
        <4>2. QED BY <1>3, <2>3, <4>1, HasMore
      <3>2. CASE ~again
        BY <2>1, <2>3, <3>2
      <3>3. QED BY <3>1, <3>2
    <2>4. TakenSoFar(new, old, n, iface, packet, k, id)
      <3>1. \A m : Among(packet, k, m) <=> Among(packet, k - 1, m) \/ m = copy.id
        BY <1>2
      <3>2. TakenSoFar(state, old, n, iface, packet, k - 1, copy.id) /\ k \in DOMAIN packet.messages
        BY <1>1, <1>5, <1>8
      <3>3. MustRetransmit(n, packet.sender, copy) => Forwarded(copy) \in Copy
        BY <1>4
      <3>4. QED BY <1>1, <1>8, <3>1, <3>2, <3>3, ConsideredTaken
    <2>5. ASSUME NEW m \in Flooded PROVE TakenSoFar(new, old, n, iface, packet, k, m)
      <3>1. CASE m = id
        BY <2>4, <3>1
      <3>2. CASE m # id
        <4>1. TakenSoFar(state, old, n, iface, packet, k - 1, m)
          BY <1>5
        <4>2. Among(packet, k, m) <=> Among(packet, k - 1, m)
          BY <1>2, <3>2
        <4> HIDE DEF id, again
        <4>3. QED BY <1>1, <2>2, <2>3, <3>2, <4>1, <4>2, OthersTaken
      <3>3. QED BY <3>1, <3>2
    <2>6. ASSUME NEW m \in Flooded, state.forwarded[m] # 0 PROVE new.forwarded[m] # 0
      <3>1. CASE m # id
        BY <2>2, <2>6, <3>1 DEF SameOthers, Flooded
      <3>2. CASE m = id
        <4>1. state.forwarded[m] \in Seen
          BY <1>1, <3>2, NodeFields DEF NodeOK
        <4>2. QED BY <1>8, <2>6, <3>2, <4>1 DEF Considered, Once, Seen
      <3>3. QED BY <3>1, <3>2
    <2>7. ASSUME NEW c, QueuedOn(state, old, packet, c) PROVE QueuedOn(new, old, packet, c)
      BY <2>6, <2>7 DEF QueuedOn
    <2>8. ASSUME NEW q \in DOMAIN new.queue
          PROVE  \/ q \in DOMAIN old.queue /\ new.queue[q] = old.queue[q]
                 \/ QueuedOn(new, old, packet, new.queue[q])
      <3>1. CASE q \in DOMAIN state.queue /\ new.queue[q] = state.queue[q]
        BY <2>7, <3>1 DEF AfterSome
      <3>2. CASE again /\ new.queue[q] = Forwarded(copy)
        <4>1. new.forwarded[id] # 0
          <5>1. new.forwarded[id] = Once(state.forwarded[id]) /\ state.forwarded[id] \in Seen
            BY <1>1, <1>8, <3>2, NodeFields DEF Considered, NodeOK
          <5>2. QED BY <5>1 DEF Once, Seen
        <4>2. Has(packet.messages, id)
          BY <1>1 DEF Has
        <4>3. QED BY <1>4, <1>8, <3>2, <4>1, <4>2 DEF QueuedOn
      <3>3. (q \in DOMAIN state.queue /\ new.queue[q] = state.queue[q]) \/ (again /\ new.queue[q] = Forwarded(copy))
        <4>1. CASE again
          <5>1. new.queue = Append(state.queue, Forwarded(copy)) /\ Forwarded(copy) \in Copy
            BY <1>4, <2>1, <4>1
          <5>2. \/ Append(state.queue, Forwarded(copy))[q] = Forwarded(copy)
                \/ q \in DOMAIN state.queue /\ Append(state.queue, Forwarded(copy))[q] = state.queue[q]
            BY <1>3, <5>1, AppendElements
          <5>3. QED BY <4>1, <5>1, <5>2
        <4>2. CASE ~again
          BY <2>1, <4>2
        <4>3. QED BY <4>1, <4>2
      <3>4. QED BY <3>1, <3>2, <3>3
    <2>9. QED BY <2>5, <2>8 DEF AfterSome
  <1>9. QED BY <1>6, <1>7, <1>8 DEF Taken

\* What a packet does to its receiver.
LEMMA PacketTaken ==
    ASSUME NEW n \in Nodes, NEW iface \in Ifaces, NEW packet, PacketOK(packet), <<n, packet.sender>> \in sym,
           NEW old, NodeOK(old), \A m \in Flooded : Told(old, m),
           \A j \in DOMAIN packet.messages :
               packet.messages[j].id \in Flooded =>
                   /\ packet.messages[j].ttl + packet.messages[j].hops = MaxTtl
                   /\ old.processed[packet.messages[j].id] # 0 => Knows(old, packet.messages[j].id),
           NEW new, new = ReceivePacket(n, iface, packet, old)
    PROVE  NodeOK(new) /\ AfterSome(new, old, n, iface, packet, Len(packet.messages))
  <1> DEFINE T == {s \in NodeState : NodeOK(s)}
             len == Len(packet.messages)
  <1>1. /\ packet.sender \in Ifaces /\ len \in Nat /\ packet.messages \in Seq(Copy)
        /\ DOMAIN packet.messages = 1 .. len
        /\ \A k \in 1 .. len : CopyOK(packet.messages[k])
    BY DEF PacketOK, Packet
  <1>2. old \in T
    BY DEF NodeOK
  <1>3. KeptBy(T, n, iface, packet)
    <2> SUFFICES ASSUME NEW s \in T, NEW k \in 1 .. len
                 PROVE  ReceiveMessage(n, iface, packet.sender, s, packet.messages[k]) \in T
      BY DEF KeptBy
    <2>1. NodeOK(ReceiveMessage(n, iface, packet.sender, s, packet.messages[k]))
      BY <1>1, ReceiveMessageEffect
    <2>2. QED BY <2>1 DEF NodeOK
  <1> HIDE DEF T
  <1>4. PICK after \in [0 .. len -> T] : Run(after, n, iface, packet, old)
    BY <1>1, <1>2, <1>3, PacketLoop
  <1>5. /\ after[0] = old /\ new = after[len]
        /\ \A k \in 1 .. len :
              after[k] = ReceiveMessage(n, iface, packet.sender, after[k - 1], packet.messages[k])
    BY <1>4 DEF Run
  <1>6. \A k \in 0 .. len : NodeOK(after[k])
    BY <1>4 DEF T
  <1> HIDE DEF len
  <1> DEFINE U == {k \in 0 .. len : AfterSome(after[k], old, n, iface, packet, k)}
  <1>7. 0 \in U
    <2>1. ASSUME NEW m \in Flooded PROVE TakenSoFar(old, old, n, iface, packet, 0, m)
      <3>1. ~Among(packet, 0, m)
        BY DEF Among
      <3>2. Has(packet.messages, m) /\ old.processed[m] # 0 => Knows(old, m)
        BY DEF Has
      <3>3. QED BY <3>1, <3>2 DEF TakenSoFar
    <2>2. AfterSome(old, old, n, iface, packet, 0)
      BY <2>1 DEF AfterSome
    <2>3. 0 \in 0 .. len
      BY <1>1
    <2>4. QED BY <1>5, <2>2, <2>3
  <1>8. ASSUME NEW k \in 1 .. len, k - 1 \in U PROVE k \in U
    <2> DEFINE copy == packet.messages[k]
    <2>1. k - 1 \in 0 .. len /\ k \in 0 .. len
      BY <1>1
    <2>2. /\ copy.id \in Flooded => copy.ttl + copy.hops = MaxTtl
          /\ CopyOK(copy)
      BY <1>1
    <2>3. after[k] = ReceiveMessage(n, iface, packet.sender, after[k - 1], copy)
      BY <1>5
    <2> HIDE DEF copy
    <2>4. Taken(after[k], after[k - 1], n, iface, packet.sender, copy)
      BY <1>1, <1>6, <2>1, <2>2, <2>3, MessageTaken
    <2>5. AfterSome(after[k - 1], old, n, iface, packet, k - 1) /\ NodeOK(after[k - 1])
      BY <1>6, <1>8, <2>1
    <2>6. k \in 1 .. Len(packet.messages) /\ copy = packet.messages[k]
      BY DEF copy, len
    <2>7. AfterSome(after[k], old, n, iface, packet, k)
      BY <2>2, <2>4, <2>5, <2>6, OneMore
    <2>8. QED BY <2>1, <2>7
  <1> HIDE DEF U
  <1>9. \A k \in 0 .. len : k \in U
    BY <1>1, <1>7, <1>8, InductionUpTo
  <1>10. len \in U /\ len \in 0 .. len
    BY <1>1, <1>9
  <1>11. QED BY <1>5, <1>6, <1>10 DEF U, len

-----------------------------------------------------------------------------
(* What is sent reaches every interface in range.                          *)

\* The interfaces n can be heard on, and those of n that can be heard there.
InRange(n, i) == {s \in Ifaces : Owner[s] = n /\ <<s, i>> \in Reach}

\* SendSockets lists them all.
LEMMA SocketsInRange ==
    ASSUME NEW n \in Nodes, NEW i \in Ifaces
    PROVE  /\ SendSockets[n][i] \in Seq(InRange(n, i))
           /\ SendSockets[n][i] = <<>> <=> InRange(n, i) = {}
  <1> DEFINE near == InRange(n, i)
  <1>1. IsFiniteSet(near) /\ near \in SUBSET Ifaces
    BY FloodingAssumption, FS_Subset DEF InRange
  <1>2. SendSockets[n][i] = SetToSeq(near)
    BY DEF SendSockets, InRange
  <1> HIDE DEF near
  <1>3. Cardinality(near) \in Nat /\ ExistsBijection(1 .. Cardinality(near), near)
    BY <1>1, FS_CardinalityType, FS_NatBijection, FS_CountingElements
  <1>4. \E f \in [1 .. Cardinality(near) -> near] : IsInjective(f)
    BY <1>3 DEF IsInjective, ExistsBijection, Bijection, Injection, Surjection
  <1>5. SetToSeq(near) \in [1 .. Cardinality(near) -> near]
    BY <1>4 DEF SetToSeq
  <1>6. SetToSeq(near) \in Seq(near) /\ Len(SetToSeq(near)) = Cardinality(near)
    BY <1>3, <1>5
  <1>7. Cardinality(near) = 0 <=> near = {}
    BY <1>1, FS_EmptySet
  <1>8. QED BY <1>2, <1>3, <1>6, <1>7 DEF near

\* Every queued message is in one of the packets.
LEMMA PacketsHave ==
    ASSUME NEW q \in Seq(Copy), NEW m, Has(q, m)
    PROVE  \E k \in DOMAIN Packets(q) : Has(Packets(q)[k], m)
  <1> DEFINE M == OLSR_MAX_MSGS
             len == Len(q)
             count == (len + M - 1) \div M
  <1>1. M \in Nat /\ M >= 1 /\ len \in Nat /\ DOMAIN q = 1 .. len
    BY FloodingAssumption
  <1>2. PICK j \in 1 .. len : q[j].id = m
    BY <1>1 DEF Has
  <1>3. count \in Nat /\ count * M <= len + M - 1 /\ len + M - 1 < count * M + M
    BY <1>1
  <1> DEFINE d == (j - 1) \div M
  <1>4. d \in Nat /\ d * M <= j - 1 /\ j - 1 < d * M + M
    BY <1>1, <1>2
  <1>5. Packets(q) = [k \in 1 .. count |-> SubSeq(q, (k - 1) * M + 1, Min({k * M, len}))]
    BY DEF Packets
  <1>6. q = [i \in 1 .. len |-> q[i]] /\ \A i \in 1 .. len : q[i] \in Copy
    OBVIOUS
  <1> HIDE DEF M, len, count, d
  <1>7. d + 1 <= count
    <2>1. count * M >= len
      <3>1. count * M \in Nat
        BY <1>1, <1>3
      <3>2. QED BY <1>1, <1>3, <3>1
    <2>2. ASSUME d >= count PROVE FALSE
      <3>1. d * M >= count * M /\ d * M \in Nat /\ count * M \in Nat
        BY <1>1, <1>3, <1>4, <2>2
      <3>2. QED BY <1>1, <1>2, <1>4, <2>1, <3>1
    <2>3. QED BY <1>3, <1>4, <2>2
  <1> DEFINE first == d * M + 1
             last == Min({(d + 1) * M, len})
             packet == SubSeq(q, first, last)
  <1>8. d + 1 \in 1 .. count /\ Packets(q)[d + 1] = packet /\ d + 1 \in DOMAIN Packets(q)
    <2>1. d + 1 \in 1 .. count /\ (d + 1) - 1 = d
      BY <1>3, <1>4, <1>7
    <2> HIDE DEF last, first
    <2>2. QED BY <1>5, <2>1 DEF first, last
  <1>9. (d + 1) * M = d * M + M /\ d * M \in Nat /\ (d + 1) * M \in Nat
    BY <1>1, <1>4
  <1>10. last \in {(d + 1) * M, len}
    <2>1. {(d + 1) * M, len} \in SUBSET Nat /\ {(d + 1) * M, len} # {}
      BY <1>1, <1>9
    <2>2. QED BY <2>1, MinIn
  <1>11. last <= len
    <2>1. {(d + 1) * M, len} \in SUBSET Nat /\ {(d + 1) * M, len} # {}
      BY <1>1, <1>9
    <2>2. QED BY <2>1, MinIn
  <1>12. first \in Nat /\ last \in Nat /\ 1 <= first /\ first <= j /\ j <= last
    BY <1>1, <1>2, <1>4, <1>9, <1>10
  <1> HIDE DEF first, last
  <1>13. DOMAIN packet = 1 .. last - first + 1 /\ packet[j - first + 1] = q[j]
    <2>1. j - first + 1 \in 1 .. last - first + 1 /\ first + (j - first + 1) - 1 = j
      BY <1>2, <1>12
    <2>2. \A i \in first .. last : q[i] \in Copy
      <3>1. \A i \in first .. last : i \in 1 .. len
        BY <1>1, <1>11, <1>12
      <3>2. QED BY <1>6, <3>1
    <2>3. packet = [i \in 1 .. last - first + 1 |-> q[first + i - 1]]
      BY <1>1, <1>11, <1>12 DEF len
    <2> HIDE DEF packet
    <2>4. QED BY <2>1, <2>3
  <1>14. j - first + 1 \in DOMAIN packet
    BY <1>2, <1>12, <1>13
  <1> HIDE DEF packet
  <1>15. Has(packet, m)
    BY <1>2, <1>13, <1>14 DEF Has
  <1>16. QED BY <1>8, <1>15

\* Quotients of multiples.
LEMMA DivOfMultiple ==
    ASSUME NEW a \in Nat, NEW L \in Nat, L >= 1
    PROVE  (a * L) \div L = a
  <1> DEFINE p == a * L
             d == p \div L
  <1>1. p \in Nat
    OBVIOUS
  <1> HIDE DEF p
  <1>2. d \in Nat /\ d * L <= p /\ p < d * L + L
    BY <1>1
  <1> HIDE DEF d
  <1>3. d * L \in Nat
    BY <1>2
  <1>4. ASSUME d < a PROVE FALSE
    <2>1. d + 1 <= a /\ d + 1 \in Nat /\ a - (d + 1) \in Nat
      BY <1>2, <1>4
    <2>2. (d + 1) * L <= a * L /\ (d + 1) * L = d * L + L
      <3>1. (a - (d + 1)) * L >= 0
        BY <2>1
      <3>2. QED BY <1>2, <2>1, <3>1
    <2>3. d * L + L <= p
      BY <2>2 DEF p
    <2>4. QED BY <1>1, <1>2, <1>3, <2>3
  <1>5. ASSUME d > a PROVE FALSE
    <2>1. d - (a + 1) \in Nat
      BY <1>2, <1>5
    <2>2. (a + 1) * L <= d * L /\ (a + 1) * L = a * L + L
      <3>1. (d - (a + 1)) * L >= 0
        BY <2>1
      <3>2. QED BY <1>2, <2>1, <3>1
    <2>3. p + L <= d * L
      BY <2>2 DEF p
    <2>4. QED BY <1>1, <1>2, <1>3, <2>3
  <1>6. QED BY <1>2, <1>4, <1>5 DEF p, d

\* What a node in range hears comes from n, and is all that n sent.
LEMMA HeardInRange ==
    ASSUME NEW n \in Nodes, NEW i \in Ifaces, NEW packets \in Seq(Seq(Copy))
    PROVE  /\ \A k \in DOMAIN Heard(n, i, packets) : Heard(n, i, packets)[k].sender \in InRange(n, i)
           /\ InRange(n, i) # {} => \A j \in DOMAIN packets :
                 \E k \in DOMAIN Heard(n, i, packets) : Heard(n, i, packets)[k].messages = packets[j]
  <1> DEFINE sockets == SendSockets[n][i]
             L == Len(sockets)
             P == Len(packets)
             heard == [k \in 1 .. P * L |->
                 [sender |-> sockets[((k - 1) % L) + 1], messages |-> packets[((k - 1) \div L) + 1]]]
  <1>1. sockets \in Seq(InRange(n, i)) /\ (InRange(n, i) # {} => sockets # <<>>)
    BY SocketsInRange
  <1>2. Heard(n, i, packets) = heard
    BY DEF Heard
  <1> HIDE DEF sockets
  <1>3. L \in Nat /\ P \in Nat /\ P * L \in Nat /\ DOMAIN packets = 1 .. P /\ (InRange(n, i) # {} => L >= 1)
    BY <1>1
  <1>4. \A k \in 1 .. L : sockets[k] \in InRange(n, i)
    BY <1>1
  <1> HIDE DEF L, P
  <1>5. ASSUME NEW k \in 1 .. P * L PROVE heard[k].sender \in InRange(n, i)
    <2>1. L > 0
      BY <1>3
    <2>2. ((k - 1) % L) + 1 \in 1 .. L
      BY <1>3, <2>1
    <2>3. heard[k].sender = sockets[((k - 1) % L) + 1]
      OBVIOUS
    <2>4. QED BY <1>4, <2>2, <2>3
  <1>6. ASSUME InRange(n, i) # {}, NEW j \in 1 .. P
        PROVE  \E k \in 1 .. P * L : heard[k].messages = packets[j]
    <2> DEFINE k == (j - 1) * L + 1
    <2>1. L >= 1
      BY <1>3, <1>6
    <2>2. (j - 1) * L \in Nat /\ j * L = (j - 1) * L + L /\ j * L <= P * L
      BY <1>3, <2>1
    <2>3. k \in 1 .. P * L
      BY <1>3, <2>1, <2>2
    <2>4. (k - 1) \div L = j - 1
      <3>1. k - 1 = (j - 1) * L /\ j - 1 \in Nat
        BY <1>3, <2>2
      <3>2. ((j - 1) * L) \div L = j - 1
        BY <1>3, <2>1, <3>1, DivOfMultiple
      <3>3. QED BY <3>1, <3>2
    <2>5. heard[k].messages = packets[((k - 1) \div L) + 1]
      BY <2>3
    <2> HIDE DEF k, heard
    <2>6. (j - 1) + 1 = j
      BY <1>3
    <2>7. QED BY <2>3, <2>4, <2>5, <2>6
  <1>7. DOMAIN heard = 1 .. P * L
    OBVIOUS
  <1> HIDE DEF heard
  <1>8. QED BY <1>2, <1>3, <1>5, <1>6, <1>7

-----------------------------------------------------------------------------
(* The third invariant at the start, and as time passes.                   *)

\* It holds of the empty network.
LEMMA SpreadInit == Init => SpreadInv
  <1> SUFFICES ASSUME Init PROVE SpreadInv
    OBVIOUS
  <1>1. \A n \in Nodes : /\ node[n].queue = <<>> /\ node[n].duplicates = {}
                         /\ node[n].processed = [m \in Messages |-> 0]
                         /\ node[n].forwarded = [m \in Messages |-> 0]
    BY DEF Init
  <1>2. \A i \in Ifaces : DOMAIN arriving[i] = {}
    BY DEF Init
  <1>3. Undisturbed
    <2>1. ASSUME NEW l \in Reach PROVE <<Owner[l[2]], l[1]>> \in sym
      <3> DEFINE p == <<Owner[l[2]], l[1]>>
      <3>1. p \in Nodes \X Ifaces /\ p[1] = Owner[l[2]] /\ p[2] = l[1]
        BY FloodingAssumption
      <3> HIDE DEF p
      <3>2. p \in sym
        BY <3>1 DEF Init
      <3>3. QED BY <3>2 DEF p
    <2>2. QED BY <2>1 DEF Undisturbed, Init
  <1>4. ToldInv(node, originated)
    BY <1>1 DEF ToldInv, Told, Flooded, Knows, Holds
  <1>5. QueuedInv(node)
    BY <1>1 DEF QueuedInv
  <1>6. CarriedInv(node, arriving)
    BY <1>2 DEF CarriedInv
  <1>7. originated = {}
    BY DEF Init
  <1>8. ReachedInv(node, arriving, originated)
    BY <1>7 DEF ReachedInv
  <1>9. \A m \in Flooded, t \in Nodes : ~Near(node, arriving, t, m)
    <2> SUFFICES ASSUME NEW m \in Flooded, NEW i \in Ifaces PROVE ~Delivered(node, arriving, i, m)
      BY DEF Near
    <2>1. Owner[i] \in Nodes /\ m \in Messages
      BY FloodingAssumption DEF Flooded
    <2>2. QED BY <1>1, <1>2, <2>1 DEF Delivered, Pending
  <1>10. FirstInv(node, arriving)
    BY <1>9 DEF FirstInv
  <1>11. QED BY <1>3, <1>4, <1>5, <1>6, <1>8, <1>10 DEF SpreadInv

\* Nothing of a flood changes but that tuples grow older or are removed.
Aged(nodes, nodes2) ==
    \A n \in Nodes :
        /\ nodes2[n].queue = nodes[n].queue
        /\ nodes2[n].processed = nodes[n].processed /\ nodes2[n].forwarded = nodes[n].forwarded
        /\ \A d \in nodes2[n].duplicates : \E e \in nodes[n].duplicates :
              e.id = d.id /\ e.retransmitted = d.retransmitted /\ e.ifaceList = d.ifaceList

\* The messages of the copies under way.
Moving(m) ==
    \/ \E n \in Nodes : \E k \in DOMAIN node[n].queue : node[n].queue[k].id = m
    \/ \E i \in Ifaces : \E k \in DOMAIN arriving[i] :
          \E j \in DOMAIN arriving[i][k].messages : arriving[i][k].messages[j].id = m

KeepsKnown(nodes, nodes2) ==
    \A m : Moving(m) => \A n \in Nodes : Knows(nodes[n], m) => Knows(nodes2[n], m)

\* Such a step keeps the third invariant, if nobody forgets a message that is
\* under way.
LEMMA AgedSpread ==
    ASSUME SpreadInv, Aged(node, node'), KeepsKnown(node, node'),
           arriving' = arriving, originated' = originated, sym' = sym, selectors' = selectors
    PROVE  SpreadInv'
  <1>1. \A n \in Nodes : /\ node'[n].queue = node[n].queue /\ node'[n].processed = node[n].processed
                         /\ node'[n].forwarded = node[n].forwarded
    BY DEF Aged
  <1>2. \A m : \A n \in Nodes : Knows(node'[n], m) => Knows(node[n], m)
    BY DEF Aged, Knows
  <1>3. \A m : \A n \in Nodes : Holds(node'[n], m) => Holds(node[n], m)
    BY DEF Aged, Holds
  <1>4. \A m : Forwarders(node', m) = Forwarders(node, m)
    BY <1>1 DEF Forwarders
  <1>5. \A m : Senders(node', m) = Senders(node, m)
    BY <1>4 DEF Senders
  <1>6. \A m : \A i \in Ifaces : Delivered(node', arriving', i, m) = Delivered(node, arriving, i, m)
    <2> SUFFICES ASSUME NEW i \in Ifaces, NEW m
                 PROVE  Delivered(node', arriving', i, m) = Delivered(node, arriving, i, m)
      OBVIOUS
    <2>1. node'[Owner[i]].processed = node[Owner[i]].processed
      BY <1>1, FloodingAssumption
    <2>2. QED BY <2>1 DEF Delivered
  <1>7. Undisturbed'
    BY DEF SpreadInv, Undisturbed
  <1>8. ToldInv(node', originated')
    BY <1>1, <1>2, <1>3 DEF SpreadInv, ToldInv, Told
  <1>9. ASSUME NEW copy, Remembered(node, copy), Moving(copy.id) PROVE Remembered(node', copy)
    BY <1>1, <1>9 DEF Remembered, KeepsKnown
  <1>10. QueuedInv(node')
    <2> SUFFICES ASSUME NEW n \in Nodes, NEW k \in DOMAIN node[n].queue
                 PROVE  /\ Remembered(node', node[n].queue[k])
                        /\ node[n].queue[k].id \in Flooded => n \in Senders(node', node[n].queue[k].id)
      BY <1>1 DEF QueuedInv
    <2>1. Moving(node[n].queue[k].id)
      BY DEF Moving
    <2>2. QED BY <1>5, <1>9, <2>1 DEF SpreadInv, QueuedInv
  <1>11. CarriedInv(node', arriving')
    <2> SUFFICES ASSUME NEW i \in Ifaces, NEW k \in DOMAIN arriving[i]
                 PROVE  /\ <<arriving[i][k].sender, i>> \in Reach
                        /\ \A j \in DOMAIN arriving[i][k].messages : Remembered(node', arriving[i][k].messages[j])
      BY DEF CarriedInv
    <2>1. \A j \in DOMAIN arriving[i][k].messages : Moving(arriving[i][k].messages[j].id)
      BY DEF Moving
    <2>2. QED BY <1>9, <2>1 DEF SpreadInv, CarriedInv
  <1>12. ReachedInv(node', arriving', originated')
    <2> SUFFICES ASSUME NEW m \in Flooded \cap originated, NEW x \in Senders(node, m)
                 PROVE  \/ Has(node'[x].queue, m)
                        \/ \A l \in Reach : Owner[l[1]] = x /\ Owner[l[2]] # Originator[m]
                              => Delivered(node', arriving', l[2], m)
      BY <1>5 DEF ReachedInv
    <2>1. x \in Nodes
      BY FloodingAssumption DEF Senders, Forwarders, Flooded
    <2>2. \A l \in Reach : l[2] \in Ifaces
      BY FloodingAssumption
    <2>3. QED BY <1>1, <1>6, <2>1, <2>2 DEF SpreadInv, ReachedInv
  <1>13. FirstInv(node', arriving')
    <2> SUFFICES ASSUME NEW m \in Flooded, NEW t \in Nodes, LeftOut(node', t, m), Near(node', arriving', t, m)
                 PROVE  \E u \in Nodes : TwoHops(u, t) /\ Awaited(node', arriving', u, t, m)
      BY DEF FirstInv
    <2>1. LeftOut(node, t, m)
      BY <1>1, <1>5 DEF LeftOut
    <2>2. Near(node, arriving, t, m)
      BY <1>6 DEF Near
    <2>3. PICK u \in Nodes : TwoHops(u, t) /\ Awaited(node, arriving, u, t, m)
      BY <2>1, <2>2 DEF SpreadInv, FirstInv
    <2>4. ASSUME NEW i \in Ifaces, FirstHeard(node, arriving, u, i, m)
          PROVE  FirstHeard(node', arriving', u, i, m)
      <3>1. Owner[i] \in Nodes
        BY FloodingAssumption
      <3>2. ASSUME NEW d \in node'[Owner[i]].duplicates, d.id = m PROVE i \notin d.ifaceList
        <4>1. PICK e \in node[Owner[i]].duplicates : e.id = d.id /\ e.ifaceList = d.ifaceList
          BY <3>1 DEF Aged
        <4>2. QED BY <2>4, <3>2, <4>1 DEF FirstHeard
      <3>3. QED BY <2>4, <3>2 DEF FirstHeard
    <2>5. \A l \in Reach : l[2] \in Ifaces
      BY FloodingAssumption
    <2>6. Awaited(node', arriving', u, t, m)
      BY <2>3, <2>4, <2>5 DEF Awaited
    <2>7. QED BY <2>3, <2>6
  <1>14. QED BY <1>7, <1>8, <1>10, <1>11, <1>12, <1>13 DEF SpreadInv

\* Time passes: every tuple grows older.
LEMMA TickSpread ==
    ASSUME TypeInv, SpreadInv, Tick
    PROVE  SpreadInv'
  <1>1. /\ node' = [n \in Nodes |-> [node[n] EXCEPT !.duplicates = Older(node[n].duplicates),
                                                    !.timers = Older(node[n].timers)]]
        /\ arriving' = arriving /\ originated' = originated /\ sym' = sym /\ selectors' = selectors
    BY DEF Tick, environment
  <1>2. ASSUME NEW n \in Nodes
        PROVE  /\ node'[n].queue = node[n].queue
               /\ node'[n].processed = node[n].processed /\ node'[n].forwarded = node[n].forwarded
               /\ node'[n].duplicates = Older(node[n].duplicates)
    <2>1. node[n] \in NodeState
      BY DEF TypeInv
    <2>2. node'[n] = [node[n] EXCEPT !.duplicates = Older(node[n].duplicates), !.timers = Older(node[n].timers)]
      BY <1>1
    <2>3. QED BY <2>1, <2>2 DEF NodeState
  <1>3. ASSUME NEW n \in Nodes, NEW d \in node[n].duplicates
        PROVE  LET e == [d EXCEPT !.left = @ - 1]
               IN  e.id = d.id /\ e.retransmitted = d.retransmitted /\ e.ifaceList = d.ifaceList
    <2>1. d \in DuplicateTuple
      BY NodeFields DEF TypeInv
    <2>2. QED BY <2>1 DEF DuplicateTuple
  <1>4. Aged(node, node')
    <2>1. ASSUME NEW n \in Nodes, NEW d \in Older(node[n].duplicates)
          PROVE  \E e \in node[n].duplicates :
                     e.id = d.id /\ e.retransmitted = d.retransmitted /\ e.ifaceList = d.ifaceList
      <3>1. PICK e \in node[n].duplicates : d = [e EXCEPT !.left = @ - 1]
        BY DEF Older
      <3>2. QED BY <1>3, <3>1
    <2>2. QED BY <1>2, <2>1 DEF Aged
  <1>5. ASSUME NEW n \in Nodes, NEW m, Knows(node[n], m) PROVE Knows(node'[n], m)
    <2>1. PICK d \in node[n].duplicates : d.id = m
      BY <1>5 DEF Knows
    <2>2. [d EXCEPT !.left = @ - 1] \in node'[n].duplicates
      BY <1>2 DEF Older
    <2>3. QED BY <1>3, <2>1, <2>2 DEF Knows
  <1>6. KeepsKnown(node, node')
    BY <1>5 DEF KeepsKnown
  <1>7. QED BY <1>1, <1>4, <1>6, AgedSpread

\* DupTupleTimerExpire removes no tuple of a message that is under way.
LEMMA ExpireSpread ==
    ASSUME TypeInv, OnceInv, FloodsAreShort, SpreadInv, NEW n \in Nodes, NEW timer \in node[n].timers,
           DupTupleTimerExpire(n, timer)
    PROVE  SpreadInv'
  <1> DEFINE expired == {t \in {t \in node[n].duplicates : t.id = timer.id} : t.left < 0}
             again == {[id |-> t.id, left |-> DELAY(t.left)] :
                          t \in {t \in node[n].duplicates : t.id = timer.id} \ expired}
  <1>1. /\ node' = [node EXCEPT ![n].duplicates = @ \ expired,
                                ![n].timers = (@ \ {timer}) \cup again]
        /\ arriving' = arriving /\ originated' = originated /\ sym' = sym /\ selectors' = selectors
        /\ node \in [Nodes -> NodeState] /\ \A d \in expired : d.left < 0
    BY DEF DupTupleTimerExpire, environment, TypeInv
  <1> HIDE DEF expired, again
  <1>2. /\ node'[n].duplicates = node[n].duplicates \ expired
        /\ node'[n].queue = node[n].queue /\ node'[n].processed = node[n].processed
        /\ node'[n].forwarded = node[n].forwarded
        /\ \A p \in Nodes \ {n} : node'[p] = node[p]
    BY <1>1 DEF NodeState
  <1>3. Aged(node, node')
    BY <1>2 DEF Aged
  <1>4. ASSUME NEW m, Moving(m), NEW d \in node[n].duplicates, d.id = m PROVE ~(d.left < 0)
    <2>1. CASE \E p \in Nodes : \E k \in DOMAIN node[p].queue : node[p].queue[k].id = m
      <3>1. PICK p \in Nodes : \E k \in DOMAIN node[p].queue : node[p].queue[k].id = m
        BY <2>1
      <3>2. PICK k \in DOMAIN node[p].queue : node[p].queue[k].id = m
        BY <3>1
      <3> DEFINE copy == node[p].queue[k]
                 time == QueueTime(copy, queueTimer[p])
      <3>3. copy \in Copy /\ time \in Nat /\ time <= AirTime(copy)
        BY QueueTimes DEF OnceInv
      <3>4. UnderWay(node, originated, copy, time) /\ FloodsInv(node, originated)
        BY DEF OnceInv, QueuesInv
      <3> HIDE DEF copy, time
      <3>5. time \in Int
        BY <3>3
      <3>6. \A e \in node[n].duplicates : e.id = copy.id => ~(e.left < 0)
        BY <3>3, <3>4, <3>5, TuplesLast
      <3>7. QED BY <1>4, <3>2, <3>6 DEF copy
    <2>2. CASE \E i \in Ifaces : \E k \in DOMAIN arriving[i] :
                 \E j \in DOMAIN arriving[i][k].messages : arriving[i][k].messages[j].id = m
      <3>1. PICK i \in Ifaces : \E k \in DOMAIN arriving[i] :
                 \E j \in DOMAIN arriving[i][k].messages : arriving[i][k].messages[j].id = m
        BY <2>2
      <3>2. PICK k \in DOMAIN arriving[i] :
                 \E j \in DOMAIN arriving[i][k].messages : arriving[i][k].messages[j].id = m
        BY <3>1
      <3>3. PICK j \in DOMAIN arriving[i][k].messages : arriving[i][k].messages[j].id = m
        BY <3>2
      <3> DEFINE copy == arriving[i][k].messages[j]
                 time == AirTime(copy)
      <3>4. copy \in Copy /\ time \in Nat
        BY AirTimes
      <3>5. UnderWay(node, originated, copy, time) /\ FloodsInv(node, originated)
        BY DEF OnceInv, AirInv
      <3>6. time <= AirTime(copy) /\ time \in Int
        BY <3>4
      <3> HIDE DEF copy, time
      <3>7. \A e \in node[n].duplicates : e.id = copy.id => ~(e.left < 0)
        BY <3>4, <3>5, <3>6, TuplesLast
      <3>8. QED BY <1>4, <3>3, <3>7 DEF copy
    <2>3. QED BY <1>4, <2>1, <2>2 DEF Moving
  <1>5. KeepsKnown(node, node')
    <2> SUFFICES ASSUME NEW m, Moving(m), NEW p \in Nodes, Knows(node[p], m) PROVE Knows(node'[p], m)
      BY DEF KeepsKnown
    <2>1. CASE p # n
      BY <1>2, <2>1
    <2>2. CASE p = n
      <3>1. PICK d \in node[n].duplicates : d.id = m
        BY <2>2 DEF Knows
      <3>2. d \notin expired
        BY <1>1, <1>4, <3>1
      <3>3. QED BY <1>2, <2>2, <3>1, <3>2 DEF Knows
    <2>3. QED BY <2>1, <2>2
  <1>6. QED BY <1>1, <1>3, <1>5, AgedSpread

-----------------------------------------------------------------------------
(* Queues come and go.                                                     *)

\* A step that leaves what every node knows of every message.
SameMemory(nodes, nodes2) ==
    \A n \in Nodes : /\ nodes2[n].processed = nodes[n].processed
                     /\ nodes2[n].forwarded = nodes[n].forwarded
                     /\ nodes2[n].duplicates = nodes[n].duplicates

\* Then the same messages are told, remembered and awaited.
LEMMA MemoryKept ==
    ASSUME NEW nodes, NEW nodes2, SameMemory(nodes, nodes2)
    PROVE  /\ \A m : Senders(nodes2, m) = Senders(nodes, m)
           /\ \A m : \A n \in Nodes : Told(nodes2[n], m) = Told(nodes[n], m)
           /\ \A copy : Remembered(nodes2, copy) = Remembered(nodes, copy)
           /\ \A m : \A t \in Nodes : LeftOut(nodes2, t, m) = LeftOut(nodes, t, m)
           /\ \A air, m : \A i \in Ifaces : Delivered(nodes2, air, i, m) = Delivered(nodes, air, i, m)
           /\ \A air, m, u : \A i \in Ifaces : FirstHeard(nodes2, air, u, i, m) = FirstHeard(nodes, air, u, i, m)
  <1>1. \A m : Senders(nodes2, m) = Senders(nodes, m)
    BY DEF SameMemory, Senders, Forwarders
  <1>2. \A m : \A n \in Nodes : Knows(nodes2[n], m) = Knows(nodes[n], m) /\ Holds(nodes2[n], m) = Holds(nodes[n], m)
    BY DEF SameMemory, Knows, Holds
  <1>3. \A m : \A n \in Nodes : Told(nodes2[n], m) = Told(nodes[n], m)
    BY <1>2 DEF SameMemory, Told
  <1>4. \A copy : Remembered(nodes2, copy) = Remembered(nodes, copy)
    BY <1>2 DEF SameMemory, Remembered
  <1>5. \A m : \A t \in Nodes : LeftOut(nodes2, t, m) = LeftOut(nodes, t, m)
    BY <1>1 DEF SameMemory, LeftOut
  <1>6. \A i \in Ifaces : Owner[i] \in Nodes
    BY FloodingAssumption
  <1>7. \A air, m : \A i \in Ifaces : Delivered(nodes2, air, i, m) = Delivered(nodes, air, i, m)
    BY <1>6 DEF SameMemory, Delivered
  <1>8. \A air, m, u : \A i \in Ifaces : FirstHeard(nodes2, air, u, i, m) = FirstHeard(nodes, air, u, i, m)
    BY <1>6 DEF SameMemory, FirstHeard
  <1>9. QED BY <1>1, <1>3, <1>4, <1>5, <1>7, <1>8

\* A message that is generated is queued by its originator.
LEMMA OriginateSpread ==
    ASSUME TypeInv, OnceInv, SpreadInv, NEW m \in Messages, Originate(m)
    PROVE  SpreadInv'
  <1> DEFINE n == Originator[m]
             copy == [id |-> m, ttl |-> IF m \in Hellos THEN 1 ELSE MaxTtl, hops |-> 0]
             queue == Append(node[n].queue, copy)
             new == [node[n] EXCEPT !.queue = queue]
  <1>1. n \in Nodes /\ MaxTtl \in Nat \ {0} /\ node \in [Nodes -> NodeState] /\ node[n] \in NodeState
    BY FloodingAssumption DEF TypeInv
  <1>2. /\ copy \in Copy /\ copy.id = m /\ copy.hops = 0 /\ (m \in Flooded => copy.ttl = MaxTtl)
    <2>1. (IF m \in Hellos THEN 1 ELSE MaxTtl) \in 1 .. MaxTtl /\ 0 \in 0 .. MaxTtl - 1
      BY <1>1
    <2>2. QED BY <2>1 DEF Copy, Flooded
  <1>3. /\ node' = [node EXCEPT ![n] = new] /\ m \notin originated /\ originated' = originated \cup {m}
        /\ arriving' = arriving /\ sym' = sym /\ selectors' = selectors
    BY DEF Originate, environment
  <1> HIDE DEF copy, n, queue
  <1>4. /\ node'[n].queue = queue /\ \A p \in Nodes \ {n} : node'[p] = node[p]
        /\ new.processed = node[n].processed /\ new.forwarded = node[n].forwarded
        /\ new.duplicates = node[n].duplicates /\ node'[n] = new
    BY <1>1, <1>3 DEF NodeState
  <1>5. SameMemory(node, node')
    BY <1>4 DEF SameMemory
  <1>6. node[n].queue \in Seq(Copy)
    BY <1>1, NodeFields
  <1>7. \A k : Has(queue, k) <=> Has(node[n].queue, k) \/ copy.id = k
    BY <1>2, <1>6, HasMore DEF queue
  <1>8. /\ \A k : Senders(node', k) = Senders(node, k)
        /\ \A k : \A p \in Nodes : Told(node'[p], k) = Told(node[p], k)
        /\ \A c : Remembered(node', c) = Remembered(node, c)
        /\ \A k : \A t \in Nodes : LeftOut(node', t, k) = LeftOut(node, t, k)
        /\ \A air, k : \A i \in Ifaces : Delivered(node', air, i, k) = Delivered(node, air, i, k)
        /\ \A air, k, u : \A i \in Ifaces : FirstHeard(node', air, u, i, k) = FirstHeard(node, air, u, i, k)
    BY <1>5, MemoryKept
  <1>9. \A l \in Reach : l[1] \in Ifaces /\ l[2] \in Ifaces
    BY FloodingAssumption
  <1>10. Undisturbed'
    BY <1>3 DEF SpreadInv, Undisturbed
  <1>11. ToldInv(node', originated')
    BY <1>3, <1>5, <1>8 DEF SpreadInv, ToldInv, SameMemory
  <1>12. n = Originator[m] /\ n \in Senders(node, m)
    BY DEF Senders, n
  <1>13. Remembered(node, copy)
    <2>1. m \in Flooded => \A p \in Nodes : node[p].processed[m] = 0
      BY <1>3 DEF SpreadInv, ToldInv
    <2>2. QED BY <1>1, <1>2, <2>1 DEF Remembered
  <1>14. QueuedInv(node')
    <2>1. ASSUME NEW p \in Nodes, NEW k \in DOMAIN node'[p].queue
          PROVE  \/ k \in DOMAIN node[p].queue /\ node'[p].queue[k] = node[p].queue[k]
                 \/ p = n /\ node'[p].queue[k] = copy
      <3>1. CASE p = n
        <4>1. k \in DOMAIN Append(node[n].queue, copy) /\ node'[p].queue = Append(node[n].queue, copy)
          BY <1>4, <3>1 DEF queue
        <4>2. \/ Append(node[n].queue, copy)[k] = copy
              \/ k \in DOMAIN node[n].queue /\ Append(node[n].queue, copy)[k] = node[n].queue[k]
          BY <1>2, <1>6, <4>1, AppendElements
        <4>3. QED BY <3>1, <4>1, <4>2
      <3>2. CASE p # n
        BY <1>4, <3>2
      <3>3. QED BY <3>1, <3>2
    <2>2. QED BY <1>2, <1>8, <1>12, <1>13, <2>1 DEF SpreadInv, QueuedInv
  <1>15. CarriedInv(node', arriving')
    BY <1>3, <1>8 DEF SpreadInv, CarriedInv
  <1>16. ReachedInv(node', arriving', originated')
    <2> SUFFICES ASSUME NEW k \in Flooded \cap originated', NEW x \in Senders(node, k)
                 PROVE  \/ Has(node'[x].queue, k)
                        \/ \A l \in Reach : Owner[l[1]] = x /\ Owner[l[2]] # Originator[k]
                              => Delivered(node, arriving, l[2], k)
      <3>1. \A k : \A l \in Reach : Delivered(node', arriving', l[2], k) = Delivered(node, arriving, l[2], k)
        BY <1>3, <1>8, <1>9
      <3>2. QED BY <1>8, <3>1 DEF ReachedInv
    <2>1. x \in Nodes
      BY FloodingAssumption DEF Senders, Forwarders, Flooded
    <2>2. CASE k = m
      <3>1. Forwarders(node, m) = {}
        BY <1>3 DEF OnceInv, FloodsInv
      <3>2. x = n
        BY <2>2, <3>1 DEF Senders, n
      <3>3. QED BY <1>2, <1>4, <1>7, <2>2, <3>2
    <2>3. CASE k # m
      <3>1. k \in Flooded \cap originated
        BY <1>3, <2>3
      <3>2. Has(node[x].queue, k) => Has(node'[x].queue, k)
        BY <1>4, <1>7, <2>1
      <3>3. QED BY <3>1, <3>2 DEF SpreadInv, ReachedInv
    <2>4. QED BY <2>2, <2>3
  <1>17. FirstInv(node', arriving')
    <2> SUFFICES ASSUME NEW k \in Flooded, NEW t \in Nodes, LeftOut(node, t, k), Near(node, arriving, t, k)
                 PROVE  \E u \in Nodes : TwoHops(u, t) /\ Awaited(node', arriving, u, t, k)
      BY <1>3, <1>8 DEF FirstInv, Near
    <2>1. PICK u \in Nodes : TwoHops(u, t) /\ Awaited(node, arriving, u, t, k)
      BY DEF SpreadInv, FirstInv
    <2>2. Awaited(node', arriving, u, t, k)
      BY <1>8, <1>9, <2>1 DEF Awaited
    <2>3. QED BY <2>1, <2>2
  <1>18. QED BY <1>10, <1>11, <1>14, <1>15, <1>16, <1>17 DEF SpreadInv

\* Neighbours see each other.
LEMMA NeighboursMutual ==
    /\ \A n, p \in Nodes : p \in Neighbours[n] <=> n \in Neighbours[p]
    /\ \A n \in Nodes : n \notin Neighbours[n] /\ Neighbours[n] \subseteq Nodes
    /\ \A l \in Reach : Owner[l[2]] \in Neighbours[Owner[l[1]]] /\ l[1] \in Ifaces /\ l[2] \in Ifaces
                        /\ Owner[l[1]] \in Nodes /\ Owner[l[2]] \in Nodes
  <1>1. \A l \in Reach : /\ <<l[2], l[1]>> \in Reach /\ Owner[l[1]] # Owner[l[2]]
                         /\ l[1] \in Ifaces /\ l[2] \in Ifaces
                         /\ Owner[l[1]] \in Nodes /\ Owner[l[2]] \in Nodes
    BY FloodingAssumption
  <1>2. \A n \in Nodes : Neighbours[n] = {m \in Nodes : \E l \in Reach : Owner[l[1]] = n /\ Owner[l[2]] = m}
    BY DEF Neighbours
  <1>3. ASSUME NEW n \in Nodes, NEW p \in Neighbours[n] PROVE n \in Neighbours[p] /\ p \in Nodes
    <2>1. PICK l \in Reach : Owner[l[1]] = n /\ Owner[l[2]] = p /\ p \in Nodes
      BY <1>2
    <2> DEFINE b == <<l[2], l[1]>>
    <2>2. b \in Reach /\ Owner[b[1]] = p /\ Owner[b[2]] = n
      BY <1>1, <2>1
    <2> HIDE DEF b
    <2>3. QED BY <1>2, <2>1, <2>2
  <1>4. \A n, p \in Nodes : p \in Neighbours[n] <=> n \in Neighbours[p]
    BY <1>3
  <1>5. ASSUME NEW n \in Nodes PROVE n \notin Neighbours[n] /\ Neighbours[n] \subseteq Nodes
    <2>1. ASSUME n \in Neighbours[n] PROVE FALSE
      <3>1. PICK l \in Reach : Owner[l[1]] = n /\ Owner[l[2]] = n
        BY <1>2, <2>1
      <3>2. QED BY <1>1, <3>1
    <2>2. QED BY <1>2, <2>1
  <1>6. ASSUME NEW l \in Reach PROVE Owner[l[2]] \in Neighbours[Owner[l[1]]]
    <2> DEFINE n == Owner[l[1]]
               p == Owner[l[2]]
    <2>1. n \in Nodes /\ p \in Nodes
      BY <1>1
    <2>2. \E k \in Reach : Owner[k[1]] = n /\ Owner[k[2]] = p
      OBVIOUS
    <2> HIDE DEF n, p
    <2>3. p \in Neighbours[n]
      BY <1>2, <2>1, <2>2
    <2>4. QED BY <2>3 DEF n, p
  <1>7. QED BY <1>1, <1>4, <1>5, <1>6

\* What is sent arrives at every interface in range, and nothing else does.
Arrives(air, air2, n, q) ==
    \A i \in Ifaces :
        \/ InRange(n, i) = {} /\ air2[i] = air[i]
        \/ /\ InRange(n, i) # {} /\ air[i] = <<>>
           /\ \A m : Pending(air2, i, m) <=> Has(q, m)
           /\ \A k \in DOMAIN air2[i] :
                 /\ air2[i][k].sender \in InRange(n, i)
                 /\ \A j \in DOMAIN air2[i][k].messages : \E x \in DOMAIN q : air2[i][k].messages[j] = q[x]

\* That is what SendQueuedMessages does to the air.
LEMMA SentArrives ==
    ASSUME TypeInv, NEW n \in Nodes, SendQueuedMessages(n)
    PROVE  Arrives(arriving, arriving', n, node[n].queue)
  <1> DEFINE q == node[n].queue
             packets == Packets(q)
  <1>1. q \in Seq(Copy)
    BY NodeFields DEF TypeInv
  <1>2. /\ packets \in Seq(Seq(Copy))
        /\ \A k \in DOMAIN packets : \A j \in DOMAIN packets[k] : \E x \in DOMAIN q : packets[k][j] = q[x]
    BY <1>1, PacketsOK
  <1>3. ASSUME NEW i \in Ifaces
        PROVE  /\ InRange(n, i) = {} => arriving'[i] = arriving[i]
               /\ InRange(n, i) # {} => arriving[i] = <<>> /\ arriving'[i] = Heard(n, i, packets)
    BY SocketsInRange DEF SendQueuedMessages
  <1>4. ASSUME NEW m, Has(q, m) PROVE \E k \in DOMAIN packets : Has(packets[k], m)
    BY <1>1, <1>4, PacketsHave
  <1> HIDE DEF packets, q
  <1> SUFFICES ASSUME NEW i \in Ifaces, InRange(n, i) # {}
               PROVE  /\ \A m : Pending(arriving', i, m) <=> Has(q, m)
                      /\ \A k \in DOMAIN arriving'[i] :
                            /\ arriving'[i][k].sender \in InRange(n, i)
                            /\ \A j \in DOMAIN arriving'[i][k].messages :
                                  \E x \in DOMAIN q : arriving'[i][k].messages[j] = q[x]
    BY <1>3 DEF Arrives, q
  <1> DEFINE heard == Heard(n, i, packets)
  <1>5. /\ \A k \in DOMAIN heard : heard[k].sender \in InRange(n, i)
        /\ \A j \in DOMAIN packets : \E k \in DOMAIN heard : heard[k].messages = packets[j]
    BY <1>2, HeardInRange
  <1>6. \A k \in DOMAIN heard : \E j \in DOMAIN packets : heard[k].messages = packets[j]
    BY <1>2, HeardOK
  <1>7. arriving'[i] = heard
    BY <1>3
  <1> HIDE DEF heard
  <1>8. ASSUME NEW k \in DOMAIN heard, NEW j \in DOMAIN heard[k].messages
        PROVE  \E x \in DOMAIN q : heard[k].messages[j] = q[x]
    <2>1. PICK p \in DOMAIN packets : heard[k].messages = packets[p]
      BY <1>6
    <2>2. QED BY <1>2, <1>8, <2>1
  <1>9. ASSUME NEW m, Has(q, m) PROVE Pending(arriving', i, m)
    <2>1. PICK j \in DOMAIN packets : Has(packets[j], m)
      BY <1>4, <1>9
    <2>2. PICK k \in DOMAIN heard : heard[k].messages = packets[j]
      BY <1>5
    <2>3. QED BY <1>7, <2>1, <2>2 DEF Pending
  <1>10. ASSUME NEW m, Pending(arriving', i, m) PROVE Has(q, m)
    <2>1. PICK k \in DOMAIN heard : Has(heard[k].messages, m)
      BY <1>7, <1>10 DEF Pending
    <2>2. PICK j \in DOMAIN heard[k].messages : heard[k].messages[j].id = m
      BY <2>1 DEF Has
    <2>3. PICK x \in DOMAIN q : heard[k].messages[j] = q[x]
      BY <1>8
    <2>4. QED BY <2>2, <2>3 DEF Has
  <1>11. QED BY <1>5, <1>7, <1>8, <1>9, <1>10

\* A node sends its queue to all its neighbours at once: they are told together,
\* before anybody else tells one of them.
LEMMA SendSpread ==
    ASSUME TypeInv, SpreadInv, NEW n \in Nodes, SendQueuedMessages(n)
    PROVE  SpreadInv'
  <1> DEFINE q == node[n].queue
  <1>1. /\ \A p \in Nodes \ {n} : node'[p] = node[p]
        /\ node'[n].queue = <<>> /\ node'[n].processed = node[n].processed
        /\ node'[n].forwarded = node[n].forwarded /\ node'[n].duplicates = node[n].duplicates
        /\ originated' = originated /\ sym' = sym /\ selectors' = selectors
    <2>1. node[n] \in NodeState /\ node \in [Nodes -> NodeState]
      BY DEF TypeInv
    <2>2. node' = [node EXCEPT ![n].queue = <<>>]
      BY DEF SendQueuedMessages, EmptyQueue
    <2>3. /\ originated' = originated /\ sym' = sym /\ selectors' = selectors
      BY DEF SendQueuedMessages, environment
    <2>4. QED BY <2>1, <2>2, <2>3 DEF NodeState
  <1>2. Arrives(arriving, arriving', n, q)
    BY SentArrives
  <1> HIDE DEF q
  <1>3. SameMemory(node, node')
    BY <1>1 DEF SameMemory
  <1>4. /\ \A m : Senders(node', m) = Senders(node, m)
        /\ \A m : \A p \in Nodes : Told(node'[p], m) = Told(node[p], m)
        /\ \A c : Remembered(node', c) = Remembered(node, c)
        /\ \A m : \A t \in Nodes : LeftOut(node', t, m) = LeftOut(node, t, m)
        /\ \A air, m : \A i \in Ifaces : Delivered(node', air, i, m) = Delivered(node, air, i, m)
        /\ \A air, m, u : \A i \in Ifaces : FirstHeard(node', air, u, i, m) = FirstHeard(node, air, u, i, m)
    BY <1>3, MemoryKept
  <1>5. ASSUME NEW i \in Ifaces, NEW m, Pending(arriving, i, m) PROVE arriving'[i] = arriving[i]
    BY <1>2, <1>5 DEF Arrives, Pending
  <1>6. ASSUME NEW i \in Ifaces, NEW m, Delivered(node, arriving, i, m) PROVE Delivered(node, arriving', i, m)
    <2>1. CASE Pending(arriving, i, m)
      BY <1>5, <2>1 DEF Delivered, Pending
    <2>2. CASE ~Pending(arriving, i, m)
      BY <1>6, <2>2 DEF Delivered
    <2>3. QED BY <2>1, <2>2
  <1>7. ASSUME NEW l \in Reach, Owner[l[1]] = n PROVE InRange(n, l[2]) # {} /\ l[2] \in Ifaces
    <2>1. l[1] \in InRange(n, l[2]) /\ l[2] \in Ifaces
      <3>1. l = <<l[1], l[2]>> /\ l[1] \in Ifaces /\ l[2] \in Ifaces
        BY FloodingAssumption
      <3>2. QED BY <1>7, <3>1 DEF InRange
    <2>2. QED BY <2>1
  <1>8. Undisturbed'
    BY <1>1 DEF SpreadInv, Undisturbed
  <1>9. ToldInv(node', originated')
    BY <1>1, <1>3, <1>4 DEF SpreadInv, ToldInv, SameMemory
  <1>10. QueuedInv(node')
    <2>1. \A p \in Nodes : \A k \in DOMAIN node'[p].queue : p # n /\ node'[p] = node[p]
      BY <1>1
    <2>2. QED BY <1>4, <2>1 DEF SpreadInv, QueuedInv
  <1>11. CarriedInv(node', arriving')
    <2> SUFFICES ASSUME NEW i \in Ifaces, NEW k \in DOMAIN arriving'[i]
                 PROVE  /\ <<arriving'[i][k].sender, i>> \in Reach
                        /\ \A j \in DOMAIN arriving'[i][k].messages : Remembered(node, arriving'[i][k].messages[j])
      BY <1>4 DEF CarriedInv
    <2>1. CASE arriving'[i] = arriving[i]
      BY <2>1 DEF SpreadInv, CarriedInv
    <2>2. CASE /\ arriving'[i][k].sender \in InRange(n, i)
               /\ \A j \in DOMAIN arriving'[i][k].messages :
                     \E x \in DOMAIN q : arriving'[i][k].messages[j] = q[x]
      <3>1. \A x \in DOMAIN q : Remembered(node, q[x])
        BY DEF SpreadInv, QueuedInv, q
      <3>2. QED BY <2>2, <3>1 DEF InRange
    <2>3. QED BY <1>2, <2>1, <2>2 DEF Arrives
  <1>12. ReachedInv(node', arriving', originated')
    <2> SUFFICES ASSUME NEW m \in Flooded \cap originated, NEW x \in Senders(node, m), ~Has(node'[x].queue, m),
                        NEW l \in Reach, Owner[l[1]] = x, Owner[l[2]] # Originator[m]
                 PROVE  Delivered(node, arriving', l[2], m)
      <3>1. \A l \in Reach : l[2] \in Ifaces
        BY FloodingAssumption
      <3>2. QED BY <1>1, <1>4, <3>1 DEF ReachedInv
    <2>1. x \in Nodes /\ l[2] \in Ifaces
      BY FloodingAssumption DEF Senders, Forwarders, Flooded
    <2>2. CASE x = n /\ Has(q, m)
      <3>1. Pending(arriving', l[2], m)
        BY <1>2, <1>7, <2>2 DEF Arrives
      <3>2. QED BY <3>1 DEF Delivered
    <2>3. CASE ~(x = n /\ Has(q, m))
      <3>1. ~Has(node[x].queue, m)
        BY <1>1, <2>1, <2>3 DEF q
      <3>2. Delivered(node, arriving, l[2], m)
        BY <3>1 DEF SpreadInv, ReachedInv
      <3>3. QED BY <1>6, <2>1, <3>2
    <2>4. QED BY <2>2, <2>3
  <1>13. FirstInv(node', arriving')
    <2> SUFFICES ASSUME NEW m \in Flooded, NEW t \in Nodes, LeftOut(node, t, m), Near(node, arriving', t, m)
                 PROVE  \E u \in Nodes : TwoHops(u, t) /\ Awaited(node', arriving', u, t, m)
      BY <1>4 DEF FirstInv, Near
    <2>1. \A l \in Reach : l[2] \in Ifaces /\ Owner[l[2]] \in Nodes
      BY FloodingAssumption
    <2>2. CASE Near(node, arriving, t, m)
      <3>1. PICK u \in Nodes : TwoHops(u, t) /\ Awaited(node, arriving, u, t, m)
        BY <2>2 DEF SpreadInv, FirstInv
      <3>2. ASSUME NEW i \in Ifaces, FirstHeard(node, arriving, u, i, m)
            PROVE  FirstHeard(node', arriving', u, i, m)
        <4>1. arriving'[i] = arriving[i]
          BY <1>5, <3>2 DEF FirstHeard
        <4>2. FirstHeard(node, arriving', u, i, m)
          BY <3>2, <4>1 DEF FirstHeard, Pending
        <4>3. QED BY <1>4, <4>2
      <3>3. Awaited(node', arriving', u, t, m)
        BY <2>1, <3>1, <3>2 DEF Awaited
      <3>4. QED BY <3>1, <3>3
    <2>3. CASE ~Near(node, arriving, t, m)
      <3>1. PICK i \in Ifaces : Owner[i] \in Neighbours[t] /\ Delivered(node, arriving', i, m)
        BY DEF Near
      <3>2. ~Delivered(node, arriving, i, m)
        BY <2>3, <3>1 DEF Near
      <3>3. InRange(n, i) # {} /\ Has(q, m)
        BY <1>2, <3>1, <3>2 DEF Arrives, Delivered, Pending
      <3>4. n \in Senders(node, m)
        BY <3>3 DEF SpreadInv, QueuedInv, Has, q
      <3>5. t \notin Senders(node, m)
        <4>1. node[t].forwarded[m] = 0
          BY DEF LeftOut, SpreadInv, ToldInv, Told
        <4>2. QED BY <4>1 DEF LeftOut, Senders, Forwarders
      <3>6. n # t /\ t \notin Neighbours[n]
        BY <3>4, <3>5, NeighboursMutual DEF LeftOut
      <3>7. Owner[i] \in Neighbours[n] /\ t \in Neighbours[Owner[i]]
        <4>1. PICK s \in Ifaces : Owner[s] = n /\ <<s, i>> \in Reach
          BY <3>3 DEF InRange
        <4> DEFINE l == <<s, i>>
        <4>2. l \in Reach /\ l[1] = s /\ l[2] = i
          BY <4>1
        <4> HIDE DEF l
        <4>3. Owner[i] \in Neighbours[n] /\ Owner[i] \in Nodes
          BY <4>1, <4>2, NeighboursMutual
        <4>4. QED BY <3>1, <4>3, NeighboursMutual
      <3>8. TwoHops(n, t)
        BY <3>6, <3>7 DEF TwoHops
      <3>9. ASSUME NEW l \in Reach, Owner[l[1]] = n, t \in Neighbours[Owner[l[2]]]
            PROVE  FirstHeard(node', arriving', n, l[2], m)
        <4> DEFINE h == l[2]
        <4>1. InRange(n, h) # {} /\ h \in Ifaces /\ Owner[h] \in Nodes /\ Owner[h] \in Neighbours[t]
          BY <1>7, <2>1, <3>9, NeighboursMutual
        <4> HIDE DEF h
        <4>2. Pending(arriving', h, m)
          BY <1>2, <3>3, <4>1 DEF Arrives
        <4>3. \A k \in DOMAIN arriving'[h] : Owner[arriving'[h][k].sender] = n
          BY <1>2, <4>1 DEF Arrives, InRange
        <4>4. ~Delivered(node, arriving, h, m)
          BY <2>3, <4>1 DEF Near
        <4>5. ~Knows(node[Owner[h]], m)
          BY <4>1, <4>4 DEF Delivered, SpreadInv, ToldInv, Told
        <4>6. FirstHeard(node, arriving', n, h, m)
          BY <4>2, <4>3, <4>5 DEF FirstHeard, Knows
        <4>7. FirstHeard(node', arriving', n, h, m)
          BY <1>4, <4>1, <4>6
        <4>8. QED BY <4>7 DEF h
      <3>10. Awaited(node', arriving', n, t, m)
        BY <3>9 DEF Awaited
      <3>11. QED BY <3>8, <3>10
    <2>4. QED BY <2>2, <2>3
  <1>14. QED BY <1>8, <1>9, <1>10, <1>11, <1>12, <1>13 DEF SpreadInv

-----------------------------------------------------------------------------
(* A packet is received.                                                   *)

\* Large networks need more time to live: a copy may pass every node but the
\* originator, its receiver and a neighbour of the receiver.
FloodsLiveLong == Cardinality(Nodes) <= MaxTtl + 1

LEMMA MayLiveOn ==
    ASSUME TypeInv, OnceInv, SpreadInv, FloodsLiveLong, NEW i \in Ifaces, NEW k \in DOMAIN arriving[i],
           NEW j \in DOMAIN arriving[i][k].messages, NEW m \in Flooded, arriving[i][k].messages[j].id = m,
           NEW n \in Nodes, NEW t \in Nodes, n # t, n \notin Senders(node, m), t \notin Senders(node, m)
    PROVE  arriving[i][k].messages[j].ttl > 1
  <1> DEFINE c == arriving[i][k].messages[j]
             F == Forwarders(node, m)
             o == Originator[m]
  <1>1. c \in Copy /\ c.ttl \in Int /\ c.hops \in Nat /\ MaxTtl \in Nat
    BY AirTimes, FloodingAssumption DEF Copy
  <1>2. c.ttl + c.hops = MaxTtl
    BY DEF SpreadInv, CarriedInv, Remembered
  <1>3. c.hops <= Cardinality(F) /\ c.id = m
    BY DEF OnceInv, AirInv, UnderWay
  <1>4. m \in Messages /\ o \in Nodes
    BY FloodingAssumption DEF Flooded
  <1>5. o \notin F
    BY <1>4 DEF OnceInv, FloodsInv
  <1>6. n \notin F /\ t \notin F /\ n # o /\ t # o
    BY DEF Senders
  <1>7. IsFiniteSet(F) /\ Cardinality(F) \in Nat /\ F \subseteq Nodes
    BY ForwardersFinite
  <1> HIDE DEF F, o, c
  <1> DEFINE F1 == F \cup {o}
             F2 == F1 \cup {n}
             F3 == F2 \cup {t}
  <1>8. IsFiniteSet(F1) /\ Cardinality(F1) = Cardinality(F) + 1
    BY <1>5, <1>7, FS_AddElement
  <1>9. IsFiniteSet(F2) /\ Cardinality(F2) = Cardinality(F1) + 1
    <2>1. n \notin F1
      BY <1>6
    <2> HIDE DEF F1
    <2>2. QED BY <1>8, <2>1, FS_AddElement
  <1>10. IsFiniteSet(F3) /\ Cardinality(F3) = Cardinality(F2) + 1
    <2>1. t \notin F2
      BY <1>6
    <2> HIDE DEF F2
    <2>2. QED BY <1>9, <2>1, FS_AddElement
  <1>11. F3 \in SUBSET Nodes
    BY <1>4, <1>7
  <1> HIDE DEF F1, F2, F3
  <1>12. Cardinality(F3) <= Cardinality(Nodes) /\ Cardinality(Nodes) \in Nat
    BY <1>11, FloodingAssumption, FS_Subset, FS_CardinalityType
  <1>13. Cardinality(F) + 3 <= MaxTtl + 1
    BY <1>1, <1>7, <1>8, <1>9, <1>10, <1>12 DEF FloodsLiveLong
  <1>14. c.ttl > 1
    BY <1>1, <1>2, <1>3, <1>7, <1>13
  <1>15. QED BY <1>14 DEF c

\* One packet leaves the air.
FirstTaken(air, air2, iface, packet) ==
    /\ \A i \in Ifaces \ {iface} : air2[i] = air[i]
    /\ \A k \in DOMAIN air2[iface] : \E j \in DOMAIN air[iface] : air2[iface][k] = air[iface][j]
    /\ \A j \in DOMAIN air[iface] :
          air[iface][j] = packet \/ \E k \in DOMAIN air2[iface] : air2[iface][k] = air[iface][j]
    /\ \E j \in DOMAIN air[iface] : air[iface][j] = packet

\* What it brought is no longer pending at its receiver.
LEMMA StillPending ==
    ASSUME NEW air, NEW air2, NEW iface, NEW packet, FirstTaken(air, air2, iface, packet), NEW i \in Ifaces, NEW m
    PROVE  Pending(air, i, m) <=> Pending(air2, i, m) \/ (i = iface /\ Has(packet.messages, m))
  <1>1. CASE i # iface
    BY <1>1 DEF FirstTaken, Pending
  <1>2. CASE i = iface
    <2>1. ASSUME Pending(air, i, m) PROVE Pending(air2, i, m) \/ Has(packet.messages, m)
      <3>1. PICK j \in DOMAIN air[i] : Has(air[i][j].messages, m)
        BY <2>1 DEF Pending
      <3>2. CASE air[i][j] = packet
        BY <3>1, <3>2
      <3>3. CASE \E k \in DOMAIN air2[i] : air2[i][k] = air[i][j]
        BY <3>1, <3>3 DEF Pending
      <3>4. QED BY <1>2, <3>2, <3>3 DEF FirstTaken
    <2>2. ASSUME Pending(air2, i, m) PROVE Pending(air, i, m)
      <3>1. PICK k \in DOMAIN air2[i] : Has(air2[i][k].messages, m)
        BY <2>2 DEF Pending
      <3>2. PICK j \in DOMAIN air[i] : air2[i][k] = air[i][j]
        BY <1>2 DEF FirstTaken
      <3>3. QED BY <3>1, <3>2 DEF Pending
    <2>3. ASSUME Has(packet.messages, m) PROVE Pending(air, i, m)
      BY <1>2, <2>3 DEF FirstTaken, Pending
    <2>4. QED BY <1>2, <2>1, <2>2, <2>3
  <1>3. QED BY <1>1, <1>2

\* What RecvOlsr does to its node and to the air.
Received(n, iface, packet) ==
    /\ PacketOK(packet)
    /\ AfterSome(node'[n], node[n], n, iface, packet, Len(packet.messages))
    /\ FirstTaken(arriving, arriving', iface, packet)
    /\ \A p \in Nodes \ {n} : node'[p] = node[p]

\* RecvOlsr takes in the first packet on its interface.
LEMMA RecvEffect ==
    ASSUME TypeInv, SpreadInv, NEW iface \in Ifaces, RecvOlsr(iface)
    PROVE  /\ \E packet : Received(Owner[iface], iface, packet)
           /\ originated' = originated /\ sym' = sym /\ selectors' = selectors
  <1> DEFINE n == Owner[iface]
             packet == Head(arriving[iface])
             new == ReceivePacket(n, iface, packet, node[n])
  <1>1. n \in Nodes /\ NodeOK(node[n]) /\ node[n] \in NodeState /\ node \in [Nodes -> NodeState]
    BY FloodingAssumption DEF TypeInv
  <1>2. /\ arriving[iface] # <<>> /\ arriving[iface] \in Seq(Packet)
        /\ 1 \in DOMAIN arriving[iface] /\ packet = arriving[iface][1] /\ PacketOK(packet)
    <2>1. arriving[iface] # <<>> /\ arriving[iface] \in Seq(Packet)
      BY DEF RecvOlsr, TypeInv
    <2>2. 1 \in DOMAIN arriving[iface] /\ packet = arriving[iface][1]
      BY <2>1
    <2>3. QED BY <2>1, <2>2 DEF TypeInv
  <1>3. /\ node' = [node EXCEPT ![n] = new] /\ arriving' = [arriving EXCEPT ![iface] = Tail(@)]
        /\ originated' = originated /\ sym' = sym /\ selectors' = selectors
    BY DEF RecvOlsr, environment
  <1>4. arriving'[iface] = Tail(arriving[iface]) /\ \A i \in Ifaces \ {iface} : arriving'[i] = arriving[i]
    BY <1>3 DEF TypeInv
  <1>5. <<n, packet.sender>> \in sym
    <2> DEFINE l == <<packet.sender, iface>>
    <2>1. l \in Reach /\ l[1] = packet.sender /\ l[2] = iface
      BY <1>2 DEF SpreadInv, CarriedInv
    <2> HIDE DEF l, packet
    <2>2. <<Owner[l[2]], l[1]>> \in sym
      BY <2>1 DEF SpreadInv, Undisturbed
    <2>3. QED BY <2>1, <2>2
  <1>6. \A m \in Flooded : Told(node[n], m)
    BY <1>1 DEF SpreadInv, ToldInv
  <1>7. \A j \in DOMAIN packet.messages :
            packet.messages[j].id \in Flooded =>
                /\ packet.messages[j].ttl + packet.messages[j].hops = MaxTtl
                /\ node[n].processed[packet.messages[j].id] # 0 => Knows(node[n], packet.messages[j].id)
    BY <1>1, <1>2 DEF SpreadInv, CarriedInv, Remembered
  <1>8. FirstTaken(arriving, arriving', iface, packet)
    <2> DEFINE list == arriving[iface]
    <2>1. /\ Len(list) \in Nat \ {0} /\ DOMAIN list = 1 .. Len(list)
          /\ DOMAIN Tail(list) = 1 .. Len(list) - 1
          /\ \A k \in 1 .. Len(list) - 1 : Tail(list)[k] = list[k + 1]
      BY <1>2
    <2>2. \A k \in 1 .. Len(list) - 1 : k + 1 \in 1 .. Len(list)
      BY <2>1
    <2>3. ASSUME NEW j \in 1 .. Len(list), j # 1 PROVE \E k \in 1 .. Len(list) - 1 : Tail(list)[k] = list[j]
      <3>1. j - 1 \in 1 .. Len(list) - 1 /\ (j - 1) + 1 = j
        BY <2>1, <2>3
      <3> HIDE DEF list
      <3>2. QED BY <2>1, <3>1
    <2>4. \A j \in 1 .. Len(list) :
             list[j] = packet \/ \E k \in 1 .. Len(list) - 1 : Tail(list)[k] = list[j]
      BY <1>2, <2>3
    <2>5. \A k \in 1 .. Len(list) - 1 : \E j \in 1 .. Len(list) : Tail(list)[k] = list[j]
      BY <2>1, <2>2
    <2> HIDE DEF packet
    <2>6. QED BY <1>2, <1>4, <2>1, <2>4, <2>5 DEF FirstTaken
  <1>9. node'[n] = new /\ \A p \in Nodes \ {n} : node'[p] = node[p]
    BY <1>1, <1>3
  <1> HIDE DEF packet, n
  <1>10. AfterSome(new, node[n], n, iface, packet, Len(packet.messages))
    BY <1>1, <1>2, <1>5, <1>6, <1>7, PacketTaken
  <1>11. AfterSome(node'[n], node[n], n, iface, packet, Len(packet.messages))
    BY <1>9, <1>10
  <1> HIDE DEF new
  <1>12. Received(n, iface, packet)
    BY <1>2, <1>8, <1>9, <1>11 DEF Received
  <1>13. QED BY <1>3, <1>12 DEF n

\* What a node knows and has sent after a packet, with the messages it brought.
TookAll(new, old, n, iface, packet, m) ==
    /\ Told(new, m)
    /\ Has(packet.messages, m) /\ Originator[m] # n => new.processed[m] # 0
    /\ new.processed[m] = old.processed[m] \/ Has(packet.messages, m)
    /\ Knows(old, m) => Knows(new, m)
    /\ Has(packet.messages, m) /\ new.processed[m] # 0 => Knows(new, m)
    /\ old.forwarded[m] # 0 => new.forwarded[m] # 0
    /\ new.forwarded[m] # 0 => old.forwarded[m] # 0 \/ Has(new.queue, m)
    /\ Has(old.queue, m) => Has(new.queue, m)
    /\ Has(packet.messages, m) /\ MustRelay(n, iface, packet, old, m) => new.forwarded[m] # 0
    /\ \A d \in new.duplicates : d.id = m => \A i \in d.ifaceList :
          \/ i = iface /\ Has(packet.messages, m)
          \/ \E e \in old.duplicates : e.id = m /\ i \in e.ifaceList

\* That is what RecvOlsr does.
LEMMA TakenAll ==
    ASSUME NEW n, NEW iface, NEW packet, Received(n, iface, packet), NEW m \in Flooded
    PROVE  TookAll(node'[n], node[n], n, iface, packet, m)
  <1>1. DOMAIN packet.messages = 1 .. Len(packet.messages)
    BY DEF Received, PacketOK, Packet
  <1>2. Among(packet, Len(packet.messages), m) <=> Has(packet.messages, m)
    BY <1>1 DEF Among, Has
  <1>3. TakenSoFar(node'[n], node[n], n, iface, packet, Len(packet.messages), m)
    BY DEF Received, AfterSome
  <1>4. QED BY <1>2, <1>3 DEF TakenSoFar, TookAll

\* A flood only goes forward.
LEMMA FloodGrows ==
    ASSUME TypeInv, SpreadInv, NEW iface \in Ifaces, NEW n, n = Owner[iface], NEW packet,
           Received(n, iface, packet), NEW m \in Flooded
    PROVE  /\ Senders(node, m) \subseteq Senders(node', m)
           /\ \A x \in Senders(node', m) : x \in Senders(node, m) \/ (x = n /\ Has(node'[n].queue, m))
           /\ \A p \in Nodes : p # Originator[m] /\ node[p].processed[m] # 0 => node'[p].processed[m] # 0
           /\ \A i \in Ifaces : Owner[i] # Originator[m] /\ Delivered(node, arriving, i, m)
                 => Delivered(node', arriving', i, m)
           /\ \A t \in Nodes : LeftOut(node', t, m) => LeftOut(node, t, m)
           /\ \A t \in Nodes : Near(node', arriving', t, m) => Near(node, arriving, t, m)
  <1>1. n \in Nodes
    BY FloodingAssumption
  <1>2. \A p \in Nodes \ {n} : node'[p] = node[p]
    BY DEF Received
  <1>3. /\ Has(packet.messages, m) /\ Originator[m] # n => node'[n].processed[m] # 0
        /\ node'[n].processed[m] = node[n].processed[m] \/ Has(packet.messages, m)
        /\ node[n].forwarded[m] # 0 => node'[n].forwarded[m] # 0
        /\ node'[n].forwarded[m] # 0 => node[n].forwarded[m] # 0 \/ Has(node'[n].queue, m)
    BY TakenAll DEF TookAll
  <1>4. FirstTaken(arriving, arriving', iface, packet)
    BY DEF Received
  <1>5. Senders(node, m) \subseteq Senders(node', m)
    BY <1>2, <1>3 DEF Senders, Forwarders
  <1>6. ASSUME NEW x \in Senders(node', m) PROVE x \in Senders(node, m) \/ (x = n /\ Has(node'[n].queue, m))
    BY <1>2, <1>3, <1>6 DEF Senders, Forwarders
  <1>7. ASSUME NEW p \in Nodes, p # Originator[m], node[p].processed[m] # 0 PROVE node'[p].processed[m] # 0
    BY <1>2, <1>3, <1>7
  <1>8. \A i \in Ifaces : Pending(arriving, i, m) <=>
            Pending(arriving', i, m) \/ (i = iface /\ Has(packet.messages, m))
    BY <1>4, StillPending
  <1>9. ASSUME NEW i \in Ifaces, Owner[i] # Originator[m], Delivered(node, arriving, i, m)
        PROVE  Delivered(node', arriving', i, m)
    <2>1. Owner[i] \in Nodes
      BY FloodingAssumption
    <2>2. CASE node[Owner[i]].processed[m] # 0
      BY <1>7, <1>9, <2>1, <2>2 DEF Delivered
    <2>3. CASE Pending(arriving', i, m)
      BY <2>3 DEF Delivered
    <2>4. CASE i = iface /\ Has(packet.messages, m)
      <3>1. Owner[i] = n
        BY <2>4
      <3>2. QED BY <1>3, <1>9, <2>4, <3>1 DEF Delivered
    <2>5. QED BY <1>8, <1>9, <2>2, <2>3, <2>4 DEF Delivered
  <1>10. ASSUME NEW t \in Nodes, LeftOut(node', t, m) PROVE LeftOut(node, t, m)
    BY <1>5, <1>7, <1>10 DEF LeftOut
  <1>11. ASSUME NEW t \in Nodes, Near(node', arriving', t, m) PROVE Near(node, arriving, t, m)
    <2>1. PICK i \in Ifaces : Owner[i] \in Neighbours[t] /\ Delivered(node', arriving', i, m)
      BY <1>11 DEF Near
    <2>2. CASE Pending(arriving', i, m)
      BY <1>8, <2>1, <2>2 DEF Near, Delivered
    <2>3. CASE node'[Owner[i]].processed[m] # 0 /\ Owner[i] # n
      <3>1. node'[Owner[i]] = node[Owner[i]]
        BY <1>2, <2>3, FloodingAssumption
      <3>2. QED BY <2>1, <2>3, <3>1 DEF Near, Delivered
    <2>4. CASE node'[Owner[i]].processed[m] # 0 /\ Owner[i] = n
      <3>1. CASE node[n].processed[m] # 0
        BY <2>1, <2>4, <3>1 DEF Near, Delivered
      <3>2. CASE Has(packet.messages, m)
        <4>1. Pending(arriving, iface, m)
          BY <1>8, <3>2
        <4>2. Owner[iface] \in Neighbours[t]
          BY <2>1, <2>4
        <4>3. QED BY <4>1, <4>2 DEF Near, Delivered
      <3>3. QED BY <1>3, <2>4, <3>1, <3>2
    <2>5. QED BY <2>1, <2>2, <2>3, <2>4 DEF Delivered
  <1>12. QED BY <1>5, <1>6, <1>7, <1>9, <1>10, <1>11

\* Nobody forgets a message that is under way.
LEMMA StillRemembered ==
    ASSUME NEW n \in Nodes, NEW iface, NEW packet, Received(n, iface, packet),
           NEW copy, Remembered(node, copy)
    PROVE  Remembered(node', copy)
  <1> SUFFICES ASSUME copy.id \in Flooded, NEW p \in Nodes, node'[p].processed[copy.id] # 0
               PROVE  Knows(node'[p], copy.id)
    BY DEF Remembered
  <1>1. CASE p # n
    BY <1>1 DEF Received, Remembered
  <1>2. CASE p = n
    <2>1. /\ node'[n].processed[copy.id] = node[n].processed[copy.id] \/ Has(packet.messages, copy.id)
          /\ Knows(node[n], copy.id) => Knows(node'[n], copy.id)
          /\ Has(packet.messages, copy.id) /\ node'[n].processed[copy.id] # 0 => Knows(node'[n], copy.id)
      BY TakenAll DEF TookAll
    <2>2. QED BY <1>2, <2>1 DEF Remembered
  <1>3. QED BY <1>1, <1>2

\* A relay that the first sender waits for cannot take the message in without
\* sending it on.
LEMMA StillFirst ==
    ASSUME TypeInv, OnceInv, SpreadInv, FloodsLiveLong, NEW iface \in Ifaces, NEW n, n = Owner[iface],
           NEW packet, Received(n, iface, packet), NEW m \in Flooded, NEW t \in Nodes,
           LeftOut(node', t, m), NEW u \in Nodes, NEW i \in Ifaces, t \in Neighbours[Owner[i]],
           <<Owner[i], u>> \in Selectors, FirstHeard(node, arriving, u, i, m)
    PROVE  FirstHeard(node', arriving', u, i, m)
  <1>1. n \in Nodes /\ Owner[i] \in Nodes
    BY FloodingAssumption
  <1>2. FirstTaken(arriving, arriving', iface, packet) /\ \A p \in Nodes \ {n} : node'[p] = node[p]
    BY DEF Received
  <1>3. LeftOut(node, t, m)
    BY FloodGrows
  <1>4. /\ Has(packet.messages, m) /\ MustRelay(n, iface, packet, node[n], m) => node'[n].forwarded[m] # 0
        /\ \A d \in node'[n].duplicates : d.id = m => \A h \in d.ifaceList :
              \/ h = iface /\ Has(packet.messages, m)
              \/ \E e \in node[n].duplicates : e.id = m /\ h \in e.ifaceList
    BY TakenAll DEF TookAll
  <1>5. Pending(arriving, i, m) <=> Pending(arriving', i, m) \/ (i = iface /\ Has(packet.messages, m))
    BY <1>2, StillPending
  <1>6. ASSUME i = iface, Has(packet.messages, m) PROVE FALSE
    <2>1. n \in Neighbours[t] /\ n # t
      BY <1>1, <1>6, NeighboursMutual
    <2>2. n \notin Senders(node, m) /\ n \notin Senders(node', m)
      BY <1>3, <2>1 DEF LeftOut
    <2>3. t \notin Senders(node, m)
      <3>1. node[t].forwarded[m] = 0
        BY <1>3 DEF LeftOut, SpreadInv, ToldInv, Told
      <3>2. QED BY <1>3, <3>1 DEF LeftOut, Senders, Forwarders
    <2>4. PICK k \in DOMAIN arriving[iface] : arriving[iface][k] = packet
      BY <1>2 DEF FirstTaken
    <2>5. ASSUME NEW j \in DOMAIN packet.messages, packet.messages[j].id = m PROVE packet.messages[j].ttl > 1
      <3>1. j \in DOMAIN arriving[iface][k].messages /\ arriving[iface][k].messages[j].id = m
        BY <2>4, <2>5
      <3>2. arriving[iface][k].messages[j].ttl > 1
        BY <1>1, <2>1, <2>2, <2>3, <3>1, MayLiveOn
      <3>3. QED BY <2>4, <3>2
    <2>6. Owner[packet.sender] = u
      BY <1>6, <2>4 DEF FirstHeard
    <2>7. <<n, u>> \in selectors
      BY <1>6 DEF SpreadInv, Undisturbed
    <2>8. \A d \in node[n].duplicates : d.id = m => iface \notin d.ifaceList
      BY <1>6 DEF FirstHeard
    <2>9. Originator[m] # n
      BY <2>2 DEF Senders
    <2>10. MustRelay(n, iface, packet, node[n], m)
      BY <2>5, <2>6, <2>7, <2>8, <2>9 DEF MustRelay
    <2>11. n \in Senders(node', m)
      BY <1>1, <1>4, <1>6, <2>10 DEF Senders, Forwarders
    <2>12. QED BY <2>2, <2>11
  <1>7. Pending(arriving', i, m)
    BY <1>5, <1>6 DEF FirstHeard
  <1>8. ASSUME NEW k \in DOMAIN arriving'[i] PROVE Owner[arriving'[i][k].sender] = u
    <2>1. \E j \in DOMAIN arriving[i] : arriving'[i][k] = arriving[i][j]
      BY <1>2, <1>8 DEF FirstTaken
    <2>2. QED BY <2>1 DEF FirstHeard
  <1>9. ASSUME NEW d \in node'[Owner[i]].duplicates, d.id = m PROVE i \notin d.ifaceList
    <2>1. CASE Owner[i] # n
      BY <1>1, <1>2, <1>9, <2>1 DEF FirstHeard
    <2>2. CASE Owner[i] = n
      <3>1. ASSUME i \in d.ifaceList PROVE FALSE
        <4>1. \E e \in node[n].duplicates : e.id = m /\ i \in e.ifaceList
          BY <1>4, <1>6, <1>9, <2>2, <3>1
        <4>2. QED BY <2>2, <4>1 DEF FirstHeard
      <3>2. QED BY <3>1
    <2>3. QED BY <2>1, <2>2
  <1>10. QED BY <1>7, <1>8, <1>9 DEF FirstHeard

\* RecvOlsr keeps the third invariant.
LEMMA RecvSpread ==
    ASSUME TypeInv, OnceInv, SpreadInv, FloodsLiveLong, NEW iface \in Ifaces, RecvOlsr(iface)
    PROVE  SpreadInv'
  <1> DEFINE n == Owner[iface]
  <1>1. n \in Nodes
    BY FloodingAssumption
  <1>2. PICK packet : Received(n, iface, packet) /\ originated' = originated /\ sym' = sym /\ selectors' = selectors
    BY RecvEffect
  <1>3. n = Owner[iface]
    OBVIOUS
  <1> HIDE DEF n
  <1>4. ASSUME NEW m \in Flooded
        PROVE  /\ Senders(node, m) \subseteq Senders(node', m)
               /\ \A x \in Senders(node', m) : x \in Senders(node, m) \/ (x = n /\ Has(node'[n].queue, m))
               /\ \A i \in Ifaces : Owner[i] # Originator[m] /\ Delivered(node, arriving, i, m)
                     => Delivered(node', arriving', i, m)
               /\ \A t \in Nodes : LeftOut(node', t, m) => LeftOut(node, t, m)
               /\ \A t \in Nodes : Near(node', arriving', t, m) => Near(node, arriving, t, m)
    BY <1>2, <1>3, FloodGrows
  <1>5. ASSUME NEW m \in Flooded
        PROVE  /\ Told(node'[n], m)
               /\ node'[n].processed[m] = node[n].processed[m] \/ Has(packet.messages, m)
               /\ Has(node[n].queue, m) => Has(node'[n].queue, m)
               /\ Has(packet.messages, m) /\ node'[n].processed[m] # 0 => Knows(node'[n], m)
    BY <1>2, TakenAll DEF TookAll
  <1>6. FirstTaken(arriving, arriving', iface, packet) /\ \A p \in Nodes \ {n} : node'[p] = node[p]
    BY <1>2 DEF Received
  <1>7. PICK at \in DOMAIN arriving[iface] : arriving[iface][at] = packet
    BY <1>6 DEF FirstTaken
  <1>8. ASSUME NEW copy, Remembered(node, copy) PROVE Remembered(node', copy)
    BY <1>1, <1>2, <1>8, StillRemembered
  <1>9. Undisturbed'
    BY <1>2 DEF SpreadInv, Undisturbed
  <1>10. ToldInv(node', originated')
    <2>1. ASSUME NEW p \in Nodes, NEW m \in Flooded PROVE Told(node'[p], m)
      BY <1>5, <1>6 DEF SpreadInv, ToldInv
    <2>2. ASSUME NEW m \in Flooded \ originated, NEW p \in Nodes PROVE node'[p].processed[m] = 0
      <3>1. ~Has(packet.messages, m)
        BY <1>7 DEF OnceInv, AirInv, UnderWay, Has
      <3>2. node[p].processed[m] = 0
        BY DEF SpreadInv, ToldInv
      <3>3. QED BY <1>5, <1>6, <3>1, <3>2
    <2>3. QED BY <1>2, <2>1, <2>2 DEF ToldInv
  <1>11. QueuedInv(node')
    <2> SUFFICES ASSUME NEW p \in Nodes, NEW k \in DOMAIN node'[p].queue
                 PROVE  /\ Remembered(node', node'[p].queue[k])
                        /\ node'[p].queue[k].id \in Flooded => p \in Senders(node', node'[p].queue[k].id)
      BY DEF QueuedInv
    <2>1. CASE k \in DOMAIN node[p].queue /\ node'[p].queue[k] = node[p].queue[k]
      BY <1>4, <1>8, <2>1 DEF SpreadInv, QueuedInv
    <2>2. CASE p = n /\ QueuedOn(node'[n], node[n], packet, node'[p].queue[k])
      <3> DEFINE copy == node'[p].queue[k]
      <3> SUFFICES ASSUME copy.id \in Flooded PROVE Remembered(node', copy) /\ p \in Senders(node', copy.id)
        BY DEF Remembered
      <3>1. copy.ttl + copy.hops = MaxTtl /\ node'[n].forwarded[copy.id] # 0 /\ Has(packet.messages, copy.id)
        BY <2>2 DEF QueuedOn
      <3>2. PICK j \in DOMAIN packet.messages : packet.messages[j].id = copy.id
        BY <3>1 DEF Has
      <3>3. Remembered(node, packet.messages[j])
        BY <1>7, <3>2 DEF SpreadInv, CarriedInv
      <3>4. Remembered(node', packet.messages[j])
        BY <1>8, <3>3
      <3> HIDE DEF copy
      <3>5. Remembered(node', copy)
        BY <3>1, <3>2, <3>4 DEF Remembered
      <3>6. QED BY <1>1, <2>2, <3>1, <3>5 DEF Senders, Forwarders
    <2>3. QED BY <1>2, <1>6, <2>1, <2>2 DEF Received, AfterSome
  <1>12. CarriedInv(node', arriving')
    <2> SUFFICES ASSUME NEW i \in Ifaces, NEW k \in DOMAIN arriving'[i]
                 PROVE  /\ <<arriving'[i][k].sender, i>> \in Reach
                        /\ \A j \in DOMAIN arriving'[i][k].messages : Remembered(node', arriving'[i][k].messages[j])
      BY DEF CarriedInv
    <2>1. PICK j \in DOMAIN arriving[i] : arriving'[i][k] = arriving[i][j]
      BY <1>6 DEF FirstTaken
    <2>2. QED BY <1>8, <2>1 DEF SpreadInv, CarriedInv
  <1>13. ReachedInv(node', arriving', originated')
    <2> SUFFICES ASSUME NEW m \in Flooded \cap originated, NEW x \in Senders(node', m), ~Has(node'[x].queue, m),
                        NEW l \in Reach, Owner[l[1]] = x, Owner[l[2]] # Originator[m]
                 PROVE  Delivered(node', arriving', l[2], m)
      BY <1>2 DEF ReachedInv
    <2>1. x \in Nodes /\ l[2] \in Ifaces
      BY FloodingAssumption DEF Senders, Forwarders, Flooded
    <2>2. x \in Senders(node, m)
      BY <1>4
    <2>3. ~Has(node[x].queue, m)
      BY <1>5, <1>6, <2>1
    <2>4. Delivered(node, arriving, l[2], m)
      BY <2>2, <2>3 DEF SpreadInv, ReachedInv
    <2>5. QED BY <1>4, <2>1, <2>4
  <1>14. FirstInv(node', arriving')
    <2> SUFFICES ASSUME NEW m \in Flooded, NEW t \in Nodes, LeftOut(node', t, m), Near(node', arriving', t, m)
                 PROVE  \E u \in Nodes : TwoHops(u, t) /\ Awaited(node', arriving', u, t, m)
      BY DEF FirstInv
    <2>1. PICK u \in Nodes : TwoHops(u, t) /\ Awaited(node, arriving, u, t, m)
      BY <1>4 DEF SpreadInv, FirstInv
    <2>2. ASSUME NEW l \in Reach, Owner[l[1]] = u, t \in Neighbours[Owner[l[2]]], <<Owner[l[2]], u>> \in Selectors
          PROVE  FirstHeard(node', arriving', u, l[2], m)
      <3> DEFINE i == l[2]
      <3>1. i \in Ifaces /\ t \in Neighbours[Owner[i]] /\ <<Owner[i], u>> \in Selectors
        BY <2>2, FloodingAssumption
      <3>2. FirstHeard(node, arriving, u, i, m)
        BY <2>1, <2>2 DEF Awaited
      <3> HIDE DEF i
      <3>3. FirstHeard(node', arriving', u, i, m)
        BY <1>2, <1>3, <3>1, <3>2, StillFirst
      <3>4. QED BY <3>3 DEF i
    <2>3. Awaited(node', arriving', u, t, m)
      BY <2>2 DEF Awaited
    <2>4. QED BY <2>1, <2>3
  <1>15. QED BY <1>9, <1>10, <1>11, <1>12, <1>13, <1>14 DEF SpreadInv

-----------------------------------------------------------------------------
(* The third invariant always holds: what follows when a flood is over.    *)

\* The third invariant is inductive, given the others.
LEMMA CompleteStep ==
    FloodsAreShort /\ FloodsLiveLong /\ TypeInv /\ OnceInv /\ CompleteInv /\ [Next]_vars => CompleteInv'
  <1> SUFFICES ASSUME FloodsAreShort, FloodsLiveLong, TypeInv, OnceInv, CompleteInv, [Next]_vars,
                      disturbances' = 0
               PROVE  SpreadInv'
    BY DEF CompleteInv
  <1>1. CASE \E m \in Messages : Originate(m)
    <2>1. PICK m \in Messages : Originate(m)
      BY <1>1
    <2>2. SpreadInv
      BY <2>1 DEF CompleteInv, Originate, environment
    <2>3. QED BY <2>1, <2>2, OriginateSpread
  <1>2. CASE \E n \in Nodes : SendQueuedMessages(n)
    <2>1. PICK n \in Nodes : SendQueuedMessages(n)
      BY <1>2
    <2>2. SpreadInv
      BY <2>1 DEF CompleteInv, SendQueuedMessages, environment
    <2>3. QED BY <2>1, <2>2, SendSpread
  <1>3. CASE \E i \in Ifaces : RecvOlsr(i)
    <2>1. PICK i \in Ifaces : RecvOlsr(i)
      BY <1>3
    <2>2. SpreadInv
      BY <2>1 DEF CompleteInv, RecvOlsr, environment
    <2>3. QED BY <2>1, <2>2, RecvSpread
  <1>4. CASE \E n \in Nodes : \E t \in node[n].timers : DupTupleTimerExpire(n, t)
    <2>1. PICK n \in Nodes : \E t \in node[n].timers : DupTupleTimerExpire(n, t)
      BY <1>4
    <2>2. PICK t \in node[n].timers : DupTupleTimerExpire(n, t)
      BY <2>1
    <2>3. SpreadInv
      BY <2>2 DEF CompleteInv, DupTupleTimerExpire, environment
    <2>4. QED BY <2>2, <2>3, ExpireSpread
  <1>5. disturbances \in Nat /\ ~Disturb
    <2>1. disturbances \in Nat
      BY FloodingAssumption DEF TypeInv
    <2>2. disturbances + 1 # 0
      BY <2>1
    <2>3. QED BY <2>1, <2>2 DEF Disturb
  <1>6. CASE \E i \in Ifaces : Lose(i)
    BY <1>5, <1>6 DEF Lose
  <1>7. CASE \E n \in Nodes : \E s \in Ifaces : Owner[s] \in Neighbours[n] /\ LinkChange(n, s)
    BY <1>5, <1>7 DEF LinkChange
  <1>8. CASE \E n \in Nodes : \E m \in Neighbours[n] : SelectorChange(n, m)
    BY <1>5, <1>8 DEF SelectorChange
  <1>9. CASE Tick
    <2>1. SpreadInv
      BY <1>9 DEF CompleteInv, Tick, environment
    <2>2. QED BY <1>9, <2>1, TickSpread
  <1>10. CASE UNCHANGED vars
    <2>1. /\ node' = node /\ arriving' = arriving /\ originated' = originated
          /\ sym' = sym /\ selectors' = selectors /\ disturbances' = disturbances
      BY <1>10 DEF vars
    <2>2. SpreadInv
      BY <2>1 DEF CompleteInv
    <2>3. Undisturbed'
      BY <2>1, <2>2 DEF SpreadInv, Undisturbed
    <2>4. QED BY <2>1, <2>2, <2>3 DEF SpreadInv
  <1>11. QED BY <1>1, <1>2, <1>3, <1>4, <1>6, <1>7, <1>8, <1>9, <1>10 DEF Next

\* There is a way from every node to every other: no set of nodes has no link
\* to the rest.
Connected ==
    \A A \in SUBSET Nodes : A # {} /\ A # Nodes => \E p \in A, t \in Nodes \ A : t \in Neighbours[p]

\* Of the nodes next to those that have the message, one is told by none that
\* sent it: it would have to wait for a relay, but nothing is under way.
LEMMA AllTold ==
    ASSUME TypeInv, SpreadInv, Connected, Covered, NEW m \in originated \ Hellos, ~InFlight(m)
    PROVE  \A n \in Nodes \ {Originator[m]} : node[n].processed[m] # 0
  <1> DEFINE A == {n \in Nodes : n = Originator[m] \/ node[n].processed[m] # 0}
  <1>1. m \in Flooded /\ m \in originated /\ Originator[m] \in Nodes
    BY FloodingAssumption DEF TypeInv, Flooded
  <1>2. \A i \in Ifaces : ~Pending(arriving, i, m)
    BY DEF InFlight, Pending, Has, Range
  <1>3. \A n \in Nodes : ~Has(node[n].queue, m)
    BY DEF InFlight, Has
  <1> SUFFICES ASSUME A # Nodes PROVE FALSE
    OBVIOUS
  <1>4. A \in SUBSET Nodes /\ A # {}
    BY <1>1
  <1>5. PICK p \in A, t \in Nodes \ A : t \in Neighbours[p]
    BY <1>4 DEF Connected
  <1>6. t # Originator[m] /\ node[t].processed[m] = 0 /\ p \in Nodes
    BY <1>5
  <1>7. p \in Neighbours[t]
    BY <1>5, <1>6, NeighboursMutual
  <1>8. p = Originator[m] \/ node[p].processed[m] # 0
    BY <1>5
  <1> HIDE DEF A
  <1>9. \A i \in Ifaces : Delivered(node, arriving, i, m) <=> node[Owner[i]].processed[m] # 0
    BY <1>2 DEF Delivered
  <1>10. ASSUME NEW x \in Neighbours[t], x \in Senders(node, m) PROVE FALSE
    <2>1. x \in Nodes /\ t \in Neighbours[x]
      BY <1>10, NeighboursMutual
    <2>2. PICK l \in Reach : Owner[l[1]] = x /\ Owner[l[2]] = t
      BY <2>1 DEF Neighbours
    <2>3. Delivered(node, arriving, l[2], m) /\ l[2] \in Ifaces
      BY <1>1, <1>3, <1>6, <1>10, <2>1, <2>2, FloodingAssumption DEF SpreadInv, ReachedInv
    <2>4. QED BY <1>6, <1>9, <2>2, <2>3
  <1>11. LeftOut(node, t, m)
    BY <1>6, <1>10 DEF LeftOut
  <1>12. node[p].processed[m] # 0
    BY <1>7, <1>8, <1>10 DEF Senders
  <1>13. Near(node, arriving, t, m)
    <2>1. PICK l \in Reach : Owner[l[1]] = t /\ Owner[l[2]] = p
      BY <1>7 DEF Neighbours
    <2>2. l[2] \in Ifaces
      BY FloodingAssumption
    <2>3. QED BY <1>7, <1>9, <1>12, <2>1, <2>2 DEF Near
  <1>14. PICK u \in Nodes : TwoHops(u, t) /\ Awaited(node, arriving, u, t, m)
    BY <1>1, <1>11, <1>13 DEF SpreadInv, FirstInv
  <1>15. PICK relay \in Neighbours[u] : t \in Neighbours[relay] /\ <<relay, u>> \in Selectors
    <2>1. PICK r \in Neighbours[u] : t \in Neighbours[r]
      BY <1>14 DEF TwoHops
    <2>2. t \in Neighbours[r] \ (Neighbours[u] \cup {u})
      BY <1>14, <2>1 DEF TwoHops
    <2>3. QED BY <2>1, <2>2 DEF Covered
  <1>16. PICK l \in Reach : Owner[l[1]] = u /\ Owner[l[2]] = relay
    BY <1>15 DEF Neighbours
  <1>17. FirstHeard(node, arriving, u, l[2], m)
    BY <1>14, <1>15, <1>16 DEF Awaited
  <1>18. QED BY <1>2, <1>17, FloodingAssumption DEF FirstHeard

\* Flooding by MPRs alone reaches every node of a connected network, once, if
\* nothing is lost and nothing changes: as long as a flood cannot outlast the
\* tuples that remember it, and its time to live is enough for its nodes.
THEOREM FloodsReachAll ==
    ASSUME FloodsAreShort, FloodsLiveLong, Connected
    PROVE  Spec => []FloodComplete
  <1>1. TypeInv /\ CompleteInv => FloodComplete
    <2> SUFFICES ASSUME TypeInv, SpreadInv, Covered, NEW m \in originated \ Hellos, ~InFlight(m),
                        NEW n \in Nodes \ {Originator[m]}
                 PROVE  node[n].processed[m] = 1
      BY DEF FloodComplete, CompleteInv
    <2>1. node[n].processed[m] # 0
      BY AllTold
    <2>2. m \in Flooded
      BY DEF TypeInv, Flooded
    <2>3. QED BY <2>1, <2>2 DEF SpreadInv, ToldInv, Told
  <1>2. Init => CompleteInv
    BY SpreadInit DEF CompleteInv
  <1>3. TypeInv /\ OnceInv /\ [Next]_vars => OnceInv'
    BY OnceStep
  <1>4. TypeInv /\ OnceInv /\ CompleteInv /\ [Next]_vars => CompleteInv'
    BY CompleteStep
  <1>5. QED BY <1>1, <1>2, <1>3, <1>4, OnceInit, AlwaysTypeInv, PTL DEF Spec

=============================================================================
