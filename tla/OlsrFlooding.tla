---------------------------- MODULE OlsrFlooding ----------------------------
(***************************************************************************)
(* How OLSR messages spread: the message queue of every node, the packets  *)
(* it broadcasts, the duplicate set and the default forwarding algorithm.  *)
(*                                                                         *)
(* Interfaces stand for their addresses.  Which links are symmetric and    *)
(* which neighbours have selected a node as MPR is the work of other       *)
(* components; here it is given, and may change.  A broadcast reaches      *)
(* every interface in range before the next one there: the channel is      *)
(* shared.                                                                 *)
(*                                                                         *)
(* A tick stands both for the microsecond DELAY() adds to a deadline and   *)
(* for the unit JITTER is counted in.                                      *)
(***************************************************************************)
EXTENDS Integers, Sequences, FiniteSets, SequencesExt

CONSTANTS
    Nodes,
    Ifaces, Owner,   \* interface addresses and the node of each, GetMainAddress
    Reach,           \* pairs of interfaces in radio range
    Messages,        \* message ids: originator address and sequence number
    Originator,      \* [Messages -> Nodes]
    Hellos,          \* the messages of type HELLO_MESSAGE; the others are flooded
    MaxTtl,          \* time to live of the others; that of a HELLO is 1
    Selectors,       \* pairs <<n, m>>: m has selected n as MPR, at the start
    OLSR_MAX_MSGS,
    OLSR_DUP_HOLD_TIME,
    MaxJitter,       \* OLSR_MAXJITTER
    MaxDisturbances  \* bound: losses and changes of the neighbourhood

ASSUME FloodingAssumption ==
    /\ IsFiniteSet(Nodes) /\ IsFiniteSet(Ifaces)
    /\ Owner \in [Ifaces -> Nodes]
    /\ Reach \subseteq Ifaces \X Ifaces
    /\ \A l \in Reach : <<l[2], l[1]>> \in Reach /\ Owner[l[1]] # Owner[l[2]]
    /\ Originator \in [Messages -> Nodes]
    /\ Hellos \subseteq Messages
    /\ Selectors \subseteq Nodes \X Nodes
    /\ MaxTtl \in Nat \ {0} /\ OLSR_MAX_MSGS \in Nat \ {0}
    /\ OLSR_DUP_HOLD_TIME \in Nat /\ MaxJitter \in Nat /\ MaxDisturbances \in Nat

VARIABLES
    node,          \* [Nodes -> NodeState]
    queueTimer,    \* [Nodes -> ticks until m_queuedMessagesTimer, or NotRunning]
    arriving,      \* [Ifaces -> packets heard and not yet received, in order]
    sym,           \* pairs <<n, s>>: n has a symmetric link tuple for address s
    selectors,     \* pairs <<n, m>>: m is in the MPR selector set of n
    originated,    \* messages that were generated
    disturbances   \* history: how often the environment lost or changed something

vars == <<node, queueTimer, arriving, sym, selectors, originated, disturbances>>
environment == <<sym, selectors, disturbances>>

NotRunning == -1
Seen == 0 .. 2  \* the history counts to 2, all the properties tell apart
Once(k) == IF k < 2 THEN k + 1 ELSE k

Copy == [id : Messages, ttl : 1 .. MaxTtl, hops : 0 .. MaxTtl - 1]
DuplicateTuple == [id : Messages, retransmitted : BOOLEAN, ifaceList : SUBSET Ifaces,
                   left : -1 .. OLSR_DUP_HOLD_TIME]
DupTimer == [id : Messages, left : 0 .. OLSR_DUP_HOLD_TIME + 1]
Packet == [sender : Ifaces, messages : Seq(Copy)]

\* m_queuedMessages, m_state.m_duplicateSet and its events; how often each
\* message was processed and queued again is history.
NodeState == [queue : Seq(Copy), duplicates : SUBSET DuplicateTuple,
              timers : SUBSET DupTimer,
              processed : [Messages -> Seen], forwarded : [Messages -> Seen]]

Neighbours == [n \in Nodes |->
    {m \in Nodes : \E l \in Reach : Owner[l[1]] = n /\ Owner[l[2]] = m}]

Init ==
    /\ node = [n \in Nodes |->
          [queue |-> <<>>, duplicates |-> {}, timers |-> {},
           processed |-> [m \in Messages |-> 0], forwarded |-> [m \in Messages |-> 0]]]
    /\ queueTimer = [n \in Nodes |-> NotRunning]
    /\ arriving = [i \in Ifaces |-> <<>>]
    /\ sym = {p \in Nodes \X Ifaces : \E l \in Reach : l[1] = p[2] /\ Owner[l[2]] = p[1]}
    /\ selectors = Selectors
    /\ originated = {}
    /\ disturbances = 0

-----------------------------------------------------------------------------
(* The queue.                                                              *)

\* QueueMessage starts the timer unless it runs.
StartQueueTimer(n, state) ==
    IF queueTimer[n] = NotRunning /\ state.queue # <<>>
      THEN \E jitter \in 0 .. MaxJitter : queueTimer' = [queueTimer EXCEPT ![n] = jitter]
      ELSE UNCHANGED queueTimer

\* SendHello, SendTc, SendMid or SendHna of m's originator.
Originate(m) ==
    LET n == Originator[m]
        copy == [id |-> m, ttl |-> IF m \in Hellos THEN 1 ELSE MaxTtl, hops |-> 0]
    IN  /\ m \notin originated
        /\ originated' = originated \cup {m}
        /\ node' = [node EXCEPT ![n].queue = Append(@, copy)]
        /\ StartQueueTimer(n, node'[n])
        /\ UNCHANGED <<arriving, environment>>

\* The messages of a queue in packets of OLSR_MAX_MSGS and a last one.
Packets(q) ==
    [k \in 1 .. (Len(q) + OLSR_MAX_MSGS - 1) \div OLSR_MAX_MSGS |->
        SubSeq(q, (k - 1) * OLSR_MAX_MSGS + 1, Min({k * OLSR_MAX_MSGS, Len(q)}))]

\* The interfaces of n that can be heard on iface, in the order of m_sendSockets.
SendSockets == [n \in Nodes |-> [iface \in Ifaces |->
    SetToSeq({s \in Ifaces : Owner[s] = n /\ <<s, iface>> \in Reach})]]

\* SendPacket broadcasts each packet through every interface of n.
Heard(n, iface, packets) ==
    LET sockets == SendSockets[n][iface]
    IN  [k \in 1 .. Len(packets) * Len(sockets) |->
            [sender |-> sockets[((k - 1) % Len(sockets)) + 1],
             messages |-> packets[((k - 1) \div Len(sockets)) + 1]]]

\* mutant: the queue is not cleared
KeepQueue(n) == node

EmptyQueue(n) == [node EXCEPT ![n].queue = <<>>]

\* The channel is free where n can be heard.
SendQueuedMessages(n) ==
    LET inRange == {i \in Ifaces : SendSockets[n][i] # <<>>}
    IN  /\ queueTimer[n] = 0
        /\ \A i \in inRange : arriving[i] = <<>>
        /\ arriving' = [i \in Ifaces |-> IF i \in inRange
              THEN Heard(n, i, Packets(node[n].queue)) ELSE arriving[i]]
        /\ node' = EmptyQueue(n)
        /\ queueTimer' = [queueTimer EXCEPT ![n] = NotRunning]
        /\ UNCHANGED <<originated, environment>>

-----------------------------------------------------------------------------
(* Reception.                                                              *)

\* mutant: any copy counts as not yet retransmitted
NeverRetransmitted(state, m) == FALSE

AlreadyRetransmitted(state, m) ==
    \E t \in state.duplicates : t.id = m /\ t.retransmitted

\* mutant: the originator, not the sender, must have selected n
OriginatorSelected(n, sender, copy) ==
    copy.ttl > 1 /\ <<n, Originator[copy.id]>> \in selectors

\* mutant: a copy is sent on however little time it has to live
SelectedByTheSender(n, sender, copy) == <<n, Owner[sender]>> \in selectors

MustRetransmit(n, sender, copy) ==
    copy.ttl > 1 /\ <<n, Owner[sender]>> \in selectors

\* The last part of ForwardDefault: the tuple of m is updated, or created with
\* an event at its deadline.
RecordDuplicate(state, m, iface, retransmitted) ==
    LET old == {t \in state.duplicates : t.id = m}
    IN  [state EXCEPT
          !.duplicates = (@ \ old) \cup
             {[id |-> m, retransmitted |-> retransmitted,
               ifaceList |-> {iface} \cup UNION {t.ifaceList : t \in old},
               left |-> OLSR_DUP_HOLD_TIME]},
          !.timers = IF old = {} THEN @ \cup {[id |-> m, left |-> OLSR_DUP_HOLD_TIME]} ELSE @]

Forwarded(copy) == [id |-> copy.id, ttl |-> copy.ttl - 1, hops |-> copy.hops + 1]

QueueAgain(state, copy) ==
    [state EXCEPT !.queue = Append(@, Forwarded(copy)), !.forwarded[copy.id] = Once(@)]

ForwardDefault(n, iface, sender, state, copy) ==
    LET retransmitted == MustRetransmit(n, sender, copy)
        queued == IF retransmitted THEN QueueAgain(state, copy) ELSE state
    IN  IF <<n, sender>> \notin sym \/ AlreadyRetransmitted(state, copy.id)
          THEN state
          ELSE RecordDuplicate(queued, copy.id, iface, retransmitted)

\* do_forwarding: the message was not yet considered on this interface.
DoForwarding(state, m, iface) ==
    ~\E t \in state.duplicates : t.id = m /\ iface \in t.ifaceList

\* One message of a packet: ProcessHello and the like, then forwarding.
ReceiveMessage(n, iface, sender, state, copy) ==
    LET new == ~\E t \in state.duplicates : t.id = copy.id
        read == IF new THEN [state EXCEPT !.processed[copy.id] = Once(@)] ELSE state
    IN  IF copy.ttl = 0 \/ Originator[copy.id] = n THEN state
        ELSE IF copy.id \notin Hellos /\ DoForwarding(state, copy.id, iface)
          THEN ForwardDefault(n, iface, sender, read, copy)
          ELSE read

\* The messages of one packet, in their order.
ReceivePacket(n, iface, packet, state) ==
    LET after[k \in 0 .. Len(packet.messages)] ==
          IF k = 0 THEN state
          ELSE ReceiveMessage(n, iface, packet.sender, after[k - 1], packet.messages[k])
    IN  after[Len(packet.messages)]

RecvOlsr(iface) ==
    LET n == Owner[iface]
    IN  /\ arriving[iface] # <<>>
        /\ arriving' = [arriving EXCEPT ![iface] = Tail(@)]
        /\ node' = [node EXCEPT ![n] = ReceivePacket(n, iface, Head(arriving[iface]), @)]
        /\ StartQueueTimer(n, node'[n])
        /\ UNCHANGED <<originated, environment>>

\* DELAY(expirationTime)
DELAY(left) == IF left < 0 THEN 1 ELSE left + 1

\* mutant: the tuple goes with the first event, refreshed or not
ExpireRefreshed(n, timer) ==
    /\ timer.left = 0
    /\ node' = [node EXCEPT
          ![n].duplicates = {t \in @ : t.id # timer.id},
          ![n].timers = @ \ {timer}]
    /\ UNCHANGED <<queueTimer, arriving, originated, environment>>

DupTupleTimerExpire(n, timer) ==
    LET tuple == {t \in node[n].duplicates : t.id = timer.id}
        expired == {t \in tuple : t.left < 0}
    IN  /\ timer.left = 0
        /\ node' = [node EXCEPT
              ![n].duplicates = @ \ expired,
              ![n].timers = (@ \ {timer}) \cup
                   {[id |-> t.id, left |-> DELAY(t.left)] : t \in tuple \ expired}]
        /\ UNCHANGED <<queueTimer, arriving, originated, environment>>

-----------------------------------------------------------------------------
(* The environment.                                                        *)

Disturb ==
    /\ disturbances < MaxDisturbances
    /\ disturbances' = disturbances + 1
    /\ UNCHANGED <<node, queueTimer, originated>>

\* A packet is lost at one of its receivers.
Lose(iface) ==
    /\ arriving[iface] # <<>>
    /\ arriving' = [arriving EXCEPT ![iface] = Tail(@)]
    /\ Disturb
    /\ UNCHANGED <<sym, selectors>>

\* LinkSensing, or a timer of the link tuple, changes a link.
LinkChange(n, s) ==
    /\ sym' = IF <<n, s>> \in sym THEN sym \ {<<n, s>>} ELSE sym \cup {<<n, s>>}
    /\ Disturb
    /\ UNCHANGED <<arriving, selectors>>

\* PopulateMprSelectorSet, or a timer of the selector tuple.
SelectorChange(n, m) ==
    /\ selectors' = IF <<n, m>> \in selectors THEN selectors \ {<<n, m>>}
                                              ELSE selectors \cup {<<n, m>>}
    /\ Disturb
    /\ UNCHANGED <<arriving, sym>>

Older(timed) == {[t EXCEPT !.left = @ - 1] : t \in timed}

\* Time passes once the packets on the air are received and the events of
\* this instant have run.
Tick ==
    /\ \A i \in Ifaces : arriving[i] = <<>>
    /\ \A n \in Nodes : queueTimer[n] # 0 /\ \A t \in node[n].timers : t.left > 0
    /\ \E n \in Nodes : queueTimer[n] # NotRunning \/ node[n].timers # {}
    /\ queueTimer' = [n \in Nodes |-> IF queueTimer[n] = NotRunning THEN NotRunning
                                                                    ELSE queueTimer[n] - 1]
    /\ node' = [n \in Nodes |-> [node[n] EXCEPT
          !.duplicates = Older(@), !.timers = Older(@)]]
    /\ UNCHANGED <<arriving, originated, environment>>

Next ==
    \/ \E m \in Messages : Originate(m)
    \/ \E n \in Nodes : SendQueuedMessages(n)
    \/ \E i \in Ifaces : RecvOlsr(i)
    \/ \E n \in Nodes : \E t \in node[n].timers : DupTupleTimerExpire(n, t)
    \/ \E i \in Ifaces : Lose(i)
    \/ \E n \in Nodes : \E s \in Ifaces : Owner[s] \in Neighbours[n] /\ LinkChange(n, s)
    \/ \E n \in Nodes : \E m \in Neighbours[n] : SelectorChange(n, m)
    \/ Tick

Spec == Init /\ [][Next]_vars

\* The simulator runs every scheduled event and delivers what is on the air.
Fairness ==
    /\ WF_vars(Tick)
    /\ WF_vars(\E n \in Nodes : SendQueuedMessages(n))
    /\ WF_vars(\E i \in Ifaces : RecvOlsr(i))
    /\ WF_vars(\E n \in Nodes : \E t \in node[n].timers : DupTupleTimerExpire(n, t))

FairSpec == Spec /\ Fairness

-----------------------------------------------------------------------------
(* Properties.                                                             *)

TypeOK ==
    /\ \A n \in Nodes :
          /\ \A k \in DOMAIN node[n].queue : node[n].queue[k] \in Copy
          /\ node[n].duplicates \subseteq DuplicateTuple
          /\ node[n].timers \subseteq DupTimer
          /\ node[n].processed \in [Messages -> Seen]
          /\ node[n].forwarded \in [Messages -> Seen]
    /\ queueTimer \in [Nodes -> NotRunning .. MaxJitter]
    /\ \A i \in Ifaces : \A k \in DOMAIN arriving[i] :
          /\ arriving[i][k].sender \in Ifaces
          /\ Len(arriving[i][k].messages) \in 1 .. OLSR_MAX_MSGS
          /\ Range(arriving[i][k].messages) \subseteq Copy
    /\ sym \subseteq Nodes \X Ifaces
    /\ selectors \subseteq Nodes \X Nodes
    /\ originated \subseteq Messages
    /\ disturbances \in 0 .. MaxDisturbances

\* ForwardDefault retransmits a message at most once, whatever interfaces and
\* neighbours its copies come through, and in whatever order, and the flood is
\* over before the duplicate tuple that prevents a second time is removed.
RetransmittedOnce ==
    \A n \in Nodes, m \in Messages : node[n].forwarded[m] <= 1

\* The packets that still carry m, and the queues that hold it.
InFlight(m) ==
    \/ \E n \in Nodes : \E k \in DOMAIN node[n].queue : node[n].queue[k].id = m
    \/ \E i \in Ifaces : \E k \in DOMAIN arriving[i] :
          \E c \in Range(arriving[i][k].messages) : c.id = m

\* The MPR selectors cover every two-hop neighbourhood.
Covered ==
    \A n \in Nodes : \A r \in Neighbours[n] : \A t \in Neighbours[r] \ (Neighbours[n] \cup {n}) :
        \E relay \in Neighbours[n] : t \in Neighbours[relay] /\ <<relay, n>> \in Selectors

\* Flooding by MPRs alone reaches every node: with nothing lost and no change
\* of the neighbourhood, a flood that is over was processed everywhere, and
\* once.  Each node decides on the first copy per interface, so it is the
\* order of the copies that could break it.
FloodComplete ==
    disturbances = 0 /\ Covered =>
        \A m \in originated \ Hellos : ~InFlight(m) =>
            \A n \in Nodes \ {Originator[m]} : node[n].processed[m] = 1

\* Every duplicate tuple is the only one of its message and has exactly one
\* event on its way, which runs just after the deadline at the latest: the one
\* event a tuple ever gets reschedules itself for as long as it is refreshed.
DuplicatesAreTimed ==
    \A n \in Nodes : \A d \in node[n].duplicates :
        /\ Cardinality({t \in node[n].duplicates : t.id = d.id}) = 1
        /\ Cardinality({t \in node[n].timers : t.id = d.id}) = 1
        /\ \A t \in node[n].timers : t.id = d.id => t.left <= d.left + 1

\* What `tuples` still say of the message of a tuple d, a tick later at most.
StillKnown(d, tuples) ==
    \E e \in tuples : /\ e.id = d.id /\ e.left + 1 >= d.left
                       /\ d.retransmitted => e.retransmitted
                       /\ d.ifaceList \subseteq e.ifaceList

\* DupTupleTimerExpire removes a tuple after its hold time and never before,
\* however often ForwardDefault moved the deadline since the event was set;
\* until then no copy makes the node forget that it has retransmitted the
\* message, or on which interfaces it has considered it.
DuplicatesOutliveHold ==
    [][\A n \in Nodes : \A d \in node[n].duplicates :
          d.left >= 0 => StillKnown(d, node'[n].duplicates)]_vars

\* A flood ends and is forgotten, in a network that loses packets and changes.
FloodsEnd ==
    \A m \in Messages :
        m \in originated ~>
            [](~InFlight(m) /\ \A n \in Nodes : \A d \in node[n].duplicates : d.id # m)
=============================================================================
