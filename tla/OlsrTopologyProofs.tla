------------------------- MODULE OlsrTopologyProofs -------------------------
(***************************************************************************)
(* Theorems about OlsrTopology, for every set of originators and           *)
(* destinations, every TC interval and every flood delay.                  *)
(***************************************************************************)
EXTENDS OlsrTopology, TLAPS

\* All that the proofs need to know of the largest ANSN.
LEMMA MaxSeqNum == OLSR_MAX_SEQ_NUM \in Nat /\ OLSR_MAX_SEQ_NUM > 0
  BY SMT DEF OLSR_MAX_SEQ_NUM

\* The types at the start.
LEMMA TypeInit == Init => TypeOK
  <1> SUFFICES ASSUME Init PROVE TypeOK
    OBVIOUS
  <1>1. StartAnsn \in 0 .. OLSR_MAX_SEQ_NUM /\ 0 \in 0 .. TcInterval /\ 0 \in 0 .. AnsnHorizon
    BY TopologyAssumption
  <1>2. SinceCap \in 0 .. SinceCap
    BY TopologyAssumption DEF SinceCap, OLSR_TOP_HOLD_TIME
  <1>3. mprSelectors \in [Originators -> SUBSET Dests]
    BY DEF Init
  <1>4. ansn \in [Originators -> 0 .. OLSR_MAX_SEQ_NUM]
    BY <1>1 DEF Init
  <1>5. tcTimer \in [Originators -> 0 .. TcInterval]
    BY <1>1 DEF Init
  <1>6. /\ advanced \in [Originators -> 0 .. AnsnHorizon]
        /\ accepted \in [Originators -> 0 .. AnsnHorizon]
    BY <1>1 DEF Init
  <1>7. [d \in Dests |-> SinceCap] \in [Dests -> 0 .. SinceCap]
    BY <1>2
  <1>8. sinceAdv \in [Originators -> [Dests -> 0 .. SinceCap]]
    BY <1>7 DEF Init
  <1>9. silent \subseteq Originators /\ net \subseteq Message
        /\ topologySet \subseteq TopologyTuple /\ timers \subseteq Timer
    BY DEF Init
  <1> QED BY <1>3, <1>4, <1>5, <1>6, <1>8, <1>9 DEF TypeOK

\* Both ways m_ansn moves stay within 16 bits.
LEMMA RemainderRange ==
    ASSUME NEW n \in Nat, NEW k \in Nat \ {0} PROVE n % k \in 0 .. (k - 1)
  OBVIOUS

\* Remainders of small numbers.
LEMMA SmallRemainder ==
    ASSUME NEW n \in Nat, NEW k \in Nat \ {0}
    PROVE  (n < k => n % k = n) /\ k % k = 0
  OBVIOUS

\* An ANSN stays in its range, as IncrementAnsn and the malicious offset move it.
LEMMA AnsnRange ==
    ASSUME NEW a \in 0 .. OLSR_MAX_SEQ_NUM
    PROVE  /\ (a + 1) % (OLSR_MAX_SEQ_NUM + 1) \in 0 .. OLSR_MAX_SEQ_NUM
           /\ (a + AnsnOffset) % OLSR_MAX_SEQ_NUM \in 0 .. OLSR_MAX_SEQ_NUM
  <1>1. a + 1 \in Nat /\ a + AnsnOffset \in Nat
    BY MaxSeqNum DEF AnsnOffset
  <1>2. OLSR_MAX_SEQ_NUM + 1 \in Nat \ {0} /\ OLSR_MAX_SEQ_NUM \in Nat \ {0}
    BY MaxSeqNum
  <1>3. (a + 1) % (OLSR_MAX_SEQ_NUM + 1) \in 0 .. ((OLSR_MAX_SEQ_NUM + 1) - 1)
    BY <1>1, <1>2, RemainderRange, Zenon
  <1>4. (a + AnsnOffset) % OLSR_MAX_SEQ_NUM \in 0 .. (OLSR_MAX_SEQ_NUM - 1)
    BY <1>1, <1>2, RemainderRange, Zenon
  <1>5. QED BY <1>2, <1>3, <1>4

\* A new ANSN keeps the types.
LEMMA AnsnMovesType ==
    ASSUME TypeOK, NEW o \in Originators, NEW value \in 0 .. OLSR_MAX_SEQ_NUM,
           NEW by \in Nat, AnsnMovesTo(o, value, by)
    PROVE  /\ ansn' \in [Originators -> 0 .. OLSR_MAX_SEQ_NUM]
           /\ advanced' \in [Originators -> 0 .. AnsnHorizon]
  <1>1. advanced[o] + by \in 0 .. AnsnHorizon
    BY TopologyAssumption DEF TypeOK, AnsnMovesTo
  <1>2. QED BY <1>1 DEF TypeOK, AnsnMovesTo

\* So does IncrementAnsn.
LEMMA IncrementType ==
    ASSUME TypeOK, NEW o \in Originators, IncrementAnsn(o)
    PROVE  /\ ansn' \in [Originators -> 0 .. OLSR_MAX_SEQ_NUM]
           /\ advanced' \in [Originators -> 0 .. AnsnHorizon]
  <1>1. ansn[o] \in 0 .. OLSR_MAX_SEQ_NUM
    BY DEF TypeOK
  <1>2. QED BY <1>1, AnsnRange, AnsnMovesType DEF IncrementAnsn

\* SendTc and the selector operations keep the originators' types.
LEMMA TypeOriginator ==
    ASSUME TypeOK, NEW o \in Originators,
           \/ \E d \in Dests : \/ AddMprSelectorTuple(o, d)
                               \/ RemoveMprSelectorTuple(o, d)
                               \/ NeighborLoss(o, d)
           \/ AddNeighborTuple(o)
           \/ FallSilent(o)
    PROVE  TypeOK'
  <1>1. ASSUME NEW d \in Dests, AddMprSelectorTuple(o, d) PROVE TypeOK'
    BY <1>1, IncrementType DEF TypeOK, AddMprSelectorTuple
  <1>2. ASSUME NEW d \in Dests, RemoveMprSelectorTuple(o, d) PROVE TypeOK'
    BY <1>2, IncrementType DEF TypeOK, RemoveMprSelectorTuple
  <1>3. ASSUME NEW d \in Dests, NeighborLoss(o, d) PROVE TypeOK'
    BY <1>3 DEF TypeOK, NeighborLoss, history
  <1>4. CASE AddNeighborTuple(o)
    BY <1>4, IncrementType DEF TypeOK, AddNeighborTuple
  <1>5. CASE FallSilent(o)
    BY <1>5 DEF TypeOK, FallSilent, history
  <1>6. QED BY <1>1, <1>2, <1>3, <1>4, <1>5

\* A TC timer that fires sends a TC with some nonempty list, or nothing.
LEMMA TcSent ==
    ASSUME TypeOK, NEW o \in Originators, TcTimerExpire(o)
    PROVE  \/ UNCHANGED <<ansn, advanced, net, sinceAdv>>
           \/ /\ mprSelectors[o] # {}
              /\ \E listed \in (SUBSET Dests) \ {{}} : SendTc(o, listed)
  <1>1. SUFFICES ASSUME NEW extra \in SUBSET Injected, mprSelectors[o] # {},
                        SendTc(o, mprSelectors[o] \cup extra)
                 PROVE  \E listed \in (SUBSET Dests) \ {{}} : SendTc(o, listed)
    BY DEF TcTimerExpire
  <1>2. mprSelectors[o] \cup extra \in (SUBSET Dests) \ {{}}
    BY <1>1, TopologyAssumption DEF TypeOK
  <1>3. QED BY <1>1, <1>2

\* The TC timer keeps the types.
LEMMA TypeTc == ASSUME TypeOK, NEW o \in Originators, TcTimerExpire(o) PROVE TypeOK'
  <1>1. tcTimer' \in [Originators -> 0 .. TcInterval]
    BY TopologyAssumption DEF TypeOK, TcTimerExpire
  <1>2. CASE UNCHANGED <<ansn, advanced, net, sinceAdv>>
    BY <1>1, <1>2 DEF TypeOK, TcTimerExpire
  <1>3. ASSUME NEW listed \in (SUBSET Dests) \ {{}}, SendTc(o, listed) PROVE TypeOK'
    <2>1. /\ ansn' \in [Originators -> 0 .. OLSR_MAX_SEQ_NUM]
          /\ advanced' \in [Originators -> 0 .. AnsnHorizon]
      <3>1. ansn[o] \in 0 .. OLSR_MAX_SEQ_NUM
        BY DEF TypeOK
      <3>2. CASE o \in Attackers
        BY <1>3, <3>1, <3>2, AnsnRange, AnsnMovesType DEF SendTc, AnsnOffset
      <3>3. CASE o \notin Attackers
        BY <1>3, <3>3 DEF SendTc, TypeOK
      <3>4. QED BY <3>2, <3>3
    <2>2. net' \subseteq Message
      <3>1. ansn'[o] \in 0 .. OLSR_MAX_SEQ_NUM /\ advanced'[o] \in 0 .. AnsnHorizon
        BY <2>1
      <3>2. 0 \in 0 .. MaxDelay
        BY TopologyAssumption
      <3>3. QED BY <1>3, <3>1, <3>2 DEF TypeOK, SendTc, Message
    <2>3. sinceAdv' \in [Originators -> [Dests -> 0 .. SinceCap]]
      BY <1>3, TopologyAssumption DEF TypeOK, SendTc, SinceCap, OLSR_TOP_HOLD_TIME
    <2>4. QED BY <1>1, <2>1, <2>2, <2>3 DEF TypeOK, TcTimerExpire
  <1>4. QED BY <1>2, <1>3, TcSent

\* ProcessTc keeps the types.
LEMMA TypeProcess == ASSUME TypeOK, NEW m \in net, ProcessTc(m) PROVE TypeOK'
  <1>1. m \in Message /\ net' \subseteq Message
    BY DEF TypeOK, ProcessTc
  <1>2. CASE UNCHANGED <<topologySet, timers, accepted>>
    BY <1>1, <1>2 DEF TypeOK, ProcessTc, originatorVars
  <1>3. CASE RecordAdvertised(m) /\ accepted' = [accepted EXCEPT ![m.originator] = m.sent]
    <2>1. topologySet' \subseteq TopologyTuple
      <3>1. OLSR_TOP_HOLD_TIME \in -1 .. OLSR_TOP_HOLD_TIME
        BY TopologyAssumption DEF OLSR_TOP_HOLD_TIME
      <3>2. EraseOlderTopologyTuples(m.originator, m.ansn) \subseteq TopologyTuple
        BY DEF TypeOK, EraseOlderTopologyTuples
      <3>3. \A t \in TopologyTuple : [t EXCEPT !.left = OLSR_TOP_HOLD_TIME] \in TopologyTuple
        BY <3>1 DEF TopologyTuple
      <3>4. \A d \in m.neighborAddresses :
              [destAddr |-> d, lastAddr |-> m.originator, sequenceNumber |-> m.ansn,
               left |-> OLSR_TOP_HOLD_TIME] \in TopologyTuple
        BY <1>1, <3>1 DEF TopologyTuple, Message
      <3>5. QED BY <1>3, <3>2, <3>3, <3>4 DEF RecordAdvertised
    <2>2. timers' \subseteq Timer
      BY <1>1, <1>3, TopologyAssumption
      DEF TypeOK, RecordAdvertised, Timer, Message, OLSR_TOP_HOLD_TIME
    <2>3. accepted' \in [Originators -> 0 .. AnsnHorizon]
      BY <1>1, <1>3 DEF TypeOK, Message
    <2>4. QED BY <1>1, <2>1, <2>2, <2>3 DEF TypeOK, ProcessTc, originatorVars
  <1>4. QED BY <1>2, <1>3 DEF ProcessTc

\* TopologyTupleTimerExpire keeps the types.
LEMMA TypeExpire ==
    ASSUME TypeOK, NEW e \in timers, TopologyTupleTimerExpire(e) PROVE TypeOK'
  <1>1. topologySet' \subseteq TopologyTuple
    BY DEF TypeOK, TopologyTupleTimerExpire
  <1>2. timers' \subseteq Timer
    BY TopologyAssumption
    DEF TypeOK, TopologyTupleTimerExpire, Timer, TopologyTuple, OLSR_TOP_HOLD_TIME
  <1>3. QED BY <1>1, <1>2 DEF TypeOK, TopologyTupleTimerExpire, originatorVars, history

\* A tuple whose event is still to come has time left, so its deadline moves
\* at most to the instant just before now.
LEMMA TypeTick == ASSUME TypeOK, EveryTupleHasTimer, Tick PROVE TypeOK'
  <1>1. net' \subseteq Message
    <2>1. ASSUME NEW m \in net PROVE [m EXCEPT !.age = @ + 1] \in Message
      <3>1. m \in Message /\ m.age + 1 \in 0 .. MaxDelay
        BY TopologyAssumption DEF TypeOK, Tick, Message
      <3>2. QED BY <3>1 DEF Message
    <2>2. QED BY <2>1 DEF Tick
  <1>2. topologySet' \subseteq TopologyTuple
    <2>1. ASSUME NEW t \in topologySet PROVE [t EXCEPT !.left = @ - 1] \in TopologyTuple
      <3>1. t.left >= 0
        BY TopologyAssumption
        DEF EveryTupleHasTimer, Tick, TypeOK, Timer, TopologyTuple, OLSR_TOP_HOLD_TIME
      <3>2. QED
        BY <3>1, TopologyAssumption DEF TypeOK, TopologyTuple, OLSR_TOP_HOLD_TIME
    <2>2. QED BY <2>1 DEF Tick
  <1>3. timers' \subseteq Timer
    <2>1. ASSUME NEW e \in timers PROVE [e EXCEPT !.left = @ - 1] \in Timer
      <3>1. e \in Timer /\ e.left - 1 \in 0 .. OLSR_TOP_HOLD_TIME + 1
        BY TopologyAssumption DEF TypeOK, Tick, Timer, OLSR_TOP_HOLD_TIME
      <3>2. QED BY <3>1 DEF Timer
    <2>2. QED BY <2>1 DEF Tick
  <1>4. tcTimer' \in [Originators -> 0 .. TcInterval]
    BY TopologyAssumption DEF TypeOK, Tick
  <1>5. sinceAdv' \in [Originators -> [Dests -> 0 .. SinceCap]]
    <2>1. SinceCap \in Nat
      BY TopologyAssumption DEF SinceCap, OLSR_TOP_HOLD_TIME
    <2>2. ASSUME NEW o \in Originators, NEW d \in Dests
          PROVE  (IF sinceAdv[o][d] = SinceCap THEN SinceCap ELSE sinceAdv[o][d] + 1)
                   \in 0 .. SinceCap
      <3>1. sinceAdv[o][d] \in 0 .. SinceCap
        BY DEF TypeOK
      <3>2. QED BY <2>1, <3>1
    <2>3. QED BY <2>2 DEF Tick
  <1>6. QED BY <1>1, <1>2, <1>3, <1>4, <1>5 DEF TypeOK, Tick

-----------------------------------------------------------------------------
(* The soft state: types, one ANSN per originator, an event per tuple.     *)

SoftStateInv == TypeOK /\ OneAnsnPerOriginator /\ EveryTupleHasTimer

\* Recording an accepted TC: after steps 2 and 3 all remaining tuples of its
\* originator carry its ANSN, new ones come with their event.
LEMMA SoftStateProcess ==
    ASSUME SoftStateInv, NEW m \in net, ProcessTc(m)
    PROVE  OneAnsnPerOriginator' /\ EveryTupleHasTimer'
  <1> USE DEF SoftStateInv
  <1> DEFINE kept == EraseOlderTopologyTuples(m.originator, m.ansn)
             refreshed(t) == t.lastAddr = m.originator /\ t.destAddr \in m.neighborAddresses
             new(t) == IF refreshed(t) THEN [t EXCEPT !.left = OLSR_TOP_HOLD_TIME] ELSE t
             fresh == {d \in m.neighborAddresses :
                         ~\E t \in kept : t.lastAddr = m.originator /\ t.destAddr = d}
             made(d) == [destAddr |-> d, lastAddr |-> m.originator,
                         sequenceNumber |-> m.ansn, left |-> OLSR_TOP_HOLD_TIME]
             event(d) == [destAddr |-> d, lastAddr |-> m.originator,
                          left |-> OLSR_TOP_HOLD_TIME + 1]
  <1>1. CASE UNCHANGED <<topologySet, timers, accepted>>
    BY <1>1 DEF OneAnsnPerOriginator, EveryTupleHasTimer
  <1>2. CASE FindNewerTopologyTuple(m.originator, m.ansn) = {} /\ RecordAdvertised(m)
    <2>1. /\ topologySet' = {new(t) : t \in kept} \cup {made(d) : d \in fresh}
          /\ timers' = timers \cup {event(d) : d \in fresh}
      BY <1>2 DEF RecordAdvertised
    <2>2. m \in Message /\ kept \subseteq topologySet /\ kept \subseteq TopologyTuple
      BY DEF TypeOK, EraseOlderTopologyTuples
    <2>3. \A t \in kept : t.lastAddr = m.originator => t.sequenceNumber = m.ansn
      <3>1. ASSUME NEW t \in kept, t.lastAddr = m.originator
            PROVE  t.sequenceNumber = m.ansn
        <4>1. ~(t.sequenceNumber < m.ansn)
          BY <3>1 DEF EraseOlderTopologyTuples
        <4>2. ~(t.sequenceNumber > m.ansn)
          BY <1>2, <2>2, <3>1 DEF FindNewerTopologyTuple
        <4>3. t.sequenceNumber \in Int /\ m.ansn \in Int
          BY <2>2 DEF TopologyTuple, Message
        <4>4. QED BY <4>1, <4>2, <4>3
      <3>2. QED BY <3>1
    <2>4. \A t \in kept : /\ new(t).destAddr = t.destAddr
                          /\ new(t).lastAddr = t.lastAddr
                          /\ new(t).sequenceNumber = t.sequenceNumber
                          /\ new(t).left >= t.left
      BY <2>2, TopologyAssumption DEF TopologyTuple, OLSR_TOP_HOLD_TIME
    <2>5. OneAnsnPerOriginator'
      <3>1. \A s, t \in kept : s.lastAddr = t.lastAddr =>
               /\ s.sequenceNumber = t.sequenceNumber
               /\ s.destAddr = t.destAddr => s = t
        BY <2>2 DEF OneAnsnPerOriginator
      <3>2. \A d \in fresh, t \in kept : ~(/\ made(d).lastAddr = new(t).lastAddr
                                          /\ made(d).destAddr = new(t).destAddr)
        BY <2>4
      <3>3. \A d \in fresh : /\ made(d).lastAddr = m.originator
                             /\ made(d).sequenceNumber = m.ansn
                             /\ made(d).destAddr = d
        OBVIOUS
      <3> HIDE DEF kept, new, fresh, made
      <3>4. QED BY <2>1, <2>3, <2>4, <3>1, <3>2, <3>3 DEF OneAnsnPerOriginator
    <2>6. EveryTupleHasTimer'
      <3>1. ASSUME NEW t \in kept
            PROVE  \E e \in timers' : /\ e.destAddr = new(t).destAddr
                                      /\ e.lastAddr = new(t).lastAddr
                                      /\ e.left <= new(t).left + 1
        <4>1. PICK e \in timers : /\ e.destAddr = t.destAddr
                                  /\ e.lastAddr = t.lastAddr
                                  /\ e.left <= t.left + 1
          BY <2>2 DEF EveryTupleHasTimer
        <4>2. e \in timers' /\ e.left \in Int /\ t.left \in Int /\ new(t).left \in Int
          BY <2>1, <2>2, TopologyAssumption
          DEF TypeOK, Timer, TopologyTuple, OLSR_TOP_HOLD_TIME
        <4>3. QED BY <2>4, <4>1, <4>2
      <3>2. \A d \in fresh : event(d) \in timers' /\ event(d).left <= made(d).left + 1
        BY <2>1, TopologyAssumption DEF OLSR_TOP_HOLD_TIME
      <3>3. \A d \in fresh : /\ made(d).destAddr = event(d).destAddr
                             /\ made(d).lastAddr = event(d).lastAddr
        OBVIOUS
      <3> HIDE DEF kept, new, fresh, made, event
      <3>4. QED BY <2>1, <3>1, <3>2, <3>3 DEF EveryTupleHasTimer
    <2>7. QED BY <2>5, <2>6
  <1>3. QED BY <1>1, <1>2 DEF ProcessTc

\* An event that runs takes its tuple along or comes back for it.
LEMMA SoftStateExpire ==
    ASSUME SoftStateInv, NEW e \in timers, TopologyTupleTimerExpire(e)
    PROVE  OneAnsnPerOriginator' /\ EveryTupleHasTimer'
  <1> USE DEF SoftStateInv
  <1> DEFINE found == {t \in topologySet : t.destAddr = e.destAddr /\ t.lastAddr = e.lastAddr}
  <1>1. topologySet' \subseteq topologySet
    BY DEF TopologyTupleTimerExpire
  <1>2. OneAnsnPerOriginator'
    BY <1>1 DEF OneAnsnPerOriginator
  <1>3. EveryTupleHasTimer'
    <2>1. SUFFICES ASSUME NEW s \in topologySet'
                   PROVE  \E f \in timers' : /\ f.destAddr = s.destAddr
                                             /\ f.lastAddr = s.lastAddr
                                             /\ f.left <= s.left + 1
      BY DEF EveryTupleHasTimer
    <2>2. PICK f \in timers : /\ f.destAddr = s.destAddr
                              /\ f.lastAddr = s.lastAddr
                              /\ f.left <= s.left + 1
      BY <1>1 DEF EveryTupleHasTimer
    <2>3. CASE f # e
      BY <2>2, <2>3 DEF TopologyTupleTimerExpire
    <2>4. CASE f = e
      <3>1. s \in found
        BY <1>1, <2>2, <2>4
      <3>2. \A t \in found : t = s
        BY <1>1, <3>1 DEF OneAnsnPerOriginator
      <3>3. s.left >= 0 /\ timers' = (timers \ {e}) \cup {[e EXCEPT !.left = s.left + 1]}
        BY <3>1, <3>2 DEF TopologyTupleTimerExpire
      <3>4. [e EXCEPT !.left = s.left + 1] \in timers' /\ e \in Timer
        BY <3>3 DEF TypeOK
      <3>5. s.left + 1 \in Int
        BY <1>1 DEF TypeOK, TopologyTuple
      <3>6. QED BY <2>2, <2>4, <3>4, <3>5 DEF Timer
    <2>5. QED BY <2>3, <2>4
  <1>4. QED BY <1>2, <1>3

\* The clock brings tuples and events closer to their deadlines together.
LEMMA SoftStateTick ==
    ASSUME SoftStateInv, Tick PROVE OneAnsnPerOriginator' /\ EveryTupleHasTimer'
  <1> USE DEF SoftStateInv
  <1> DEFINE older(t) == [t EXCEPT !.left = @ - 1]
  <1>1. /\ topologySet' = {older(t) : t \in topologySet}
        /\ timers' = {older(e) : e \in timers}
    BY DEF Tick
  <1>2. \A t \in topologySet : /\ older(t).destAddr = t.destAddr
                               /\ older(t).lastAddr = t.lastAddr
                               /\ older(t).sequenceNumber = t.sequenceNumber
                               /\ older(t).left = t.left - 1
                               /\ t.left \in Int
    BY DEF TypeOK, TopologyTuple
  <1>3. \A e \in timers : /\ older(e).destAddr = e.destAddr
                          /\ older(e).lastAddr = e.lastAddr
                          /\ older(e).left = e.left - 1
                          /\ e.left \in Int
    BY DEF TypeOK, Timer
  <1> HIDE DEF older
  <1>4. OneAnsnPerOriginator'
    BY <1>1, <1>2 DEF OneAnsnPerOriginator
  <1>5. EveryTupleHasTimer'
    <2>1. SUFFICES ASSUME NEW t \in topologySet
                   PROVE  \E e \in timers' : /\ e.destAddr = older(t).destAddr
                                             /\ e.lastAddr = older(t).lastAddr
                                             /\ e.left <= older(t).left + 1
      BY <1>1 DEF EveryTupleHasTimer
    <2>2. PICK e \in timers : /\ e.destAddr = t.destAddr
                              /\ e.lastAddr = t.lastAddr
                              /\ e.left <= t.left + 1
      BY DEF EveryTupleHasTimer
    <2>3. QED BY <1>1, <1>2, <1>3, <2>2
  <1>6. QED BY <1>4, <1>5

\* Every step keeps the soft state.
LEMMA SoftStateStep == SoftStateInv /\ [Next]_vars => SoftStateInv'
  <1> SUFFICES ASSUME SoftStateInv, [Next]_vars PROVE SoftStateInv'
    OBVIOUS
  <1>1. ASSUME NEW o \in Originators,
               \/ \E d \in Dests : \/ AddMprSelectorTuple(o, d)
                                   \/ RemoveMprSelectorTuple(o, d)
                                   \/ NeighborLoss(o, d)
               \/ AddNeighborTuple(o)
               \/ FallSilent(o)
        PROVE  SoftStateInv'
    <2>1. TypeOK'
      BY <1>1, TypeOriginator DEF SoftStateInv
    <2>2. UNCHANGED <<topologySet, timers>>
      BY <1>1 DEF AddMprSelectorTuple, RemoveMprSelectorTuple, NeighborLoss,
                  AddNeighborTuple, FallSilent
    <2>3. QED
      BY <2>1, <2>2 DEF SoftStateInv, OneAnsnPerOriginator, EveryTupleHasTimer
  <1>2. ASSUME NEW o \in Originators, TcTimerExpire(o) PROVE SoftStateInv'
    <2>1. TypeOK'
      BY <1>2, TypeTc DEF SoftStateInv
    <2>2. QED
      BY <1>2, <2>1 DEF SoftStateInv, OneAnsnPerOriginator, EveryTupleHasTimer, TcTimerExpire
  <1>3. ASSUME NEW m \in net, ProcessTc(m) PROVE SoftStateInv'
    BY <1>3, TypeProcess, SoftStateProcess DEF SoftStateInv
  <1>4. ASSUME NEW m \in net, DropTc(m) PROVE SoftStateInv'
    BY <1>4 DEF SoftStateInv, TypeOK, OneAnsnPerOriginator, EveryTupleHasTimer, DropTc,
                originatorVars, history
  <1>5. ASSUME NEW e \in timers, TopologyTupleTimerExpire(e) PROVE SoftStateInv'
    BY <1>5, TypeExpire, SoftStateExpire DEF SoftStateInv
  <1>6. CASE Tick
    BY <1>6, TypeTick, SoftStateTick DEF SoftStateInv
  <1>7. CASE UNCHANGED vars
    BY <1>7 DEF SoftStateInv, TypeOK, OneAnsnPerOriginator, EveryTupleHasTimer, vars,
                originatorVars, history
  <1>8. QED
    BY <1>1, <1>2, <1>3, <1>4, <1>5, <1>6, <1>7 DEF Next

\* In every reachable state the topology set is well typed (a tuple is at
\* most one tick past its deadline), an originator's tuples share one ANSN
\* (ProcessTc steps 2 to 4) and each tuple has an event that will remove it
\* (TopologyTupleTimerExpire).
THEOREM SoftState == Spec => [](TypeOK /\ OneAnsnPerOriginator /\ EveryTupleHasTimer)
  <1>1. Init => SoftStateInv
    BY TypeInit DEF Init, SoftStateInv, OneAnsnPerOriginator, EveryTupleHasTimer
  <1>2. SoftStateInv => TypeOK /\ OneAnsnPerOriginator /\ EveryTupleHasTimer
    BY DEF SoftStateInv
  <1>3. QED BY <1>1, <1>2, SoftStateStep, PTL DEF Spec

-----------------------------------------------------------------------------
(* Staleness: a TC on its way is no older than its originator's last       *)
(* advertisement of the addresses it lists.                                *)

InFlightFresh ==
    \A m \in net : \A d \in m.neighborAddresses : sinceAdv[m.originator][d] <= m.age

StalenessInv == SoftStateInv /\ InFlightFresh /\ StalenessBound

\* A TC that is sent is fresh.
LEMMA StalenessTc ==
    ASSUME StalenessInv, NEW o \in Originators, TcTimerExpire(o)
    PROVE  InFlightFresh' /\ StalenessBound'
  <1> USE DEF StalenessInv, SoftStateInv
  <1>1. CASE UNCHANGED <<net, sinceAdv>>
    BY <1>1 DEF TcTimerExpire, InFlightFresh, StalenessBound
  <1>2. ASSUME NEW listed \in (SUBSET Dests) \ {{}}, SendTc(o, listed)
        PROVE  InFlightFresh' /\ StalenessBound'
    <2>1. /\ sinceAdv \in [Originators -> [Dests -> 0 .. SinceCap]]
          /\ net \subseteq Message /\ topologySet \subseteq TopologyTuple
      BY DEF TypeOK
    <2>2. \A p \in Originators, d \in Dests :
             sinceAdv'[p][d] = IF p = o /\ d \in listed THEN 0 ELSE sinceAdv[p][d]
      BY <1>2, <2>1 DEF SendTc
    <2>3. \A p \in Originators, d \in Dests :
             sinceAdv'[p][d] <= sinceAdv[p][d] /\ sinceAdv[p][d] \in Int
      <3>1. \A p \in Originators, d \in Dests : sinceAdv[p][d] \in 0 .. SinceCap
        BY <2>1
      <3>2. QED BY <2>2, <3>1
    <2>4. InFlightFresh'
      <3>1. SUFFICES ASSUME NEW m \in net', NEW d \in m.neighborAddresses
                     PROVE  sinceAdv'[m.originator][d] <= m.age
        BY DEF InFlightFresh
      <3>2. CASE m \in net
        <4>1. m.originator \in Originators /\ d \in Dests /\ m.age \in Int
          BY <2>1, <3>2 DEF Message
        <4>2. sinceAdv[m.originator][d] <= m.age
          BY <3>2 DEF InFlightFresh
        <4>3. sinceAdv'[m.originator][d] \in Int
          BY <2>2, <2>3, <4>1
        <4>4. QED BY <2>3, <4>1, <4>2, <4>3
      <3>3. CASE m.originator = o /\ m.neighborAddresses = listed /\ m.age = 0
        BY <2>2, <3>3 DEF TypeOK
      <3>4. QED BY <1>2, <3>2, <3>3 DEF SendTc
    <2>5. StalenessBound'
      <3>1. SUFFICES ASSUME NEW t \in topologySet
                     PROVE  sinceAdv'[t.lastAddr][t.destAddr] + t.left
                              <= OLSR_TOP_HOLD_TIME + MaxDelay
        BY DEF StalenessBound, TcTimerExpire
      <3>2. t.lastAddr \in Originators /\ t.destAddr \in Dests /\ t.left \in Int
        BY <2>1 DEF TopologyTuple
      <3>3. sinceAdv[t.lastAddr][t.destAddr] + t.left <= OLSR_TOP_HOLD_TIME + MaxDelay
        BY DEF StalenessBound
      <3>4. sinceAdv'[t.lastAddr][t.destAddr] \in Int
        BY <2>2, <2>3, <3>2
      <3>5. OLSR_TOP_HOLD_TIME + MaxDelay \in Int
        BY TopologyAssumption DEF OLSR_TOP_HOLD_TIME
      <3>6. QED BY <2>3, <3>2, <3>3, <3>4, <3>5
    <2>6. QED BY <2>4, <2>5
  <1>3. QED BY <1>1, <1>2, TcSent

\* A tuple recorded or refreshed by m starts with the whole hold time, and m
\* is at most MaxDelay old.
LEMMA StalenessProcess ==
    ASSUME StalenessInv, NEW m \in net, ProcessTc(m)
    PROVE  InFlightFresh' /\ StalenessBound'
  <1> USE DEF StalenessInv, SoftStateInv
  <1>1. InFlightFresh'
    BY DEF InFlightFresh, ProcessTc
  <1>2. CASE UNCHANGED topologySet
    BY <1>1, <1>2 DEF StalenessBound, ProcessTc
  <1>3. CASE RecordAdvertised(m)
    <2>1. m \in Message /\ topologySet \subseteq TopologyTuple
      BY DEF TypeOK
    <2>2. SUFFICES ASSUME NEW t \in topologySet'
                   PROVE  sinceAdv[t.lastAddr][t.destAddr] + t.left
                            <= OLSR_TOP_HOLD_TIME + MaxDelay
      BY <1>1 DEF StalenessBound, ProcessTc
    <2>3. \/ t \in topologySet
          \/ /\ t.lastAddr = m.originator /\ t.destAddr \in m.neighborAddresses
             /\ t.left = OLSR_TOP_HOLD_TIME
      <3> DEFINE kept == EraseOlderTopologyTuples(m.originator, m.ansn)
                 refreshed(u) == u.lastAddr = m.originator /\ u.destAddr \in m.neighborAddresses
                 made(d) == [destAddr |-> d, lastAddr |-> m.originator,
                             sequenceNumber |-> m.ansn, left |-> OLSR_TOP_HOLD_TIME]
      <3>1. kept \subseteq topologySet
        BY DEF EraseOlderTopologyTuples
      <3>2. \/ \E u \in kept : refreshed(u) /\ t = [u EXCEPT !.left = OLSR_TOP_HOLD_TIME]
            \/ t \in kept
            \/ \E d \in m.neighborAddresses : t = made(d)
        BY <1>3 DEF RecordAdvertised
      <3>3. ASSUME NEW u \in kept, refreshed(u), t = [u EXCEPT !.left = OLSR_TOP_HOLD_TIME]
            PROVE  /\ t.lastAddr = m.originator /\ t.destAddr \in m.neighborAddresses
                   /\ t.left = OLSR_TOP_HOLD_TIME
        BY <2>1, <3>1, <3>3 DEF TopologyTuple
      <3>4. ASSUME NEW d \in m.neighborAddresses, t = made(d)
            PROVE  /\ t.lastAddr = m.originator /\ t.destAddr \in m.neighborAddresses
                   /\ t.left = OLSR_TOP_HOLD_TIME
        BY <3>4
      <3>5. QED BY <3>1, <3>2, <3>3, <3>4
    <2>4. CASE t \in topologySet
      BY <2>4 DEF StalenessBound
    <2>5. CASE /\ t.lastAddr = m.originator /\ t.destAddr \in m.neighborAddresses
               /\ t.left = OLSR_TOP_HOLD_TIME
      <3>1. sinceAdv[m.originator][t.destAddr] <= m.age
        BY <2>5 DEF InFlightFresh
      <3>2. m.age \in 0 .. MaxDelay /\ m.originator \in Originators /\ t.destAddr \in Dests
        BY <2>1, <2>5 DEF Message
      <3>3. sinceAdv[m.originator][t.destAddr] \in 0 .. SinceCap
        BY <3>2 DEF TypeOK
      <3>4. QED
        BY <2>5, <3>1, <3>2, <3>3, TopologyAssumption DEF OLSR_TOP_HOLD_TIME, SinceCap
    <2>6. QED BY <2>3, <2>4, <2>5
  <1>4. QED BY <1>1, <1>2, <1>3 DEF ProcessTc

\* What is held grows older with its TC.
LEMMA StalenessTick ==
    ASSUME StalenessInv, Tick PROVE InFlightFresh' /\ StalenessBound'
  <1> USE DEF StalenessInv, SoftStateInv
  <1>1. \A o \in Originators, d \in Dests :
           /\ sinceAdv[o][d] \in Int /\ sinceAdv'[o][d] \in Int
           /\ sinceAdv'[o][d] <= sinceAdv[o][d] + 1
    <2>1. ASSUME NEW o \in Originators, NEW d \in Dests
          PROVE  /\ sinceAdv[o][d] \in Int /\ sinceAdv'[o][d] \in Int
                 /\ sinceAdv'[o][d] <= sinceAdv[o][d] + 1
      <3>1. sinceAdv[o][d] \in 0 .. SinceCap
        BY DEF TypeOK
      <3>2. sinceAdv'[o][d] = IF sinceAdv[o][d] = SinceCap THEN SinceCap ELSE sinceAdv[o][d] + 1
        BY DEF Tick
      <3>3. QED BY <3>1, <3>2
    <2>2. QED BY <2>1
  <1>2. InFlightFresh'
    <2>1. SUFFICES ASSUME NEW m \in net,
                          NEW d \in m.neighborAddresses
                   PROVE  sinceAdv'[m.originator][d] <= m.age + 1
      <3> DEFINE older(m) == [m EXCEPT !.age = @ + 1]
      <3>1. net' = {older(m) : m \in net}
        BY DEF Tick
      <3>2. \A m \in net : /\ older(m).neighborAddresses = m.neighborAddresses
                           /\ older(m).originator = m.originator
                           /\ older(m).age = m.age + 1
        BY DEF TypeOK, Message
      <3> HIDE DEF older
      <3>3. QED BY <3>1, <3>2 DEF InFlightFresh
    <2>2. m.originator \in Originators /\ d \in Dests /\ m.age \in Int
      BY DEF TypeOK, Message
    <2>3. sinceAdv[m.originator][d] <= m.age
      BY DEF InFlightFresh
    <2>4. QED BY <1>1, <2>2, <2>3
  <1>3. StalenessBound'
    <2>1. SUFFICES ASSUME NEW t \in topologySet
                   PROVE  sinceAdv'[t.lastAddr][t.destAddr] + (t.left - 1)
                            <= OLSR_TOP_HOLD_TIME + MaxDelay
      <3> DEFINE later(t) == [t EXCEPT !.left = @ - 1]
      <3>1. topologySet' = {later(t) : t \in topologySet}
        BY DEF Tick
      <3>2. \A t \in topologySet : /\ later(t).lastAddr = t.lastAddr
                                   /\ later(t).destAddr = t.destAddr
                                   /\ later(t).left = t.left - 1
        BY DEF TypeOK, TopologyTuple
      <3>3. (OLSR_TOP_HOLD_TIME + MaxDelay)' = OLSR_TOP_HOLD_TIME + MaxDelay
        BY DEF OLSR_TOP_HOLD_TIME
      <3> HIDE DEF later
      <3>4. QED BY <3>1, <3>2, <3>3 DEF StalenessBound
    <2>2. t.lastAddr \in Originators /\ t.destAddr \in Dests /\ t.left \in Int
      BY DEF TypeOK, TopologyTuple
    <2>3. sinceAdv[t.lastAddr][t.destAddr] + t.left <= OLSR_TOP_HOLD_TIME + MaxDelay
      BY DEF StalenessBound
    <2>4. OLSR_TOP_HOLD_TIME + MaxDelay \in Int
      BY TopologyAssumption DEF OLSR_TOP_HOLD_TIME
    <2>5. QED BY <1>1, <2>2, <2>3, <2>4
  <1>4. QED BY <1>2, <1>3

\* No link is held longer than the hold time and the flood's delay together
\* after its originator last advertised it (SendTc, ProcessTc step 4,
\* TopologyTupleTimerExpire), for every hold time, delay and set of nodes.
THEOREM Staleness == Spec => []StalenessBound
  <1>1. Init => StalenessInv
    BY TypeInit DEF Init, StalenessInv, SoftStateInv, OneAnsnPerOriginator, EveryTupleHasTimer,
                    InFlightFresh, StalenessBound
  <1>2. StalenessInv /\ [Next]_vars => StalenessInv'
    <2> SUFFICES ASSUME StalenessInv, [Next]_vars PROVE StalenessInv'
      OBVIOUS
    <2>1. SoftStateInv'
      BY SoftStateStep DEF StalenessInv
    <2>2. CASE UNCHANGED <<net, topologySet, sinceAdv>>
      BY <2>1, <2>2 DEF StalenessInv, InFlightFresh, StalenessBound
    <2>3. ASSUME NEW o \in Originators, TcTimerExpire(o) PROVE StalenessInv'
      BY <2>1, <2>3, StalenessTc DEF StalenessInv
    <2>4. ASSUME NEW m \in net, ProcessTc(m) PROVE StalenessInv'
      BY <2>1, <2>4, StalenessProcess DEF StalenessInv
    <2>5. ASSUME NEW m \in net, DropTc(m) PROVE StalenessInv'
      BY <2>1, <2>5 DEF StalenessInv, InFlightFresh, StalenessBound, DropTc, history
    <2>6. ASSUME NEW e \in timers, TopologyTupleTimerExpire(e) PROVE StalenessInv'
      BY <2>1, <2>6 DEF StalenessInv, InFlightFresh, StalenessBound,
                        TopologyTupleTimerExpire, history
    <2>7. CASE Tick
      BY <2>1, <2>7, StalenessTick DEF StalenessInv
    <2>8. ASSUME NEW o \in Originators,
                 \/ \E d \in Dests : \/ AddMprSelectorTuple(o, d)
                                     \/ RemoveMprSelectorTuple(o, d)
                                     \/ NeighborLoss(o, d)
                 \/ AddNeighborTuple(o)
                 \/ FallSilent(o)
          PROVE  UNCHANGED <<net, topologySet, sinceAdv>>
      BY <2>8 DEF AddMprSelectorTuple, RemoveMprSelectorTuple, NeighborLoss,
                  AddNeighborTuple, FallSilent, history
    <2>9. CASE UNCHANGED vars
      BY <2>2, <2>9 DEF vars, history
    <2>10. QED
      BY <2>2, <2>3, <2>4, <2>5, <2>6, <2>7, <2>8, <2>9 DEF Next
  <1>3. StalenessInv => StalenessBound
    BY DEF StalenessInv
  <1>4. QED BY <1>1, <1>2, <1>3, PTL DEF Spec

-----------------------------------------------------------------------------
(* No rollback: within one cycle of the 16-bit ANSN, and if a TC spends no *)
(* longer in the flood than a tuple is held.                               *)

\* m_ansn starts where SetIpv4 puts it and does not come round again.
OneAnsnCycle == StartAnsn = OLSR_MAX_SEQ_NUM /\ AnsnHorizon <= OLSR_MAX_SEQ_NUM

FloodWithinHoldTime == MaxDelay <= OLSR_TOP_HOLD_TIME

\* The ANSNs on the way and in the set are the history's numbers less one:
\* the first increment takes 65535 to 0, before any TC can be sent.
NumbersInv ==
    /\ \A o \in Originators :
          /\ ansn[o] = IF advanced[o] = 0 THEN OLSR_MAX_SEQ_NUM ELSE advanced[o] - 1
          /\ mprSelectors[o] # {} => advanced[o] > 0
          /\ accepted[o] <= advanced[o]
    /\ \A m \in net : /\ m.ansn = m.sent - 1
                      /\ m.sent > 0 /\ m.sent <= advanced[m.originator]
    /\ \A t \in topologySet : t.sequenceNumber = accepted[t.lastAddr] - 1

\* While a TC older than the one accepted is still on its way, a tuple of
\* the accepted one outlives it.
OvertakenInv ==
    \A m \in net : m.sent < accepted[m.originator] =>
        \E t \in topologySet : t.lastAddr = m.originator /\ t.left >= MaxDelay - m.age

OrderInv == SoftStateInv /\ NumbersInv /\ OvertakenInv

\* Within one cycle no increment wraps, honest or malicious.
LEMMA NoWrap ==
    ASSUME OneAnsnCycle, TypeOK, NumbersInv, NEW o \in Originators, NEW value, NEW by \in Nat \ {0},
           AnsnMovesTo(o, value, by),
           \/ by = 1 /\ value = (ansn[o] + 1) % (OLSR_MAX_SEQ_NUM + 1)
           \/ by = AnsnOffset /\ advanced[o] > 0 /\ value = (ansn[o] + AnsnOffset) % OLSR_MAX_SEQ_NUM
    PROVE  /\ \A p \in Originators :
                 /\ ansn'[p] = IF advanced'[p] = 0 THEN OLSR_MAX_SEQ_NUM ELSE advanced'[p] - 1
                 /\ advanced'[p] >= advanced[p]
           /\ advanced'[o] > 0
  <1>1. /\ advanced[o] \in Nat /\ advanced[o] + by <= OLSR_MAX_SEQ_NUM
        /\ advanced'[o] = advanced[o] + by /\ ansn'[o] = value
        /\ \A p \in Originators \ {o} : advanced'[p] = advanced[p] /\ ansn'[p] = ansn[p]
        /\ \A p \in Originators : advanced[p] \in Nat
    <2>1. \A p \in Originators : advanced[p] \in Nat
      BY TopologyAssumption DEF TypeOK
    <2>2. advanced[o] + by <= OLSR_MAX_SEQ_NUM
      BY <2>1, MaxSeqNum, TopologyAssumption DEF AnsnMovesTo, OneAnsnCycle
    <2>3. QED BY <2>1, <2>2 DEF TypeOK, AnsnMovesTo
  <1>2. value = advanced[o] + by - 1
    <2>1. CASE by = 1 /\ advanced[o] = 0 /\ value = (ansn[o] + 1) % (OLSR_MAX_SEQ_NUM + 1)
      <3>1. ansn[o] = OLSR_MAX_SEQ_NUM
        BY <2>1 DEF NumbersInv
      <3>2. (OLSR_MAX_SEQ_NUM + 1) % (OLSR_MAX_SEQ_NUM + 1) = 0
        BY MaxSeqNum, SmallRemainder
      <3>3. QED BY <2>1, <3>1, <3>2
    <2>2. CASE by = 1 /\ advanced[o] > 0 /\ value = (ansn[o] + 1) % (OLSR_MAX_SEQ_NUM + 1)
      <3>1. ansn[o] = advanced[o] - 1
        BY <1>1, <2>2 DEF NumbersInv
      <3>2. ansn[o] + 1 = advanced[o] /\ advanced[o] \in Nat /\ advanced[o] < OLSR_MAX_SEQ_NUM + 1
        BY <1>1, <2>2, <3>1, MaxSeqNum
      <3>3. advanced[o] % (OLSR_MAX_SEQ_NUM + 1) = advanced[o]
        BY <3>2, MaxSeqNum, SmallRemainder
      <3>4. QED BY <1>1, <2>2, <3>2, <3>3
    <2>3. CASE by = AnsnOffset /\ advanced[o] > 0 /\ value = (ansn[o] + AnsnOffset) % OLSR_MAX_SEQ_NUM
      <3> DEFINE sum == advanced[o] + AnsnOffset - 1
      <3>1. ansn[o] = advanced[o] - 1
        BY <1>1, <2>3 DEF NumbersInv
      <3>2. ansn[o] + AnsnOffset = sum /\ sum \in Nat /\ sum < OLSR_MAX_SEQ_NUM
        BY <1>1, <2>3, <3>1, MaxSeqNum DEF AnsnOffset
      <3> HIDE DEF sum
      <3>3. sum % OLSR_MAX_SEQ_NUM = sum
        BY <3>2, MaxSeqNum, SmallRemainder
      <3>4. value = sum
        BY <2>3, <3>2, <3>3
      <3>5. QED BY <2>3, <3>4 DEF sum
    <2>4. QED BY <1>1, <2>1, <2>2, <2>3
  <1>3. ASSUME NEW p \in Originators
        PROVE  /\ ansn'[p] = IF advanced'[p] = 0 THEN OLSR_MAX_SEQ_NUM ELSE advanced'[p] - 1
               /\ advanced'[p] >= advanced[p]
    BY <1>1, <1>2 DEF NumbersInv
  <1>4. QED BY <1>1, <1>3

\* A change of the selectors takes a new number.
LEMMA NumbersAdvance ==
    ASSUME OneAnsnCycle, TypeOK, NumbersInv, OvertakenInv, NEW o \in Originators,
           \/ \E d \in Dests : AddMprSelectorTuple(o, d) \/ RemoveMprSelectorTuple(o, d)
           \/ AddNeighborTuple(o)
    PROVE  NumbersInv' /\ OvertakenInv'
  <1>1. /\ UNCHANGED <<net, topologySet, accepted>>
        /\ IncrementAnsn(o)
        /\ \A p \in Originators : p # o => mprSelectors'[p] = mprSelectors[p]
    BY DEF AddMprSelectorTuple, RemoveMprSelectorTuple, AddNeighborTuple, TypeOK
  <1>2. OvertakenInv'
    BY <1>1 DEF OvertakenInv
  <1>3. /\ \A p \in Originators :
              /\ ansn'[p] = IF advanced'[p] = 0 THEN OLSR_MAX_SEQ_NUM ELSE advanced'[p] - 1
              /\ advanced'[p] >= advanced[p]
        /\ advanced'[o] > 0
    BY <1>1, NoWrap DEF IncrementAnsn
  <1>4. \A p \in Originators : /\ advanced[p] \in Int /\ advanced'[p] \in Int
                              /\ accepted[p] \in Int
    BY <1>1, IncrementType DEF TypeOK
  <1>5. ASSUME NEW p \in Originators
        PROVE  /\ mprSelectors'[p] # {} => advanced'[p] > 0
               /\ accepted'[p] <= advanced'[p]
    BY <1>1, <1>3, <1>4 DEF NumbersInv
  <1>6. ASSUME NEW m \in net
        PROVE  m.ansn = m.sent - 1 /\ m.sent > 0 /\ m.sent <= advanced'[m.originator]
    <2>1. m.originator \in Originators /\ m.sent \in Int
      BY DEF TypeOK, Message
    <2>2. QED BY <1>3, <1>4, <2>1 DEF NumbersInv
  <1>7. NumbersInv'
    BY <1>1, <1>3, <1>5, <1>6 DEF NumbersInv
  <1>8. QED BY <1>2, <1>7

\* A TC carries the number of its time.
LEMMA NumbersTc ==
    ASSUME OneAnsnCycle, TypeOK, NumbersInv, OvertakenInv, NEW o \in Originators,
           mprSelectors[o] # {}, NEW listed, SendTc(o, listed), UNCHANGED <<mprSelectors, topologySet, accepted>>
    PROVE  NumbersInv' /\ OvertakenInv'
  <1>1. /\ \A p \in Originators :
              /\ ansn'[p] = IF advanced'[p] = 0 THEN OLSR_MAX_SEQ_NUM ELSE advanced'[p] - 1
              /\ advanced'[p] >= advanced[p]
              /\ advanced[p] \in Int /\ advanced'[p] \in Int /\ accepted[p] \in Int
        /\ advanced'[o] > 0
    <2>1. \A p \in Originators : advanced[p] \in Int /\ accepted[p] \in Int
      BY DEF TypeOK
    <2>2. advanced[o] > 0
      BY DEF NumbersInv
    <2>3. CASE o \in Attackers
      <3>1. AnsnMovesTo(o, (ansn[o] + AnsnOffset) % OLSR_MAX_SEQ_NUM, AnsnOffset)
        BY <2>3 DEF SendTc
      <3>2. AnsnOffset \in Nat \ {0} /\ ansn[o] \in 0 .. OLSR_MAX_SEQ_NUM
        BY DEF AnsnOffset, TypeOK
      <3>3. \A p \in Originators : advanced'[p] \in Int
        BY <3>1, <3>2, AnsnRange, AnsnMovesType
      <3>4. QED BY <2>1, <2>2, <3>1, <3>2, <3>3, NoWrap
    <2>4. CASE o \notin Attackers
      BY <2>1, <2>2, <2>4 DEF SendTc, NumbersInv
    <2>5. QED BY <2>3, <2>4
  <1> DEFINE sent == [originator |-> o, ansn |-> ansn'[o],
                      neighborAddresses |-> listed, age |-> 0, sent |-> advanced'[o]]
  <1>2. net' = net \cup {sent}
    BY DEF SendTc
  <1>3. ASSUME NEW p \in Originators
        PROVE  /\ mprSelectors'[p] # {} => advanced'[p] > 0
               /\ accepted'[p] <= advanced'[p]
    BY <1>1 DEF NumbersInv
  <1>4. ASSUME NEW m \in net'
        PROVE  m.ansn = m.sent - 1 /\ m.sent > 0 /\ m.sent <= advanced'[m.originator]
    <2>1. CASE m \in net
      <3>1. m.originator \in Originators /\ m.sent \in Int
        BY <2>1 DEF TypeOK, Message
      <3>2. QED BY <1>1, <2>1, <3>1 DEF NumbersInv
    <2>2. CASE m = sent
      BY <1>1, <2>2
    <2>3. QED BY <1>2, <2>1, <2>2
  <1>5. NumbersInv'
    BY <1>1, <1>3, <1>4 DEF NumbersInv
  <1>6. OvertakenInv'
    <2>1. ~(sent.sent < accepted[sent.originator])
      BY <1>1, <1>3
    <2>2. QED BY <1>2, <2>1 DEF OvertakenInv
  <1>7. QED BY <1>5, <1>6

\* What an accepted TC proves: it is not older than the one accepted before.
\* Were it older, a tuple of the newer one would still be there (OvertakenInv)
\* and step 2 of ProcessTc would have found it.
LEMMA AcceptedIsNotOlder ==
    ASSUME TypeOK, NumbersInv, OvertakenInv, NEW m \in net,
           FindNewerTopologyTuple(m.originator, m.ansn) = {}
    PROVE  m.sent >= accepted[m.originator]
  <1>1. m \in Message /\ m.sent \in Int /\ m.ansn = m.sent - 1
        /\ accepted[m.originator] \in Int
    BY DEF TypeOK, Message, NumbersInv
  <1>2. SUFFICES ASSUME m.sent < accepted[m.originator] PROVE FALSE
    BY <1>1
  <1>3. PICK t \in topologySet : t.lastAddr = m.originator
    BY <1>2 DEF OvertakenInv
  <1>4. t.sequenceNumber = accepted[m.originator] - 1
    BY <1>3 DEF NumbersInv
  <1>5. t.sequenceNumber > m.ansn
    BY <1>1, <1>2, <1>4
  <1>6. QED BY <1>3, <1>5 DEF FindNewerTopologyTuple

\* ProcessTc takes no number back.
LEMMA OrderProcess ==
    ASSUME FloodWithinHoldTime, OrderInv, NEW m \in net, ProcessTc(m)
    PROVE  NumbersInv' /\ OvertakenInv'
  <1> USE DEF OrderInv, SoftStateInv
  <1> DEFINE o == m.originator
             kept == EraseOlderTopologyTuples(m.originator, m.ansn)
             refreshed(t) == t.lastAddr = m.originator /\ t.destAddr \in m.neighborAddresses
             new(t) == IF refreshed(t) THEN [t EXCEPT !.left = OLSR_TOP_HOLD_TIME] ELSE t
             fresh == {d \in m.neighborAddresses :
                         ~\E t \in kept : t.lastAddr = m.originator /\ t.destAddr = d}
             made(d) == [destAddr |-> d, lastAddr |-> m.originator,
                         sequenceNumber |-> m.ansn, left |-> OLSR_TOP_HOLD_TIME]
  <1>1. CASE UNCHANGED <<topologySet, timers, accepted>>
    BY <1>1 DEF ProcessTc, originatorVars, NumbersInv, OvertakenInv
  <1>2. CASE /\ FindNewerTopologyTuple(m.originator, m.ansn) = {}
             /\ RecordAdvertised(m)
             /\ accepted' = [accepted EXCEPT ![m.originator] = m.sent]
    <2>1. /\ topologySet' = {new(t) : t \in kept} \cup {made(d) : d \in fresh}
          /\ net' \subseteq net
          /\ UNCHANGED <<mprSelectors, ansn, advanced>>
      BY <1>2 DEF RecordAdvertised, ProcessTc, originatorVars
    <2>2. /\ m \in Message /\ o \in Originators /\ m.neighborAddresses # {}
          /\ m.sent \in Int /\ m.ansn = m.sent - 1 /\ m.sent <= advanced[o]
          /\ kept \subseteq topologySet /\ kept \subseteq TopologyTuple
      BY DEF TypeOK, Message, NumbersInv, EraseOlderTopologyTuples
    <2>3. /\ accepted'[o] = m.sent
          /\ \A p \in Originators : p # o => accepted'[p] = accepted[p]
      BY <1>2, <2>2 DEF TypeOK
    <2>4. \A t \in kept : /\ new(t).lastAddr = t.lastAddr
                          /\ new(t).sequenceNumber = t.sequenceNumber
                          /\ new(t).left \in Int /\ new(t).left >= t.left
                          /\ refreshed(t) => new(t).left = OLSR_TOP_HOLD_TIME
      BY <2>2, TopologyAssumption DEF TopologyTuple, OLSR_TOP_HOLD_TIME
    <2>5. \A t \in kept : t.lastAddr = o => t.sequenceNumber = m.ansn
      <3>1. ASSUME NEW t \in kept, t.lastAddr = o PROVE t.sequenceNumber = m.ansn
        <4>1. ~(t.sequenceNumber < m.ansn)
          BY <3>1 DEF EraseOlderTopologyTuples
        <4>2. ~(t.sequenceNumber > m.ansn)
          BY <1>2, <2>2, <3>1 DEF FindNewerTopologyTuple
        <4>3. t.sequenceNumber \in Int /\ m.ansn \in Int
          BY <2>2 DEF TopologyTuple, Message
        <4>4. QED BY <4>1, <4>2, <4>3
      <3>2. QED BY <3>1
    <2>6. NumbersInv'
      <3>1. \A p \in Originators :
              /\ ansn'[p] = IF advanced'[p] = 0 THEN OLSR_MAX_SEQ_NUM ELSE advanced'[p] - 1
              /\ mprSelectors'[p] # {} => advanced'[p] > 0
              /\ accepted'[p] <= advanced'[p]
        <4>1. ASSUME NEW p \in Originators PROVE accepted'[p] <= advanced'[p]
          <5>1. CASE p = o
            BY <2>1, <2>2, <2>3, <5>1
          <5>2. CASE p # o
            BY <2>1, <2>3, <5>2 DEF NumbersInv
          <5>3. QED BY <5>1, <5>2
        <4>2. QED BY <2>1, <4>1 DEF NumbersInv
      <3>2. \A n \in net' : n.ansn = n.sent - 1 /\ n.sent > 0 /\ n.sent <= advanced'[n.originator]
        BY <2>1 DEF NumbersInv
      <3>3. \A t \in kept : new(t).sequenceNumber = accepted'[new(t).lastAddr] - 1
        <4>1. ASSUME NEW t \in kept
              PROVE  new(t).sequenceNumber = accepted'[new(t).lastAddr] - 1
          <5>1. t.lastAddr \in Originators /\ t.sequenceNumber = accepted[t.lastAddr] - 1
            BY <2>2 DEF TopologyTuple, NumbersInv
          <5>2. CASE t.lastAddr = o
            <6>1. new(t).lastAddr = o /\ new(t).sequenceNumber = m.ansn
              BY <2>4, <2>5, <5>2
            <6> HIDE DEF kept, new, o
            <6>2. QED BY <2>2, <2>3, <6>1
          <5>3. CASE t.lastAddr # o
            <6>1. new(t).lastAddr = t.lastAddr /\ new(t).sequenceNumber = t.sequenceNumber
              BY <2>4
            <6> HIDE DEF kept, new, o
            <6>2. QED BY <2>3, <5>1, <5>3, <6>1
          <5>4. QED BY <5>2, <5>3
        <4>2. QED BY <4>1
      <3>4. \A d \in fresh : made(d).sequenceNumber = accepted'[made(d).lastAddr] - 1
        <4>1. \A d \in fresh : made(d).sequenceNumber = m.ansn /\ made(d).lastAddr = o
          OBVIOUS
        <4> HIDE DEF fresh, made, o
        <4>2. QED BY <2>2, <2>3, <4>1
      <3> HIDE DEF kept, new, fresh, made, refreshed
      <3>5. QED BY <2>1, <3>1, <3>2, <3>3, <3>4 DEF NumbersInv
    <2>7. \E t \in topologySet' : t.lastAddr = o /\ t.left = OLSR_TOP_HOLD_TIME
      <3>1. PICK d \in m.neighborAddresses : TRUE
        BY <2>2
      <3>2. CASE d \in fresh
        <4>1. made(d) \in topologySet' /\ made(d).lastAddr = o
              /\ made(d).left = OLSR_TOP_HOLD_TIME
          BY <2>1, <3>2
        <4>2. QED BY <4>1
      <3>3. CASE d \notin fresh
        <4>1. PICK t \in kept : t.lastAddr = o /\ t.destAddr = d
          BY <3>3
        <4>2. refreshed(t) /\ new(t) \in topologySet'
          BY <2>1, <4>1
        <4> HIDE DEF kept, new, refreshed
        <4>3. QED BY <2>4, <4>1, <4>2
      <3>4. QED BY <3>2, <3>3
    <2>8. OvertakenInv'
      <3>1. SUFFICES ASSUME NEW n \in net', n.sent < accepted'[n.originator]
                     PROVE  \E t \in topologySet' : /\ t.lastAddr = n.originator
                                                   /\ t.left >= MaxDelay - n.age
        BY DEF OvertakenInv
      <3>2. n \in net /\ n.originator \in Originators /\ n.age \in 0 .. MaxDelay
        BY <2>1 DEF TypeOK, Message
      <3>3. CASE n.originator = o
        BY <2>7, <3>2, <3>3, TopologyAssumption DEF FloodWithinHoldTime, OLSR_TOP_HOLD_TIME
      <3>4. CASE n.originator # o
        <4>1. PICK t \in topologySet : t.lastAddr = n.originator /\ t.left >= MaxDelay - n.age
          BY <2>3, <3>1, <3>2, <3>4 DEF OvertakenInv
        <4>2. t \in kept /\ new(t) = t
          BY <3>4, <4>1 DEF EraseOlderTopologyTuples
        <4>3. t \in topologySet'
          BY <2>1, <4>2
        <4>4. QED BY <4>1, <4>3
      <3>5. QED BY <3>3, <3>4
    <2>9. QED BY <2>6, <2>8
  <1>3. QED BY <1>1, <1>2 DEF ProcessTc

\* A tuple that outlives an overtaken TC has time left while that TC is on
\* its way, so no event removes it.
LEMMA OrderExpire ==
    ASSUME OrderInv, NEW e \in timers, TopologyTupleTimerExpire(e)
    PROVE  NumbersInv' /\ OvertakenInv'
  <1> USE DEF OrderInv, SoftStateInv
  <1>1. /\ topologySet' \subseteq topologySet
        /\ \A t \in topologySet : t.left >= 0 => t \in topologySet'
        /\ UNCHANGED <<net, accepted, advanced, ansn, mprSelectors>>
    BY DEF TopologyTupleTimerExpire, TypeOK, TopologyTuple, OneAnsnPerOriginator,
           originatorVars, history
  <1>2. NumbersInv'
    BY <1>1 DEF NumbersInv
  <1>3. OvertakenInv'
    <2>1. SUFFICES ASSUME NEW m \in net, m.sent < accepted[m.originator]
                   PROVE  \E t \in topologySet' : t.lastAddr = m.originator
                                                 /\ t.left >= MaxDelay - m.age
      BY <1>1 DEF OvertakenInv
    <2>2. PICK t \in topologySet : t.lastAddr = m.originator /\ t.left >= MaxDelay - m.age
      BY <2>1 DEF OvertakenInv
    <2>3. t.left >= 0
      BY <2>2, TopologyAssumption DEF TypeOK, Message, TopologyTuple
    <2>4. QED BY <1>1, <2>2, <2>3
  <1>4. QED BY <1>2, <1>3

\* Time changes no number.
LEMMA OrderTick == ASSUME OrderInv, Tick PROVE NumbersInv' /\ OvertakenInv'
  <1> USE DEF OrderInv, SoftStateInv
  <1> DEFINE older(m) == [m EXCEPT !.age = @ + 1]
             closer(t) == [t EXCEPT !.left = @ - 1]
  <1>1. /\ net' = {older(m) : m \in net}
        /\ topologySet' = {closer(t) : t \in topologySet}
        /\ UNCHANGED <<accepted, advanced, ansn, mprSelectors>>
    BY DEF Tick
  <1>2. \A m \in net : /\ older(m).originator = m.originator /\ older(m).ansn = m.ansn
                       /\ older(m).sent = m.sent /\ older(m).age = m.age + 1
                       /\ m.age \in Int
    BY DEF TypeOK, Message
  <1>3. \A t \in topologySet : /\ closer(t).lastAddr = t.lastAddr
                               /\ closer(t).sequenceNumber = t.sequenceNumber
                               /\ closer(t).left = t.left - 1 /\ t.left \in Int
    BY DEF TypeOK, TopologyTuple
  <1> HIDE DEF older, closer
  <1>4. NumbersInv'
    BY <1>1, <1>2, <1>3 DEF NumbersInv
  <1>5. OvertakenInv'
    <2>1. SUFFICES ASSUME NEW m \in net, m.sent < accepted[m.originator]
                   PROVE  \E t \in topologySet' : t.lastAddr = m.originator
                                                 /\ t.left >= MaxDelay - (m.age + 1)
      BY <1>1, <1>2 DEF OvertakenInv
    <2>2. PICK t \in topologySet : t.lastAddr = m.originator /\ t.left >= MaxDelay - m.age
      BY <2>1 DEF OvertakenInv
    <2>3. closer(t) \in topologySet' /\ closer(t).left >= MaxDelay - (m.age + 1)
      BY <1>1, <1>2, <1>3, <2>2, TopologyAssumption
    <2>4. QED BY <1>3, <2>2, <2>3
  <1>6. QED BY <1>4, <1>5

\* Every step keeps the order.
LEMMA OrderStep ==
    ASSUME OneAnsnCycle, FloodWithinHoldTime
    PROVE  OrderInv /\ [Next]_vars => OrderInv'
  <1> SUFFICES ASSUME OrderInv, [Next]_vars PROVE OrderInv'
    OBVIOUS
  <1>1. SoftStateInv' /\ TypeOK
    BY SoftStateStep DEF OrderInv, SoftStateInv
  <1>2. ASSUME NEW o \in Originators,
               \/ \E d \in Dests : AddMprSelectorTuple(o, d) \/ RemoveMprSelectorTuple(o, d)
               \/ AddNeighborTuple(o)
        PROVE  OrderInv'
    BY <1>1, <1>2, NumbersAdvance DEF OrderInv
  <1>3. ASSUME NEW o \in Originators, NEW d \in Dests, NeighborLoss(o, d) PROVE OrderInv'
    <2>1. /\ UNCHANGED <<net, topologySet, accepted, advanced, ansn>>
          /\ \A p \in Originators : mprSelectors'[p] # {} => mprSelectors[p] # {}
      BY <1>1, <1>3 DEF NeighborLoss, TypeOK, history
    <2>2. NumbersInv' /\ OvertakenInv'
      BY <2>1 DEF OrderInv, NumbersInv, OvertakenInv
    <2>3. QED BY <1>1, <2>2 DEF OrderInv
  <1>4. ASSUME NEW o \in Originators, TcTimerExpire(o) PROVE OrderInv'
    <2>1. CASE UNCHANGED <<ansn, advanced, net, sinceAdv>>
      BY <1>1, <1>4, <2>1 DEF TcTimerExpire, OrderInv, NumbersInv, OvertakenInv
    <2>2. ASSUME NEW listed, mprSelectors[o] # {}, SendTc(o, listed) PROVE OrderInv'
      BY <1>1, <1>4, <2>2, NumbersTc DEF OrderInv, TcTimerExpire
    <2>3. QED BY <1>1, <1>4, <2>1, <2>2, TcSent
  <1>5. ASSUME NEW m \in net, ProcessTc(m) PROVE OrderInv'
    BY <1>1, <1>5, OrderProcess DEF OrderInv
  <1>6. ASSUME NEW m \in net, DropTc(m) PROVE OrderInv'
    BY <1>1, <1>6 DEF OrderInv, NumbersInv, OvertakenInv, DropTc, originatorVars, history
  <1>7. ASSUME NEW e \in timers, TopologyTupleTimerExpire(e) PROVE OrderInv'
    BY <1>1, <1>7, OrderExpire DEF OrderInv
  <1>8. CASE Tick
    BY <1>1, <1>8, OrderTick DEF OrderInv
  <1>9. ASSUME NEW o \in Originators, FallSilent(o) PROVE OrderInv'
    BY <1>1, <1>9 DEF OrderInv, NumbersInv, OvertakenInv, FallSilent, history
  <1>10. CASE UNCHANGED vars
    BY <1>1, <1>10 DEF OrderInv, NumbersInv, OvertakenInv, vars, originatorVars, history
  <1>11. QED
    BY <1>2, <1>3, <1>4, <1>5, <1>6, <1>7, <1>8, <1>9, <1>10 DEF Next

\* Within one cycle of m_ansn, and if the flood takes no longer than the hold
\* time, ProcessTc never lets an older TC replace what a newer one recorded,
\* even though the number it compares with is forgotten tuple by tuple.
THEOREM RollbackFree ==
    ASSUME OneAnsnCycle, FloodWithinHoldTime
    PROVE  Spec => NoRollback
  <1>1. Init => OrderInv
    BY TypeInit DEF Init, OrderInv, SoftStateInv, OneAnsnPerOriginator, EveryTupleHasTimer,
                    NumbersInv, OvertakenInv, OneAnsnCycle
  <1>2. OrderInv /\ [Next]_vars => [\A o \in Originators : accepted'[o] >= accepted[o]]_vars
    <2> SUFFICES ASSUME OrderInv, [Next]_vars, NEW o \in Originators
                 PROVE  accepted'[o] >= accepted[o]
      OBVIOUS
    <2>1. TypeOK /\ accepted[o] \in Int
      BY DEF OrderInv, SoftStateInv, TypeOK
    <2>2. CASE UNCHANGED accepted
      BY <2>1, <2>2
    <2>3. ASSUME NEW m \in net, ProcessTc(m) PROVE accepted'[o] >= accepted[o]
      <3>1. CASE /\ FindNewerTopologyTuple(m.originator, m.ansn) = {}
                 /\ accepted' = [accepted EXCEPT ![m.originator] = m.sent]
        <4>1. m.sent >= accepted[m.originator]
          BY <2>1, <3>1, AcceptedIsNotOlder DEF OrderInv
        <4>2. QED BY <2>1, <3>1, <4>1 DEF TypeOK
      <3>2. QED BY <2>2, <2>3, <3>1 DEF ProcessTc
    <2>4. QED
      BY <2>2, <2>3 DEF Next, AddMprSelectorTuple, RemoveMprSelectorTuple, NeighborLoss,
         AddNeighborTuple, TcTimerExpire, FallSilent, DropTc, TopologyTupleTimerExpire, Tick,
         vars, originatorVars, history
  <1>3. QED
    BY <1>1, <1>2, OrderStep, PTL DEF Spec, NoRollback

-----------------------------------------------------------------------------
(* The topology set implements AdvertisedView: each step turns or offers   *)
(* what an originator has, loses an offer, replaces, extends or thins out  *)
(* the copy held of it, or leaves all of that alone.                       *)

\* The refinement mapping of RefinesView.
Held(tuples, o) == {t.destAddr : t \in {s \in tuples : s.lastAddr = o}}
HeldView == [o \in Originators |-> Held(topologySet, o)]
OfferOf(m) == [originator |-> m.originator, stamp |-> m.sent, links |-> m.neighborAddresses]
Offers == {OfferOf(m) : m \in net}
abstractVars == <<mprSelectors, advanced, Offers, HeldView, accepted>>

\* What ProcessTc makes of the copy of the TC's originator, and that it leaves
\* all other copies alone.
LEMMA ViewProcess ==
    ASSUME FloodWithinHoldTime, OrderInv, NEW m \in net, ProcessTc(m),
           FindNewerTopologyTuple(m.originator, m.ansn) = {}, RecordAdvertised(m),
           accepted' = [accepted EXCEPT ![m.originator] = m.sent]
    PROVE  /\ m.originator \in Originators
           /\ m.neighborAddresses \in (SUBSET Dests) \ {{}}
           /\ \/ /\ m.sent > accepted[m.originator]
                 /\ HeldView' = [HeldView EXCEPT ![m.originator] = m.neighborAddresses]
              \/ /\ m.sent = accepted[m.originator] /\ accepted' = accepted
                 /\ HeldView' = [HeldView EXCEPT ![m.originator] = @ \cup m.neighborAddresses]
  <1> USE DEF OrderInv, SoftStateInv
  <1> DEFINE o == m.originator
             kept == EraseOlderTopologyTuples(m.originator, m.ansn)
             refreshed(t) == t.lastAddr = m.originator /\ t.destAddr \in m.neighborAddresses
             new(t) == IF refreshed(t) THEN [t EXCEPT !.left = OLSR_TOP_HOLD_TIME] ELSE t
             fresh == {d \in m.neighborAddresses :
                         ~\E t \in kept : t.lastAddr = m.originator /\ t.destAddr = d}
             made(d) == [destAddr |-> d, lastAddr |-> m.originator,
                         sequenceNumber |-> m.ansn, left |-> OLSR_TOP_HOLD_TIME]
  <1>1. topologySet' = {new(t) : t \in kept} \cup {made(d) : d \in fresh}
    BY DEF RecordAdvertised
  <1>2. /\ o \in Originators /\ m.neighborAddresses \in (SUBSET Dests) \ {{}}
        /\ m.ansn = m.sent - 1 /\ m.sent \in Int /\ accepted[o] \in Int
    BY DEF TypeOK, Message, NumbersInv
  <1>3. \A t \in kept : new(t).lastAddr = t.lastAddr /\ new(t).destAddr = t.destAddr
    BY DEF TypeOK, TopologyTuple, EraseOlderTopologyTuples
  <1>4. \A d \in fresh : made(d).lastAddr = o /\ made(d).destAddr = d
    OBVIOUS
  <1>5. kept \subseteq topologySet
        /\ \A t \in topologySet : t.lastAddr # o => t \in kept
    BY DEF EraseOlderTopologyTuples
  <1>6. ASSUME NEW p \in Originators, p # o PROVE Held(topologySet', p) = Held(topologySet, p)
    <2> HIDE DEF kept, new, fresh, made, o
    <2>1. \A d : (\E t \in topologySet' : t.lastAddr = p /\ t.destAddr = d)
               <=> (\E t \in kept : t.lastAddr = p /\ t.destAddr = d)
      BY <1>1, <1>3, <1>4, <1>6
    <2>2. \A d : (\E t \in kept : t.lastAddr = p /\ t.destAddr = d)
               <=> (\E t \in topologySet : t.lastAddr = p /\ t.destAddr = d)
      BY <1>5, <1>6
    <2>3. QED BY <2>1, <2>2 DEF Held
  <1>7. Held(topologySet', o) = Held(kept, o) \cup m.neighborAddresses
    <2>1. \A d : (\E t \in topologySet' : t.lastAddr = o /\ t.destAddr = d)
               <=> d \in fresh \/ \E t \in kept : t.lastAddr = o /\ t.destAddr = d
      <3> HIDE DEF kept, new, fresh, made, o
      <3>1. QED BY <1>1, <1>3, <1>4
    <2>2. \A d : d \in m.neighborAddresses
               => d \in fresh \/ \E t \in kept : t.lastAddr = o /\ t.destAddr = d
      OBVIOUS
    <2>3. fresh \subseteq m.neighborAddresses
      OBVIOUS
    <2> HIDE DEF kept, new, fresh, made, o
    <2>4. QED BY <2>1, <2>2, <2>3 DEF Held
  <1>8. /\ HeldView' = [HeldView EXCEPT ![o] = Held(topologySet', o)]
        /\ HeldView[o] = Held(topologySet, o)
    BY <1>2, <1>6 DEF HeldView, TypeOK
  <1>9. m.sent >= accepted[o]
    BY AcceptedIsNotOlder
  <1>10. CASE m.sent > accepted[o]
    <2>1. \A t \in topologySet : t.lastAddr = o => t \notin kept
      BY <1>2, <1>10 DEF NumbersInv, EraseOlderTopologyTuples
    <2>2. Held(kept, o) = {}
      BY <1>5, <2>1 DEF Held
    <2>3. HeldView' = [HeldView EXCEPT ![o] = m.neighborAddresses]
      BY <1>7, <1>8, <2>2
    <2>4. QED BY <1>2, <1>10, <2>3
  <1>11. CASE m.sent = accepted[o]
    <2>1. \A t \in topologySet : t.lastAddr = o => t \in kept
      BY <1>2, <1>11 DEF NumbersInv, EraseOlderTopologyTuples
    <2>2. Held(kept, o) = Held(topologySet, o)
      BY <1>5, <2>1 DEF Held
    <2>3. HeldView' = [HeldView EXCEPT ![o] = @ \cup m.neighborAddresses]
      BY <1>7, <1>8, <2>2
    <2>4. accepted' = accepted
      BY <1>2, <1>11 DEF TypeOK
    <2>5. QED BY <1>2, <1>11, <2>3, <2>4
  <1>12. QED BY <1>2, <1>9, <1>10, <1>11

\* An event that removes a tuple takes one link from the copy: by
\* OneAnsnPerOriginator no other tuple records the same link.
LEMMA ViewExpire ==
    ASSUME SoftStateInv, NEW e \in timers, TopologyTupleTimerExpire(e)
    PROVE  \/ UNCHANGED HeldView
           \/ \E o \in Originators : \E d \in HeldView[o] :
                 HeldView' = [HeldView EXCEPT ![o] = @ \ {d}]
  <1> USE DEF SoftStateInv
  <1>1. CASE UNCHANGED topologySet
    BY <1>1 DEF HeldView, Held
  <1>2. ASSUME NEW t \in topologySet, topologySet' = topologySet \ {t}
        PROVE  \E o \in Originators : \E d \in HeldView[o] :
                  HeldView' = [HeldView EXCEPT ![o] = @ \ {d}]
    <2>1. t.lastAddr \in Originators /\ t.destAddr \in HeldView[t.lastAddr]
      BY DEF TypeOK, TopologyTuple, HeldView, Held
    <2>2. \A s \in topologySet : s.lastAddr = t.lastAddr /\ s.destAddr = t.destAddr => s = t
      BY DEF OneAnsnPerOriginator
    <2>3. Held(topologySet', t.lastAddr) = Held(topologySet, t.lastAddr) \ {t.destAddr}
      BY <1>2, <2>2 DEF Held
    <2>4. \A p \in Originators : p # t.lastAddr => Held(topologySet', p) = Held(topologySet, p)
      BY <1>2 DEF Held
    <2>5. HeldView' = [HeldView EXCEPT ![t.lastAddr] = @ \ {t.destAddr}]
      BY <2>1, <2>3, <2>4 DEF HeldView
    <2>6. QED BY <2>1, <2>5
  <1>3. QED BY <1>1, <1>2 DEF TopologyTupleTimerExpire

\* Time alone changes no link that is held.
LEMMA ViewTick == ASSUME TypeOK, Tick PROVE UNCHANGED HeldView
  <1> DEFINE closer(t) == [t EXCEPT !.left = @ - 1]
  <1>1. topologySet' = {closer(t) : t \in topologySet}
    BY DEF Tick
  <1>2. \A t \in topologySet : closer(t).lastAddr = t.lastAddr /\ closer(t).destAddr = t.destAddr
    BY DEF TypeOK, TopologyTuple
  <1> HIDE DEF closer
  <1>3. \A p : Held(topologySet', p) = Held(topologySet, p)
    BY <1>1, <1>2 DEF Held
  <1>4. QED BY <1>3 DEF HeldView

\* A TC that leaves the flood takes its offer along, unless another with the
\* same content is on its way.
LEMMA OfferTaken ==
    ASSUME NEW m \in net, net' = net \ {m}
    PROVE  OfferOf(m) \in Offers /\ Offers' \in {Offers, Offers \ {OfferOf(m)}}
  <1>1. OfferOf(m) \in Offers
    BY DEF Offers
  <1> HIDE DEF OfferOf
  <1>2. \A n \in net : n = m \/ n \in net'
    OBVIOUS
  <1>3. CASE \E n \in net' : OfferOf(n) = OfferOf(m)
    <2>1. Offers' = Offers
      BY <1>2, <1>3 DEF Offers, OfferOf
    <2>2. QED BY <1>1, <2>1
  <1>4. CASE ~\E n \in net' : OfferOf(n) = OfferOf(m)
    <2>1. Offers' = Offers \ {OfferOf(m)}
      BY <1>2, <1>4 DEF Offers, OfferOf
    <2>2. QED BY <1>1, <2>1
  <1>5. QED BY <1>3, <1>4

\* A TC gets older, its offer stays what it is.
LEMMA OffersTick == ASSUME TypeOK, Tick PROVE UNCHANGED Offers
  <1> DEFINE older(m) == [m EXCEPT !.age = @ + 1]
  <1>1. net' = {older(m) : m \in net}
    BY DEF Tick
  <1>2. \A m \in net : OfferOf(older(m)) = OfferOf(m)
    BY DEF TypeOK, Message, OfferOf
  <1> HIDE DEF older
  <1>3. QED BY <1>1, <1>2 DEF Offers

\* A selector set or an ANSN that moves is a turn of its originator.
LEMMA ViewTurn ==
    ASSUME TypeOK, NEW o \in Originators,
           \/ \E d \in Dests : \/ AddMprSelectorTuple(o, d)
                              \/ RemoveMprSelectorTuple(o, d)
                              \/ NeighborLoss(o, d)
           \/ AddNeighborTuple(o)
    PROVE  View!Turn(o)
  <1>1. \E S \in SUBSET Dests : mprSelectors' = [mprSelectors EXCEPT ![o] = S]
    <2>1. mprSelectors[o] \subseteq Dests /\ mprSelectors = [mprSelectors EXCEPT ![o] = mprSelectors[o]]
      BY DEF TypeOK
    <2>2. ASSUME NEW d \in Dests,
                 \/ AddMprSelectorTuple(o, d) \/ RemoveMprSelectorTuple(o, d)
                 \/ NeighborLoss(o, d)
          PROVE  \E S \in SUBSET Dests : mprSelectors' = [mprSelectors EXCEPT ![o] = S]
      <3>1. /\ mprSelectors[o] \cup {d} \in SUBSET Dests
            /\ mprSelectors[o] \ {d} \in SUBSET Dests
        BY <2>1
      <3>2. \/ mprSelectors' = [mprSelectors EXCEPT ![o] = mprSelectors[o] \cup {d}]
            \/ mprSelectors' = [mprSelectors EXCEPT ![o] = mprSelectors[o] \ {d}]
        BY <2>2 DEF AddMprSelectorTuple, RemoveMprSelectorTuple, NeighborLoss
      <3>3. QED BY <3>1, <3>2
    <2>3. CASE AddNeighborTuple(o)
      BY <2>1, <2>3 DEF AddNeighborTuple
    <2>4. QED BY <2>2, <2>3
  <1>2. advanced'[o] >= advanced[o] /\ advanced' = [advanced EXCEPT ![o] = advanced'[o]]
    BY DEF TypeOK, AddMprSelectorTuple, RemoveMprSelectorTuple, NeighborLoss, AddNeighborTuple,
           IncrementAnsn, AnsnMovesTo, history
  <1>3. UNCHANGED <<net, topologySet, accepted>>
    BY DEF AddMprSelectorTuple, RemoveMprSelectorTuple, NeighborLoss, AddNeighborTuple, history
  <1>4. QED BY <1>1, <1>2, <1>3 DEF View!Turn, View!Numbered

\* A TC that is sent is an offer of all selectors under the present number.
LEMMA ViewTc ==
    ASSUME TypeOK, NEW o \in Originators, TcTimerExpire(o)
    PROVE  View!Advertise(o) \/ UNCHANGED abstractVars
  <1>1. UNCHANGED <<mprSelectors, topologySet, accepted>>
    BY DEF TcTimerExpire
  <1>2. CASE mprSelectors[o] = {} /\ UNCHANGED <<ansn, advanced, net, sinceAdv>>
    BY <1>1, <1>2 DEF abstractVars, Offers, HeldView, Held
  <1>3. ASSUME NEW extra \in SUBSET Injected, mprSelectors[o] # {},
               SendTc(o, mprSelectors[o] \cup extra)
        PROVE  View!Advertise(o)
    <2>1. advanced'[o] >= advanced[o] /\ advanced' = [advanced EXCEPT ![o] = advanced'[o]]
      BY <1>3 DEF TypeOK, SendTc, AnsnMovesTo, AnsnOffset
    <2> DEFINE sent == [originator |-> o, ansn |-> ansn'[o],
                        neighborAddresses |-> mprSelectors[o] \cup extra, age |-> 0,
                        sent |-> advanced'[o]]
    <2>2. net' = net \cup {sent}
      BY <1>3 DEF SendTc
    <2>3. OfferOf(sent) = [originator |-> o, stamp |-> advanced'[o],
                           links |-> mprSelectors[o] \cup extra]
      BY DEF OfferOf
    <2>4. Offers' = Offers \cup {OfferOf(sent)}
      <3> HIDE DEF sent
      <3>1. QED BY <2>2 DEF Offers, OfferOf
    <2>5. Offers' = Offers \cup {[originator |-> o, stamp |-> advanced'[o],
                                  links |-> mprSelectors[o] \cup extra]}
      BY <2>3, <2>4
    <2>6. mprSelectors[o] \cup extra # {}
      BY <1>3
    <2>7. QED
      BY <1>1, <2>1, <2>5, <2>6 DEF View!Advertise, View!Numbered, Offers, OfferOf
  <1>4. QED BY <1>2, <1>3 DEF TcTimerExpire

\* A TC that arrives is taken over, or discarded as a lost one is.
LEMMA ViewReceive ==
    ASSUME FloodWithinHoldTime, OrderInv, NEW m \in net, ProcessTc(m) \/ DropTc(m)
    PROVE  View!Next \/ UNCHANGED abstractVars
  <1> USE DEF OrderInv, SoftStateInv
  <1> DEFINE a == OfferOf(m)
  <1>1. /\ a \in Offers /\ Offers' \in {Offers, Offers \ {a}}
        /\ a.originator = m.originator /\ a.stamp = m.sent /\ a.links = m.neighborAddresses
    BY OfferTaken DEF ProcessTc, DropTc, OfferOf
  <1>2. UNCHANGED <<mprSelectors, advanced>>
    BY DEF ProcessTc, DropTc, originatorVars, history
  <1>3. CASE UNCHANGED <<topologySet, accepted>>
    <2>1. UNCHANGED HeldView
      BY <1>3 DEF HeldView, Held
    <2>2. CASE Offers' = Offers
      BY <1>2, <1>3, <2>1, <2>2 DEF abstractVars
    <2>3. CASE Offers' = Offers \ {a}
      <3>1. View!Lose(a)
        BY <1>2, <1>3, <2>3 DEF View!Lose, Offers, OfferOf
      <3>2. QED BY <1>1, <3>1 DEF View!Next, Offers, OfferOf
    <2>4. QED BY <1>1, <2>2, <2>3
  <1>4. CASE ~UNCHANGED <<topologySet, accepted>>
    <2>1. /\ ProcessTc(m)
          /\ FindNewerTopologyTuple(m.originator, m.ansn) = {} /\ RecordAdvertised(m)
          /\ accepted' = [accepted EXCEPT ![m.originator] = m.sent]
      BY <1>4 DEF ProcessTc, DropTc, history
    <2>2. \/ /\ m.sent > accepted[m.originator]
             /\ HeldView' = [HeldView EXCEPT ![m.originator] = m.neighborAddresses]
          \/ /\ m.sent = accepted[m.originator] /\ accepted' = accepted
             /\ HeldView' = [HeldView EXCEPT ![m.originator] = @ \cup m.neighborAddresses]
      BY <2>1, ViewProcess
    <2>3. View!TakenFrom(a)
      BY <1>1 DEF View!TakenFrom, Offers, OfferOf
    <2> HIDE DEF a
    <2>4. View!Replace(a) \/ View!Extend(a)
      BY <1>1, <1>2, <2>1, <2>2, <2>3 DEF View!Replace, View!Extend, HeldView, Held
    <2>5. QED BY <1>1, <2>4 DEF View!Next, Offers, OfferOf
  <1>5. QED BY <1>3, <1>4

\* What a topology set promises the routing table and the defence rules: under
\* the conditions of RollbackFree, ProcessTc replaces the copy of an
\* originator's advertisement by the links a newer TC listed, as a whole, or
\* adds what a TC of the same number listed, takes nothing from older ones,
\* and TopologyTupleTimerExpire forgets links one by one; nothing else
\* touches it.
THEOREM Refinement ==
    ASSUME OneAnsnCycle, FloodWithinHoldTime
    PROVE  Spec => RefinesView
  <1>1. Init => OrderInv /\ View!Init
    <2>1. Init => OrderInv
      BY TypeInit DEF Init, OrderInv, SoftStateInv, OneAnsnPerOriginator, EveryTupleHasTimer,
                      NumbersInv, OvertakenInv, OneAnsnCycle
    <2>2. Init => View!Init
      BY DEF Init, View!Init
    <2>3. QED BY <2>1, <2>2
  <1>2. OrderInv /\ [Next]_vars => [View!Next]_abstractVars
    <2> SUFFICES ASSUME OrderInv, [Next]_vars PROVE View!Next \/ UNCHANGED abstractVars
      OBVIOUS
    <2> USE DEF OrderInv, SoftStateInv
    <2>1. ASSUME NEW m \in net, ProcessTc(m) \/ DropTc(m)
          PROVE  View!Next \/ UNCHANGED abstractVars
      BY <2>1, ViewReceive
    <2>2. ASSUME NEW e \in timers, TopologyTupleTimerExpire(e)
          PROVE  View!Next \/ UNCHANGED abstractVars
      <3>1. UNCHANGED <<mprSelectors, advanced, net, accepted>>
        BY <2>2 DEF TopologyTupleTimerExpire, originatorVars, history
      <3>2. CASE UNCHANGED HeldView
        BY <3>1, <3>2 DEF abstractVars, Offers
      <3>3. ASSUME NEW o \in Originators, NEW d \in HeldView[o],
                   HeldView' = [HeldView EXCEPT ![o] = @ \ {d}]
            PROVE  View!Next
        <4>1. View!Forget(o)
          BY <3>1, <3>3 DEF View!Forget, HeldView, Held
        <4>2. QED BY <4>1 DEF View!Next
      <3>4. QED BY <2>2, <3>2, <3>3, ViewExpire
    <2>3. CASE Tick
      BY <2>3, ViewTick, OffersTick DEF Tick, abstractVars
    <2>4. ASSUME NEW o \in Originators,
                 \/ \E d \in Dests : \/ AddMprSelectorTuple(o, d)
                                    \/ RemoveMprSelectorTuple(o, d)
                                    \/ NeighborLoss(o, d)
                 \/ AddNeighborTuple(o)
          PROVE  View!Next
      BY <2>4, ViewTurn DEF View!Next
    <2>5. ASSUME NEW o \in Originators, TcTimerExpire(o)
          PROVE  View!Next \/ UNCHANGED abstractVars
      BY <2>5, ViewTc DEF View!Next
    <2>6. ASSUME NEW o \in Originators, FallSilent(o) PROVE UNCHANGED abstractVars
      BY <2>6 DEF FallSilent, history, abstractVars, Offers, HeldView, Held
    <2>7. CASE UNCHANGED vars
      BY <2>7 DEF vars, originatorVars, history, abstractVars, Offers, HeldView, Held
    <2>8. QED
      BY <2>1, <2>2, <2>3, <2>4, <2>5, <2>6, <2>7 DEF Next
  <1>3. QED
    BY <1>1, <1>2, OrderStep, PTL
    DEF Spec, RefinesView, View!Spec, View!viewVars, abstractVars, Offers, OfferOf, HeldView, Held
=============================================================================
