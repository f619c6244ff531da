------------------------- MODULE OlsrWatchdogProofs -------------------------
(***************************************************************************)
(* What OlsrWatchdog promises for all neighbours, timeouts and thresholds: *)
(* packets are accounted for once, a verdict rests on what its gates ask   *)
(* for, is not given early and ends in time, and a watchdog that is        *)
(* switched off holds nothing.                                             *)
(***************************************************************************)
EXTENDS OlsrWatchdog, FiniteSetTheorems, TLAPS

\* Each packet handed to n is heard again, evidence or still pending.
Accounted(n) ==
    /\ IsFiniteSet(m_pendingByNeighbor[n])
    /\ packetsForwarded[n] + notForwardedEvidence[n] + Cardinality(m_pendingByNeighbor[n])
         <= packetsSentTo[n]

\* A packet past its time-out is only pending until the next check.
Pending(n) ==
    \A p \in m_pendingByNeighbor[n] : p.age + toRound <= ForwardTimeout + Round \/ timerDue

\* Evidence and probation come after the warm-up; the probation started at the
\* latest ProbationDuration before it is over.
NotEarly(n) ==
    /\ notForwardedEvidence[n] > 0 => warmupLeft = 0
    /\ probation[n] # NotOn => warmupLeft = 0 /\ sinceReset + probation[n] >= ReviewTime

\* What VerdictJustified says of n.
Justified(n) ==
    /\ evidenceAtProbationStart[n] <= notForwardedEvidence[n]
    /\ n \in m_blacklist =>
          /\ notForwardedEvidence[n] >= BlacklistThreshold
          /\ probation[n] = 0
          /\ notForwardedEvidence[n] - evidenceAtProbationStart[n] >= BlacklistThreshold \div 2
          /\ dataFromThisNode[n] >= MinDataObservations

\* A term that is served only stands until the next check.
Serving(n) ==
    n \in m_blacklist =>
        /\ blacklistAge[n] < BlacklistDuration + Round
        /\ blacklistAge[n] + toRound < BlacklistDuration + Round \/ timerDue

\* The timers run at the instant that starts a round.
TimersAtRound == timerDue \/ checksDue > 0 => toRound = Round

WarmupCounts == sinceReset + warmupLeft >= WarmupDuration

NodeInv(n) == Accounted(n) /\ Pending(n) /\ NotEarly(n) /\ Justified(n) /\ Serving(n)

IndInv ==
    /\ TypeOK
    /\ \A n \in Nodes : NodeInv(n)
    /\ TimersAtRound
    /\ WarmupCounts
    /\ InertWhileOff

USE WatchdogAssumption

-----------------------------------------------------------------------------
\* A watchdog that starts has counted nothing.
LEMMA InitInv == Init => IndInv
<1> SUFFICES ASSUME Init PROVE IndInv
    OBVIOUS
<1>1. TypeOK
  <2>1. \A n \in Nodes : m_pendingByNeighbor[n] \in SUBSET Packet
      BY DEF Init
  <2>2. m_pendingByNeighbor \in [Nodes -> SUBSET Packet]
      BY <2>1 DEF Init
  <2>3. /\ packetsSentTo \in [Nodes -> 0 .. MaxSent]
        /\ packetsForwarded \in [Nodes -> 0 .. MaxSent]
        /\ macTxFailures \in [Nodes -> 0 .. MaxFailures]
        /\ dataFromThisNode \in [Nodes -> 0 .. MinDataObservations]
      BY DEF Init, Zero
  <2>4. /\ notForwardedEvidence \in [Nodes -> 0 .. MaxSent]
        /\ probation \in [Nodes -> NotOn .. ProbationDuration]
        /\ evidenceAtProbationStart \in [Nodes -> 0 .. MaxSent]
        /\ blacklistAge \in [Nodes -> 0 .. BlacklistDuration + Round]
      BY DEF Init, Zero, NotOn
  <2>5. contention \in [Nodes -> -MaxDiff .. MaxDiff] /\ contentionPrev \in [Nodes -> -MaxDiff .. MaxDiff]
      BY DEF Init, Zero
  <2>6. /\ m_selfDropsWindow \in 0 .. DropCap /\ m_selfDropsPrevWindow \in 0 .. DropCap
        /\ m_localRxDrops \in 0 .. DropCap /\ warmupLeft \in 0 .. WarmupDuration
        /\ toRound \in 1 .. Round /\ sinceReset \in 0 .. ReviewTime
        /\ checksDue \in 0 .. MaxChecks /\ checksNext \in 0 .. MaxChecks
      BY DEF Init, DropCap, ReviewTime
  <2>7. m_enabled \in BOOLEAN /\ timerDue \in BOOLEAN /\ resolved \subseteq Nodes
        /\ m_blacklist \subseteq Nodes
      BY DEF Init
  <2> QED BY <2>2, <2>3, <2>4, <2>5, <2>6, <2>7 DEF TypeOK
<1>2. \A n \in Nodes : NodeInv(n)
    BY FS_EmptySet DEF Init, Zero, NodeInv, Accounted, Pending, NotEarly, Justified, Serving, NotOn
<1>3. TimersAtRound /\ WarmupCounts /\ InertWhileOff
    BY DEF Init, TimersAtRound, WarmupCounts, InertWhileOff, Zero
<1> QED BY <1>1, <1>2, <1>3 DEF IndInv

-----------------------------------------------------------------------------
(* Steps that only move what was overheard or dropped.                     *)

\* Counts of frames and resolved neighbours leave the evidence alone.
LEMMA FramesInv ==
    ASSUME IndInv, resolved' \subseteq Nodes,
           dataFromThisNode' \in [Nodes -> 0 .. MinDataObservations],
           \A n \in Nodes : dataFromThisNode'[n] >= dataFromThisNode[n],
           contention' \in [Nodes -> -MaxDiff .. MaxDiff], contentionPrev' = contentionPrev,
           m_selfDropsWindow' \in 0 .. DropCap, m_localRxDrops' \in 0 .. DropCap,
           m_selfDropsPrevWindow' = m_selfDropsPrevWindow,
           ~m_enabled => UNCHANGED <<resolved, contention, m_selfDropsWindow>>,
           UNCHANGED <<m_enabled, trackVars, macTxFailures, verdictVars, clockVars>>
    PROVE  IndInv'
<1>1. TypeOK'
    BY DEF IndInv, TypeOK, trackVars, verdictVars, clockVars
<1>2. ASSUME NEW n \in Nodes PROVE NodeInv(n)'
  <2>1. NodeInv(n) BY DEF IndInv
  <2>2. Accounted(n)' /\ Pending(n)' /\ NotEarly(n)' /\ Serving(n)'
      BY <2>1 DEF NodeInv, Accounted, Pending, NotEarly, Serving, trackVars, verdictVars, clockVars
  <2>3. Justified(n)'
      BY <2>1, <1>1 DEF NodeInv, Justified, verdictVars, IndInv, TypeOK
  <2> QED BY <2>2, <2>3 DEF NodeInv
<1>3. TimersAtRound' /\ WarmupCounts'
    BY DEF IndInv, TimersAtRound, WarmupCounts, clockVars
<1>4. InertWhileOff'
    BY DEF IndInv, InertWhileOff, trackVars, verdictVars
<1> QED BY <1>1, <1>2, <1>3, <1>4 DEF IndInv

\* A count that is capped does not fall, nor pass its cap.
LEMMA DataSeenGrows ==
    ASSUME TypeOK, NEW n \in Nodes, NEW known \in BOOLEAN, DataSeen(n, known)
    PROVE  /\ dataFromThisNode' \in [Nodes -> 0 .. MinDataObservations]
           /\ \A k \in Nodes : dataFromThisNode'[k] >= dataFromThisNode[k]
<1> DEFINE c == IF n \in resolved THEN 2 ELSE IF known THEN 1 ELSE 0
<1>1. c \in 0 .. 2
    OBVIOUS
<1>2. dataFromThisNode' = [dataFromThisNode EXCEPT ![n] = AtMost(@ + c, MinDataObservations)]
    BY DEF DataSeen
<1>3. dataFromThisNode \in [Nodes -> 0 .. MinDataObservations]
    BY DEF TypeOK
<1> HIDE DEF c
<1> QED BY <1>1, <1>2, <1>3 DEF AtMost

\* A frame that is overheard keeps the invariant.
LEMMA OverhearInv ==
    ASSUME IndInv, NEW n \in NextHops, OverhearBroadcast(n) \/ OverhearOther(n)
    PROVE  IndInv'
<1>1. n \in Nodes /\ TypeOK
    BY DEF Nodes, IndInv
<1>2. CASE OverhearBroadcast(n)
  <2>1. DataSeen(n, TRUE)
      BY <1>2 DEF OverhearBroadcast
  <2>2. /\ dataFromThisNode' \in [Nodes -> 0 .. MinDataObservations]
        /\ \A k \in Nodes : dataFromThisNode'[k] >= dataFromThisNode[k]
      BY <1>1, <2>1, DataSeenGrows
  <2> QED BY <1>1, <1>2, <2>2, FramesInv DEF OverhearBroadcast, TypeOK, dropVars
<1>3. CASE OverhearOther(n)
  <2>1. DataSeen(n, FALSE)
      BY <1>3 DEF OverhearOther
  <2>2. /\ dataFromThisNode' \in [Nodes -> 0 .. MinDataObservations]
        /\ \A k \in Nodes : dataFromThisNode'[k] >= dataFromThisNode[k]
      BY <1>1, <2>1, DataSeenGrows
  <2> QED BY <1>1, <1>3, <2>2, FramesInv DEF OverhearOther, TypeOK, dropVars
<1> QED BY <1>2, <1>3

\* So does an RTS or a CTS.
LEMMA RtsCtsInv ==
    ASSUME IndInv, NEW n \in NextHops, OnRtsReceived(n) \/ OnCtsReceived(n)
    PROVE  IndInv'
<1>1. n \in Nodes /\ TypeOK
    BY DEF Nodes, IndInv
<1>2. PICK change \in {2, -2} : OnRtsCts(n, change)
    BY DEF OnRtsReceived, OnCtsReceived
<1>3. contention' \in [Nodes -> -MaxDiff .. MaxDiff]
    BY <1>1, <1>2 DEF OnRtsCts, TypeOK
<1>4. \A k \in Nodes : dataFromThisNode'[k] >= dataFromThisNode[k]
    BY <1>1, <1>2 DEF OnRtsCts, TypeOK
<1> QED BY <1>1, <1>2, <1>3, <1>4, FramesInv DEF OnRtsCts, TypeOK, dropVars

\* So does a reception that fails.
LEMMA PhyRxDropInv ==
    ASSUME IndInv, PhyRxDrop
    PROVE  IndInv'
<1>1. TypeOK
    BY DEF IndInv
<1>2. m_selfDropsWindow' \in 0 .. DropCap /\ m_localRxDrops' \in 0 .. DropCap
    BY <1>1 DEF PhyRxDrop, TypeOK, AtMost, DropCap
<1>3. \A k \in Nodes : dataFromThisNode'[k] >= dataFromThisNode[k]
    BY <1>1 DEF PhyRxDrop, frameVars, TypeOK
<1> QED BY <1>1, <1>2, <1>3, FramesInv DEF PhyRxDrop, frameVars, TypeOK

-----------------------------------------------------------------------------
(* Steps that move the packets.                                            *)

\* What is left to check of a step that leaves verdicts and clocks alone.
LEMMA TrackInv ==
    ASSUME IndInv, m_enabled,
           m_pendingByNeighbor' \in [Nodes -> SUBSET Packet],
           packetsSentTo' \in [Nodes -> 0 .. MaxSent],
           packetsForwarded' \in [Nodes -> 0 .. MaxSent],
           macTxFailures' \in [Nodes -> 0 .. MaxFailures],
           dataFromThisNode' \in [Nodes -> 0 .. MinDataObservations],
           \A n \in Nodes : dataFromThisNode'[n] >= dataFromThisNode[n],
           \A n \in Nodes : Accounted(n)' /\ Pending(n)',
           UNCHANGED <<m_enabled, resolved, contention, contentionPrev, verdictVars,
                       dropVars, clockVars>>
    PROVE  IndInv'
<1>1. TypeOK'
    BY DEF IndInv, TypeOK, verdictVars, dropVars, clockVars
<1>2. ASSUME NEW n \in Nodes PROVE NodeInv(n)'
  <2>1. NodeInv(n) BY DEF IndInv
  <2>2. NotEarly(n)' /\ Serving(n)'
      BY <2>1 DEF NodeInv, NotEarly, Serving, verdictVars, clockVars
  <2>3. Justified(n)'
      BY <2>1, <1>1 DEF NodeInv, Justified, verdictVars, IndInv, TypeOK
  <2> QED BY <2>2, <2>3 DEF NodeInv
<1>3. TimersAtRound' /\ WarmupCounts' /\ InertWhileOff'
    BY DEF IndInv, TimersAtRound, WarmupCounts, InertWhileOff, clockVars
<1> QED BY <1>1, <1>2, <1>3 DEF IndInv

\* So does a packet that is handed to a next hop.
LEMMA OnDataPacketForwardedInv ==
    ASSUME IndInv, NEW n \in NextHops, NEW d \in Nodes, OnDataPacketForwarded(n, d)
    PROVE  IndInv'
<1> DEFINE q == [uid |-> packetsSentTo[n] + 1, dest |-> d, age |-> 0, lost |-> FALSE]
<1>1. n \in Nodes /\ TypeOK /\ \A k \in Nodes : Accounted(k) /\ Pending(k)
    BY DEF Nodes, IndInv, NodeInv
<1>2. q \in Packet
    BY <1>1 DEF OnDataPacketForwarded, TypeOK, Packet
<1>3. /\ q.age = 0
      /\ m_pendingByNeighbor' = [m_pendingByNeighbor EXCEPT ![n] = @ \cup {q}]
      /\ packetsSentTo' = [packetsSentTo EXCEPT ![n] = @ + 1]
      /\ packetsSentTo[n] < MaxSent
    BY DEF OnDataPacketForwarded
<1> HIDE DEF q
<1>4. m_pendingByNeighbor' \in [Nodes -> SUBSET Packet]
    BY <1>1, <1>2, <1>3 DEF TypeOK
<1>5. packetsSentTo' \in [Nodes -> 0 .. MaxSent]
    BY <1>1, <1>3 DEF TypeOK
<1>6. ASSUME NEW k \in Nodes PROVE Accounted(k)' /\ Pending(k)'
  <2>1. CASE k = n
    <3>1. /\ m_pendingByNeighbor'[n] = m_pendingByNeighbor[n] \cup {q}
          /\ packetsSentTo'[n] = packetsSentTo[n] + 1
        BY <1>1, <1>3 DEF TypeOK
    <3>2. /\ IsFiniteSet(m_pendingByNeighbor'[n])
          /\ Cardinality(m_pendingByNeighbor'[n]) <= Cardinality(m_pendingByNeighbor[n]) + 1
          /\ Cardinality(m_pendingByNeighbor'[n]) \in Nat
          /\ Cardinality(m_pendingByNeighbor[n]) \in Nat
      <4>1. IsFiniteSet(m_pendingByNeighbor[n])
          BY <1>1 DEF Accounted
      <4>2. /\ IsFiniteSet(m_pendingByNeighbor[n] \cup {q})
            /\ Cardinality(m_pendingByNeighbor[n] \cup {q}) =
                 IF q \in m_pendingByNeighbor[n] THEN Cardinality(m_pendingByNeighbor[n])
                                                 ELSE Cardinality(m_pendingByNeighbor[n]) + 1
          BY <4>1, FS_AddElement
      <4>3. /\ Cardinality(m_pendingByNeighbor[n]) \in Nat
            /\ Cardinality(m_pendingByNeighbor[n] \cup {q}) \in Nat
          BY <4>1, <4>2, FS_CardinalityType
      <4> QED BY <3>1, <4>2, <4>3
    <3>3. Accounted(n)'
        BY <1>1, <3>1, <3>2 DEF OnDataPacketForwarded, Accounted, TypeOK, verdictVars
    <3>4. Pending(n)'
        BY <1>1, <1>3, <3>1 DEF OnDataPacketForwarded, Pending, TypeOK, clockVars
    <3> QED BY <2>1, <3>3, <3>4
  <2>2. CASE k # n
      BY <2>2, <1>1, <1>3 DEF OnDataPacketForwarded, Accounted, Pending, TypeOK, verdictVars, clockVars
  <2> QED BY <2>1, <2>2
<1>7. \A k \in Nodes : dataFromThisNode'[k] >= dataFromThisNode[k]
    BY <1>1 DEF OnDataPacketForwarded, frameVars, TypeOK
<1> QED BY <1>1, <1>4, <1>5, <1>6, <1>7, TrackInv DEF OnDataPacketForwarded, frameVars, TypeOK

\* OnMacTxFailure only takes packets away.
LEMMA OnMacTxFailureTakes ==
    ASSUME TypeOK, NEW addr \in Nodes, NEW pending \in [Nodes -> SUBSET Packet], m_enabled,
           OnMacTxFailure(addr, pending)
    PROVE  /\ macTxFailures' \in [Nodes -> 0 .. MaxFailures]
           /\ m_pendingByNeighbor' \in [Nodes -> SUBSET Packet]
           /\ \A k \in Nodes : m_pendingByNeighbor'[k] \subseteq pending[k]
<1> DEFINE oldest == {p \in pending[addr] : \A q \in pending[addr] : q.uid >= p.uid}
<1>1. /\ macTxFailures[addr] < MaxFailures
      /\ macTxFailures' = [macTxFailures EXCEPT ![addr] = @ + 1]
      /\ m_pendingByNeighbor' = [pending EXCEPT ![addr] = @ \ oldest]
    BY DEF OnMacTxFailure
<1> HIDE DEF oldest
<1>2. macTxFailures' \in [Nodes -> 0 .. MaxFailures]
    BY <1>1 DEF TypeOK
<1>3. \A k \in Nodes : m_pendingByNeighbor'[k] \subseteq pending[k]
    BY <1>1
<1>4. m_pendingByNeighbor' \in [Nodes -> SUBSET Packet]
    BY <1>1
<1> QED BY <1>2, <1>3, <1>4

\* A part of a finite set is no larger.
LEMMA SubsetAccounted ==
    ASSUME NEW S, NEW T, IsFiniteSet(S), T \subseteq S
    PROVE  /\ IsFiniteSet(T)
           /\ Cardinality(T) \in Nat /\ Cardinality(S) \in Nat
           /\ Cardinality(T) <= Cardinality(S)
<1>1. T \in SUBSET S
    OBVIOUS
<1>2. IsFiniteSet(T) /\ Cardinality(T) <= Cardinality(S)
    BY <1>1, FS_Subset
<1> QED BY <1>2, FS_CardinalityType

\* A packet that the MAC gave up on is marked, not added.
LEMMA MarkedPacket ==
    ASSUME NEW S, IsFiniteSet(S), NEW p \in S, NEW q
    PROVE  /\ IsFiniteSet((S \ {p}) \cup {q})
           /\ Cardinality((S \ {p}) \cup {q}) <= Cardinality(S)
           /\ Cardinality((S \ {p}) \cup {q}) \in Nat
           /\ Cardinality(S) \in Nat
<1>1. IsFiniteSet(S \ {p}) /\ Cardinality(S \ {p}) = Cardinality(S) - 1
    BY FS_RemoveElement
<1>2. /\ IsFiniteSet((S \ {p}) \cup {q})
      /\ Cardinality((S \ {p}) \cup {q}) = IF q \in S \ {p} THEN Cardinality(S \ {p})
                                                            ELSE Cardinality(S \ {p}) + 1
    BY <1>1, FS_AddElement
<1>3. /\ Cardinality(S) \in Nat /\ Cardinality(S \ {p}) \in Nat
      /\ Cardinality((S \ {p}) \cup {q}) \in Nat
    BY <1>1, <1>2, FS_CardinalityType
<1> QED BY <1>1, <1>2, <1>3

\* A MAC failure of a packet that is watched keeps the invariant.
LEMMA MacTxDropInv ==
    ASSUME IndInv, NEW n \in NextHops, NEW p \in m_pendingByNeighbor[n], MacTxDrop(n, p)
    PROVE  IndInv'
<1> DEFINE q == [p EXCEPT !.lost = TRUE]
           pending == [m_pendingByNeighbor EXCEPT ![n] = (@ \ {p}) \cup {q}]
<1>1. n \in Nodes /\ TypeOK /\ \A k \in Nodes : Accounted(k) /\ Pending(k)
    BY DEF Nodes, IndInv, NodeInv
<1>2. p \in Packet /\ q \in Packet /\ q.age = p.age
  <2>1. p \in Packet
      BY <1>1 DEF TypeOK
  <2>2. \A r \in Packet : LET t == [r EXCEPT !.lost = TRUE] IN t \in Packet /\ t.age = r.age
      BY DEF Packet
  <2> QED BY <2>1, <2>2
<1>3. OnMacTxFailure(p.dest, pending) /\ p.dest \in Nodes
    BY <1>2 DEF MacTxDrop, Packet
<1>4. m_enabled
    BY <1>1 DEF IndInv, InertWhileOff
<1> HIDE DEF q
<1>5. pending \in [Nodes -> SUBSET Packet]
    BY <1>1, <1>2 DEF TypeOK
<1>6. ASSUME NEW k \in Nodes
      PROVE  /\ IsFiniteSet(pending[k])
             /\ Cardinality(pending[k]) <= Cardinality(m_pendingByNeighbor[k])
             /\ Cardinality(pending[k]) \in Nat /\ Cardinality(m_pendingByNeighbor[k]) \in Nat
             /\ \A r \in pending[k] : \E t \in m_pendingByNeighbor[k] : t.age = r.age
  <2>1. IsFiniteSet(m_pendingByNeighbor[k])
      BY <1>1 DEF Accounted
  <2>2. CASE k = n
    <3>1. pending[k] = (m_pendingByNeighbor[k] \ {p}) \cup {q}
        BY <2>2, <1>1 DEF TypeOK
    <3>2. /\ IsFiniteSet(pending[k])
          /\ Cardinality(pending[k]) <= Cardinality(m_pendingByNeighbor[k])
          /\ Cardinality(pending[k]) \in Nat /\ Cardinality(m_pendingByNeighbor[k]) \in Nat
        BY <3>1, <2>1, <2>2, MarkedPacket
    <3>3. \A r \in pending[k] : \E t \in m_pendingByNeighbor[k] : t.age = r.age
        BY <3>1, <2>2, <1>2
    <3> QED BY <3>2, <3>3
  <2>3. CASE k # n
    <3>1. pending[k] = m_pendingByNeighbor[k]
        BY <2>3, <1>1 DEF TypeOK
    <3>2. Cardinality(m_pendingByNeighbor[k]) \in Nat
        BY <2>1, FS_CardinalityType
    <3> QED BY <3>1, <3>2, <2>1
  <2> QED BY <2>2, <2>3
<1> HIDE DEF pending
<1>7. /\ macTxFailures' \in [Nodes -> 0 .. MaxFailures]
      /\ m_pendingByNeighbor' \in [Nodes -> SUBSET Packet]
      /\ \A k \in Nodes : m_pendingByNeighbor'[k] \subseteq pending[k]
    BY <1>1, <1>3, <1>4, <1>5, OnMacTxFailureTakes
<1>8. ASSUME NEW k \in Nodes PROVE Accounted(k)' /\ Pending(k)'
  <2>1. /\ IsFiniteSet(m_pendingByNeighbor'[k])
        /\ Cardinality(m_pendingByNeighbor'[k]) \in Nat
        /\ Cardinality(m_pendingByNeighbor'[k]) <= Cardinality(pending[k])
      BY <1>6, <1>7, SubsetAccounted
  <2>2. Accounted(k)'
      BY <1>1, <1>6, <2>1 DEF MacTxDrop, Accounted, TypeOK, verdictVars
  <2>3. ASSUME NEW r \in m_pendingByNeighbor'[k]
        PROVE  r.age + toRound <= ForwardTimeout + Round \/ timerDue
    <3>1. PICK t \in m_pendingByNeighbor[k] : t.age = r.age
        BY <1>6, <1>7
    <3> QED BY <3>1, <1>1 DEF Pending
  <2>4. Pending(k)'
      BY <2>3 DEF MacTxDrop, Pending, clockVars
  <2> QED BY <2>2, <2>4
<1>9. \A k \in Nodes : dataFromThisNode'[k] >= dataFromThisNode[k]
    BY <1>1 DEF MacTxDrop, frameVars, TypeOK
<1> QED BY <1>1, <1>4, <1>7, <1>8, <1>9, TrackInv DEF MacTxDrop, frameVars, TypeOK

\* So does one of a packet that is not.
LEMMA MacTxDropDirectInv ==
    ASSUME IndInv, NEW n \in NextHops, MacTxDropDirect(n)
    PROVE  IndInv'
<1>1. n \in Nodes /\ TypeOK /\ \A k \in Nodes : Accounted(k) /\ Pending(k)
    BY DEF Nodes, IndInv, NodeInv
<1>2. m_enabled /\ OnMacTxFailure(n, m_pendingByNeighbor)
    BY DEF MacTxDropDirect
<1>3. m_pendingByNeighbor \in [Nodes -> SUBSET Packet]
    BY <1>1 DEF TypeOK
<1>4. /\ macTxFailures' \in [Nodes -> 0 .. MaxFailures]
      /\ m_pendingByNeighbor' \in [Nodes -> SUBSET Packet]
      /\ \A k \in Nodes : m_pendingByNeighbor'[k] \subseteq m_pendingByNeighbor[k]
    BY <1>1, <1>2, <1>3, OnMacTxFailureTakes
<1>5. ASSUME NEW k \in Nodes PROVE Accounted(k)' /\ Pending(k)'
  <2>1. /\ IsFiniteSet(m_pendingByNeighbor'[k])
        /\ Cardinality(m_pendingByNeighbor'[k]) \in Nat
        /\ Cardinality(m_pendingByNeighbor[k]) \in Nat
        /\ Cardinality(m_pendingByNeighbor'[k]) <= Cardinality(m_pendingByNeighbor[k])
      BY <1>1, <1>4, SubsetAccounted DEF Accounted
  <2>2. Accounted(k)'
      BY <1>1, <2>1 DEF MacTxDropDirect, Accounted, TypeOK, verdictVars
  <2>3. Pending(k)'
      BY <1>1, <1>4 DEF MacTxDropDirect, Pending, clockVars
  <2> QED BY <2>2, <2>3
<1>6. \A k \in Nodes : dataFromThisNode'[k] >= dataFromThisNode[k]
    BY <1>1 DEF MacTxDropDirect, frameVars, TypeOK
<1> QED BY <1>1, <1>2, <1>4, <1>5, <1>6, TrackInv DEF MacTxDropDirect, frameVars, TypeOK

\* So does a relayed packet that is overheard.
LEMMA OverhearRelayInv ==
    ASSUME IndInv, NEW n \in NextHops, NEW onward \in BOOLEAN,
           NEW p \in m_pendingByNeighbor[n], OverhearRelay(n, p, onward)
    PROVE  IndInv'
<1>1. n \in Nodes /\ TypeOK /\ \A k \in Nodes : Accounted(k) /\ Pending(k)
    BY DEF Nodes, IndInv, NodeInv
<1>2. /\ dataFromThisNode' \in [Nodes -> 0 .. MinDataObservations]
      /\ \A k \in Nodes : dataFromThisNode'[k] >= dataFromThisNode[k]
  <2>1. DataSeen(n, FALSE)
      BY DEF OverhearRelay
  <2> QED BY <2>1, <1>1, DataSeenGrows
<1>3. CASE n \in resolved /\ onward
  <2>1. /\ m_pendingByNeighbor' = [m_pendingByNeighbor EXCEPT ![n] = @ \ {p}]
        /\ packetsForwarded' = [packetsForwarded EXCEPT ![n] = @ + 1]
    <3> DEFINE before == [pending |-> m_pendingByNeighbor[n], forwarded |-> packetsForwarded[n]]
               after == [pending |-> m_pendingByNeighbor[n] \ {p},
                         forwarded |-> packetsForwarded[n] + 1]
    <3>1. OnNeighborForwardedPacket(before, n, p, onward) = after
        BY <1>3 DEF OnNeighborForwardedPacket
    <3>2. OnNeighborForwardedPacket(after, n, p, onward) = after
        BY DEF OnNeighborForwardedPacket
    <3>3. /\ m_pendingByNeighbor' = [m_pendingByNeighbor EXCEPT ![n] = after.pending]
          /\ packetsForwarded' = [packetsForwarded EXCEPT ![n] = after.forwarded]
        BY <3>1, <3>2 DEF OverhearRelay
    <3> HIDE DEF before
    <3> QED BY <3>3
  <2>2. m_pendingByNeighbor' \in [Nodes -> SUBSET Packet]
      BY <1>1, <2>1 DEF TypeOK
  <2>3. /\ IsFiniteSet(m_pendingByNeighbor[n] \ {p})
        /\ Cardinality(m_pendingByNeighbor[n] \ {p}) = Cardinality(m_pendingByNeighbor[n]) - 1
        /\ Cardinality(m_pendingByNeighbor[n]) \in Nat
        /\ Cardinality(m_pendingByNeighbor[n] \ {p}) \in Nat
    <3>1. IsFiniteSet(m_pendingByNeighbor[n])
        BY <1>1 DEF Accounted
    <3>2. /\ IsFiniteSet(m_pendingByNeighbor[n] \ {p})
          /\ Cardinality(m_pendingByNeighbor[n] \ {p}) = Cardinality(m_pendingByNeighbor[n]) - 1
        BY <3>1, FS_RemoveElement
    <3> QED BY <3>1, <3>2, FS_CardinalityType
  <2>4. packetsForwarded' \in [Nodes -> 0 .. MaxSent]
    <3>1. packetsForwarded[n] + 1 \in 0 .. MaxSent
        BY <1>1, <2>3 DEF Accounted, TypeOK
    <3> QED BY <1>1, <2>1, <3>1 DEF TypeOK
  <2>5. ASSUME NEW k \in Nodes PROVE Accounted(k)' /\ Pending(k)'
    <3>1. UNCHANGED <<notForwardedEvidence, packetsSentTo, checksDue, timerDue, toRound>>
        BY DEF OverhearRelay, verdictVars, clockVars
    <3>2. CASE k = n
      <4>1. /\ m_pendingByNeighbor'[n] = m_pendingByNeighbor[n] \ {p}
            /\ packetsForwarded'[n] = packetsForwarded[n] + 1
          BY <1>1, <2>1 DEF TypeOK
      <4>2. Accounted(n)'
          BY <1>1, <2>3, <3>1, <4>1 DEF Accounted, TypeOK
      <4>3. Pending(n)'
          BY <1>1, <3>1, <4>1 DEF Pending
      <4> QED BY <3>2, <4>2, <4>3
    <3>3. CASE k # n
      <4>1. /\ m_pendingByNeighbor'[k] = m_pendingByNeighbor[k]
            /\ packetsForwarded'[k] = packetsForwarded[k]
          BY <3>3, <1>1, <2>1 DEF TypeOK
      <4> QED BY <1>1, <3>1, <4>1 DEF Accounted, Pending
    <3> QED BY <3>2, <3>3
  <2> QED BY <1>1, <1>2, <2>2, <2>4, <2>5, TrackInv DEF OverhearRelay, TypeOK
<1>4. CASE ~(n \in resolved /\ onward)
  <2>1. m_pendingByNeighbor' = m_pendingByNeighbor /\ packetsForwarded' = packetsForwarded
      BY <1>1, <1>4 DEF OverhearRelay, OnNeighborForwardedPacket, TypeOK
  <2> QED BY <1>1, <1>2, <2>1, FramesInv DEF OverhearRelay, TypeOK, trackVars, dropVars
<1> QED BY <1>3, <1>4

-----------------------------------------------------------------------------
(* A check.                                                                *)

\* The packets that timed out become evidence, at most one unit each, and
\* only if the gates of EvaluateMissingForward let them.
LEMMA EvidenceOf ==
    ASSUME IndInv, NEW n \in Nodes
    PROVE  /\ Evidence(n) \in Nat
           /\ notForwardedEvidence[n] <= Evidence(n)
           /\ Evidence(n) > 0 => warmupLeft = 0
           /\ IsFiniteSet(m_pendingByNeighbor[n] \ TimedOut(n))
           /\ Cardinality(m_pendingByNeighbor[n] \ TimedOut(n)) \in Nat
           /\ packetsForwarded[n] + Evidence(n)
                + Cardinality(m_pendingByNeighbor[n] \ TimedOut(n)) <= packetsSentTo[n]
<1> DEFINE P == m_pendingByNeighbor[n]
           T == TimedOut(n)
<1>1. IsFiniteSet(P) /\ TypeOK /\ NotEarly(n) /\ Accounted(n)
    BY DEF IndInv, NodeInv, Accounted
<1>2. T \subseteq P /\ P \cap T = T
    BY DEF TimedOut
<1>3. IsFiniteSet(T) /\ Cardinality(T) \in Nat /\ Cardinality(P) \in Nat
    BY <1>1, <1>2, SubsetAccounted
<1>4. IsFiniteSet(P \ T) /\ Cardinality(P \ T) = Cardinality(P) - Cardinality(P \cap T)
    BY <1>1, FS_Difference
<1>5. Cardinality(P \ T) \in Nat /\ Cardinality(P \ T) = Cardinality(P) - Cardinality(T)
    BY <1>2, <1>4, FS_CardinalityType
<1>6. notForwardedEvidence[n] \in Nat /\ packetsForwarded[n] \in Nat /\ packetsSentTo[n] \in Nat
    BY <1>1 DEF TypeOK
<1>7. CASE Scores(n)
  <2>1. Evidence(n) = notForwardedEvidence[n] + Cardinality(T) /\ warmupLeft = 0
      BY <1>7 DEF Evidence, Scores
  <2> QED BY <2>1, <1>1, <1>3, <1>4, <1>5, <1>6 DEF Accounted
<1>8. CASE ~Scores(n)
  <2>1. Evidence(n) = notForwardedEvidence[n]
      BY <1>6, <1>8 DEF Evidence
  <2> QED BY <2>1, <1>1, <1>3, <1>4, <1>5, <1>6 DEF Accounted, NotEarly
<1> QED BY <1>7, <1>8

\* Half of a count.
LEMMA HalfOf ==
    ASSUME NEW e \in Nat
    PROVE  e \div 2 \in Nat /\ e \div 2 <= e
    OBVIOUS

\* What a check does to the file of one neighbour.
LEMMA DecideForOne ==
    ASSUME IndInv, Decide, toRound = Round, NEW n \in Nodes,
           UNCHANGED <<packetsSentTo, packetsForwarded, dataFromThisNode, warmupLeft,
                       toRound, sinceReset>>
    PROVE  /\ NodeInv(n)'
           /\ m_pendingByNeighbor'[n] \in SUBSET Packet
           /\ notForwardedEvidence'[n] \in 0 .. MaxSent
           /\ probation'[n] \in NotOn .. ProbationDuration
           /\ evidenceAtProbationStart'[n] \in 0 .. MaxSent
           /\ blacklistAge'[n] \in 0 .. BlacklistDuration + Round
<1> DEFINE E == Evidence(n)
           P == m_pendingByNeighbor[n] \ TimedOut(n)
<1>1. TypeOK /\ NodeInv(n)
    BY DEF IndInv
<1>2. /\ E \in Nat /\ notForwardedEvidence[n] <= E /\ (E > 0 => warmupLeft = 0)
      /\ IsFiniteSet(P) /\ Cardinality(P) \in Nat
      /\ packetsForwarded[n] + E + Cardinality(P) <= packetsSentTo[n]
    BY EvidenceOf
<1>3. /\ E \div 2 \in Nat /\ E \div 2 <= E
    BY <1>2, HalfOf
<1>4. /\ m_pendingByNeighbor'[n] = P
      /\ notForwardedEvidence'[n] =
            IF n \in Released THEN 0 ELSE IF n \in Cleared THEN E \div 2 ELSE E
      /\ probation'[n] = IF n \in Released \cup Cleared THEN NotOn
                         ELSE IF n \in Entering THEN ProbationDuration ELSE probation[n]
      /\ evidenceAtProbationStart'[n] = IF n \in Released \cup Cleared THEN 0
                         ELSE IF n \in Entering THEN E ELSE evidenceAtProbationStart[n]
      /\ n \in m_blacklist' <=> n \in (m_blacklist \cup Condemned) \ Released
      /\ blacklistAge'[n] = IF n \in Released \cup Condemned THEN 0 ELSE blacklistAge[n]
    BY DEF Decide
<1>5. /\ packetsForwarded[n] \in Nat /\ packetsSentTo[n] \in Nat /\ packetsSentTo[n] <= MaxSent
      /\ evidenceAtProbationStart[n] \in Nat /\ notForwardedEvidence[n] \in Nat
      /\ probation[n] \in NotOn .. ProbationDuration
      /\ blacklistAge[n] \in 0 .. BlacklistDuration + Round
      /\ dataFromThisNode[n] \in Nat
      /\ warmupLeft \in Nat /\ sinceReset \in Nat
    BY <1>1 DEF TypeOK, ReviewTime
<1>6. n \in Released => n \in m_blacklist /\ blacklistAge[n] >= BlacklistDuration
    BY DEF Released
<1>7. n \in Cleared \cup Condemned \cup Entering => n \notin m_blacklist /\ E >= BlacklistThreshold
    BY DEF Cleared, Condemned, Reviewed, Entering, MayBeCondemned
<1>8. n \in Condemned => /\ probation[n] = 0
                         /\ E - evidenceAtProbationStart[n] >= BlacklistThreshold \div 2
                         /\ dataFromThisNode[n] >= MinDataObservations
    BY DEF Condemned, Reviewed, MayBeCondemned, Persisted, EvidenceDuringProbation
<1>9. /\ n \in Cleared => n \notin Condemned /\ probation[n] = 0
      /\ n \in Entering => probation[n] = NotOn
    BY DEF Cleared, Condemned, Reviewed, Entering
<1>10. Accounted(n)'
  <2>1. notForwardedEvidence'[n] \in Nat /\ notForwardedEvidence'[n] <= E
      BY <1>2, <1>3, <1>4
  <2> HIDE DEF E, P
  <2> QED BY <2>1, <1>2, <1>4, <1>5 DEF Accounted
<1>11. Pending(n)'
    BY <1>1, <1>4 DEF Pending, TimedOut, TypeOK, Packet
<1>12. NotEarly(n)'
  <2>1. n \in Entering => warmupLeft = 0
      BY <1>2, <1>7
  <2>2. sinceReset >= WarmupDuration - warmupLeft
      BY <1>5 DEF IndInv, WarmupCounts
  <2>3. NotEarly(n)
      BY <1>1 DEF NodeInv
  <2> HIDE DEF E, P
  <2>4. notForwardedEvidence'[n] > 0 => warmupLeft' = 0
      BY <1>2, <1>3, <1>4
  <2>5. probation'[n] # NotOn => warmupLeft' = 0 /\ sinceReset' + probation'[n] >= ReviewTime
      BY <1>4, <1>5, <2>1, <2>2, <2>3 DEF NotEarly, ReviewTime, NotOn
  <2> QED BY <2>4, <2>5 DEF NotEarly
<1>13. Justified(n)'
  <2>1. Justified(n)
      BY <1>1 DEF NodeInv
  <2> HIDE DEF E, P
  <2>2. evidenceAtProbationStart'[n] <= notForwardedEvidence'[n]
      BY <1>2, <1>3, <1>4, <1>5, <1>6, <1>7, <2>1 DEF Justified
  <2>3. CASE n \in m_blacklist'
    <3>1. n \notin Released \cup Cleared \cup Entering
        BY <2>3, <1>4, <1>6, <1>7, <1>8, <1>9 DEF NotOn
    <3>2. /\ notForwardedEvidence'[n] = E /\ probation'[n] = probation[n]
          /\ evidenceAtProbationStart'[n] = evidenceAtProbationStart[n]
        BY <3>1, <1>4
    <3>3. CASE n \in m_blacklist
        BY <3>2, <3>3, <2>1, <2>2, <1>2, <1>5 DEF Justified
    <3>4. CASE n \in Condemned
        BY <3>2, <3>4, <2>2, <1>2, <1>5, <1>7, <1>8 DEF Justified
    <3> QED BY <2>3, <1>4, <3>3, <3>4
  <2> QED BY <2>2, <2>3 DEF Justified
<1>14. Serving(n)'
  <2>1. CASE n \in m_blacklist'
    <3>1. n \notin Released
        BY <2>1, <1>4
    <3>2. n \in m_blacklist \/ n \in Condemned
        BY <2>1, <1>4
    <3>3. n \in m_blacklist => blacklistAge[n] < BlacklistDuration
        BY <3>1, <1>5 DEF Released
    <3>4. blacklistAge'[n] \in Nat /\ blacklistAge'[n] < BlacklistDuration
        BY <3>1, <3>2, <3>3, <1>4, <1>5
    <3> QED BY <3>4 DEF Serving
  <2> QED BY <2>1 DEF Serving
<1>15. /\ notForwardedEvidence'[n] \in 0 .. MaxSent
       /\ evidenceAtProbationStart'[n] \in 0 .. MaxSent
  <2>1. Justified(n)
      BY <1>1 DEF NodeInv
  <2> HIDE DEF E, P
  <2>2. E \in 0 .. MaxSent
      BY <1>2, <1>5
  <2> QED BY <2>1, <2>2, <1>2, <1>3, <1>4, <1>5 DEF Justified
<1>16. /\ probation'[n] \in NotOn .. ProbationDuration
       /\ blacklistAge'[n] \in 0 .. BlacklistDuration + Round
    BY <1>4, <1>5 DEF NotOn
<1>17. m_pendingByNeighbor'[n] \in SUBSET Packet
    BY <1>1, <1>4 DEF TypeOK
<1> HIDE DEF E, P
<1> QED BY <1>10, <1>11, <1>12, <1>13, <1>14, <1>15, <1>16, <1>17 DEF NodeInv

\* A check keeps the invariant.
LEMMA CheckInv ==
    ASSUME IndInv, Check, toRound = Round,
           UNCHANGED <<m_enabled, packetsSentTo, packetsForwarded, macTxFailures, resolved,
                       dataFromThisNode, warmupLeft, toRound, sinceReset>>,
           m_selfDropsWindow' \in 0 .. DropCap, m_localRxDrops' \in 0 .. DropCap,
           ~m_enabled => UNCHANGED m_selfDropsWindow,
           checksDue' \in 0 .. MaxChecks, checksNext' \in 0 .. MaxChecks, timerDue' \in BOOLEAN
    PROVE  IndInv'
<1>1. TypeOK /\ InertWhileOff /\ \A n \in Nodes : NodeInv(n)
    BY DEF IndInv
<1>2. CASE m_enabled
  <2>1. Decide
      BY <1>2 DEF Check
  <2>2. \A n \in Nodes :
           /\ NodeInv(n)'
           /\ m_pendingByNeighbor'[n] \in SUBSET Packet
           /\ notForwardedEvidence'[n] \in 0 .. MaxSent
           /\ probation'[n] \in NotOn .. ProbationDuration
           /\ evidenceAtProbationStart'[n] \in 0 .. MaxSent
           /\ blacklistAge'[n] \in 0 .. BlacklistDuration + Round
      BY <2>1, DecideForOne
  <2>3. /\ m_pendingByNeighbor' \in [Nodes -> SUBSET Packet]
        /\ notForwardedEvidence' \in [Nodes -> 0 .. MaxSent]
        /\ probation' \in [Nodes -> NotOn .. ProbationDuration]
        /\ evidenceAtProbationStart' \in [Nodes -> 0 .. MaxSent]
        /\ blacklistAge' \in [Nodes -> 0 .. BlacklistDuration + Round]
      BY <2>1, <2>2 DEF Decide
  <2>4. /\ contention' \in [Nodes -> -MaxDiff .. MaxDiff]
        /\ contentionPrev' \in [Nodes -> -MaxDiff .. MaxDiff]
        /\ m_blacklist' \subseteq Nodes
        /\ m_selfDropsPrevWindow' \in 0 .. DropCap
      BY <1>1, <2>1 DEF Decide, TypeOK, Zero, Condemned, Reviewed
  <2>5. TypeOK'
      BY <1>1, <2>3, <2>4 DEF TypeOK
  <2>6. TimersAtRound' /\ WarmupCounts' /\ InertWhileOff'
      BY <1>2 DEF IndInv, TimersAtRound, WarmupCounts, InertWhileOff
  <2> QED BY <2>2, <2>5, <2>6 DEF IndInv
<1>3. CASE ~m_enabled
  <2>1. UNCHANGED <<m_pendingByNeighbor, verdictVars, contention, contentionPrev,
                    m_selfDropsPrevWindow, m_selfDropsWindow>>
      BY <1>3 DEF Check, CheckSkipped
  <2>2. TypeOK'
      BY <1>1, <2>1 DEF TypeOK, verdictVars
  <2>3. \A n \in Nodes : m_pendingByNeighbor[n] = {} /\ n \notin m_blacklist
      BY <1>1, <1>3 DEF InertWhileOff
  <2>4. ASSUME NEW n \in Nodes PROVE NodeInv(n)'
    <3>1. Accounted(n)' /\ NotEarly(n)' /\ Justified(n)'
        BY <1>1, <2>1 DEF NodeInv, Accounted, NotEarly, Justified, verdictVars
    <3>2. Pending(n)' /\ Serving(n)'
        BY <2>1, <2>3 DEF Pending, Serving, verdictVars
    <3> QED BY <3>1, <3>2 DEF NodeInv
  <2>5. TimersAtRound' /\ WarmupCounts' /\ InertWhileOff'
      BY <2>1 DEF IndInv, TimersAtRound, WarmupCounts, InertWhileOff, verdictVars
  <2> QED BY <2>2, <2>4, <2>5 DEF IndInv
<1> QED BY <1>2, <1>3

\* So does the check of the event the watchdog schedules itself.
LEMMA PeriodicCheckInv ==
    ASSUME IndInv, PeriodicCheck
    PROVE  IndInv'
<1>1. TypeOK /\ toRound = Round
    BY DEF IndInv, TimersAtRound, PeriodicCheck, TypeOK
<1>2. checksDue' \in 0 .. MaxChecks /\ checksNext' \in 0 .. MaxChecks /\ timerDue' \in BOOLEAN
  <2>1. checksDue \in 0 .. MaxChecks /\ checksNext \in 0 .. MaxChecks /\ timerDue \in BOOLEAN
      BY <1>1 DEF TypeOK
  <2>2. checksNext' \in 0 .. MaxChecks
      BY <2>1 DEF PeriodicCheck, AtMost
  <2>3. checksDue' \in 0 .. MaxChecks
      BY <2>1 DEF PeriodicCheck
  <2>4. timerDue' \in BOOLEAN
      BY <2>1 DEF PeriodicCheck
  <2> QED BY <2>2, <2>3, <2>4
<1>3. /\ m_selfDropsWindow' \in 0 .. DropCap /\ m_localRxDrops' \in 0 .. DropCap
      /\ ~m_enabled => UNCHANGED m_selfDropsWindow
    BY <1>1 DEF PeriodicCheck, TypeOK, DropCap
<1> QED BY <1>1, <1>2, <1>3, CheckInv DEF PeriodicCheck

\* So does the one of the protocol's timer.
LEMMA HandleDefenseTimerInv ==
    ASSUME IndInv, HandleDefenseTimer
    PROVE  IndInv'
<1>1. TypeOK /\ toRound = Round
    BY DEF IndInv, TimersAtRound, HandleDefenseTimer, TypeOK
<1>2. checksDue' \in 0 .. MaxChecks /\ checksNext' \in 0 .. MaxChecks /\ timerDue' \in BOOLEAN
  <2>1. checksDue \in 0 .. MaxChecks /\ checksNext \in 0 .. MaxChecks /\ timerDue \in BOOLEAN
      BY <1>1 DEF TypeOK
  <2>2. checksNext' \in 0 .. MaxChecks
      BY <2>1 DEF HandleDefenseTimer, AtMost
  <2>3. checksDue' \in 0 .. MaxChecks
      BY <2>1 DEF HandleDefenseTimer
  <2>4. timerDue' \in BOOLEAN
      BY <2>1 DEF HandleDefenseTimer
  <2> QED BY <2>2, <2>3, <2>4
<1>3. /\ m_selfDropsWindow' \in 0 .. DropCap /\ m_localRxDrops' \in 0 .. DropCap
      /\ ~m_enabled => UNCHANGED m_selfDropsWindow
    BY <1>1 DEF HandleDefenseTimer, TypeOK, DropCap
<1> QED BY <1>1, <1>2, <1>3, CheckInv DEF HandleDefenseTimer

-----------------------------------------------------------------------------
(* The switch and the clock.                                               *)

\* So does switching the watchdog on or off.
LEMMA SetEnabledInv ==
    ASSUME IndInv, NEW enabled \in BOOLEAN, SetEnabled(enabled)
    PROVE  IndInv'
<1>1. TypeOK
    BY DEF IndInv
<1>2. /\ m_blacklist' = {} /\ resolved' = {} /\ blacklistAge' = Zero
      /\ m_pendingByNeighbor' = [n \in Nodes |-> {}]
      /\ packetsSentTo' = Zero /\ packetsForwarded' = Zero /\ macTxFailures' = Zero
      /\ dataFromThisNode' = Zero /\ notForwardedEvidence' = Zero
      /\ probation' = [n \in Nodes |-> NotOn] /\ evidenceAtProbationStart' = Zero
      /\ contention' = Zero /\ contentionPrev' = Zero
      /\ m_selfDropsWindow' = 0 /\ m_selfDropsPrevWindow' = 0
      /\ warmupLeft' = WarmupDuration /\ m_enabled' = enabled /\ sinceReset' = 0
      /\ UNCHANGED <<m_localRxDrops, toRound, checksDue, checksNext, timerDue>>
    BY DEF SetEnabled, ResetAccumulatedState
<1>3. TypeOK'
  <2>1. m_pendingByNeighbor' \in [Nodes -> SUBSET Packet]
      BY <1>2
  <2>2. /\ packetsSentTo' \in [Nodes -> 0 .. MaxSent]
        /\ packetsForwarded' \in [Nodes -> 0 .. MaxSent]
        /\ macTxFailures' \in [Nodes -> 0 .. MaxFailures]
        /\ dataFromThisNode' \in [Nodes -> 0 .. MinDataObservations]
      BY <1>2 DEF Zero
  <2>3. /\ notForwardedEvidence' \in [Nodes -> 0 .. MaxSent]
        /\ probation' \in [Nodes -> NotOn .. ProbationDuration]
        /\ evidenceAtProbationStart' \in [Nodes -> 0 .. MaxSent]
        /\ blacklistAge' \in [Nodes -> 0 .. BlacklistDuration + Round]
      BY <1>2 DEF Zero, NotOn
  <2>4. /\ contention' \in [Nodes -> -MaxDiff .. MaxDiff]
        /\ contentionPrev' \in [Nodes -> -MaxDiff .. MaxDiff]
      BY <1>2 DEF Zero
  <2>5. /\ m_selfDropsWindow' \in 0 .. DropCap /\ m_selfDropsPrevWindow' \in 0 .. DropCap
        /\ warmupLeft' \in 0 .. WarmupDuration /\ sinceReset' \in 0 .. ReviewTime
      BY <1>2 DEF DropCap, ReviewTime
  <2>6. /\ m_localRxDrops' \in 0 .. DropCap /\ toRound' \in 1 .. Round /\ timerDue' \in BOOLEAN
        /\ checksDue' \in 0 .. MaxChecks /\ checksNext' \in 0 .. MaxChecks
      BY <1>1, <1>2 DEF TypeOK
  <2>7. m_enabled' \in BOOLEAN /\ resolved' \subseteq Nodes /\ m_blacklist' \subseteq Nodes
      BY <1>2
  <2> QED BY <2>1, <2>2, <2>3, <2>4, <2>5, <2>6, <2>7 DEF TypeOK
<1>4. \A n \in Nodes : NodeInv(n)'
    BY <1>2, FS_EmptySet DEF NodeInv, Accounted, Pending, NotEarly, Justified, Serving, NotOn, Zero
<1>5. TimersAtRound' /\ WarmupCounts'
    BY <1>2 DEF IndInv, TimersAtRound, WarmupCounts
<1>6. InertWhileOff'
    BY <1>2 DEF InertWhileOff, Zero
<1> QED BY <1>3, <1>4, <1>5, <1>6 DEF IndInv

\* Older by a tick, a set of packets is as large at most.
LEMMA OlderPackets ==
    ASSUME NEW S, IsFiniteSet(S)
    PROVE  LET T == {[p EXCEPT !.age = @ + 1] : p \in S}
           IN  /\ IsFiniteSet(T)
               /\ Cardinality(T) \in Nat /\ Cardinality(S) \in Nat
               /\ Cardinality(T) <= Cardinality(S)
<1> DEFINE T == {[p EXCEPT !.age = @ + 1] : p \in S}
           f == [p \in S |-> [p EXCEPT !.age = @ + 1]]
<1>1. f \in Surjection(S, T)
    BY DEF Surjection
<1> HIDE DEF f
<1>2. IsFiniteSet(T) /\ Cardinality(T) <= Cardinality(S)
    BY <1>1, FS_Surjection
<1> QED BY <1>2, FS_CardinalityType

\* The packets pending at n after a tick.
LEMMA TickPending ==
    ASSUME IndInv, Tick, NEW n \in Nodes
    PROVE  /\ m_pendingByNeighbor'[n] \in SUBSET Packet
           /\ Accounted(n)' /\ Pending(n)'
<1> DEFINE older(p) == [p EXCEPT !.age = @ + 1]
<1>1. TypeOK /\ Accounted(n) /\ Pending(n) /\ ~timerDue /\ checksDue = 0
    BY DEF IndInv, NodeInv, Tick
<1>2. m_pendingByNeighbor'[n] = {older(p) : p \in m_pendingByNeighbor[n]}
    BY DEF Tick
<1>3. \A p \in Packet : /\ older(p).age = p.age + 1
                        /\ p.age + 1 <= ForwardTimeout + Round => older(p) \in Packet
    BY DEF Packet
<1>4. \A p \in m_pendingByNeighbor[n] :
          p \in Packet /\ p.age \in Nat /\ p.age + toRound <= ForwardTimeout + Round
    BY <1>1 DEF TypeOK, Pending, Packet
<1>5. toRound \in 1 .. Round
    BY <1>1 DEF TypeOK
<1>6. m_pendingByNeighbor'[n] \in SUBSET Packet
    BY <1>2, <1>3, <1>4, <1>5
<1>7. Accounted(n)'
  <2>1. /\ IsFiniteSet(m_pendingByNeighbor'[n])
        /\ Cardinality(m_pendingByNeighbor'[n]) \in Nat
        /\ Cardinality(m_pendingByNeighbor[n]) \in Nat
        /\ Cardinality(m_pendingByNeighbor'[n]) <= Cardinality(m_pendingByNeighbor[n])
      BY <1>1, <1>2, OlderPackets DEF Accounted
  <2> QED BY <1>1, <2>1 DEF Tick, Accounted, TypeOK
<1>8. ASSUME NEW q \in m_pendingByNeighbor'[n]
      PROVE  q.age + toRound' <= ForwardTimeout + Round \/ timerDue'
  <2>1. PICK p \in m_pendingByNeighbor[n] : q = older(p)
      BY <1>2
  <2>2. q.age = p.age + 1
      BY <2>1, <1>3, <1>4
  <2>3. CASE toRound = 1
      BY <2>3 DEF Tick
  <2>4. CASE toRound # 1
      BY <2>2, <2>4, <1>4, <1>5 DEF Tick
  <2> QED BY <2>3, <2>4
<1>9. Pending(n)'
    BY <1>8 DEF Pending
<1> QED BY <1>6, <1>7, <1>9

\* So does time.
LEMMA TickInv ==
    ASSUME IndInv, Tick
    PROVE  IndInv'
<1>1. TypeOK /\ InertWhileOff /\ ~timerDue /\ checksDue = 0
    BY DEF IndInv, Tick
<1>2. /\ probation \in [Nodes -> NotOn .. ProbationDuration]
      /\ blacklistAge \in [Nodes -> 0 .. BlacklistDuration + Round]
      /\ warmupLeft \in 0 .. WarmupDuration /\ sinceReset \in 0 .. ReviewTime
      /\ toRound \in 1 .. Round
    BY <1>1 DEF TypeOK
<1>3. /\ warmupLeft' = IF warmupLeft > 0 THEN warmupLeft - 1 ELSE 0
      /\ sinceReset' = IF sinceReset + 1 <= ReviewTime THEN sinceReset + 1 ELSE ReviewTime
    BY DEF Tick, AtMost
<1>4. /\ warmupLeft' \in 0 .. WarmupDuration /\ sinceReset' \in 0 .. ReviewTime
      /\ sinceReset' >= sinceReset
    BY <1>2, <1>3 DEF ReviewTime
<1>5. ASSUME NEW n \in Nodes
      PROVE  /\ probation'[n] \in NotOn .. ProbationDuration
             /\ blacklistAge'[n] \in 0 .. BlacklistDuration + Round
             /\ NotEarly(n)' /\ Justified(n)' /\ Serving(n)'
  <2>1. NotEarly(n) /\ Justified(n) /\ Serving(n)
      BY DEF IndInv, NodeInv
  <2>2. /\ probation'[n] = IF probation[n] > 0 THEN probation[n] - 1 ELSE probation[n]
        /\ blacklistAge'[n] = IF n \in m_blacklist
             THEN IF blacklistAge[n] + 1 <= BlacklistDuration + Round
                    THEN blacklistAge[n] + 1 ELSE BlacklistDuration + Round
             ELSE blacklistAge[n]
        /\ UNCHANGED <<notForwardedEvidence, evidenceAtProbationStart, m_blacklist,
                       dataFromThisNode>>
      BY DEF Tick, frameVars, AtMost
  <2>3. /\ probation'[n] \in NotOn .. ProbationDuration
        /\ blacklistAge'[n] \in 0 .. BlacklistDuration + Round
      BY <1>2, <2>2 DEF NotOn
  <2>4. NotEarly(n)'
    <3>1. notForwardedEvidence'[n] > 0 => warmupLeft' = 0
        BY <1>3, <2>1, <2>2 DEF NotEarly
    <3>2. probation'[n] # NotOn => warmupLeft' = 0 /\ sinceReset' + probation'[n] >= ReviewTime
        BY <1>2, <1>3, <2>1, <2>2 DEF NotEarly, NotOn, ReviewTime
    <3> QED BY <3>1, <3>2 DEF NotEarly
  <2>5. Justified(n)'
      BY <2>1, <2>2 DEF Justified
  <2>6. Serving(n)'
    <3>1. CASE toRound = 1
        BY <3>1, <1>1, <1>2, <2>1, <2>2 DEF Tick, Serving
    <3>2. CASE toRound # 1
        BY <3>2, <1>1, <1>2, <2>1, <2>2 DEF Tick, Serving
    <3> QED BY <3>1, <3>2
  <2> QED BY <2>3, <2>4, <2>5, <2>6
<1>6. \A n \in Nodes : NodeInv(n)'
    BY <1>5, TickPending DEF NodeInv
<1>7. TypeOK'
  <2>1. m_pendingByNeighbor' \in [Nodes -> SUBSET Packet]
    <3>1. \A n \in Nodes : m_pendingByNeighbor'[n] \in SUBSET Packet
        BY TickPending
    <3> QED BY <3>1 DEF Tick
  <2>2. /\ probation' \in [Nodes -> NotOn .. ProbationDuration]
        /\ blacklistAge' \in [Nodes -> 0 .. BlacklistDuration + Round]
      BY <1>5 DEF Tick
  <2>3. /\ toRound' \in 1 .. Round /\ timerDue' \in BOOLEAN
        /\ checksDue' \in 0 .. MaxChecks /\ checksNext' \in 0 .. MaxChecks
    <3>1. /\ checksDue \in 0 .. MaxChecks /\ checksNext \in 0 .. MaxChecks
          /\ timerDue \in BOOLEAN
        BY <1>1 DEF TypeOK
    <3>2. CASE toRound = 1
        BY <3>1, <3>2 DEF Tick
    <3>3. CASE toRound # 1
      <4>1. toRound' \in 1 .. Round
          BY <3>3, <1>2 DEF Tick
      <4>2. UNCHANGED <<checksDue, checksNext, timerDue>>
          BY <3>3 DEF Tick
      <4> QED BY <3>1, <4>1, <4>2
    <3> QED BY <3>2, <3>3
  <2> QED BY <1>1, <1>4, <2>1, <2>2, <2>3 DEF Tick, TypeOK, frameVars, dropVars
<1>8. TimersAtRound' /\ WarmupCounts'
  <2>1. TimersAtRound'
    <3>1. CASE toRound = 1
        BY <3>1 DEF Tick, TimersAtRound
    <3>2. CASE toRound # 1
        BY <3>2, <1>1 DEF Tick, TimersAtRound
    <3> QED BY <3>1, <3>2
  <2>2. WarmupCounts'
      BY <1>2, <1>3 DEF IndInv, WarmupCounts, ReviewTime
  <2> QED BY <2>1, <2>2
<1>9. InertWhileOff'
  <2>1. m_enabled' = m_enabled
      BY DEF Tick
  <2>2. CASE ~m_enabled
    <3>1. \A n \in Nodes : m_pendingByNeighbor'[n] = {} /\ probation'[n] = NotOn
        BY <2>2, <1>1 DEF Tick, InertWhileOff, NotOn
    <3> QED BY <2>2, <3>1, <1>1 DEF Tick, InertWhileOff, frameVars, dropVars
  <2> QED BY <2>1, <2>2 DEF InertWhileOff
<1> QED BY <1>6, <1>7, <1>8, <1>9 DEF IndInv

-----------------------------------------------------------------------------
(* The theorems.                                                           *)

\* Every step keeps the invariant.
LEMMA NextInv == IndInv /\ [Next]_vars => IndInv'
<1> SUFFICES ASSUME IndInv, [Next]_vars PROVE IndInv'
    OBVIOUS
<1>1. CASE \E n \in NextHops, d \in Nodes : OnDataPacketForwarded(n, d)
    BY <1>1, OnDataPacketForwardedInv
<1>2. CASE \E n \in NextHops : \E p \in m_pendingByNeighbor[n] : MacTxDrop(n, p)
    BY <1>2, MacTxDropInv
<1>3. CASE \E n \in NextHops : MacTxDropDirect(n)
    BY <1>3, MacTxDropDirectInv
<1>4. CASE \E n \in NextHops : OverhearBroadcast(n) \/ OverhearOther(n)
    BY <1>4, OverhearInv
<1>5. CASE \E n \in NextHops, onward \in BOOLEAN : \E p \in m_pendingByNeighbor[n] :
              OverhearRelay(n, p, onward)
    BY <1>5, OverhearRelayInv
<1>6. CASE \E n \in NextHops : OnRtsReceived(n) \/ OnCtsReceived(n)
    BY <1>6, RtsCtsInv
<1>7. CASE PhyRxDrop
    BY <1>7, PhyRxDropInv
<1>8. CASE PeriodicCheck
    BY <1>8, PeriodicCheckInv
<1>9. CASE HandleDefenseTimer
    BY <1>9, HandleDefenseTimerInv
<1>10. CASE \E enabled \in BOOLEAN : SetEnabled(enabled)
    BY <1>10, SetEnabledInv
<1>11. CASE Tick
    BY <1>11, TickInv
<1>12. CASE UNCHANGED vars
  <2>1. UNCHANGED <<m_enabled, trackVars, macTxFailures, frameVars, verdictVars, dropVars,
                    clockVars>>
      BY <1>12 DEF vars
  <2>2. TypeOK
      BY DEF IndInv
  <2>3. \A k \in Nodes : dataFromThisNode'[k] >= dataFromThisNode[k]
      BY <2>1, <2>2 DEF frameVars, TypeOK
  <2> QED BY <2>1, <2>2, <2>3, FramesInv DEF frameVars, dropVars, TypeOK
<1> QED BY <1>1, <1>2, <1>3, <1>4, <1>5, <1>6, <1>7, <1>8, <1>9, <1>10, <1>11, <1>12 DEF Next

\* The invariant always holds.
LEMMA Invariance == Spec => []IndInv
    BY InitInv, NextInv, PTL DEF Spec

\* Every variable keeps its type, and each packet handed to a next hop counts
\* once: OnNeighborForwardedPacket, OnMacTxFailure and the time-out of
\* PeriodicCheck never take the same entry of m_pendingByNeighbor twice.
THEOREM Accounting == Spec => [](TypeOK /\ AccountedOnce)
<1>1. IndInv => TypeOK /\ AccountedOnce
    BY DEF IndInv, NodeInv, Accounted, AccountedOnce
<1> QED BY Invariance, <1>1, PTL

\* A verdict of MaybeBlacklist rests on its gates as long as it stands, and
\* the evidence never falls below what the probation started from.
THEOREM Verdicts == Spec => []VerdictJustified
<1>1. IndInv => VerdictJustified
    BY DEF IndInv, TypeOK, NodeInv, Justified, VerdictJustified
<1> QED BY Invariance, <1>1, PTL

\* No verdict within the warm-up and a probation of Setup or SetEnabled.
THEOREM Warmup == Spec => []NoEarlyVerdict
<1>1. IndInv => NoEarlyVerdict
  <2> SUFFICES ASSUME IndInv, NEW n \in m_blacklist PROVE sinceReset >= ReviewTime
      BY DEF NoEarlyVerdict
  <2>1. n \in Nodes /\ sinceReset \in Nat
      BY DEF IndInv, TypeOK, ReviewTime
  <2>2. probation[n] = 0 /\ (probation[n] # NotOn => sinceReset + probation[n] >= ReviewTime)
      BY <2>1 DEF IndInv, NodeInv, Justified, NotEarly
  <2> QED BY <2>1, <2>2 DEF NotOn, ReviewTime
<1> QED BY Invariance, <1>1, PTL

\* ReleaseExpiredBlacklist finds every verdict at the first check after its
\* term, and a watchdog that is off has none.
THEOREM Terms == Spec => []TermIsBounded
<1>1. IndInv => TermIsBounded
    BY DEF IndInv, TypeOK, NodeInv, Serving, TermIsBounded
<1> QED BY Invariance, <1>1, PTL

\* SetEnabled leaves nothing that a watchdog switched on later could act on.
THEOREM SwitchedOff == Spec => []InertWhileOff
<1>1. IndInv => InertWhileOff
    BY DEF IndInv
<1> QED BY Invariance, <1>1, PTL
=============================================================================
