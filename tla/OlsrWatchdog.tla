---------------------------- MODULE OlsrWatchdog ----------------------------
(***************************************************************************)
(* The watchdog defence of one node: packets handed to a next hop wait to  *)
(* be overheard again; one that is not in time is evidence against the     *)
(* next hop, evidence that persists through a probation is a verdict, and  *)
(* a verdict ends after a term.                                            *)
(*                                                                         *)
(* Two timers of RoutingProtocol drive it, both started by DoInitialize    *)
(* and due at the same instants, Round ticks apart: the events of          *)
(* PeriodicCheck and HandleDefenseTimer, which calls PeriodicCheck as      *)
(* well.  Frames reach the watchdog twice, through its own sniffer hook    *)
(* and through RoutingProtocol's.                                          *)
(*                                                                         *)
(* The radio and the traffic are the environment.  RTS and CTS counts of   *)
(* a round are kept as their difference, all CollisionSuspectedFor reads.  *)
(***************************************************************************)
EXTENDS Integers, FiniteSets

CONSTANTS
    NextHops,             \* neighbours that packets are relayed through
    Dests,                \* addresses that are final destinations only
    Round,                \* m_periodicInterval and the defence timer, in ticks
    ForwardTimeout, WarmupDuration, ProbationDuration, BlacklistDuration,
    BlacklistThreshold, MinDataObservations, MacFailureThreshold,
    SelfDropsThreshold, RtsCtsDiscrepancyThresh,
    RateNum, RateDen,     \* MacFailureRateThreshold as a fraction
    \* bounds of the instance
    MaxSent, MaxFailures, MaxDiff, MaxChecks

Nodes == NextHops \cup Dests

ASSUME WatchdogAssumption ==
    /\ Round \in Nat \ {0}
    /\ ForwardTimeout \in Nat /\ WarmupDuration \in Nat
    /\ ProbationDuration \in Nat \ {0} /\ BlacklistDuration \in Nat \ {0}
    /\ BlacklistThreshold \in Nat \ {0} /\ MinDataObservations \in Nat
    /\ MacFailureThreshold \in Nat /\ SelfDropsThreshold \in Nat
    /\ RtsCtsDiscrepancyThresh \in Nat \ {0}
    /\ RateNum \in Nat /\ RateDen \in Nat \ {0}
    /\ MaxSent \in Nat /\ MaxFailures \in Nat
    /\ MaxDiff \in Nat /\ MaxChecks \in Nat \ {0}

VARIABLES
    m_enabled,
    resolved,             \* neighbours whose MAC is in m_macToIp
    m_pendingByNeighbor,  \* [Nodes -> packets handed over, not heard again]
    packetsSentTo, packetsForwarded, macTxFailures,
    dataFromThisNode,     \* counts to MinDataObservations, all that is read
    notForwardedEvidence,
    probation,            \* ticks left on probation, NotOn when on none
    evidenceAtProbationStart,
    contention, contentionPrev,  \* RTS minus CTS of this and the last round
    m_blacklist,
    blacklistAge,         \* now minus blacklistedAt, to a round past the term
    m_selfDropsWindow, m_selfDropsPrevWindow,
    m_localRxDrops,       \* RoutingProtocol's own count of the same drops
    warmupLeft,           \* m_warmupUntil minus now
    toRound,              \* ticks to the next instant of the timers
    checksDue, checksNext,   \* events of PeriodicCheck due now, next round
    timerDue,             \* HandleDefenseTimer is due now
    \* history, read by the properties only
    sinceReset            \* ticks since the last reset, to ReviewTime

trackVars == <<m_pendingByNeighbor, packetsSentTo, packetsForwarded>>
frameVars == <<resolved, dataFromThisNode, contention, contentionPrev>>
verdictVars == <<notForwardedEvidence, probation, evidenceAtProbationStart,
                 m_blacklist, blacklistAge>>
dropVars == <<m_selfDropsWindow, m_selfDropsPrevWindow, m_localRxDrops>>
clockVars == <<warmupLeft, toRound, checksDue, checksNext, timerDue, sinceReset>>
vars == <<m_enabled, trackVars, macTxFailures, frameVars, verdictVars, dropVars, clockVars>>

NotOn == -1
ReviewTime == WarmupDuration + ProbationDuration
AtMost(a, b) == IF a <= b THEN a ELSE b
Zero == [n \in Nodes |-> 0]

\* Drop counts go no further: one more than LocalMacStatus tolerates.
DropCap == 2 * SelfDropsThreshold + 1

\* uid numbers the packets handed to one next hop; lost: the MAC gave up on it.
Packet == [uid : 1 .. MaxSent, dest : Nodes, age : 0 .. ForwardTimeout + Round,
           lost : BOOLEAN]

Init ==
    /\ m_enabled \in BOOLEAN
    /\ resolved = {}
    /\ m_pendingByNeighbor = [n \in Nodes |-> {}]
    /\ packetsSentTo = Zero /\ packetsForwarded = Zero /\ macTxFailures = Zero
    /\ dataFromThisNode = Zero /\ notForwardedEvidence = Zero
    /\ probation = [n \in Nodes |-> NotOn]
    /\ evidenceAtProbationStart = Zero
    /\ contention = Zero /\ contentionPrev = Zero
    /\ m_blacklist = {} /\ blacklistAge = Zero
    /\ m_selfDropsWindow = 0 /\ m_selfDropsPrevWindow = 0 /\ m_localRxDrops = 0
    /\ warmupLeft = WarmupDuration
    /\ toRound = Round
    /\ checksDue = 0 /\ checksNext = 1 /\ timerDue = FALSE
    /\ sinceReset = 0

-----------------------------------------------------------------------------
(* What the data plane and the radio report.                               *)

\* OnDataPacketForwarded, for a packet that n is to relay to d.
OnDataPacketForwarded(n, d) ==
    /\ n # d
    /\ packetsSentTo[n] < MaxSent
    /\ m_enabled /\ n \notin m_blacklist
    /\ m_pendingByNeighbor' = [m_pendingByNeighbor EXCEPT ![n] = @ \cup
          {[uid |-> packetsSentTo[n] + 1, dest |-> d, age |-> 0, lost |-> FALSE]}]
    /\ packetsSentTo' = [packetsSentTo EXCEPT ![n] = @ + 1]
    /\ UNCHANGED <<m_enabled, packetsForwarded, macTxFailures, frameVars, verdictVars,
                   dropVars, clockVars>>

\* OnMacTxFailure for an address: the oldest packet pending there is forgiven.
OnMacTxFailure(addr, pending) ==
    LET oldest == {p \in pending[addr] : \A q \in pending[addr] : q.uid >= p.uid}
    IN  IF m_enabled
          THEN /\ macTxFailures[addr] < MaxFailures
               /\ macTxFailures' = [macTxFailures EXCEPT ![addr] = @ + 1]
               /\ m_pendingByNeighbor' = [pending EXCEPT ![addr] = @ \ oldest]
          ELSE UNCHANGED macTxFailures /\ m_pendingByNeighbor' = pending

\* The MAC reaches its retry limit for a packet handed to n.  MacTxDrop takes
\* the destination of the IP header for the neighbour that failed.
MacTxDrop(n, p) ==
    /\ ~p.lost
    /\ OnMacTxFailure(p.dest, [m_pendingByNeighbor EXCEPT ![n] = (@ \ {p}) \cup
                                 {[p EXCEPT !.lost = TRUE]}])
    /\ UNCHANGED <<m_enabled, packetsSentTo, packetsForwarded, frameVars, verdictVars,
                   dropVars, clockVars>>

\* The same for a packet whose destination is the next hop n itself.
MacTxDropDirect(n) ==
    /\ m_enabled
    /\ OnMacTxFailure(n, m_pendingByNeighbor)
    /\ UNCHANGED <<m_enabled, packetsSentTo, packetsForwarded, frameVars, verdictVars,
                   dropVars, clockVars>>

\* A data frame of n is overheard: OnNeighborForwardedPacket runs once for
\* RoutingProtocol's hook and once, after a broadcast taught the address, for
\* the watchdog's own.
DataSeen(n, known) ==
    dataFromThisNode' = [dataFromThisNode EXCEPT ![n] =
        AtMost(@ + (IF n \in resolved THEN 2 ELSE IF known THEN 1 ELSE 0), MinDataObservations)]

OverhearBroadcast(n) ==
    /\ m_enabled
    /\ resolved' = resolved \cup {n}
    /\ DataSeen(n, TRUE)
    /\ UNCHANGED <<m_enabled, trackVars, macTxFailures, contention, contentionPrev,
                   verdictVars, dropVars, clockVars>>

\* mutant: the entry stays when the forward is credited
RelayKeptPending(seen, n, p, onward) ==
    IF n \in resolved /\ onward /\ p \in seen.pending
      THEN [seen EXCEPT !.forwarded = @ + 1]
      ELSE seen

\* OnNeighborForwardedPacket, for n's relay of p: a packet still pending is
\* credited if n can be identified and IsPlausibleOnwardHop finds nothing
\* wrong with the receiver.
OnNeighborForwardedPacket(seen, n, p, onward) ==
    IF n \in resolved /\ onward /\ p \in seen.pending
      THEN [pending |-> seen.pending \ {p}, forwarded |-> seen.forwarded + 1]
      ELSE seen

\* n is overheard sending p on: MonitorSnifferRx and SnifferRxCallback both
\* report the frame.  A packet the MAC gave up on may have reached n, its
\* acknowledgements lost.
OverhearRelay(n, p, onward) ==
    LET before == [pending |-> m_pendingByNeighbor[n], forwarded |-> packetsForwarded[n]]
        first == OnNeighborForwardedPacket(before, n, p, onward)
        second == OnNeighborForwardedPacket(first, n, p, onward)
    IN  /\ m_enabled
        /\ DataSeen(n, FALSE)
        /\ m_pendingByNeighbor' = [m_pendingByNeighbor EXCEPT ![n] = second.pending]
        /\ packetsForwarded' = [packetsForwarded EXCEPT ![n] = second.forwarded]
        /\ UNCHANGED <<m_enabled, packetsSentTo, macTxFailures, resolved, contention,
                       contentionPrev, verdictVars, dropVars, clockVars>>

\* Any other frame of n: old packets, other nodes' traffic.
OverhearOther(n) ==
    /\ m_enabled /\ n \in resolved
    /\ DataSeen(n, FALSE)
    /\ UNCHANGED <<m_enabled, resolved, trackVars, macTxFailures, contention, contentionPrev,
                   verdictVars, dropVars, clockVars>>

\* OnRtsReceived and OnCtsReceived, each called by both hooks.
OnRtsCts(n, change) ==
    /\ m_enabled /\ n \in resolved
    /\ contention[n] + change \in -MaxDiff .. MaxDiff
    /\ contention' = [contention EXCEPT ![n] = @ + change]
    /\ UNCHANGED <<m_enabled, resolved, dataFromThisNode, contentionPrev, trackVars,
                   macTxFailures, verdictVars, dropVars, clockVars>>

OnRtsReceived(n) == OnRtsCts(n, 2)
OnCtsReceived(n) == OnRtsCts(n, -2)

\* The own PHY drops a frame: PhyRxDropCallback and OnLocalRxDrop both count it.
PhyRxDrop ==
    /\ m_localRxDrops' = AtMost(m_localRxDrops + 1, DropCap)
    /\ m_selfDropsWindow' = IF m_enabled THEN AtMost(m_selfDropsWindow + 1, DropCap)
                            ELSE m_selfDropsWindow
    /\ UNCHANGED <<m_enabled, trackVars, macTxFailures, frameVars, verdictVars,
                   m_selfDropsPrevWindow, clockVars>>

-----------------------------------------------------------------------------
(* The decision logic.                                                     *)

LocalMacStatus == m_selfDropsWindow + m_selfDropsPrevWindow <= 2 * SelfDropsThreshold
CollisionSuspectedFor(n) == contention[n] + contentionPrev[n] >= RtsCtsDiscrepancyThresh

\* mutant: the time-out is compared a round late
TimedOutLate(n) == {p \in m_pendingByNeighbor[n] : p.age > ForwardTimeout + Round}

TimedOut(n) == {p \in m_pendingByNeighbor[n] : p.age > ForwardTimeout}

\* EvaluateMissingForward scores each packet that timed out, or none of them.
Scores(n) ==
    /\ warmupLeft = 0
    /\ LocalMacStatus
    /\ macTxFailures[n] <= MacFailureThreshold
    /\ ~CollisionSuspectedFor(n)

\* mutant: warm-up does not hold back the evidence
EvidenceDuringWarmup(n) ==
    notForwardedEvidence[n] +
       (IF LocalMacStatus /\ ~CollisionSuspectedFor(n) THEN Cardinality(TimedOut(n)) ELSE 0)

Evidence(n) ==
    notForwardedEvidence[n] + (IF Scores(n) THEN Cardinality(TimedOut(n)) ELSE 0)

\* What MaybeBlacklist requires before it looks at the probation.
MayBeCondemned(n) ==
    /\ n \notin m_blacklist
    /\ Evidence(n) >= BlacklistThreshold
    /\ dataFromThisNode[n] >= MinDataObservations
    /\ packetsSentTo[n] > 0 => macTxFailures[n] * RateDen < RateNum * packetsSentTo[n]

EvidenceDuringProbation(n) == Evidence(n) - evidenceAtProbationStart[n]
\* mutant: the review does not ask for new evidence
NoNewEvidenceNeeded(n) == TRUE

Persisted(n) == EvidenceDuringProbation(n) >= BlacklistThreshold \div 2

Entering == {n \in Nodes : MayBeCondemned(n) /\ probation[n] = NotOn}
Reviewed == {n \in Nodes : MayBeCondemned(n) /\ probation[n] = 0}
Cleared == {n \in Reviewed : ~Persisted(n)}
Condemned == {n \in Reviewed : Persisted(n)}

\* mutant: a verdict that has served its term is kept for a round more
ReleasedLate == {n \in m_blacklist : blacklistAge[n] >= BlacklistDuration + Round}

\* mutant: a neighbour is released only if its evidence has decayed
ReleasedWhenDecayed == {n \in m_blacklist :
    blacklistAge[n] >= BlacklistDuration /\ notForwardedEvidence[n] < BlacklistThreshold}

\* ReleaseExpiredBlacklist: those whose term is served.
Released == {n \in m_blacklist : blacklistAge[n] >= BlacklistDuration}

\* PeriodicCheck up to RotateMacWindows.
Decide ==
    /\ m_pendingByNeighbor' = [n \in Nodes |-> m_pendingByNeighbor[n] \ TimedOut(n)]
    /\ notForwardedEvidence' = [n \in Nodes |->
          IF n \in Released THEN 0
          ELSE IF n \in Cleared THEN Evidence(n) \div 2 ELSE Evidence(n)]
    /\ probation' = [n \in Nodes |->
          IF n \in Released \cup Cleared THEN NotOn
          ELSE IF n \in Entering THEN ProbationDuration ELSE probation[n]]
    /\ evidenceAtProbationStart' = [n \in Nodes |->
          IF n \in Released \cup Cleared THEN 0
          ELSE IF n \in Entering THEN Evidence(n) ELSE evidenceAtProbationStart[n]]
    /\ m_blacklist' = (m_blacklist \cup Condemned) \ Released
    /\ blacklistAge' = [n \in Nodes |-> IF n \in Released \cup Condemned THEN 0
                                        ELSE blacklistAge[n]]
    /\ contentionPrev' = contention
    /\ contention' = Zero
    /\ m_selfDropsPrevWindow' = m_selfDropsWindow

CheckSkipped == UNCHANGED <<m_pendingByNeighbor, verdictVars, contention, contentionPrev,
                            m_selfDropsPrevWindow>>

Check == IF m_enabled THEN Decide ELSE CheckSkipped

\* An event of PeriodicCheck runs; it schedules the next one.  MaxChecks
\* checks at one instant stand for any larger number.
PeriodicCheck ==
    /\ checksDue > 0
    /\ checksDue' = checksDue - 1
    /\ checksNext' = AtMost(checksNext + 1, MaxChecks)
    /\ Check
    /\ m_selfDropsWindow' = IF m_enabled THEN 0 ELSE m_selfDropsWindow
    /\ UNCHANGED <<m_enabled, packetsSentTo, packetsForwarded, macTxFailures, resolved,
                   dataFromThisNode, m_localRxDrops, warmupLeft, toRound, timerDue, sinceReset>>

\* PeriodicCheck, which schedules an event of its own again, and
\* OnSelfReliabilityReport.
HandleDefenseTimer ==
    /\ timerDue
    /\ timerDue' = FALSE
    /\ checksNext' = AtMost(checksNext + 1, MaxChecks)
    /\ Check
    /\ m_selfDropsWindow' = IF m_enabled THEN m_localRxDrops ELSE m_selfDropsWindow
    /\ m_localRxDrops' = 0
    /\ UNCHANGED <<m_enabled, packetsSentTo, packetsForwarded, macTxFailures, resolved,
                   dataFromThisNode, warmupLeft, toRound, checksDue, sinceReset>>

ResetAccumulatedState ==
    /\ m_blacklist' = {} /\ blacklistAge' = Zero
    /\ m_pendingByNeighbor' = [n \in Nodes |-> {}]
    /\ packetsSentTo' = Zero /\ packetsForwarded' = Zero /\ macTxFailures' = Zero
    /\ dataFromThisNode' = Zero /\ notForwardedEvidence' = Zero
    /\ probation' = [n \in Nodes |-> NotOn]
    /\ evidenceAtProbationStart' = Zero
    /\ contention' = Zero /\ contentionPrev' = Zero
    /\ resolved' = {}
    /\ m_selfDropsWindow' = 0 /\ m_selfDropsPrevWindow' = 0
    /\ warmupLeft' = WarmupDuration

SetEnabled(enabled) ==
    /\ m_enabled # enabled
    /\ m_enabled' = enabled
    /\ ResetAccumulatedState
    /\ sinceReset' = 0
    /\ UNCHANGED <<m_localRxDrops, toRound, checksDue, checksNext, timerDue>>

\* The clock moves once the timers of this instant have run.
Tick ==
    /\ checksDue = 0 /\ ~timerDue
    /\ m_pendingByNeighbor' = [n \in Nodes |->
          {[p EXCEPT !.age = @ + 1] : p \in m_pendingByNeighbor[n]}]
    /\ probation' = [n \in Nodes |-> IF probation[n] > 0 THEN probation[n] - 1 ELSE probation[n]]
    /\ blacklistAge' = [n \in Nodes |->
          IF n \in m_blacklist THEN AtMost(blacklistAge[n] + 1, BlacklistDuration + Round)
                            ELSE blacklistAge[n]]
    /\ warmupLeft' = IF warmupLeft > 0 THEN warmupLeft - 1 ELSE 0
    /\ sinceReset' = AtMost(sinceReset + 1, ReviewTime)
    /\ IF toRound = 1
         THEN toRound' = Round /\ checksDue' = checksNext /\ checksNext' = 0 /\ timerDue' = TRUE
         ELSE toRound' = toRound - 1 /\ UNCHANGED <<checksDue, checksNext, timerDue>>
    /\ UNCHANGED <<m_enabled, packetsSentTo, packetsForwarded, macTxFailures, frameVars,
                   notForwardedEvidence, evidenceAtProbationStart, m_blacklist, dropVars>>

Next ==
    \/ \E n \in NextHops, d \in Nodes : OnDataPacketForwarded(n, d)
    \/ \E n \in NextHops : \E p \in m_pendingByNeighbor[n] : MacTxDrop(n, p)
    \/ \E n \in NextHops : MacTxDropDirect(n)
    \/ \E n \in NextHops : OverhearBroadcast(n) \/ OverhearOther(n)
    \/ \E n \in NextHops, onward \in BOOLEAN : \E p \in m_pendingByNeighbor[n] :
          OverhearRelay(n, p, onward)
    \/ \E n \in NextHops : OnRtsReceived(n) \/ OnCtsReceived(n)
    \/ PhyRxDrop
    \/ PeriodicCheck
    \/ HandleDefenseTimer
    \/ \E enabled \in BOOLEAN : SetEnabled(enabled)
    \/ Tick

Spec == Init /\ [][Next]_vars

\* The simulator runs every scheduled event, then moves its clock.
Fairness == WF_vars(Tick) /\ WF_vars(PeriodicCheck) /\ WF_vars(HandleDefenseTimer)

FairSpec == Spec /\ Fairness

-----------------------------------------------------------------------------
(* Properties.                                                             *)

TypeOK ==
    /\ m_enabled \in BOOLEAN
    /\ resolved \subseteq Nodes
    /\ m_pendingByNeighbor \in [Nodes -> SUBSET Packet]
    /\ packetsSentTo \in [Nodes -> 0 .. MaxSent]
    /\ packetsForwarded \in [Nodes -> 0 .. MaxSent]
    /\ macTxFailures \in [Nodes -> 0 .. MaxFailures]
    /\ dataFromThisNode \in [Nodes -> 0 .. MinDataObservations]
    /\ notForwardedEvidence \in [Nodes -> 0 .. MaxSent]
    /\ probation \in [Nodes -> NotOn .. ProbationDuration]
    /\ evidenceAtProbationStart \in [Nodes -> 0 .. MaxSent]
    /\ contention \in [Nodes -> -MaxDiff .. MaxDiff]
    /\ contentionPrev \in [Nodes -> -MaxDiff .. MaxDiff]
    /\ m_blacklist \subseteq Nodes
    /\ blacklistAge \in [Nodes -> 0 .. BlacklistDuration + Round]
    /\ m_selfDropsWindow \in 0 .. DropCap
    /\ m_selfDropsPrevWindow \in 0 .. DropCap
    /\ m_localRxDrops \in 0 .. DropCap
    /\ warmupLeft \in 0 .. WarmupDuration
    /\ toRound \in 1 .. Round
    /\ checksDue \in 0 .. MaxChecks /\ checksNext \in 0 .. MaxChecks
    /\ timerDue \in BOOLEAN
    /\ sinceReset \in 0 .. ReviewTime

\* A packet handed to a next hop counts once: as overheard again, as evidence
\* or as still pending.  OnNeighborForwardedPacket, OnMacTxFailure and the
\* time-out of PeriodicCheck race for the same entries, and frames are
\* reported by two hooks.
AccountedOnce ==
    \A n \in Nodes :
        packetsForwarded[n] + notForwardedEvidence[n] + Cardinality(m_pendingByNeighbor[n])
            <= packetsSentTo[n]

\* A verdict of MaybeBlacklist rests on what its gates ask for as long as it
\* stands: a threshold of evidence, half of it gathered during a probation
\* that is over, and DATA frames heard from the neighbour.  Evidence never
\* falls below its value at the start of a probation, on which the unsigned
\* difference relies.
VerdictJustified ==
    /\ \A n \in m_blacklist :
          /\ notForwardedEvidence[n] >= BlacklistThreshold
          /\ probation[n] = 0
          /\ notForwardedEvidence[n] - evidenceAtProbationStart[n] >= BlacklistThreshold \div 2
          /\ dataFromThisNode[n] >= MinDataObservations
    /\ \A n \in Nodes : evidenceAtProbationStart[n] <= notForwardedEvidence[n]

\* No verdict is given within the warm-up and a probation of Setup or of the
\* last switch of Enabled, whatever was pending then.
NoEarlyVerdict == m_blacklist # {} => sinceReset >= ReviewTime

\* Switched off, the watchdog holds nothing that a later switch could make it
\* act on: SetEnabled resets it and every entry point returns at once.
InertWhileOff ==
    ~m_enabled =>
        /\ m_blacklist = {} /\ resolved = {}
        /\ m_selfDropsWindow = 0 /\ m_selfDropsPrevWindow = 0
        /\ \A n \in Nodes :
              /\ m_pendingByNeighbor[n] = {}
              /\ notForwardedEvidence[n] = 0 /\ probation[n] = NotOn
              /\ packetsSentTo[n] = 0 /\ macTxFailures[n] = 0 /\ contention[n] = 0

\* ReleaseExpiredBlacklist readmits a neighbour at the latest at the first
\* check after its term.
TermIsBounded ==
    \A n \in m_blacklist : blacklistAge[n] < BlacklistDuration + Round

\* No verdict stands for ever; nodes that are no next hop never get one.
Readmitted == \A n \in NextHops : n \in m_blacklist ~> n \notin m_blacklist

\* The comment in OnMacTxFailure: a neighbour that never received the packet
\* (the MAC gave up on it) cannot be blamed for it.
UnreceivedNotBlamed ==
    [][\A n \in NextHops : \A p \in m_pendingByNeighbor[n] :
          m_pendingByNeighbor[n] = {p} /\ p.lost
            => notForwardedEvidence'[n] <= notForwardedEvidence[n]]_vars
=============================================================================
