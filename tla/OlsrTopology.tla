---------------------------- MODULE OlsrTopology ----------------------------
(***************************************************************************)
(* The topology set of one OLSR node, and the originators whose TC         *)
(* messages fill it.                                                       *)
(*                                                                         *)
(* Each originator advertises its MPR selectors every TcInterval under an  *)
(* advertised neighbour sequence number (ANSN); the flood brings a TC to   *)
(* this node at most once (the duplicate set sees to that), after at most  *)
(* MaxDelay, in any order, or never.  The node keeps one topology tuple    *)
(* per advertised link and a chain of simulator events that removes it.    *)
(*                                                                         *)
(* Time is counted in ticks.  A tick stands for the microsecond DELAY()    *)
(* adds to every deadline: the event of a tuple runs one tick after the    *)
(* tuple's expirationTime.  `left` is expirationTime minus now, for an     *)
(* event it is the time until it runs.                                     *)
(***************************************************************************)
EXTENDS Integers, FiniteSets

CONSTANTS
    Originators,   \* main addresses of the nodes whose TCs reach this one
    Attackers,     \* the originators with m_isMalicious set
    Dests,         \* main addresses that may be MPR selectors
    Injected,      \* those a TC may list without their being selectors: the
                   \* fictitious node of a defended originator, the spoof
                   \* targets of a malicious one
    TcInterval,    \* m_tcInterval, in ticks
    MaxDelay,      \* longest time a TC spends in the flood, in ticks
    StartAnsn,     \* m_ansn of every originator when the behaviour starts
    AnsnHorizon    \* bound: how far m_ansn advances in one behaviour

OLSR_MAX_SEQ_NUM == 65535
OLSR_TOP_HOLD_TIME == 3 * TcInterval
AnsnOffset == 200  \* what a malicious node adds to m_ansn in every TC

ASSUME TopologyAssumption ==
    /\ Attackers \subseteq Originators
    /\ Injected \subseteq Dests
    /\ TcInterval \in Nat \ {0}
    /\ MaxDelay \in Nat
    /\ StartAnsn \in 0 .. OLSR_MAX_SEQ_NUM
    /\ AnsnHorizon \in Nat

VARIABLES
    mprSelectors,  \* [Originators -> SUBSET Dests], m_state.m_mprSelectorSet
    ansn,          \* [Originators -> uint16], m_ansn
    tcTimer,       \* [Originators -> ticks until TcTimerExpire]
    silent,        \* originators that left the range of the network for good
    net,           \* TCs on their way to this node
    topologySet,   \* m_state.m_topologySet of this node
    timers,        \* pending TopologyTupleTimerExpire events of this node
    \* history, read by the properties only
    advanced,      \* how far ansn has moved; also carries the AnsnHorizon bound
    sinceAdv,      \* [Originators -> [Dests -> ticks since last advertised]]
    accepted       \* [Originators -> `advanced` of the last TC accepted]

originatorVars == <<mprSelectors, ansn, tcTimer, silent>>
history == <<advanced, sinceAdv, accepted>>
vars == <<originatorVars, net, topologySet, timers, history>>

\* sinceAdv stops counting here, beyond everything StalenessBound compares.
SinceCap == OLSR_TOP_HOLD_TIME + MaxDelay + 2

Message == [originator : Originators, ansn : 0 .. OLSR_MAX_SEQ_NUM,
            neighborAddresses : (SUBSET Dests) \ {{}}, age : 0 .. MaxDelay,
            sent : 0 .. AnsnHorizon]
TopologyTuple == [destAddr : Dests, lastAddr : Originators,
                  sequenceNumber : 0 .. OLSR_MAX_SEQ_NUM,
                  left : -1 .. OLSR_TOP_HOLD_TIME]
Timer == [destAddr : Dests, lastAddr : Originators,
          left : 0 .. OLSR_TOP_HOLD_TIME + 1]

Init ==
    /\ mprSelectors = [o \in Originators |-> {}]
    /\ ansn = [o \in Originators |-> StartAnsn]
    /\ tcTimer = [o \in Originators |-> 0]
    /\ silent = {}
    /\ net = {}
    /\ topologySet = {}
    /\ timers = {}
    /\ advanced = [o \in Originators |-> 0]
    /\ sinceAdv = [o \in Originators |-> [d \in Dests |-> SinceCap]]
    /\ accepted = [o \in Originators |-> 0]

-----------------------------------------------------------------------------
(* The originators.                                                        *)

\* m_ansn becomes `value`, which is `by` further on.
AnsnMovesTo(o, value, by) ==
    /\ advanced[o] + by <= AnsnHorizon
    /\ ansn' = [ansn EXCEPT ![o] = value]
    /\ advanced' = [advanced EXCEPT ![o] = @ + by]

IncrementAnsn(o) == AnsnMovesTo(o, (ansn[o] + 1) % (OLSR_MAX_SEQ_NUM + 1), 1)

AddMprSelectorTuple(o, d) ==
    /\ o \notin silent
    /\ d \notin mprSelectors[o]
    /\ mprSelectors' = [mprSelectors EXCEPT ![o] = @ \cup {d}]
    /\ IncrementAnsn(o)
    /\ UNCHANGED <<tcTimer, silent, net, topologySet, timers, sinceAdv, accepted>>

\* MprSelTupleTimerExpire of an expired tuple.
RemoveMprSelectorTuple(o, d) ==
    /\ o \notin silent
    /\ d \in mprSelectors[o]
    /\ mprSelectors' = [mprSelectors EXCEPT ![o] = @ \ {d}]
    /\ IncrementAnsn(o)
    /\ UNCHANGED <<tcTimer, silent, net, topologySet, timers, sinceAdv, accepted>>

\* NeighborLoss erases the selector through m_state: m_ansn stays.
NeighborLoss(o, d) ==
    /\ o \notin silent
    /\ d \in mprSelectors[o]
    /\ mprSelectors' = [mprSelectors EXCEPT ![o] = @ \ {d}]
    /\ UNCHANGED <<ansn, tcTimer, silent, net, topologySet, timers, history>>

\* A new neighbour moves m_ansn although the advertised set stays.
AddNeighborTuple(o) ==
    /\ o \notin silent
    /\ IncrementAnsn(o)
    /\ UNCHANGED <<mprSelectors, tcTimer, silent, net, topologySet, timers,
                   sinceAdv, accepted>>

SendTc(o, listed) ==
    /\ IF o \in Attackers
         THEN AnsnMovesTo(o, (ansn[o] + AnsnOffset) % OLSR_MAX_SEQ_NUM, AnsnOffset)
         ELSE UNCHANGED <<ansn, advanced>>
    /\ net' = net \cup {[originator |-> o, ansn |-> ansn'[o],
                         neighborAddresses |-> listed, age |-> 0,
                         sent |-> advanced'[o]]}
    /\ sinceAdv' = [sinceAdv EXCEPT ![o] =
                      [d \in Dests |-> IF d \in listed THEN 0 ELSE @[d]]]

TcTimerExpire(o) ==
    /\ o \notin silent
    /\ tcTimer[o] = 0
    /\ tcTimer' = [tcTimer EXCEPT ![o] = TcInterval]
    /\ \/ /\ mprSelectors[o] # {}
          /\ \E extra \in SUBSET Injected : SendTc(o, mprSelectors[o] \cup extra)
       \/ mprSelectors[o] = {} /\ UNCHANGED <<ansn, advanced, net, sinceAdv>>
    /\ UNCHANGED <<mprSelectors, silent, topologySet, timers, accepted>>

\* The node stops or moves out of reach.
FallSilent(o) ==
    /\ o \notin silent
    /\ silent' = silent \cup {o}
    /\ UNCHANGED <<mprSelectors, ansn, tcTimer, net, topologySet, timers, history>>

-----------------------------------------------------------------------------
(* The node that keeps the topology set.                                   *)

\* The variants marked "mutant" here and below are plausible slips in the
\* definition that follows them; the runs are shown to notice each one.

\* mutant: step 2 forgotten
FindNewerMutant(lastAddr, a) == {}

FindNewerTopologyTuple(lastAddr, a) ==
    {t \in topologySet : t.lastAddr = lastAddr /\ t.sequenceNumber > a}

\* mutant: step 3 forgotten
EraseOlderMutant(lastAddr, a) == topologySet
EraseOlderTopologyTuples(lastAddr, a) ==
    {t \in topologySet : ~(t.lastAddr = lastAddr /\ t.sequenceNumber < a)}

\* mutant: no event for a new tuple
RecordWithoutEvent(m) ==
    /\ topologySet' = EraseOlderTopologyTuples(m.originator, m.ansn)
         \cup {[destAddr |-> d, lastAddr |-> m.originator, sequenceNumber |-> m.ansn,
                left |-> OLSR_TOP_HOLD_TIME] : d \in m.neighborAddresses}
    /\ UNCHANGED timers

\* mutant: every tuple of the originator is refreshed, listed or not
RecordRefreshingAll(m) ==
    LET kept == EraseOlderTopologyTuples(m.originator, m.ansn)
        fresh == {d \in m.neighborAddresses :
                    ~\E t \in kept : t.lastAddr = m.originator /\ t.destAddr = d}
    IN  /\ topologySet' = {IF t.lastAddr = m.originator
                              THEN [t EXCEPT !.left = OLSR_TOP_HOLD_TIME] ELSE t : t \in kept}
             \cup {[destAddr |-> d, lastAddr |-> m.originator, sequenceNumber |-> m.ansn,
                    left |-> OLSR_TOP_HOLD_TIME] : d \in fresh}
        /\ timers' = timers \cup {[destAddr |-> d, lastAddr |-> m.originator,
                                   left |-> OLSR_TOP_HOLD_TIME + 1] : d \in fresh}

\* The set after steps 3 and 4: known addresses keep their sequence number
\* and get a new deadline, unknown ones get a tuple and an event.
RecordAdvertised(m) ==
    LET kept == EraseOlderTopologyTuples(m.originator, m.ansn)
        refreshed(t) == t.lastAddr = m.originator /\ t.destAddr \in m.neighborAddresses
        fresh == {d \in m.neighborAddresses :
                    ~\E t \in kept : t.lastAddr = m.originator /\ t.destAddr = d}
    IN  /\ topologySet' =
             {IF refreshed(t) THEN [t EXCEPT !.left = OLSR_TOP_HOLD_TIME] ELSE t : t \in kept}
             \cup {[destAddr |-> d, lastAddr |-> m.originator, sequenceNumber |-> m.ansn,
                    left |-> OLSR_TOP_HOLD_TIME] : d \in fresh}
        /\ timers' = timers \cup {[destAddr |-> d, lastAddr |-> m.originator,
                                   left |-> OLSR_TOP_HOLD_TIME + 1] : d \in fresh}

\* RecvOlsr hands m to ProcessTc, its sender being a symmetric neighbour.
ProcessTc(m) ==
    /\ net' = net \ {m}
    /\ \/ /\ FindNewerTopologyTuple(m.originator, m.ansn) # {}
          /\ UNCHANGED <<topologySet, timers, accepted>>
       \/ /\ FindNewerTopologyTuple(m.originator, m.ansn) = {}
          /\ RecordAdvertised(m)
          /\ accepted' = [accepted EXCEPT ![m.originator] = m.sent]
    /\ UNCHANGED <<originatorVars, advanced, sinceAdv>>

\* m is lost on its way, or every copy comes from a sender whose link is not
\* symmetric here and step 1 discards it.
DropTc(m) ==
    /\ net' = net \ {m}
    /\ UNCHANGED <<originatorVars, topologySet, timers, history>>

\* mutant: a tuple refreshed meanwhile gets no new event
ExpireWithoutReschedule(e) ==
    /\ e.left = 0
    /\ topologySet' = {t \in topologySet : ~(t.destAddr = e.destAddr
                                             /\ t.lastAddr = e.lastAddr /\ t.left < 0)}
    /\ timers' = timers \ {e}
    /\ UNCHANGED <<originatorVars, net, history>>

\* mutant: the event comes back at the deadline itself, not just after it
ExpireAtDeadline(e) ==
    /\ e.left = 0
    /\ LET found == {t \in topologySet : t.destAddr = e.destAddr /\ t.lastAddr = e.lastAddr}
       IN  /\ topologySet' = topologySet \ {t \in found : t.left < 0}
           /\ timers' = (timers \ {e}) \cup {[e EXCEPT !.left = t.left] :
                                               t \in {u \in found : u.left >= 0}}
    /\ UNCHANGED <<originatorVars, net, history>>

\* mutant: an expired tuple takes all tuples of its originator along
ExpireOriginator(e) ==
    /\ e.left = 0
    /\ LET found == {t \in topologySet : t.destAddr = e.destAddr /\ t.lastAddr = e.lastAddr}
       IN  /\ topologySet' = IF \E t \in found : t.left < 0
                               THEN {t \in topologySet : t.lastAddr # e.lastAddr}
                               ELSE topologySet
           /\ timers' = (timers \ {e}) \cup {[e EXCEPT !.left = t.left + 1] :
                                               t \in {u \in found : u.left >= 0}}
    /\ UNCHANGED <<originatorVars, net, history>>

TopologyTupleTimerExpire(e) ==
    /\ e.left = 0
    /\ LET found == {t \in topologySet : t.destAddr = e.destAddr /\ t.lastAddr = e.lastAddr}
       IN  \/ /\ found = {}
              /\ timers' = timers \ {e}
              /\ UNCHANGED topologySet
           \/ \E t \in found :
                 \/ /\ t.left < 0
                    /\ topologySet' = topologySet \ {t}
                    /\ timers' = timers \ {e}
                 \/ /\ t.left >= 0
                    /\ timers' = (timers \ {e}) \cup {[e EXCEPT !.left = t.left + 1]}
                    /\ UNCHANGED topologySet
    /\ UNCHANGED <<originatorVars, net, history>>

\* The simulator's clock moves once every event of this instant has run.
Tick ==
    /\ \A e \in timers : e.left > 0
    /\ \A m \in net : m.age < MaxDelay
    /\ \A o \in Originators \ silent : tcTimer[o] > 0
    /\ net' = {[m EXCEPT !.age = @ + 1] : m \in net}
    /\ topologySet' = {[t EXCEPT !.left = @ - 1] : t \in topologySet}
    /\ timers' = {[e EXCEPT !.left = @ - 1] : e \in timers}
    /\ tcTimer' = [o \in Originators |->
                     IF o \in silent THEN tcTimer[o] ELSE tcTimer[o] - 1]
    /\ sinceAdv' = [o \in Originators |-> [d \in Dests |->
                     IF sinceAdv[o][d] = SinceCap THEN SinceCap ELSE sinceAdv[o][d] + 1]]
    /\ UNCHANGED <<mprSelectors, ansn, silent, advanced, accepted>>

Next ==
    \/ \E o \in Originators :
          \/ \E d \in Dests : \/ AddMprSelectorTuple(o, d)
                              \/ RemoveMprSelectorTuple(o, d)
                              \/ NeighborLoss(o, d)
          \/ AddNeighborTuple(o)
          \/ TcTimerExpire(o)
          \/ FallSilent(o)
    \/ \E m \in net : ProcessTc(m) \/ DropTc(m)
    \/ \E e \in timers : TopologyTupleTimerExpire(e)
    \/ Tick

Spec == Init /\ [][Next]_vars

\* The simulator runs every scheduled event, then moves its clock; a TC is
\* delivered or lost by the end of its delay.
Fairness ==
    /\ WF_vars(Tick)
    /\ WF_vars(\E e \in timers : TopologyTupleTimerExpire(e))
    /\ WF_vars(\E o \in Originators : TcTimerExpire(o))
    /\ WF_vars(\E m \in net : m.age = MaxDelay /\ (ProcessTc(m) \/ DropTc(m)))

FairSpec == Spec /\ Fairness

-----------------------------------------------------------------------------
(* Properties.                                                             *)

\* Every variable keeps its type; in particular no tuple outlives its
\* expirationTime by more than the one tick its event needs.
TypeOK ==
    /\ mprSelectors \in [Originators -> SUBSET Dests]
    /\ ansn \in [Originators -> 0 .. OLSR_MAX_SEQ_NUM]
    /\ tcTimer \in [Originators -> 0 .. TcInterval]
    /\ silent \subseteq Originators
    /\ net \subseteq Message
    /\ topologySet \subseteq TopologyTuple
    /\ timers \subseteq Timer
    /\ advanced \in [Originators -> 0 .. AnsnHorizon]
    /\ sinceAdv \in [Originators -> [Dests -> 0 .. SinceCap]]
    /\ accepted \in [Originators -> 0 .. AnsnHorizon]

\* A link (destAddr, lastAddr) is recorded once, and all tuples of one
\* originator carry the same ANSN: refreshing a tuple leaves its sequence
\* number alone (step 4.1), so only steps 2 and 3 together keep old and new
\* numbers from living side by side.
OneAnsnPerOriginator ==
    \A s, t \in topologySet :
        s.lastAddr = t.lastAddr =>
            /\ s.sequenceNumber = t.sequenceNumber
            /\ s.destAddr = t.destAddr => s = t

\* Every tuple has an event that will look at it no later than its
\* deadline, however often it was refreshed, erased by a newer TC and
\* recorded again while older events were still pending.
EveryTupleHasTimer ==
    \A t \in topologySet : \E e \in timers :
        /\ e.destAddr = t.destAddr /\ e.lastAddr = t.lastAddr
        /\ e.left <= t.left + 1

\* A link is held at most the hold time and the flood's delay after its
\* originator last advertised it, whatever was lost, delayed or reordered,
\* and although an ANSN that stayed the same (NeighborLoss) lets a shorter
\* TC leave the withdrawn link in place.
StalenessBound ==
    \A t \in topologySet :
        sinceAdv[t.lastAddr][t.destAddr] + t.left <= OLSR_TOP_HOLD_TIME + MaxDelay

\* The node never goes back to an advertisement older than one it already
\* took over.  ANSNs are forgotten with the tuples that carry them, so this
\* rests on a TC spending no longer in the flood than a tuple is held.
NoRollback == [][\A o \in Originators : accepted'[o] >= accepted[o]]_vars

\* The links of an originator that fell silent are all forgotten, even when
\* its last TCs arrive late.
SilentForgotten ==
    \A o \in Originators :
        o \in silent ~> \A t \in topologySet : t.lastAddr # o

\* The topology set is a soft-state copy of what the originators advertise:
\* ProcessTc puts the set listed by a TC in the place of an older one, never
\* a mixture of both, adds to it what a TC of the same ANSN lists, and takes
\* nothing from an older TC; the offers are the TCs on their way.
View == INSTANCE AdvertisedView WITH
    current <- mprSelectors,
    newest <- advanced,
    offers <- {[originator |-> m.originator, stamp |-> m.sent,
                links |-> m.neighborAddresses] : m \in net},
    view <- [o \in Originators |->
               {t.destAddr : t \in {s \in topologySet : s.lastAddr = o}}],
    stamp <- accepted
RefinesView == View!Spec

\* What SendTc says of the offset a malicious node adds to its ANSN: the
\* update is treated as newer.
OffsetTcTakenAsNewer ==
    [][\A m \in net : m.originator \in Attackers /\ ProcessTc(m)
                        /\ m.sent >= accepted[m.originator]
          => accepted'[m.originator] = m.sent]_vars
=============================================================================
