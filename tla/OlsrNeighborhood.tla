-------------------------- MODULE OlsrNeighborhood --------------------------
(***************************************************************************)
(* What one OLSR node knows of its surroundings: the link, neighbour,      *)
(* two-hop neighbour, MPR and MPR selector sets, filled by the HELLOs it   *)
(* receives and emptied by simulator events.                               *)
(*                                                                         *)
(* The neighbours are the environment: each may send any HELLO a node can  *)
(* build at any time, or fall silent.  A HELLO that is lost is one that    *)
(* was not sent.  Time is counted as in OlsrTopology: symTime, linkTime,   *)
(* twoHopTime and selectorTime are deadlines minus now (Past once they are *)
(* over), the events run one tick after the deadline they were set for.    *)
(***************************************************************************)
EXTENDS Integers, FiniteSets

CONSTANTS
    Ifaces,       \* interface addresses of the neighbours
    Neighbors,    \* their main addresses
    Main,         \* [Ifaces -> Neighbors], what GetMainAddress knows from MIDs
    TwoHops,      \* main addresses, not this node's, that HELLOs may list
    Willingness,  \* willingness values in use
    VTime,        \* validity time of a HELLO, the sender's 3 * m_helloInterval
    HoldTime      \* OLSR_NEIGHB_HOLD_TIME of this node

NEVER == 0
DEFAULT == 3

ASSUME NeighborhoodAssumption ==
    /\ Main \in [Ifaces -> Neighbors]
    /\ Willingness \subseteq 0 .. 7
    /\ DEFAULT \in Willingness
    /\ VTime \in Nat \ {0}
    /\ HoldTime \in Nat \ {0}

VARIABLES
    linkSet,         \* interfaces with a link tuple
    symTime, linkTime,         \* the tuple's symTime and time
    linkEvents,      \* pending LinkTupleTimerExpire events
    m_linkTupleTimerFirstTime,
    neighborSet,     \* main addresses with a neighbour tuple
    symNeighbors,    \* those of status STATUS_SYM
    willingness,     \* the tuple's willingness
    twoHopSet,       \* <<neighbour, two-hop neighbour>> pairs with a tuple
    twoHopTime, twoHopEvents,
    mprSet,          \* m_state.m_mprSet
    mprSelectorSet,  \* main addresses with an MPR selector tuple
    selectorTime, selectorEvents,
    silent,          \* neighbours that are gone for good
    \* history, read by the properties only
    sinceHeard       \* [Ifaces -> ticks since a HELLO last listed this node]

linkVars == <<linkSet, symTime, linkTime>>
neighborVars == <<neighborSet, symNeighbors, willingness>>
twoHopVars == <<twoHopSet, twoHopTime>>
selectorVars == <<mprSelectorSet, selectorTime>>
vars == <<linkVars, linkEvents, m_linkTupleTimerFirstTime, neighborVars, twoHopVars,
          twoHopEvents, mprSet, selectorVars, selectorEvents, silent, sinceHeard>>

Past == -1
HeardCap == 2 * VTime + HoldTime + 3   \* sinceHeard stops counting here
Later(s, t) == IF s >= t THEN s ELSE t
Earlier(s, t) == IF s <= t THEN s ELSE t

SymmetryLimit == VTime + Later(VTime, HoldTime)

\* DELAY(): how long an event set for a deadline takes.
DELAY(deadline) == Later(deadline, 0) + 1

LinkEvent == [iface : Ifaces, left : 0 .. VTime + HoldTime + 1]
TwoHopEvent == [tuple : Neighbors \X TwoHops, left : 0 .. VTime + 1]
SelectorEvent == [neighbor : Neighbors, left : 0 .. VTime + 1]

Init ==
    /\ linkSet = {} /\ linkEvents = {}
    /\ symTime = [i \in Ifaces |-> Past]
    /\ linkTime = [i \in Ifaces |-> Past]
    /\ m_linkTupleTimerFirstTime = TRUE
    /\ neighborSet = {} /\ symNeighbors = {}
    /\ willingness = [n \in Neighbors |-> DEFAULT]
    /\ twoHopSet = {} /\ twoHopEvents = {}
    /\ twoHopTime = [p \in Neighbors \X TwoHops |-> Past]
    /\ mprSet = {}
    /\ mprSelectorSet = {} /\ selectorEvents = {}
    /\ selectorTime = [n \in Neighbors |-> Past]
    /\ silent = {}
    /\ sinceHeard = [i \in Ifaces |-> HeardCap]

-----------------------------------------------------------------------------
(* Parts of the handlers.                                                  *)

\* n has a link that is still symmetric.
HasSymLink(n) == \E i \in linkSet' : Main[i] = n /\ symTime'[i] >= 0

\* MprComputation, by what OlsrMpr is proved to return: willing symmetric
\* neighbours that cover every strict two-hop neighbour.
MprComputation ==
    LET willing == {n \in symNeighbors' : willingness'[n] # NEVER}
        toCover == {p \in twoHopSet' : p[1] \in willing /\ p[2] \notin symNeighbors'}
    IN  /\ mprSet' \in SUBSET willing
        /\ \A p \in toCover : \E r \in mprSet' : <<r, p[2]>> \in twoHopSet'

\* A HELLO: through which interface it comes, how it lists this node's
\* receiving interface, whether it lists any interface of this node as MPR
\* (PopulateMprSelectorSet takes its main address), how it lists the two-hop
\* neighbours.
Hello == [iface : Ifaces, me : {"NONE", "LOST", "HEARD"}, mpr : BOOLEAN,
          willingness : Willingness, lists : [TwoHops -> {"NONE", "NEIGH", "NOT_NEIGH"}]]

\* The link tuple after LinkSensing, its event if it is new.
LinkSensing(m) ==
    LET i == m.iface
        created == i \notin linkSet
    IN  /\ linkSet' = linkSet \cup {i}
        /\ symTime' = [symTime EXCEPT ![i] =
                         CASE m.me = "HEARD" -> VTime [] m.me = "LOST" -> Past [] OTHER -> @]
        /\ linkTime' = [linkTime EXCEPT ![i] = IF m.me = "HEARD" THEN VTime + HoldTime
                                               ELSE Later(@, VTime)]
        /\ linkEvents' = IF created
                           THEN linkEvents \cup {[iface |-> i, left |-> DELAY(
                                  Earlier(linkTime'[i], symTime'[i]))]}
                           ELSE linkEvents
        /\ sinceHeard' = IF m.me = "HEARD" THEN [sinceHeard EXCEPT ![i] = 0] ELSE sinceHeard

\* LinkTupleUpdated for a tuple that was there, LinkTupleAdded for a new one
\* (it looks at the new link alone); PopulateNeighborSet sets the willingness.
UpdateNeighbor(m) ==
    LET n == Main[m.iface]
        sym == IF m.iface \in linkSet THEN HasSymLink(n) ELSE symTime'[m.iface] >= 0
    IN  /\ neighborSet' = neighborSet \cup {n}
        /\ symNeighbors' = IF sym THEN symNeighbors \cup {n} ELSE symNeighbors \ {n}
        /\ willingness' = [willingness EXCEPT ![n] = m.willingness]

\* mutant: the link's symTime is not looked at
PopulateAnyTwoHop(m) ==
    LET n == Main[m.iface]
        listed == {<<n, x>> : x \in {y \in TwoHops : m.lists[y] = "NEIGH"}}
        denied == {<<n, x>> : x \in {y \in TwoHops : m.lists[y] = "NOT_NEIGH"}}
    IN  /\ twoHopSet' = (twoHopSet \cup listed) \ denied
        /\ twoHopTime' = [p \in Neighbors \X TwoHops |->
                            IF p \in listed THEN VTime
                            ELSE IF p \in denied THEN Past ELSE twoHopTime[p]]
        /\ twoHopEvents' = twoHopEvents \cup
              {[tuple |-> p, left |-> DELAY(VTime)] : p \in listed \ twoHopSet}

PopulateTwoHopNeighborSet(m) ==
    LET n == Main[m.iface]
        listed == {<<n, x>> : x \in {y \in TwoHops : m.lists[y] = "NEIGH"}}
        denied == {<<n, x>> : x \in {y \in TwoHops : m.lists[y] = "NOT_NEIGH"}}
    IN  IF HasSymLink(n)
          THEN /\ twoHopSet' = (twoHopSet \cup listed) \ denied
               /\ twoHopTime' = [p \in Neighbors \X TwoHops |->
                                   IF p \in listed THEN VTime
                                   ELSE IF p \in denied THEN Past ELSE twoHopTime[p]]
               /\ twoHopEvents' = twoHopEvents \cup
                     {[tuple |-> p, left |-> DELAY(VTime)] : p \in listed \ twoHopSet}
          ELSE UNCHANGED <<twoHopVars, twoHopEvents>>

\* mutant: the selector is kept for the hold time on top
SelectorHeldLonger(m) ==
    LET n == Main[m.iface]
    IN  IF m.mpr
          THEN /\ mprSelectorSet' = mprSelectorSet \cup {n}
               /\ selectorTime' = [selectorTime EXCEPT ![n] = VTime + HoldTime]
               /\ selectorEvents' = IF n \in mprSelectorSet THEN selectorEvents
                     ELSE selectorEvents \cup {[neighbor |-> n, left |-> DELAY(VTime)]}
          ELSE UNCHANGED <<selectorVars, selectorEvents>>

PopulateMprSelectorSet(m) ==
    LET n == Main[m.iface]
    IN  IF m.mpr
          THEN /\ mprSelectorSet' = mprSelectorSet \cup {n}
               /\ selectorTime' = [selectorTime EXCEPT ![n] = VTime]
               /\ selectorEvents' = IF n \in mprSelectorSet THEN selectorEvents
                     ELSE selectorEvents \cup {[neighbor |-> n, left |-> DELAY(VTime)]}
          ELSE UNCHANGED <<selectorVars, selectorEvents>>

-----------------------------------------------------------------------------
(* The handlers.                                                           *)

ProcessHello(m) ==
    /\ Main[m.iface] \notin silent
    /\ Main[m.iface] \in TwoHops => m.lists[Main[m.iface]] = "NONE"
    /\ LinkSensing(m)
    /\ UpdateNeighbor(m)
    /\ PopulateTwoHopNeighborSet(m)
    /\ MprComputation
    /\ PopulateMprSelectorSet(m)
    /\ UNCHANGED <<m_linkTupleTimerFirstTime, silent>>

\* mutant: the neighbour tuple stays
RemoveLinkOnly(i) ==
    /\ linkSet' = linkSet \ {i}
    /\ linkTime' = [linkTime EXCEPT ![i] = Past]
    /\ UNCHANGED <<symTime, neighborVars>>

\* The neighbour goes with any of its links; nothing derived from it does.
RemoveLinkTuple(i) ==
    /\ linkSet' = linkSet \ {i}
    /\ linkTime' = [linkTime EXCEPT ![i] = Past]
    /\ symTime' = [symTime EXCEPT ![i] = Past]
    /\ neighborSet' = neighborSet \ {Main[i]}
    /\ symNeighbors' = symNeighbors \ {Main[i]}
    /\ willingness' = [willingness EXCEPT ![Main[i]] = DEFAULT]

\* mutant: the MPR set is not recomputed
NeighborLossNoMpr(i) ==
    LET n == Main[i]
        gone == {p \in twoHopSet : p[1] = n}
    IN  /\ neighborSet' = neighborSet \cup {n}
        /\ symNeighbors' = IF HasSymLink(n) THEN symNeighbors \cup {n} ELSE symNeighbors \ {n}
        /\ twoHopSet' = twoHopSet \ gone
        /\ twoHopTime' = [p \in Neighbors \X TwoHops |-> IF p \in gone THEN Past ELSE twoHopTime[p]]
        /\ mprSelectorSet' = mprSelectorSet \ {n}
        /\ selectorTime' = [selectorTime EXCEPT ![n] = Past]
        /\ UNCHANGED <<willingness, mprSet>>

NeighborLoss(i) ==
    LET n == Main[i]
        gone == {p \in twoHopSet : p[1] = n}
    IN  /\ neighborSet' = neighborSet \cup {n}
        /\ symNeighbors' = IF HasSymLink(n) THEN symNeighbors \cup {n} ELSE symNeighbors \ {n}
        /\ twoHopSet' = twoHopSet \ gone
        /\ twoHopTime' = [p \in Neighbors \X TwoHops |-> IF p \in gone THEN Past ELSE twoHopTime[p]]
        /\ mprSelectorSet' = mprSelectorSet \ {n}
        /\ selectorTime' = [selectorTime EXCEPT ![n] = Past]
        /\ UNCHANGED willingness
        /\ MprComputation

\* What the event does when only symTime is over: the first time on this
\* node nothing, then a neighbour loss.
SymTimeOver(i) ==
    IF m_linkTupleTimerFirstTime
      THEN /\ m_linkTupleTimerFirstTime' = FALSE
           /\ UNCHANGED <<neighborVars, twoHopVars, mprSet, selectorVars>>
      ELSE NeighborLoss(i) /\ UNCHANGED m_linkTupleTimerFirstTime

LinkTupleTimerExpire(e) ==
    LET i == e.iface
        again(deadline) == (linkEvents \ {e}) \cup {[iface |-> i, left |-> DELAY(deadline)]}
    IN  /\ e.left = 0
        /\ \/ /\ i \in linkSet => linkTime[i] < 0
              /\ IF i \in linkSet THEN RemoveLinkTuple(i) ELSE UNCHANGED <<linkVars, neighborVars>>
              /\ linkEvents' = linkEvents \ {e}
              /\ UNCHANGED <<m_linkTupleTimerFirstTime, twoHopVars, mprSet, selectorVars>>
           \/ /\ i \in linkSet /\ linkTime[i] >= 0 /\ symTime[i] < 0
              /\ UNCHANGED linkVars
              /\ SymTimeOver(i)
              /\ linkEvents' = again(linkTime[i])
           \/ /\ i \in linkSet /\ linkTime[i] >= 0 /\ symTime[i] >= 0
              /\ linkEvents' = again(Earlier(linkTime[i], symTime[i]))
              /\ UNCHANGED <<linkVars, m_linkTupleTimerFirstTime, neighborVars,
                             twoHopVars, mprSet, selectorVars>>
        /\ UNCHANGED <<twoHopEvents, selectorEvents, silent, sinceHeard>>

Nb2hopTupleTimerExpire(e) ==
    LET p == e.tuple
        found == p \in twoHopSet
        expired == found /\ twoHopTime[p] < 0
    IN  /\ e.left = 0
        /\ twoHopSet' = IF expired THEN twoHopSet \ {p} ELSE twoHopSet
        /\ twoHopEvents' = (twoHopEvents \ {e}) \cup
              IF found /\ ~expired THEN {[e EXCEPT !.left = DELAY(twoHopTime[p])]} ELSE {}
        /\ UNCHANGED <<linkVars, linkEvents, m_linkTupleTimerFirstTime, neighborVars,
                       twoHopTime, mprSet, selectorVars, selectorEvents, silent, sinceHeard>>

\* mutant: a tuple refreshed meanwhile gets no new event
SelectorExpireOnce(e) ==
    LET n == e.neighbor
        expired == n \in mprSelectorSet /\ selectorTime[n] < 0
    IN  /\ e.left = 0
        /\ mprSelectorSet' = IF expired THEN mprSelectorSet \ {n} ELSE mprSelectorSet
        /\ selectorEvents' = selectorEvents \ {e}
        /\ UNCHANGED <<linkVars, linkEvents, m_linkTupleTimerFirstTime, neighborVars,
                       twoHopVars, twoHopEvents, mprSet, selectorTime, silent, sinceHeard>>

MprSelTupleTimerExpire(e) ==
    LET n == e.neighbor
        found == n \in mprSelectorSet
        expired == found /\ selectorTime[n] < 0
    IN  /\ e.left = 0
        /\ mprSelectorSet' = IF expired THEN mprSelectorSet \ {n} ELSE mprSelectorSet
        /\ selectorEvents' = (selectorEvents \ {e}) \cup
              IF found /\ ~expired THEN {[e EXCEPT !.left = DELAY(selectorTime[n])]} ELSE {}
        /\ UNCHANGED <<linkVars, linkEvents, m_linkTupleTimerFirstTime, neighborVars,
                       twoHopVars, twoHopEvents, mprSet, selectorTime, silent, sinceHeard>>

FallSilent(n) ==
    /\ n \notin silent
    /\ silent' = silent \cup {n}
    /\ UNCHANGED <<linkVars, linkEvents, m_linkTupleTimerFirstTime, neighborVars, twoHopVars,
                   twoHopEvents, mprSet, selectorVars, selectorEvents, sinceHeard>>

\* The clock moves once every event of this instant has run.
Tick ==
    /\ \A e \in linkEvents \cup twoHopEvents \cup selectorEvents : e.left > 0
    /\ symTime' = [i \in Ifaces |-> Later(symTime[i] - 1, Past)]
    /\ linkTime' = [i \in Ifaces |-> Later(linkTime[i] - 1, Past)]
    /\ twoHopTime' = [p \in Neighbors \X TwoHops |-> Later(twoHopTime[p] - 1, Past)]
    /\ selectorTime' = [n \in Neighbors |-> Later(selectorTime[n] - 1, Past)]
    /\ linkEvents' = {[e EXCEPT !.left = @ - 1] : e \in linkEvents}
    /\ twoHopEvents' = {[e EXCEPT !.left = @ - 1] : e \in twoHopEvents}
    /\ selectorEvents' = {[e EXCEPT !.left = @ - 1] : e \in selectorEvents}
    /\ sinceHeard' = [i \in Ifaces |-> Earlier(sinceHeard[i] + 1, HeardCap)]
    /\ UNCHANGED <<linkSet, m_linkTupleTimerFirstTime, neighborVars, twoHopSet, mprSet,
                   mprSelectorSet, silent>>

Next ==
    \/ \E m \in Hello : ProcessHello(m)
    \/ \E e \in linkEvents : LinkTupleTimerExpire(e)
    \/ \E e \in twoHopEvents : Nb2hopTupleTimerExpire(e)
    \/ \E e \in selectorEvents : MprSelTupleTimerExpire(e)
    \/ \E n \in Neighbors : FallSilent(n)
    \/ Tick

Spec == Init /\ [][Next]_vars

\* The simulator runs every scheduled event, then moves its clock.
Fairness ==
    /\ WF_vars(Tick)
    /\ WF_vars(\E e \in linkEvents : LinkTupleTimerExpire(e))
    /\ WF_vars(\E e \in twoHopEvents : Nb2hopTupleTimerExpire(e))
    /\ WF_vars(\E e \in selectorEvents : MprSelTupleTimerExpire(e))

FairSpec == Spec /\ Fairness

-----------------------------------------------------------------------------
(* Properties.                                                             *)

TypeOK ==
    /\ linkSet \subseteq Ifaces
    /\ symTime \in [Ifaces -> Past .. VTime]
    /\ linkTime \in [Ifaces -> Past .. VTime + HoldTime]
    /\ linkEvents \subseteq LinkEvent
    /\ m_linkTupleTimerFirstTime \in BOOLEAN
    /\ neighborSet \subseteq Neighbors
    /\ symNeighbors \subseteq neighborSet
    /\ willingness \in [Neighbors -> Willingness]
    /\ twoHopSet \subseteq Neighbors \X TwoHops
    /\ twoHopTime \in [Neighbors \X TwoHops -> Past .. VTime]
    /\ twoHopEvents \subseteq TwoHopEvent
    /\ mprSet \subseteq Neighbors
    /\ mprSelectorSet \subseteq Neighbors
    /\ selectorTime \in [Neighbors -> Past .. VTime]
    /\ selectorEvents \subseteq SelectorEvent
    /\ silent \subseteq Neighbors
    /\ sinceHeard \in [Ifaces -> 0 .. HeardCap]

\* Each link tuple is watched by exactly one event, due by the time the tuple
\* ends, and every two-hop and selector tuple by one due just after its
\* deadline: the event LinkSensing schedules for a new tuple is the only one
\* a link ever gets, and it must reschedule itself on every path.
EveryTupleHasEvent ==
    /\ \A i \in linkSet : \E e \in linkEvents :
          /\ e.iface = i /\ e.left <= linkTime[i] + 1
          /\ \A f \in linkEvents : f.iface = i => f = e
    /\ \A p \in twoHopSet : \E e \in twoHopEvents : e.tuple = p /\ e.left <= twoHopTime[p] + 1
    /\ \A n \in mprSelectorSet : \E e \in selectorEvents :
          e.neighbor = n /\ e.left <= selectorTime[n] + 1

\* A symmetric neighbour listed this node not too long ago.  The bound is that
\* of the first firing, which lets the status be until the link tuple ends; a
\* HELLO that does not list this node may put that off to a validity time.
SymmetryBound ==
    \A n \in symNeighbors : \E i \in linkSet :
        Main[i] = n /\ sinceHeard[i] <= SymmetryLimit + 1

\* A two-hop neighbour is believed in at most two validity times after the
\* neighbour that leads to it last listed this node, however long its HELLOs
\* go on without doing so.
TwoHopBound ==
    \A p \in twoHopSet : \E i \in Ifaces :
        Main[i] = p[1] /\ sinceHeard[i] + twoHopTime[p] <= 2 * VTime

\* With one interface per neighbour the link and neighbour sets agree: who has
\* a tuple in one has it in the other, and a link still symmetric belongs to a
\* neighbour of status SYM.  SendHello skips a link without a neighbour, and a
\* symmetric link of a NOT_SYM neighbour is advertised with a code every
\* receiver ignores.
LinksMatchNeighbors ==
    /\ neighborSet = {Main[i] : i \in linkSet}
    /\ \A i \in linkSet : symTime[i] >= 0 => Main[i] \in symNeighbors

\* With one interface per neighbour, an MPR that is no symmetric neighbour any
\* more is one whose link tuple is gone: RemoveLinkTuple does not recompute the
\* MPR set, so such an MPR stays until the next HELLO, but everything else that
\* ends a symmetry does.
MprsAreSymmetric ==
    \A n \in mprSet : n \in symNeighbors \/ \A i \in linkSet : Main[i] # n

\* Once a neighbour is silent its link, neighbour, two-hop and selector tuples
\* go, and so do their events: no chain of events is left running for a node
\* that is gone, and none ends before its tuple does.  Not so the MPR set:
\* RemoveLinkTuple does not recompute it, and with no HELLO of anyone to come
\* the neighbour may remain an MPR for ever.
SilentForgotten ==
    \A n \in Neighbors : n \in silent ~>
        /\ n \notin neighborSet \cup mprSelectorSet
        /\ \A i \in linkSet : Main[i] # n
        /\ \A p \in twoHopSet : p[1] # n
        /\ \A e \in linkEvents : Main[e.iface] # n
        /\ \A e \in twoHopEvents : e.tuple[1] # n
        /\ \A e \in selectorEvents : e.neighbor # n
=============================================================================
