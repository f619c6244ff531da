----------------------- MODULE OlsrNeighborhoodProofs -----------------------
(***************************************************************************)
(* What OlsrNeighborhood promises for every number of interfaces and       *)
(* neighbours and every pair of times: tuples are watched by events, and   *)
(* neither a symmetric neighbour nor a two-hop neighbour is believed in    *)
(* for longer than a bounded time after it was last confirmed.             *)
(***************************************************************************)
EXTENDS OlsrNeighborhood, TLAPS

\* A link tuple has one event, due when the tuple ends at the latest.
LinkTimed ==
    /\ \A e \in linkEvents : e.iface \in linkSet /\ e.left <= linkTime[e.iface] + 1
    /\ \A e, f \in linkEvents : e.iface = f.iface => e = f
    /\ \A i \in linkSet : \E e \in linkEvents : e.iface = i

\* Every two-hop tuple has an event due just after its deadline.
TwoHopTimed ==
    \A p \in twoHopSet : \E e \in twoHopEvents : e.tuple = p /\ e.left <= twoHopTime[p] + 1

\* Every MPR selector tuple has one, too.
SelectorTimed ==
    \A n \in mprSelectorSet : \E e \in selectorEvents :
        e.neighbor = n /\ e.left <= selectorTime[n] + 1

\* A link that is symmetric was heard within the validity time.
HeardWhileSym ==
    \A i \in Ifaces : symTime[i] >= 0 =>
        /\ i \in linkSet
        /\ sinceHeard[i] + symTime[i] <= VTime
        /\ sinceHeard[i] + linkTime[i] <= SymmetryLimit

\* The link tuple that a symmetric status rests on ends in time.
Supported ==
    \A n \in symNeighbors : \E i \in linkSet :
        Main[i] = n /\ sinceHeard[i] + linkTime[i] <= SymmetryLimit

IndInv ==
    /\ TypeOK
    /\ LinkTimed
    /\ TwoHopTimed
    /\ SelectorTimed
    /\ HeardWhileSym
    /\ Supported
    /\ TwoHopBound

USE NeighborhoodAssumption

-----------------------------------------------------------------------------
\* An event set for a deadline that is not over is due one tick after it.
LEMMA DelayOfDeadline ==
    ASSUME NEW d \in Nat
    PROVE  DELAY(d) = d + 1
    BY DEF DELAY, Later

\* The empty sets of a node that starts.
LEMMA InitInv == Init => IndInv
    BY DEF Init, IndInv, TypeOK, LinkTimed, TwoHopTimed, SelectorTimed, HeardWhileSym,
           Supported, TwoHopBound, Past, HeardCap, DEFAULT

-----------------------------------------------------------------------------
(* A HELLO.                                                                *)

\* The fields of a HELLO.
LEMMA HelloFields ==
    ASSUME NEW m \in Hello
    PROVE  /\ m.iface \in Ifaces /\ m.me \in {"NONE", "LOST", "HEARD"} /\ m.mpr \in BOOLEAN
           /\ m.willingness \in Willingness
           /\ Main[m.iface] \in Neighbors
    BY DEF Hello

\* The link tuples after a HELLO keep their types, events and bounds.
LEMMA LinkSensingKeeps ==
    ASSUME NEW m \in Hello, TypeOK, LinkTimed, HeardWhileSym, LinkSensing(m)
    PROVE  /\ linkSet' \subseteq Ifaces
           /\ symTime' \in [Ifaces -> Past .. VTime]
           /\ linkTime' \in [Ifaces -> Past .. VTime + HoldTime]
           /\ linkEvents' \subseteq LinkEvent
           /\ sinceHeard' \in [Ifaces -> 0 .. HeardCap]
           /\ \A i \in Ifaces : sinceHeard'[i] <= sinceHeard[i]
           /\ \A i \in Ifaces \ {m.iface} :
                 /\ linkTime'[i] = linkTime[i]
                 /\ i \in linkSet' <=> i \in linkSet
           /\ LinkTimed'
           /\ HeardWhileSym'
<1> DEFINE i == m.iface
           s == CASE m.me = "HEARD" -> VTime [] m.me = "LOST" -> Past [] OTHER -> symTime[i]
           t == IF m.me = "HEARD" THEN VTime + HoldTime ELSE Later(linkTime[i], VTime)
           h == IF m.me = "HEARD" THEN 0 ELSE sinceHeard[i]
           ev == [iface |-> i, left |-> DELAY(Earlier(t, s))]
<1>1. i \in Ifaces /\ m.me \in {"NONE", "LOST", "HEARD"}
    BY HelloFields
<1>2. /\ symTime[i] \in Past .. VTime
      /\ linkTime[i] \in Past .. VTime + HoldTime
      /\ sinceHeard[i] \in 0 .. HeardCap
    BY <1>1 DEF TypeOK
<1>3. s \in Past .. VTime /\ (m.me # "HEARD" => s \in {Past, symTime[i]}) /\ (m.me = "HEARD" => s = VTime)
    BY <1>1, <1>2 DEF Past
<1>4. t \in VTime .. VTime + HoldTime /\ t >= linkTime[i]
    BY <1>2 DEF Later, Past
<1>4a. m.me # "HEARD" => t \in {linkTime[i], VTime}
    BY DEF Later
<1>5. h \in 0 .. HeardCap /\ h <= sinceHeard[i] /\ (m.me = "HEARD" => h = 0)
      /\ (m.me # "HEARD" => h = sinceHeard[i])
    BY <1>2 DEF HeardCap
<1>6. /\ symTime' = [symTime EXCEPT ![i] = s]
      /\ linkTime' = [linkTime EXCEPT ![i] = t]
      /\ linkSet' = linkSet \cup {i}
    BY DEF LinkSensing
<1>7. sinceHeard' = [sinceHeard EXCEPT ![i] = h]
    BY <1>1 DEF LinkSensing, TypeOK
<1>8. /\ symTime'[i] = s /\ linkTime'[i] = t /\ sinceHeard'[i] = h
      /\ \A k \in Ifaces \ {i} : /\ symTime'[k] = symTime[k]
                                 /\ linkTime'[k] = linkTime[k]
                                 /\ sinceHeard'[k] = sinceHeard[k]
    BY <1>1, <1>6, <1>7 DEF TypeOK
<1>9. linkEvents' = IF i \in linkSet THEN linkEvents ELSE linkEvents \cup {ev}
    BY <1>8 DEF LinkSensing
<1>10. DELAY(Earlier(t, s)) \in 0 .. VTime + HoldTime + 1 /\ DELAY(Earlier(t, s)) <= t + 1
    BY <1>3, <1>4 DEF DELAY, Earlier, Later, Past
<1>11. ev \in LinkEvent /\ ev.iface = i /\ ev.left <= t + 1
    BY <1>1, <1>10 DEF LinkEvent
<1> HIDE DEF s, t, h, ev
<1>12. /\ linkSet' \subseteq Ifaces
       /\ symTime' \in [Ifaces -> Past .. VTime]
       /\ linkTime' \in [Ifaces -> Past .. VTime + HoldTime]
    BY <1>1, <1>3, <1>4, <1>6 DEF TypeOK, Past
<1>13. linkEvents' \subseteq LinkEvent
    BY <1>9, <1>11 DEF TypeOK
<1>14. sinceHeard' \in [Ifaces -> 0 .. HeardCap]
    BY <1>1, <1>5, <1>7 DEF TypeOK
<1>15. \A k \in Ifaces : sinceHeard'[k] <= sinceHeard[k]
    <2> SUFFICES ASSUME NEW k \in Ifaces PROVE sinceHeard'[k] <= sinceHeard[k]
        OBVIOUS
    <2>1. sinceHeard[k] \in 0 .. HeardCap
        BY DEF TypeOK
    <2> QED BY <2>1, <1>5, <1>8 DEF HeardCap
<1>16. LinkTimed'
    <2>1. ASSUME NEW e \in linkEvents' PROVE e.iface \in linkSet' /\ e.left <= linkTime'[e.iface] + 1
        <3>1. CASE e \in linkEvents
            <4>1. /\ e.iface \in Ifaces /\ e.left \in Int /\ linkTime[e.iface] \in Int
                  /\ e.iface \in linkSet /\ e.left <= linkTime[e.iface] + 1
                BY <3>1 DEF TypeOK, LinkTimed, LinkEvent, Past
            <4>2. linkTime'[e.iface] \in Int /\ linkTime'[e.iface] >= linkTime[e.iface]
                BY <4>1, <1>4, <1>8
            <4> QED BY <4>1, <4>2, <1>6
        <3>2. CASE e = ev
            BY <3>2, <1>6, <1>8, <1>11
        <3> QED BY <3>1, <3>2, <1>9
    <2>2. ASSUME NEW e \in linkEvents', NEW f \in linkEvents', e.iface = f.iface PROVE e = f
        BY <2>2, <1>9, <1>11 DEF LinkTimed
    <2>3. ASSUME NEW k \in linkSet' PROVE \E e \in linkEvents' : e.iface = k
        BY <1>6, <1>9, <1>11 DEF LinkTimed
    <2> QED BY <2>1, <2>2, <2>3 DEF LinkTimed
<1>17. HeardWhileSym'
    <2> SUFFICES ASSUME NEW k \in Ifaces, symTime'[k] >= 0
                 PROVE  /\ k \in linkSet'
                        /\ sinceHeard'[k] + symTime'[k] <= VTime
                        /\ sinceHeard'[k] + linkTime'[k] <= SymmetryLimit
        BY DEF HeardWhileSym, SymmetryLimit
    <2>1. CASE k # i
        BY <2>1, <1>6, <1>8 DEF HeardWhileSym
    <2>2. CASE k = i /\ m.me = "HEARD"
        BY <2>2, <1>2, <1>3, <1>4, <1>5, <1>6, <1>8 DEF SymmetryLimit, Later
    <2>3. CASE k = i /\ m.me # "HEARD"
        <3>1. s = symTime[i] /\ symTime[i] >= 0 /\ h = sinceHeard[i]
            BY <2>3, <1>3, <1>5, <1>8 DEF Past
        <3>2. h + s <= VTime /\ h + linkTime[i] <= SymmetryLimit /\ h <= VTime
            BY <3>1, <1>1, <1>2 DEF HeardWhileSym, Past
        <3>3. h + t <= SymmetryLimit
            BY <3>2, <2>3, <1>2, <1>4a, <1>5 DEF SymmetryLimit, Later, Past
        <3> QED BY <2>3, <3>2, <3>3, <1>6, <1>8
    <2> QED BY <2>1, <2>2, <2>3
<1> QED BY <1>6, <1>8, <1>12, <1>13, <1>14, <1>15, <1>16, <1>17

\* The status of the neighbour that sent the HELLO rests on a link heard in
\* time, that of the others on what it rested on before.
LEMMA UpdateNeighborKeeps ==
    ASSUME NEW m \in Hello, TypeOK, LinkTimed, HeardWhileSym, Supported,
           LinkSensing(m), UpdateNeighbor(m)
    PROVE  /\ neighborSet' \subseteq Neighbors
           /\ symNeighbors' \subseteq neighborSet'
           /\ willingness' \in [Neighbors -> Willingness]
           /\ Supported'
<1> DEFINE n == Main[m.iface]
<1>1. n \in Neighbors /\ m.iface \in Ifaces /\ m.willingness \in Willingness
    BY HelloFields
<1>2. /\ neighborSet' = neighborSet \cup {n}
      /\ symNeighbors' \subseteq symNeighbors \cup {n}
      /\ willingness' = [willingness EXCEPT ![n] = m.willingness]
    BY DEF UpdateNeighbor
<1>3. ASSUME n \in symNeighbors' PROVE \E k \in Ifaces : Main[k] = n /\ symTime'[k] >= 0
    BY <1>1, <1>3, LinkSensingKeeps DEF UpdateNeighbor, HasSymLink
<1>4. ASSUME NEW q \in symNeighbors'
      PROVE  \E k \in linkSet' : Main[k] = q /\ sinceHeard'[k] + linkTime'[k] <= SymmetryLimit
    <2>1. CASE q = n
        <3>1. PICK k \in Ifaces : Main[k] = n /\ symTime'[k] >= 0
            BY <2>1, <1>3, <1>4
        <3>2. k \in linkSet' /\ sinceHeard'[k] + linkTime'[k] <= SymmetryLimit
            BY <3>1, LinkSensingKeeps DEF HeardWhileSym, SymmetryLimit
        <3> QED BY <2>1, <3>1, <3>2
    <2>2. CASE q # n
        <3>1. PICK k \in linkSet : Main[k] = q /\ sinceHeard[k] + linkTime[k] <= SymmetryLimit
            BY <2>2, <1>2, <1>4 DEF Supported
        <3>2. k \in Ifaces \ {m.iface}
            BY <2>2, <3>1 DEF TypeOK
        <3>3. /\ k \in linkSet' /\ linkTime'[k] = linkTime[k]
              /\ sinceHeard'[k] <= sinceHeard[k]
            BY <3>1, <3>2, LinkSensingKeeps
        <3>4. /\ sinceHeard[k] \in Int /\ linkTime[k] \in Int /\ sinceHeard'[k] \in Int
              /\ SymmetryLimit \in Int
            BY <3>2, LinkSensingKeeps DEF TypeOK, SymmetryLimit, Later, Past
        <3> QED BY <3>1, <3>3, <3>4
    <2> QED BY <2>1, <2>2
<1>5. Supported'
    BY <1>4 DEF Supported, SymmetryLimit
<1> QED BY <1>1, <1>2, <1>5 DEF TypeOK

\* Two-hop tuples are created and refreshed only over a link heard in time.
LEMMA TwoHopsKeep ==
    ASSUME NEW m \in Hello, TypeOK, LinkTimed, HeardWhileSym, TwoHopTimed, TwoHopBound,
           LinkSensing(m), PopulateTwoHopNeighborSet(m)
    PROVE  /\ twoHopSet' \subseteq Neighbors \X TwoHops
           /\ twoHopTime' \in [Neighbors \X TwoHops -> Past .. VTime]
           /\ twoHopEvents' \subseteq TwoHopEvent
           /\ TwoHopTimed'
           /\ TwoHopBound'
<1> DEFINE n == Main[m.iface]
           listed == {<<n, x>> : x \in {y \in TwoHops : m.lists[y] = "NEIGH"}}
           denied == {<<n, x>> : x \in {y \in TwoHops : m.lists[y] = "NOT_NEIGH"}}
           new == {[tuple |-> p, left |-> DELAY(VTime)] : p \in listed \ twoHopSet}
<1>1. n \in Neighbors
    BY HelloFields
<1>2. listed \subseteq Neighbors \X TwoHops /\ \A p \in listed : p[1] = n
    BY <1>1
<1>3. listed \cap denied = {}
    OBVIOUS
<1>4. \A i \in Ifaces : /\ sinceHeard'[i] \in Int /\ sinceHeard[i] \in Int
                        /\ sinceHeard'[i] <= sinceHeard[i]
    BY LinkSensingKeeps DEF TypeOK
<1>5. DELAY(VTime) = VTime + 1
    BY DelayOfDeadline
<1>6. CASE ~HasSymLink(n)
    <2>1. UNCHANGED <<twoHopSet, twoHopTime, twoHopEvents>>
        BY <1>6 DEF PopulateTwoHopNeighborSet, twoHopVars
    <2>2. TwoHopBound'
        <3> SUFFICES ASSUME NEW p \in twoHopSet
                     PROVE  \E i \in Ifaces :
                                Main[i] = p[1] /\ sinceHeard'[i] + twoHopTime[p] <= 2 * VTime
            BY <2>1 DEF TwoHopBound
        <3>1. PICK i \in Ifaces : Main[i] = p[1] /\ sinceHeard[i] + twoHopTime[p] <= 2 * VTime
            BY DEF TwoHopBound
        <3>2. twoHopTime[p] \in Int
            BY DEF TypeOK, Past
        <3> QED BY <3>1, <3>2, <1>4
    <2> QED BY <2>1, <2>2 DEF TypeOK, TwoHopTimed
<1>7. CASE HasSymLink(n)
    <2>1. /\ twoHopSet' = (twoHopSet \cup listed) \ denied
          /\ twoHopTime' = [p \in Neighbors \X TwoHops |->
                              IF p \in listed THEN VTime
                              ELSE IF p \in denied THEN Past ELSE twoHopTime[p]]
          /\ twoHopEvents' = twoHopEvents \cup new
        BY <1>7 DEF PopulateTwoHopNeighborSet
    <2>2. PICK k \in Ifaces : Main[k] = n /\ sinceHeard'[k] <= VTime
        <3>1. PICK k \in Ifaces : Main[k] = n /\ symTime'[k] >= 0
            BY <1>7, LinkSensingKeeps DEF HasSymLink
        <3>2. sinceHeard'[k] + symTime'[k] <= VTime /\ symTime'[k] \in Int
            BY <3>1, LinkSensingKeeps DEF HeardWhileSym, Past
        <3> QED BY <3>1, <3>2, <1>4
    <2>3. new \subseteq TwoHopEvent /\ \A p \in listed \ twoHopSet :
              \E e \in new : e.tuple = p /\ e.left = VTime + 1
        <3>1. VTime + 1 \in 0 .. VTime + 1
            OBVIOUS
        <3>2. new \subseteq TwoHopEvent
            BY <3>1, <1>2, <1>5 DEF TwoHopEvent
        <3>3. ASSUME NEW p \in listed \ twoHopSet PROVE \E e \in new : e.tuple = p /\ e.left = VTime + 1
            <4> WITNESS [tuple |-> p, left |-> DELAY(VTime)] \in new
            <4> QED BY <1>5
        <3> QED BY <3>2, <3>3
    <2>4. /\ twoHopSet' \subseteq Neighbors \X TwoHops
          /\ twoHopTime' \in [Neighbors \X TwoHops -> Past .. VTime]
          /\ \A p \in twoHopSet' : IF p \in listed THEN twoHopTime'[p] = VTime
                                   ELSE p \in twoHopSet /\ twoHopTime'[p] = twoHopTime[p]
        BY <2>1, <1>2 DEF TypeOK, Past
    <2> HIDE DEF n, listed, denied, new
    <2>5. ASSUME NEW p \in twoHopSet'
          PROVE  \E e \in twoHopEvents' : e.tuple = p /\ e.left <= twoHopTime'[p] + 1
        <3>1. CASE p \in listed \ twoHopSet
            <4>1. PICK e \in new : e.tuple = p /\ e.left = VTime + 1
                BY <3>1, <2>3
            <4>2. twoHopTime'[p] = VTime
                BY <3>1, <2>4, <2>5
            <4>3. e \in twoHopEvents' /\ e.left <= twoHopTime'[p] + 1
                BY <4>1, <4>2, <2>1
            <4> QED BY <4>1, <4>3
        <3>2. CASE p \in twoHopSet
            <4>1. PICK e \in twoHopEvents : e.tuple = p /\ e.left <= twoHopTime[p] + 1
                BY <3>2 DEF TwoHopTimed
            <4>2. /\ e.left \in Int /\ twoHopTime[p] \in Int
                  /\ twoHopTime[p] <= VTime
                BY <3>2 DEF TypeOK, TwoHopEvent, Past
            <4>3. twoHopTime'[p] \in {VTime, twoHopTime[p]}
                BY <2>4, <2>5
            <4>4. e.left <= twoHopTime'[p] + 1
                BY <4>1, <4>2, <4>3
            <4>5. e \in twoHopEvents'
                BY <2>1
            <4> QED BY <4>1, <4>4, <4>5
        <3> QED BY <3>1, <3>2, <2>4, <2>5
    <2>6. ASSUME NEW p \in twoHopSet'
          PROVE  \E i \in Ifaces : Main[i] = p[1] /\ sinceHeard'[i] + twoHopTime'[p] <= 2 * VTime
        <3>1. CASE p \in listed
            <4>1. Main[k] = p[1] /\ twoHopTime'[p] = VTime /\ sinceHeard'[k] \in Int
                BY <3>1, <2>2, <2>4, <2>6, <1>2, <1>4
            <4> QED BY <4>1, <2>2
        <3>2. CASE p \notin listed
            <4>1. p \in twoHopSet /\ twoHopTime'[p] = twoHopTime[p] /\ twoHopTime[p] \in Int
                BY <3>2, <2>4, <2>6 DEF TypeOK, Past
            <4>2. PICK i \in Ifaces : Main[i] = p[1] /\ sinceHeard[i] + twoHopTime[p] <= 2 * VTime
                BY <4>1 DEF TwoHopBound
            <4> QED BY <4>1, <4>2, <1>4
        <3> QED BY <3>1, <3>2
    <2> QED BY <2>1, <2>3, <2>4, <2>5, <2>6 DEF TypeOK, TwoHopTimed, TwoHopBound
<1> QED BY <1>6, <1>7

\* The MPR selector tuples after a HELLO.
LEMMA SelectorsKeep ==
    ASSUME NEW m \in Hello, TypeOK, SelectorTimed, PopulateMprSelectorSet(m)
    PROVE  /\ mprSelectorSet' \subseteq Neighbors
           /\ selectorTime' \in [Neighbors -> Past .. VTime]
           /\ selectorEvents' \subseteq SelectorEvent
           /\ SelectorTimed'
<1> DEFINE n == Main[m.iface]
           new == [neighbor |-> n, left |-> DELAY(VTime)]
<1>1. n \in Neighbors
    BY HelloFields
<1>2. new \in SelectorEvent /\ new.neighbor = n /\ new.left = VTime + 1
    BY <1>1, DelayOfDeadline DEF SelectorEvent
<1>3. CASE ~m.mpr
    BY <1>3 DEF PopulateMprSelectorSet, selectorVars, TypeOK, SelectorTimed
<1>4. CASE m.mpr
    <2>1. /\ mprSelectorSet' = mprSelectorSet \cup {n}
          /\ selectorTime' = [selectorTime EXCEPT ![n] = VTime]
          /\ selectorEvents' = IF n \in mprSelectorSet THEN selectorEvents
                               ELSE selectorEvents \cup {new}
        BY <1>4 DEF PopulateMprSelectorSet
    <2> HIDE DEF n, new
    <2>2. /\ mprSelectorSet' \subseteq Neighbors
          /\ selectorTime' \in [Neighbors -> Past .. VTime]
          /\ selectorEvents' \subseteq SelectorEvent
          /\ selectorTime'[n] = VTime
          /\ \A q \in Neighbors \ {n} : selectorTime'[q] = selectorTime[q]
        BY <2>1, <1>1, <1>2 DEF TypeOK, Past
    <2>3. ASSUME NEW q \in mprSelectorSet'
          PROVE  \E e \in selectorEvents' : e.neighbor = q /\ e.left <= selectorTime'[q] + 1
        <3>1. CASE q \notin mprSelectorSet
            BY <3>1, <2>1, <2>2, <2>3, <1>2
        <3>2. CASE q \in mprSelectorSet
            <4>1. PICK e \in selectorEvents : e.neighbor = q /\ e.left <= selectorTime[q] + 1
                BY <3>2 DEF SelectorTimed
            <4>2. /\ e.left \in Int /\ selectorTime[q] \in Int /\ selectorTime[q] <= VTime
                  /\ q \in Neighbors
                BY <3>2 DEF TypeOK, SelectorEvent, Past
            <4>3. selectorTime'[q] \in {VTime, selectorTime[q]}
                BY <2>2, <4>2
            <4> QED BY <4>1, <4>2, <4>3, <2>1
        <3> QED BY <3>1, <3>2
    <2> QED BY <2>2, <2>3 DEF SelectorTimed
<1> QED BY <1>3, <1>4, HelloFields

\* MprComputation selects neighbours only.
LEMMA MprsAreNeighbors ==
    ASSUME MprComputation, symNeighbors' \subseteq Neighbors
    PROVE  mprSet' \subseteq Neighbors
    BY DEF MprComputation

\* ProcessHello keeps the invariant.
LEMMA HelloKeeps ==
    ASSUME NEW m \in Hello, IndInv, ProcessHello(m)
    PROVE  IndInv'
<1>1. /\ LinkSensing(m) /\ UpdateNeighbor(m) /\ PopulateTwoHopNeighborSet(m)
      /\ MprComputation /\ PopulateMprSelectorSet(m)
      /\ UNCHANGED <<m_linkTupleTimerFirstTime, silent>>
    BY DEF ProcessHello
<1>2. mprSet' \subseteq Neighbors
    BY <1>1, UpdateNeighborKeeps, MprsAreNeighbors DEF IndInv
<1> QED BY <1>1, <1>2, LinkSensingKeeps, UpdateNeighborKeeps, TwoHopsKeep, SelectorsKeep
        DEF IndInv, TypeOK

-----------------------------------------------------------------------------
(* The events.                                                             *)

\* An event that sets itself again for no later than the end of its tuple.
LEMMA Rescheduled ==
    ASSUME NEW e \in linkEvents, TypeOK, LinkTimed, NEW d \in Nat, d <= linkTime[e.iface],
           UNCHANGED linkVars,
           linkEvents' = (linkEvents \ {e}) \cup {[iface |-> e.iface, left |-> DELAY(d)]}
    PROVE  linkEvents' \subseteq LinkEvent /\ LinkTimed'
<1> DEFINE new == [iface |-> e.iface, left |-> DELAY(d)]
<1>1. /\ e.iface \in Ifaces /\ e.iface \in linkSet
      /\ linkTime[e.iface] \in Past .. VTime + HoldTime
    BY DEF TypeOK, LinkEvent, LinkTimed
<1>2. new.iface = e.iface /\ new.left = d + 1 /\ new.left \in 0 .. VTime + HoldTime + 1
    BY <1>1, DelayOfDeadline DEF Past
<1>3. new \in LinkEvent
    BY <1>1, <1>2 DEF LinkEvent
<1>4. linkEvents' = (linkEvents \ {e}) \cup {new}
    OBVIOUS
<1>5. linkSet' = linkSet /\ linkTime' = linkTime
    BY DEF linkVars
<1> HIDE DEF new
<1>6. ASSUME NEW f \in linkEvents' PROVE f.iface \in linkSet /\ f.left <= linkTime[f.iface] + 1
    <2>1. CASE f = new
        BY <2>1, <1>1, <1>2 DEF Past
    <2>2. CASE f \in linkEvents
        BY <2>2 DEF LinkTimed
    <2> QED BY <2>1, <2>2, <1>4
<1>7. ASSUME NEW f \in linkEvents', NEW g \in linkEvents', f.iface = g.iface PROVE f = g
    BY <1>2, <1>4, <1>7 DEF LinkTimed
<1>8. ASSUME NEW k \in linkSet PROVE \E f \in linkEvents' : f.iface = k
    BY <1>2, <1>4 DEF LinkTimed
<1> QED BY <1>3, <1>4, <1>5, <1>6, <1>7, <1>8 DEF LinkTimed, TypeOK

\* The end of a link tuple.
LEMMA RemoveLinkTupleKeeps ==
    ASSUME NEW e \in linkEvents, TypeOK, LinkTimed, HeardWhileSym, Supported,
           RemoveLinkTuple(e.iface), linkEvents' = linkEvents \ {e}, UNCHANGED sinceHeard
    PROVE  /\ linkSet' \subseteq Ifaces
           /\ symTime' \in [Ifaces -> Past .. VTime]
           /\ linkTime' \in [Ifaces -> Past .. VTime + HoldTime]
           /\ neighborSet' \subseteq Neighbors /\ symNeighbors' \subseteq neighborSet'
           /\ willingness' \in [Neighbors -> Willingness]
           /\ LinkTimed' /\ HeardWhileSym' /\ Supported'
<1> DEFINE i == e.iface
<1>1. i \in Ifaces /\ Main[i] \in Neighbors
    BY DEF TypeOK, LinkEvent
<1>2. /\ linkSet' = linkSet \ {i}
      /\ linkTime' = [linkTime EXCEPT ![i] = Past]
      /\ symTime' = [symTime EXCEPT ![i] = Past]
      /\ neighborSet' = neighborSet \ {Main[i]}
      /\ symNeighbors' = symNeighbors \ {Main[i]}
      /\ willingness' = [willingness EXCEPT ![Main[i]] = DEFAULT]
    BY DEF RemoveLinkTuple
<1>3. \A k \in Ifaces \ {i} : linkTime'[k] = linkTime[k] /\ symTime'[k] = symTime[k]
    BY <1>2 DEF TypeOK
<1>4. symTime'[i] = Past
    BY <1>1, <1>2 DEF TypeOK
<1>5. LinkTimed'
    <2>1. ASSUME NEW f \in linkEvents' PROVE f.iface \in linkSet' /\ f.left <= linkTime'[f.iface] + 1
        <3>1. f \in linkEvents /\ f.iface # i /\ f.iface \in Ifaces
            BY <2>1 DEF LinkTimed, TypeOK, LinkEvent
        <3> QED BY <3>1, <1>2, <1>3 DEF LinkTimed
    <2>2. ASSUME NEW k \in linkSet' PROVE \E f \in linkEvents' : f.iface = k
        BY <1>2 DEF LinkTimed
    <2> QED BY <2>1, <2>2 DEF LinkTimed
<1>6. HeardWhileSym'
    <2> SUFFICES ASSUME NEW k \in Ifaces, symTime'[k] >= 0
                 PROVE  /\ k \in linkSet'
                        /\ sinceHeard[k] + symTime'[k] <= VTime
                        /\ sinceHeard[k] + linkTime'[k] <= SymmetryLimit
        BY DEF HeardWhileSym, SymmetryLimit
    <2>1. k # i
        BY <1>4 DEF Past
    <2> QED BY <2>1, <1>2, <1>3 DEF HeardWhileSym
<1>7. Supported'
    <2> SUFFICES ASSUME NEW q \in symNeighbors'
                 PROVE  \E k \in linkSet' :
                            Main[k] = q /\ sinceHeard[k] + linkTime'[k] <= SymmetryLimit
        BY DEF Supported, SymmetryLimit
    <2>1. PICK k \in linkSet : Main[k] = q /\ sinceHeard[k] + linkTime[k] <= SymmetryLimit
        BY <1>2 DEF Supported
    <2>2. k # i /\ k \in Ifaces
        BY <2>1, <1>2 DEF TypeOK
    <2> QED BY <2>1, <2>2, <1>2, <1>3
<1> QED BY <1>1, <1>2, <1>5, <1>6, <1>7 DEF TypeOK, Past

\* A neighbour loss keeps the neighbour symmetric only over another link.
LEMMA NeighborLossKeeps ==
    ASSUME NEW i \in Ifaces, TypeOK, HeardWhileSym, Supported, TwoHopTimed, TwoHopBound,
           SelectorTimed, NeighborLoss(i),
           UNCHANGED <<linkVars, sinceHeard, twoHopEvents, selectorEvents>>
    PROVE  /\ neighborSet' \subseteq Neighbors /\ symNeighbors' \subseteq neighborSet'
           /\ willingness' \in [Neighbors -> Willingness]
           /\ twoHopSet' \subseteq Neighbors \X TwoHops
           /\ twoHopTime' \in [Neighbors \X TwoHops -> Past .. VTime]
           /\ mprSet' \subseteq Neighbors /\ mprSelectorSet' \subseteq Neighbors
           /\ selectorTime' \in [Neighbors -> Past .. VTime]
           /\ Supported' /\ TwoHopTimed' /\ TwoHopBound' /\ SelectorTimed'
<1> DEFINE n == Main[i]
           gone == {p \in twoHopSet : p[1] = n}
<1>1. /\ neighborSet' = neighborSet \cup {n}
      /\ symNeighbors' = IF HasSymLink(n) THEN symNeighbors \cup {n} ELSE symNeighbors \ {n}
      /\ twoHopSet' = twoHopSet \ gone
      /\ twoHopTime' = [p \in Neighbors \X TwoHops |-> IF p \in gone THEN Past ELSE twoHopTime[p]]
      /\ mprSelectorSet' = mprSelectorSet \ {n}
      /\ selectorTime' = [selectorTime EXCEPT ![n] = Past]
      /\ willingness' = willingness /\ MprComputation
    BY DEF NeighborLoss
<1>2. n \in Neighbors
    OBVIOUS
<1>3. linkSet' = linkSet /\ symTime' = symTime /\ linkTime' = linkTime
    BY DEF linkVars
<1>4. Supported'
    <2> SUFFICES ASSUME NEW q \in symNeighbors'
                 PROVE  \E k \in linkSet :
                            Main[k] = q /\ sinceHeard[k] + linkTime[k] <= SymmetryLimit
        BY <1>3 DEF Supported, SymmetryLimit
    <2>1. CASE q \in symNeighbors
        BY <2>1 DEF Supported
    <2>2. CASE q \notin symNeighbors
        <3>1. q = n /\ HasSymLink(n)
            BY <2>2, <1>1
        <3>2. PICK k \in linkSet : Main[k] = n /\ symTime[k] >= 0
            BY <3>1, <1>3 DEF HasSymLink
        <3> QED BY <3>1, <3>2 DEF HeardWhileSym, TypeOK
    <2> QED BY <2>1, <2>2
<1> HIDE DEF gone, n
<1>5. /\ twoHopSet' \subseteq Neighbors \X TwoHops
      /\ twoHopTime' \in [Neighbors \X TwoHops -> Past .. VTime]
      /\ \A p \in twoHopSet' : p \in twoHopSet /\ twoHopTime'[p] = twoHopTime[p]
    BY <1>1 DEF TypeOK, Past
<1>6. TwoHopTimed' /\ TwoHopBound'
    BY <1>5 DEF TwoHopTimed, TwoHopBound
<1>7. /\ mprSelectorSet' \subseteq Neighbors
      /\ selectorTime' \in [Neighbors -> Past .. VTime]
      /\ SelectorTimed'
    BY <1>1, <1>2 DEF TypeOK, SelectorTimed, Past
<1>8. neighborSet' \subseteq Neighbors /\ symNeighbors' \subseteq neighborSet'
    BY <1>1, <1>2 DEF TypeOK
<1>9. mprSet' \subseteq Neighbors
    BY <1>1, <1>8, MprsAreNeighbors
<1> QED BY <1>1, <1>4, <1>5, <1>6, <1>7, <1>8, <1>9 DEF TypeOK

\* So does LinkTupleTimerExpire.
LEMMA LinkExpireKeeps ==
    ASSUME NEW e \in linkEvents, IndInv, LinkTupleTimerExpire(e)
    PROVE  IndInv'
<1> DEFINE i == e.iface
           again(d) == (linkEvents \ {e}) \cup {[iface |-> i, left |-> DELAY(d)]}
<1>1. /\ i \in Ifaces /\ i \in linkSet
      /\ linkTime[i] \in Past .. VTime + HoldTime /\ symTime[i] \in Past .. VTime
    BY DEF IndInv, TypeOK, LinkEvent, LinkTimed
<1>2. UNCHANGED <<twoHopEvents, selectorEvents, silent, sinceHeard>>
    BY DEF LinkTupleTimerExpire
<1>3. CASE /\ RemoveLinkTuple(i)
           /\ linkEvents' = linkEvents \ {e}
           /\ UNCHANGED <<m_linkTupleTimerFirstTime, twoHopVars, mprSet, selectorVars>>
    <2>1. linkEvents' \subseteq LinkEvent
        BY <1>3 DEF IndInv, TypeOK
    <2>2. TwoHopTimed' /\ SelectorTimed' /\ TwoHopBound'
        BY <1>2, <1>3 DEF IndInv, TwoHopTimed, SelectorTimed, TwoHopBound, twoHopVars, selectorVars
    <2> QED BY <2>1, <2>2, <1>2, <1>3, RemoveLinkTupleKeeps
            DEF IndInv, TypeOK, twoHopVars, selectorVars
<1>4. CASE /\ linkTime[i] >= 0
           /\ UNCHANGED linkVars
           /\ SymTimeOver(i)
           /\ linkEvents' = again(linkTime[i])
    <2>1. linkEvents' \subseteq LinkEvent /\ LinkTimed'
        BY <1>1, <1>4, Rescheduled DEF IndInv
    <2>2. HeardWhileSym'
        BY <1>2, <1>4 DEF IndInv, HeardWhileSym, linkVars, SymmetryLimit
    <2>3. CASE /\ m_linkTupleTimerFirstTime' = FALSE
               /\ UNCHANGED <<neighborVars, twoHopVars, mprSet, selectorVars>>
        <3>1. Supported' /\ TwoHopTimed' /\ SelectorTimed' /\ TwoHopBound'
            BY <2>3, <1>2, <1>4 DEF IndInv, Supported, TwoHopTimed, SelectorTimed, TwoHopBound,
                neighborVars, linkVars, twoHopVars, selectorVars, SymmetryLimit
        <3> QED BY <3>1, <2>1, <2>2, <2>3, <1>2, <1>4
                DEF IndInv, TypeOK, neighborVars, linkVars, twoHopVars, selectorVars
    <2>4. CASE NeighborLoss(i) /\ UNCHANGED m_linkTupleTimerFirstTime
        BY <2>1, <2>2, <2>4, <1>1, <1>2, <1>4, NeighborLossKeeps DEF IndInv, TypeOK, linkVars
    <2> QED BY <2>3, <2>4, <1>4 DEF SymTimeOver
<1>5. CASE /\ linkTime[i] >= 0 /\ symTime[i] >= 0
           /\ linkEvents' = again(Earlier(linkTime[i], symTime[i]))
           /\ UNCHANGED <<linkVars, m_linkTupleTimerFirstTime, neighborVars,
                          twoHopVars, mprSet, selectorVars>>
    <2>1. /\ Earlier(linkTime[i], symTime[i]) \in Nat
          /\ Earlier(linkTime[i], symTime[i]) <= linkTime[i]
        BY <1>1, <1>5 DEF Earlier, Past
    <2>2. linkEvents' \subseteq LinkEvent /\ LinkTimed'
        BY <2>1, <1>1, <1>5, Rescheduled DEF IndInv
    <2>3. HeardWhileSym' /\ Supported' /\ TwoHopTimed' /\ SelectorTimed' /\ TwoHopBound'
        BY <1>2, <1>5 DEF IndInv, HeardWhileSym, Supported, TwoHopTimed, SelectorTimed,
            TwoHopBound, neighborVars, linkVars, twoHopVars, selectorVars, SymmetryLimit
    <2> QED BY <2>2, <2>3, <1>2, <1>5
            DEF IndInv, TypeOK, neighborVars, linkVars, twoHopVars, selectorVars
<1> QED BY <1>1, <1>3, <1>4, <1>5 DEF LinkTupleTimerExpire

\* So does Nb2hopTupleTimerExpire.
LEMMA TwoHopExpireKeeps ==
    ASSUME NEW e \in twoHopEvents, IndInv, Nb2hopTupleTimerExpire(e)
    PROVE  IndInv'
<1> DEFINE p == e.tuple
           expired == p \in twoHopSet /\ twoHopTime[p] < 0
           next == [e EXCEPT !.left = DELAY(twoHopTime[p])]
<1>1. p \in Neighbors \X TwoHops /\ twoHopTime[p] \in Past .. VTime
    BY DEF IndInv, TypeOK, TwoHopEvent
<1>2. /\ twoHopSet' = IF expired THEN twoHopSet \ {p} ELSE twoHopSet
      /\ twoHopEvents' = (twoHopEvents \ {e}) \cup
            IF p \in twoHopSet /\ ~expired THEN {next} ELSE {}
      /\ UNCHANGED <<linkVars, linkEvents, m_linkTupleTimerFirstTime, neighborVars,
                     twoHopTime, mprSet, selectorVars, selectorEvents, silent, sinceHeard>>
    BY DEF Nb2hopTupleTimerExpire
<1>3. ASSUME p \in twoHopSet, ~expired
      PROVE  next \in TwoHopEvent /\ next.tuple = p /\ next.left = twoHopTime[p] + 1
    <2>1. twoHopTime[p] \in Nat /\ twoHopTime[p] + 1 \in 0 .. VTime + 1
        BY <1>1, <1>3 DEF Past
    <2>2. e \in TwoHopEvent
        BY DEF IndInv, TypeOK
    <2> QED BY <2>1, <2>2, DelayOfDeadline DEF TwoHopEvent
<1> HIDE DEF next
<1>4. ASSUME NEW q \in twoHopSet'
      PROVE  \E f \in twoHopEvents' : f.tuple = q /\ f.left <= twoHopTime'[q] + 1
    <2>1. PICK f \in twoHopEvents : f.tuple = q /\ f.left <= twoHopTime[q] + 1
        BY <1>2, <1>4 DEF IndInv, TwoHopTimed
    <2>2. CASE q # p
        BY <2>1, <2>2, <1>2
    <2>3. CASE q = p
        <3>1. p \in twoHopSet /\ ~expired
            BY <2>3, <1>2, <1>4
        <3>2. next \in twoHopEvents' /\ next.left <= twoHopTime'[p] + 1
            BY <3>1, <1>1, <1>2, <1>3 DEF Past
        <3> QED BY <3>1, <3>2, <2>3, <1>3
    <2> QED BY <2>2, <2>3
<1>5. TwoHopTimed'
    BY <1>4 DEF TwoHopTimed
<1>6. twoHopSet' \subseteq twoHopSet /\ twoHopEvents' \subseteq TwoHopEvent
    BY <1>2, <1>3 DEF IndInv, TypeOK
<1>7. LinkTimed' /\ HeardWhileSym' /\ Supported' /\ SelectorTimed' /\ TwoHopBound'
    BY <1>2, <1>6 DEF IndInv, LinkTimed, HeardWhileSym, Supported, SelectorTimed, TwoHopBound,
        linkVars, neighborVars, selectorVars, SymmetryLimit
<1> QED BY <1>2, <1>5, <1>6, <1>7
        DEF IndInv, TypeOK, linkVars, neighborVars, selectorVars

\* So does MprSelTupleTimerExpire.
LEMMA SelectorExpireKeeps ==
    ASSUME NEW e \in selectorEvents, IndInv, MprSelTupleTimerExpire(e)
    PROVE  IndInv'
<1> DEFINE n == e.neighbor
           expired == n \in mprSelectorSet /\ selectorTime[n] < 0
           next == [e EXCEPT !.left = DELAY(selectorTime[n])]
<1>1. n \in Neighbors /\ selectorTime[n] \in Past .. VTime
    BY DEF IndInv, TypeOK, SelectorEvent
<1>2. /\ mprSelectorSet' = IF expired THEN mprSelectorSet \ {n} ELSE mprSelectorSet
      /\ selectorEvents' = (selectorEvents \ {e}) \cup
            IF n \in mprSelectorSet /\ ~expired THEN {next} ELSE {}
      /\ UNCHANGED <<linkVars, linkEvents, m_linkTupleTimerFirstTime, neighborVars,
                     twoHopVars, twoHopEvents, mprSet, selectorTime, silent, sinceHeard>>
    BY DEF MprSelTupleTimerExpire
<1>3. ASSUME n \in mprSelectorSet, ~expired
      PROVE  next \in SelectorEvent /\ next.neighbor = n /\ next.left = selectorTime[n] + 1
    <2>1. selectorTime[n] \in Nat /\ selectorTime[n] + 1 \in 0 .. VTime + 1
        BY <1>1, <1>3 DEF Past
    <2>2. e \in SelectorEvent
        BY DEF IndInv, TypeOK
    <2> QED BY <2>1, <2>2, DelayOfDeadline DEF SelectorEvent
<1> HIDE DEF next
<1>4. ASSUME NEW q \in mprSelectorSet'
      PROVE  \E f \in selectorEvents' : f.neighbor = q /\ f.left <= selectorTime'[q] + 1
    <2>1. PICK f \in selectorEvents : f.neighbor = q /\ f.left <= selectorTime[q] + 1
        BY <1>2, <1>4 DEF IndInv, SelectorTimed
    <2>2. CASE q # n
        BY <2>1, <2>2, <1>2
    <2>3. CASE q = n
        <3>1. n \in mprSelectorSet /\ ~expired
            BY <2>3, <1>2, <1>4
        <3>2. next \in selectorEvents' /\ next.left <= selectorTime'[n] + 1
            BY <3>1, <1>1, <1>2, <1>3 DEF Past
        <3> QED BY <3>1, <3>2, <2>3, <1>3
    <2> QED BY <2>2, <2>3
<1>5. SelectorTimed'
    BY <1>4 DEF SelectorTimed
<1>6. mprSelectorSet' \subseteq Neighbors /\ selectorEvents' \subseteq SelectorEvent
    BY <1>2, <1>3 DEF IndInv, TypeOK
<1>7. LinkTimed' /\ HeardWhileSym' /\ Supported' /\ TwoHopTimed' /\ TwoHopBound'
    BY <1>2 DEF IndInv, LinkTimed, HeardWhileSym, Supported, TwoHopTimed, TwoHopBound,
        linkVars, neighborVars, twoHopVars, SymmetryLimit
<1> QED BY <1>2, <1>5, <1>6, <1>7
        DEF IndInv, TypeOK, linkVars, neighborVars, twoHopVars

\* A neighbour that falls silent changes no set.
LEMMA SilentKeeps ==
    ASSUME NEW n \in Neighbors, IndInv, FallSilent(n)
    PROVE  IndInv'
    BY DEF FallSilent, IndInv, TypeOK, LinkTimed, HeardWhileSym, Supported, TwoHopTimed,
           SelectorTimed, TwoHopBound, linkVars, neighborVars, twoHopVars, selectorVars,
           SymmetryLimit

\* The clock moves only while every event is still to come, so no tuple that
\* an event watches outlives its deadline.
LEMMA TickKeeps == ASSUME IndInv, Tick PROVE IndInv'
<1>1. /\ \A e \in linkEvents \cup twoHopEvents \cup selectorEvents : e.left > 0
      /\ symTime' = [i \in Ifaces |-> Later(symTime[i] - 1, Past)]
      /\ linkTime' = [i \in Ifaces |-> Later(linkTime[i] - 1, Past)]
      /\ twoHopTime' = [p \in Neighbors \X TwoHops |-> Later(twoHopTime[p] - 1, Past)]
      /\ selectorTime' = [n \in Neighbors |-> Later(selectorTime[n] - 1, Past)]
      /\ linkEvents' = {[e EXCEPT !.left = @ - 1] : e \in linkEvents}
      /\ twoHopEvents' = {[e EXCEPT !.left = @ - 1] : e \in twoHopEvents}
      /\ selectorEvents' = {[e EXCEPT !.left = @ - 1] : e \in selectorEvents}
      /\ sinceHeard' = [i \in Ifaces |-> Earlier(sinceHeard[i] + 1, HeardCap)]
      /\ UNCHANGED <<linkSet, m_linkTupleTimerFirstTime, neighborVars, twoHopSet, mprSet,
                     mprSelectorSet, silent>>
    BY DEF Tick
<1>2. \A i \in Ifaces : /\ symTime[i] \in Past .. VTime
                        /\ linkTime[i] \in Past .. VTime + HoldTime
                        /\ sinceHeard[i] \in 0 .. HeardCap
    BY DEF IndInv, TypeOK
<1>3. /\ symTime' \in [Ifaces -> Past .. VTime]
      /\ linkTime' \in [Ifaces -> Past .. VTime + HoldTime]
      /\ sinceHeard' \in [Ifaces -> 0 .. HeardCap]
    BY <1>1, <1>2 DEF Later, Earlier, Past, HeardCap
<1>4. \A i \in Ifaces : /\ sinceHeard'[i] <= sinceHeard[i] + 1
                        /\ linkTime'[i] >= linkTime[i] - 1 /\ linkTime'[i] \in Int
                        /\ linkTime[i] >= 0 => linkTime'[i] = linkTime[i] - 1
                        /\ symTime'[i] >= 0 => symTime'[i] = symTime[i] - 1
    BY <1>1, <1>2 DEF Later, Earlier, Past, HeardCap
<1>5. twoHopTime' \in [Neighbors \X TwoHops -> Past .. VTime]
      /\ \A p \in Neighbors \X TwoHops :
            twoHopTime'[p] >= twoHopTime[p] - 1
            /\ (twoHopTime[p] >= 0 => twoHopTime'[p] = twoHopTime[p] - 1)
    BY <1>1 DEF IndInv, TypeOK, Later, Past
<1>6. selectorTime' \in [Neighbors -> Past .. VTime]
      /\ \A n \in Neighbors : selectorTime'[n] >= selectorTime[n] - 1
    BY <1>1 DEF IndInv, TypeOK, Later, Past
<1>7. /\ \A e \in linkEvents : e \in LinkEvent /\ e.left > 0
      /\ \A e \in twoHopEvents : e \in TwoHopEvent /\ e.left > 0
      /\ \A e \in selectorEvents : e \in SelectorEvent /\ e.left > 0
    BY <1>1 DEF IndInv, TypeOK
<1>8. \A e \in linkEvents :
          /\ [e EXCEPT !.left = @ - 1] \in LinkEvent
          /\ [e EXCEPT !.left = @ - 1].iface = e.iface
          /\ [e EXCEPT !.left = @ - 1].left = e.left - 1
    BY <1>7 DEF LinkEvent
<1>9. \A e \in twoHopEvents :
          /\ [e EXCEPT !.left = @ - 1] \in TwoHopEvent
          /\ [e EXCEPT !.left = @ - 1].tuple = e.tuple
          /\ [e EXCEPT !.left = @ - 1].left = e.left - 1
    BY <1>7 DEF TwoHopEvent
<1>10. \A e \in selectorEvents :
          /\ [e EXCEPT !.left = @ - 1] \in SelectorEvent
          /\ [e EXCEPT !.left = @ - 1].neighbor = e.neighbor
          /\ [e EXCEPT !.left = @ - 1].left = e.left - 1
    BY <1>7 DEF SelectorEvent
<1>11. /\ linkEvents' \subseteq LinkEvent
       /\ twoHopEvents' \subseteq TwoHopEvent
       /\ selectorEvents' \subseteq SelectorEvent
    BY <1>1, <1>8, <1>9, <1>10
<1>12. LinkTimed'
    <2>1. ASSUME NEW f \in linkEvents' PROVE f.iface \in linkSet' /\ f.left <= linkTime'[f.iface] + 1
        <3>1. PICK e \in linkEvents : f = [e EXCEPT !.left = @ - 1]
            BY <1>1, <2>1
        <3>2. /\ e.iface \in linkSet /\ e.left <= linkTime[e.iface] + 1
              /\ e.iface \in Ifaces /\ e.left \in Int
            BY <1>7 DEF IndInv, LinkTimed, LinkEvent
        <3>3. f.iface = e.iface /\ f.left = e.left - 1
            BY <3>1, <1>8
        <3> QED BY <3>2, <3>3, <1>1, <1>2, <1>4 DEF Past
    <2>2. ASSUME NEW f \in linkEvents', NEW g \in linkEvents', f.iface = g.iface PROVE f = g
        <3>1. PICK e \in linkEvents : f = [e EXCEPT !.left = @ - 1]
            BY <1>1, <2>2
        <3>2. PICK d \in linkEvents : g = [d EXCEPT !.left = @ - 1]
            BY <1>1, <2>2
        <3>3. e.iface = d.iface
            BY <3>1, <3>2, <2>2, <1>8
        <3>4. e = d
            BY <3>3 DEF IndInv, LinkTimed
        <3> QED BY <3>1, <3>2, <3>4
    <2>3. ASSUME NEW i \in linkSet' PROVE \E f \in linkEvents' : f.iface = i
        <3>1. PICK e \in linkEvents : e.iface = i
            BY <2>3, <1>1 DEF IndInv, LinkTimed
        <3>2. [e EXCEPT !.left = @ - 1] \in linkEvents'
            BY <1>1
        <3> QED BY <3>1, <3>2, <1>8
    <2> QED BY <2>1, <2>2, <2>3 DEF LinkTimed
<1>13. \A i \in linkSet : i \in Ifaces /\ linkTime[i] >= 0
    <2> SUFFICES ASSUME NEW i \in linkSet PROVE i \in Ifaces /\ linkTime[i] >= 0
        OBVIOUS
    <2>1. PICK e \in linkEvents : e.iface = i /\ e.left <= linkTime[i] + 1
        BY DEF IndInv, LinkTimed
    <2>2. i \in Ifaces /\ e.left \in Int
        BY <1>7 DEF IndInv, TypeOK, LinkEvent
    <2> QED BY <2>1, <2>2, <1>2, <1>7 DEF Past
<1>14. HeardWhileSym'
    <2> SUFFICES ASSUME NEW i \in Ifaces, symTime'[i] >= 0
                 PROVE  /\ i \in linkSet
                        /\ sinceHeard'[i] + symTime'[i] <= VTime
                        /\ sinceHeard'[i] + linkTime'[i] <= SymmetryLimit
        BY <1>1 DEF HeardWhileSym, SymmetryLimit
    <2>1. symTime'[i] = symTime[i] - 1 /\ symTime[i] >= 0
        BY <1>2, <1>4 DEF Past
    <2>2. /\ i \in linkSet /\ sinceHeard[i] + symTime[i] <= VTime
          /\ sinceHeard[i] + linkTime[i] <= SymmetryLimit
        BY <2>1 DEF IndInv, HeardWhileSym
    <2>3. linkTime'[i] = linkTime[i] - 1
        BY <2>2, <1>4, <1>13
    <2>4. sinceHeard'[i] \in Int /\ SymmetryLimit \in Int
        BY <1>3 DEF SymmetryLimit, Later
    <2> QED BY <2>1, <2>2, <2>3, <2>4, <1>2, <1>4 DEF Past
<1>15. Supported'
    <2> SUFFICES ASSUME NEW q \in symNeighbors
                 PROVE  \E k \in linkSet :
                            Main[k] = q /\ sinceHeard'[k] + linkTime'[k] <= SymmetryLimit
        BY <1>1 DEF Supported, SymmetryLimit, neighborVars
    <2>1. PICK k \in linkSet : Main[k] = q /\ sinceHeard[k] + linkTime[k] <= SymmetryLimit
        BY DEF IndInv, Supported
    <2>2. k \in Ifaces /\ linkTime'[k] = linkTime[k] - 1
        BY <1>4, <1>13
    <2>3. sinceHeard'[k] \in Int /\ SymmetryLimit \in Int
        BY <2>2, <1>3 DEF SymmetryLimit, Later
    <2> QED BY <2>1, <2>2, <2>3, <1>2, <1>4 DEF Past
<1>16. \A p \in twoHopSet : \E e \in twoHopEvents :
          e.tuple = p /\ e.left <= twoHopTime[p] + 1 /\ e.left > 0 /\ e.left \in Int
    BY <1>7 DEF IndInv, TwoHopTimed, TwoHopEvent
<1>17. \A p \in twoHopSet : p \in Neighbors \X TwoHops /\ twoHopTime[p] \in Past .. VTime
    BY DEF IndInv, TypeOK
<1>18. TwoHopTimed'
    <2> SUFFICES ASSUME NEW p \in twoHopSet
                 PROVE  \E f \in twoHopEvents' : f.tuple = p /\ f.left <= twoHopTime'[p] + 1
        BY <1>1 DEF TwoHopTimed
    <2>1. PICK e \in twoHopEvents : e.tuple = p /\ e.left <= twoHopTime[p] + 1 /\ e.left \in Int
        BY <1>16
    <2>2. [e EXCEPT !.left = @ - 1] \in twoHopEvents'
        BY <1>1
    <2>3. twoHopTime'[p] \in Int
        BY <1>5, <1>17 DEF Past
    <2>4. [e EXCEPT !.left = @ - 1].left <= twoHopTime'[p] + 1
        BY <2>1, <2>3, <1>5, <1>9, <1>17 DEF Past
    <2> QED BY <2>1, <2>2, <2>4, <1>9
<1>19. TwoHopBound'
    <2> SUFFICES ASSUME NEW p \in twoHopSet
                 PROVE  \E i \in Ifaces :
                            Main[i] = p[1] /\ sinceHeard'[i] + twoHopTime'[p] <= 2 * VTime
        BY <1>1 DEF TwoHopBound
    <2>1. PICK i \in Ifaces : Main[i] = p[1] /\ sinceHeard[i] + twoHopTime[p] <= 2 * VTime
        BY DEF IndInv, TwoHopBound
    <2>2. twoHopTime[p] >= 0 /\ twoHopTime'[p] = twoHopTime[p] - 1
        BY <1>5, <1>16, <1>17 DEF Past
    <2>3. sinceHeard'[i] \in Int /\ sinceHeard[i] \in Int /\ twoHopTime[p] \in Int
        BY <1>2, <1>3, <1>17 DEF Past
    <2> QED BY <2>1, <2>2, <2>3, <1>4
<1>20. SelectorTimed'
    <2> SUFFICES ASSUME NEW n \in mprSelectorSet
                 PROVE  \E f \in selectorEvents' : f.neighbor = n /\ f.left <= selectorTime'[n] + 1
        BY <1>1 DEF SelectorTimed
    <2>1. PICK e \in selectorEvents : e.neighbor = n /\ e.left <= selectorTime[n] + 1
        BY DEF IndInv, SelectorTimed
    <2>2a. [e EXCEPT !.left = @ - 1] \in selectorEvents'
        BY <1>1
    <2>2b. e.left \in Int
        BY <1>7 DEF SelectorEvent
    <2>3. n \in Neighbors /\ selectorTime[n] \in Int /\ selectorTime'[n] \in Int
        BY <1>6 DEF IndInv, TypeOK, Past
    <2>4. [e EXCEPT !.left = @ - 1].left <= selectorTime'[n] + 1
        BY <2>1, <2>2b, <2>3, <1>6, <1>10
    <2> QED BY <2>1, <2>2a, <2>4, <1>10
<1>21. TypeOK'
    BY <1>1, <1>3, <1>5, <1>6, <1>11 DEF IndInv, TypeOK, neighborVars
<1> QED BY <1>12, <1>14, <1>15, <1>18, <1>19, <1>20, <1>21 DEF IndInv

-----------------------------------------------------------------------------
\* The invariant is inductive.
THEOREM Invariance == Spec => []IndInv
<1>1. IndInv /\ [Next]_vars => IndInv'
    <2> SUFFICES ASSUME IndInv, [Next]_vars PROVE IndInv'
        OBVIOUS
    <2>1. CASE UNCHANGED vars
        BY <2>1 DEF vars, IndInv, TypeOK, LinkTimed, HeardWhileSym, Supported, TwoHopTimed,
            SelectorTimed, TwoHopBound, linkVars, neighborVars, twoHopVars, selectorVars,
            SymmetryLimit
    <2> QED BY <2>1, HelloKeeps, LinkExpireKeeps, TwoHopExpireKeeps, SelectorExpireKeeps,
            SilentKeeps, TickKeeps DEF Next
<1> QED BY <1>1, InitInv, PTL DEF Spec

\* Types are kept and no tuple is without an event to end it in time: the link
\* event reschedules itself on every path, and a tuple that is erased and
\* created again while its old event is pending is watched too.
THEOREM TuplesAreTimed == Spec => [](TypeOK /\ EveryTupleHasEvent)
<1>1. IndInv => EveryTupleHasEvent
    <2> SUFFICES ASSUME IndInv, NEW i \in linkSet
                 PROVE  \E e \in linkEvents :
                           /\ e.iface = i /\ e.left <= linkTime[i] + 1
                           /\ \A f \in linkEvents : f.iface = i => f = e
        BY DEF IndInv, EveryTupleHasEvent, TwoHopTimed, SelectorTimed
    <2> QED BY DEF IndInv, LinkTimed
<1>2. IndInv => TypeOK
    BY DEF IndInv
<1> QED BY <1>1, <1>2, Invariance, PTL

\* A symmetric status ends in a bounded time after the neighbour last listed
\* this node, the loss the first firing swallows included.
THEOREM SymmetryIsBounded == Spec => []SymmetryBound
<1>1. IndInv => SymmetryBound
    <2> SUFFICES ASSUME IndInv, NEW q \in symNeighbors
                 PROVE  \E i \in linkSet : Main[i] = q /\ sinceHeard[i] <= SymmetryLimit + 1
        BY DEF SymmetryBound
    <2>1. PICK i \in linkSet : Main[i] = q /\ sinceHeard[i] + linkTime[i] <= SymmetryLimit
        BY DEF IndInv, Supported
    <2>2. /\ sinceHeard[i] \in Int /\ linkTime[i] \in Int /\ linkTime[i] >= -1
          /\ SymmetryLimit \in Int
        BY <2>1 DEF IndInv, TypeOK, Past, SymmetryLimit, Later
    <2> QED BY <2>1, <2>2
<1> QED BY <1>1, Invariance, PTL

\* A two-hop neighbour is not believed in for longer than two validity times
\* after the neighbour that leads to it last listed this node.
THEOREM TwoHopsAreBounded == Spec => []TwoHopBound
<1>1. IndInv => TwoHopBound
    BY DEF IndInv
<1> QED BY <1>1, Invariance, PTL

-----------------------------------------------------------------------------
(* One interface per neighbour.                                            *)

OneInterface == \A i, j \in Ifaces : Main[i] = Main[j] => i = j

Consistent == LinksMatchNeighbors /\ MprsAreSymmetric

\* A HELLO adds link and neighbour tuple together, and recomputes the MPR set.
LEMMA HelloConsistent ==
    ASSUME OneInterface, IndInv, Consistent, NEW m \in Hello, ProcessHello(m)
    PROVE  Consistent'
<1> DEFINE i == m.iface
           n == Main[i]
<1>1. /\ i \in Ifaces /\ linkSet \subseteq Ifaces /\ linkSet' = linkSet \cup {i}
      /\ neighborSet' = neighborSet \cup {n}
    BY HelloFields DEF IndInv, TypeOK, ProcessHello, LinkSensing, UpdateNeighbor
<1>2. ASSUME NEW k \in linkSet', k # i
      PROVE  /\ k \in linkSet /\ Main[k] # n
             /\ symTime'[k] = symTime[k]
             /\ Main[k] \in symNeighbors => Main[k] \in symNeighbors'
    BY <1>1, <1>2 DEF OneInterface, IndInv, TypeOK, ProcessHello, LinkSensing, UpdateNeighbor
<1>3. symTime'[i] >= 0 => n \in symNeighbors'
    <2>1. symTime'[i] >= 0 => HasSymLink(n)
        BY <1>1 DEF HasSymLink
    <2>2. n \in symNeighbors' <=> IF i \in linkSet THEN HasSymLink(n) ELSE symTime'[i] >= 0
        BY DEF ProcessHello, UpdateNeighbor
    <2> QED BY <2>1, <2>2
<1>4. LinksMatchNeighbors'
    BY <1>1, <1>2, <1>3 DEF Consistent, LinksMatchNeighbors
<1>5. mprSet' \subseteq symNeighbors'
    BY DEF ProcessHello, MprComputation
<1> QED BY <1>4, <1>5 DEF Consistent, MprsAreSymmetric

\* The link's event ends link and neighbour together, or recomputes the MPR
\* set; the loss it swallows the first time changes nothing.
LEMMA LinkExpireConsistent ==
    ASSUME OneInterface, IndInv, Consistent, NEW e \in linkEvents, LinkTupleTimerExpire(e)
    PROVE  Consistent'
<1> DEFINE i == e.iface
           n == Main[i]
<1>1. i \in Ifaces /\ linkSet \subseteq Ifaces /\ symNeighbors \subseteq neighborSet
    BY DEF IndInv, TypeOK, LinkEvent
<1>2. CASE UNCHANGED <<linkVars, neighborVars, mprSet>>
    BY <1>2 DEF Consistent, LinksMatchNeighbors, MprsAreSymmetric, linkVars, neighborVars
<1>3. CASE i \in linkSet /\ RemoveLinkTuple(i) /\ UNCHANGED mprSet
    <2>1. /\ linkSet' = linkSet \ {i} /\ neighborSet' = neighborSet \ {n}
          /\ symNeighbors' = symNeighbors \ {n} /\ mprSet' = mprSet
          /\ \A k \in linkSet' : symTime'[k] = symTime[k] /\ Main[k] # n
        BY <1>1, <1>3 DEF RemoveLinkTuple, OneInterface, IndInv, TypeOK
    <2> QED BY <2>1 DEF Consistent, LinksMatchNeighbors, MprsAreSymmetric
<1>4. CASE /\ i \in linkSet /\ symTime[i] < 0 /\ UNCHANGED linkVars
           /\ NeighborLoss(i)
    <2>1. /\ linkSet' = linkSet /\ symTime' = symTime
          /\ neighborSet' = neighborSet \cup {n} /\ symNeighbors \ {n} \subseteq symNeighbors'
          /\ mprSet' \subseteq symNeighbors'
        BY <1>4 DEF linkVars, NeighborLoss, MprComputation
    <2>2. ASSUME NEW k \in linkSet, symTime[k] >= 0 PROVE Main[k] # n
        <3>1. k # i
            <4>1. symTime[i] \in Int
                BY <1>1 DEF IndInv, TypeOK, Past
            <4> QED BY <1>4, <2>2, <4>1
        <3> QED BY <1>1, <3>1 DEF OneInterface
    <2>3. LinksMatchNeighbors'
        <3>1. neighborSet' = neighborSet /\ neighborSet = {Main[k] : k \in linkSet}
            BY <1>4, <2>1 DEF Consistent, LinksMatchNeighbors
        <3>2. \A k \in linkSet : symTime[k] >= 0 => Main[k] \in symNeighbors'
            BY <2>1, <2>2 DEF Consistent, LinksMatchNeighbors
        <3> QED BY <2>1, <3>1, <3>2 DEF LinksMatchNeighbors
    <2> QED BY <2>1, <2>3 DEF Consistent, MprsAreSymmetric
<1>5. \/ i \in linkSet /\ RemoveLinkTuple(i) /\ UNCHANGED mprSet
      \/ UNCHANGED <<linkVars, neighborVars, mprSet>>
      \/ i \in linkSet /\ symTime[i] < 0 /\ UNCHANGED linkVars /\ SymTimeOver(i)
    BY DEF LinkTupleTimerExpire
<1>6. SymTimeOver(i) => NeighborLoss(i) \/ UNCHANGED <<neighborVars, mprSet>>
    BY DEF SymTimeOver
<1> QED BY <1>2, <1>3, <1>4, <1>5, <1>6

\* Time takes symmetric links away and adds none.
LEMMA TickConsistent ==
    ASSUME IndInv, Consistent, Tick
    PROVE  Consistent'
<1>1. UNCHANGED <<linkSet, neighborVars, mprSet>>
    BY DEF Tick
<1>2. \A i \in linkSet : symTime'[i] >= 0 => symTime[i] >= 0
    BY DEF IndInv, TypeOK, Tick, Later, Past
<1> QED BY <1>1, <1>2 DEF Consistent, LinksMatchNeighbors, MprsAreSymmetric, neighborVars

\* The link and the neighbour set agree, and the MPRs are symmetric neighbours
\* as long as their link tuple is there, if no neighbour has two interfaces.
\* (With two, RemoveLinkTuple erases a neighbour whose other link lives on.)
THEOREM SetsAgree ==
    ASSUME OneInterface
    PROVE  Spec => [](LinksMatchNeighbors /\ MprsAreSymmetric)
<1>1. Init => Consistent
    BY DEF Init, Consistent, LinksMatchNeighbors, MprsAreSymmetric
<1>2. IndInv /\ Consistent /\ [Next]_vars => Consistent'
    <2> SUFFICES ASSUME IndInv, Consistent, [Next]_vars PROVE Consistent'
        OBVIOUS
    <2>1. CASE UNCHANGED <<linkVars, neighborVars, mprSet>>
        BY <2>1 DEF Consistent, LinksMatchNeighbors, MprsAreSymmetric, linkVars, neighborVars
    <2>2. ASSUME NEW e \in twoHopEvents, Nb2hopTupleTimerExpire(e) PROVE Consistent'
        BY <2>1, <2>2 DEF Nb2hopTupleTimerExpire
    <2>3. ASSUME NEW e \in selectorEvents, MprSelTupleTimerExpire(e) PROVE Consistent'
        BY <2>1, <2>3 DEF MprSelTupleTimerExpire
    <2>4. ASSUME NEW n \in Neighbors, FallSilent(n) PROVE Consistent'
        BY <2>1, <2>4 DEF FallSilent
    <2>5. CASE UNCHANGED vars
        BY <2>1, <2>5 DEF vars
    <2> QED BY <2>2, <2>3, <2>4, <2>5, HelloConsistent, LinkExpireConsistent, TickConsistent DEF Next
<1>3. Consistent => LinksMatchNeighbors /\ MprsAreSymmetric
    BY DEF Consistent
<1> QED BY <1>1, <1>2, <1>3, Invariance, PTL DEF Spec
=============================================================================
