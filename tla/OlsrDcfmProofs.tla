---------------------------- MODULE OlsrDcfmProofs ----------------------------
(***************************************************************************)
(* Theorems about the DCFM defence for every network, every set of claims  *)
(* and every validity time: what a verdict was derived from, and that none *)
(* outlives the window it was reached in.                                  *)
(***************************************************************************)
EXTENDS OlsrDcfm, FiniteSetTheorems, TLAPS

\* A two-hop tuple ages with the HELLO that listed it: unless a HELLO denies it
\* or the neighbour is lost, it is there exactly as long as that HELLO is valid,
\* and at most one instant more, until its event has run.
TupleAge(p) ==
    IF twoHopTime[p] = None THEN listedAgo[p] > VTime
    ELSE twoHopTime[p] + listedAgo[p] = VTime

AgeInv == TypeOK /\ \A p \in Pairs : TupleAge(p)

DcfmInv == AgeInv /\ NoVerdictLeaks

\* A node that has heard nothing.
LEMMA DcfmInit == Init => DcfmInv
  <1> SUFFICES ASSUME Init PROVE DcfmInv
    OBVIOUS
  <1> USE DcfmAssumption DEF Init, None, Long
  <1>1. claimed \in [Neighbors -> SUBSET Addrs]
    OBVIOUS
  <1>2. twoHopTime \in [Pairs -> None .. VTime] /\ listedAgo \in [Pairs -> 0 .. Long]
    OBVIOUS
  <1>3. \A p \in Pairs : TupleAge(p)
    BY DEF TupleAge
  <1>4. symTime \in [Neighbors -> Past .. VTime]
    BY DEF Past
  <1>5. TypeOK
    BY <1>1, <1>2, <1>4 DEF TypeOK
  <1>6. NoVerdictLeaks
    BY DEF NoVerdictLeaks
  <1>7. QED BY <1>3, <1>5, <1>6 DEF DcfmInv, AgeInv

\* What a HELLO lists is new, what it denies is gone, all else as old as it was.
LEMMA ToldKeeps ==
    ASSUME DcfmInv, NEW n \in Neighbors, NEW lists, NEW denied,
           PopulateTwoHopNeighborSet(n, lists, denied)
    PROVE  /\ twoHopTime' \in [Pairs -> None .. VTime]
           /\ listedAgo' \in [Pairs -> 0 .. Long]
           /\ \A p \in Pairs : TupleAge(p)'
  <1> USE DcfmAssumption
  <1>1. ASSUME NEW p \in Pairs
        PROVE  /\ twoHopTime'[p] \in None .. VTime /\ listedAgo'[p] \in 0 .. Long
               /\ TupleAge(p)'
    <2>1. twoHopTime[p] \in None .. VTime /\ listedAgo[p] \in 0 .. Long /\ TupleAge(p)
      BY DEF DcfmInv, AgeInv, TypeOK
    <2>2. \/ twoHopTime'[p] = VTime /\ listedAgo'[p] = 0
          \/ twoHopTime'[p] = None /\ listedAgo'[p] = Long
          \/ twoHopTime'[p] = twoHopTime[p] /\ listedAgo'[p] = listedAgo[p]
      BY DEF PopulateTwoHopNeighborSet, Told
    <2>3. QED BY <2>1, <2>2 DEF TupleAge, None, Long
  <1>2. /\ twoHopTime' = [p \in Pairs |-> twoHopTime'[p]]
        /\ listedAgo' = [p \in Pairs |-> listedAgo'[p]]
    BY DEF PopulateTwoHopNeighborSet, Told
  <1>3. QED BY <1>1, <1>2

\* A HELLO ages nothing, whatever it says.
LEMMA HelloKeeps ==
    ASSUME DcfmInv, NEW n \in Neighbors, NEW me \in Hearing, NEW denied, RecvHello(n, me, denied)
    PROVE  DcfmInv'
  <1> USE DcfmAssumption
  <1>0. TypeOK /\ NoVerdictLeaks /\ \A p \in Pairs : TupleAge(p)
    BY DEF DcfmInv, AgeInv
  <1>1. /\ twoHopTime' \in [Pairs -> None .. VTime]
        /\ listedAgo' \in [Pairs -> 0 .. Long]
        /\ \A p \in Pairs : TupleAge(p)'
    <2>1. \/ PopulateTwoHopNeighborSet(n, Lists(n) \ denied, denied)
          \/ UNCHANGED <<twoHopTime, listedAgo>>
      BY DEF RecvHello
    <2>2. CASE UNCHANGED <<twoHopTime, listedAgo>>
      BY <1>0, <2>2 DEF TypeOK, TupleAge
    <2>3. QED BY <2>1, <2>2, ToldKeeps
  <1>2. symTime' \in [Neighbors -> Past .. VTime]
    <2>1. LinkSensing(n, me) \in Past .. VTime
      BY <1>0 DEF LinkSensing, Hearing, TypeOK, Past
    <2>2. QED BY <1>0, <2>1 DEF RecvHello, TypeOK
  <1>3. m_riskyNodes' \subseteq m_riskyNodes \cup {n} /\ (~m_enabled => m_riskyNodes' = m_riskyNodes)
    BY DEF RecvHello, EvaluateContradictionRules
  <1>4. changes' \in 0 .. MaxChanges
    BY <1>0 DEF RecvHello, Change, TypeOK
  <1>5. TypeOK'
    BY <1>0, <1>1, <1>2, <1>3, <1>4 DEF RecvHello, TypeOK
  <1>6. NoVerdictLeaks'
    BY <1>0, <1>3 DEF RecvHello, NoVerdictLeaks
  <1>7. QED BY <1>1, <1>5, <1>6 DEF DcfmInv, AgeInv

\* NeighborLoss forgets what the neighbour listed.
LEMMA LossKeeps ==
    ASSUME DcfmInv, NEW n \in Neighbors, NeighborLoss(n)
    PROVE  DcfmInv'
  <1> USE DcfmAssumption
  <1>1. ASSUME NEW p \in Pairs
        PROVE  /\ twoHopTime'[p] \in None .. VTime /\ listedAgo'[p] \in 0 .. Long
               /\ TupleAge(p)'
    <2>1. twoHopTime[p] \in None .. VTime /\ listedAgo[p] \in 0 .. Long /\ TupleAge(p)
      BY DEF DcfmInv, AgeInv, TypeOK
    <2>2. \/ twoHopTime'[p] = None /\ listedAgo'[p] = Long
          \/ twoHopTime'[p] = twoHopTime[p] /\ listedAgo'[p] = listedAgo[p]
      BY DEF NeighborLoss
    <2>3. QED BY <2>1, <2>2 DEF TupleAge, None, Long
  <1>2. /\ twoHopTime' = [p \in Pairs |-> twoHopTime'[p]]
        /\ listedAgo' = [p \in Pairs |-> listedAgo'[p]]
    BY DEF NeighborLoss
  <1>3. TypeOK'
    BY <1>1, <1>2 DEF NeighborLoss, DcfmInv, AgeInv, TypeOK
  <1>4. NoVerdictLeaks'
    BY DEF NeighborLoss, DcfmInv, NoVerdictLeaks
  <1>5. QED BY <1>1, <1>3, <1>4 DEF DcfmInv, AgeInv

\* The event of an expired tuple removes what no valid HELLO listed.
LEMMA ExpireKeeps ==
    ASSUME DcfmInv, NEW p \in Pairs, Nb2hopTupleTimerExpire(p)
    PROVE  DcfmInv'
  <1> USE DcfmAssumption DEF DcfmInv, AgeInv
  <1>1. TypeOK'
    BY DEF Nb2hopTupleTimerExpire, TypeOK, None
  <1>2. ASSUME NEW q \in Pairs PROVE TupleAge(q)'
    <2>0. listedAgo' = listedAgo
      BY DEF Nb2hopTupleTimerExpire
    <2>1. CASE q = p
      <3>1. listedAgo[q] \in Int /\ twoHopTime[q] = Past /\ twoHopTime'[q] = None
        BY <2>1 DEF TypeOK, Nb2hopTupleTimerExpire
      <3>2. listedAgo[q] > VTime
        BY <3>1 DEF TupleAge, Past, None
      <3>3. QED BY <2>0, <3>1, <3>2 DEF TupleAge
    <2>2. CASE q # p
      <3>1. twoHopTime'[q] = twoHopTime[q]
        BY <2>2 DEF TypeOK, Nb2hopTupleTimerExpire
      <3>2. QED BY <2>0, <3>1 DEF TupleAge
    <2>3. QED BY <2>1, <2>2
  <1>3. NoVerdictLeaks'
    BY DEF Nb2hopTupleTimerExpire, NoVerdictLeaks
  <1>4. QED BY <1>1, <1>2, <1>3

\* A tick ages tuples and listings alike.
LEMMA TickKeeps ==
    ASSUME DcfmInv, Tick
    PROVE  DcfmInv'
  <1> USE DcfmAssumption DEF DcfmInv, AgeInv
  <1>1. ASSUME NEW p \in Pairs
        PROVE  /\ TupleAge(p)'
               /\ twoHopTime'[p] \in None .. VTime
               /\ listedAgo'[p] \in 0 .. Long
    <2>1. twoHopTime[p] \in None .. VTime /\ listedAgo[p] \in 0 .. Long /\ twoHopTime[p] # Past
      BY DEF TypeOK, Tick
    <2>2. /\ twoHopTime'[p] = IF twoHopTime[p] = None THEN None ELSE twoHopTime[p] - 1
          /\ listedAgo'[p] = IF listedAgo[p] = Long THEN Long ELSE listedAgo[p] + 1
      BY DEF Tick
    <2>3. QED BY <2>1, <2>2 DEF TupleAge, None, Past, Long
  <1>2. /\ twoHopTime' = [p \in Pairs |-> twoHopTime'[p]]
        /\ listedAgo' = [p \in Pairs |-> listedAgo'[p]]
    BY DEF Tick
  <1>3. /\ twoHopTime' \in [Pairs -> None .. VTime]
        /\ listedAgo' \in [Pairs -> 0 .. Long]
    BY <1>1, <1>2
  <1>4. TypeOK'
    <2>1. \A n \in Neighbors : symTime'[n] \in Past .. VTime
      BY DEF Tick, TypeOK, Past
    <2>2. symTime' \in [Neighbors -> Past .. VTime]
      BY <2>1 DEF Tick
    <2>3. QED BY <1>3, <2>2 DEF Tick, TypeOK
  <1>5. NoVerdictLeaks'
    BY DEF Tick, NoVerdictLeaks
  <1>6. QED BY <1>1, <1>4, <1>5

\* The other steps leave the two-hop tuples alone.
LEMMA OthersKeep ==
    ASSUME DcfmInv, UNCHANGED <<twoHopTime, listedAgo>>, TypeOK', NoVerdictLeaks'
    PROVE  DcfmInv'
  BY DEF DcfmInv, AgeInv, TupleAge

\* Every step keeps the invariant.
LEMMA DcfmStep == DcfmInv /\ [Next]_vars => DcfmInv'
  <1> SUFFICES ASSUME DcfmInv, [Next]_vars PROVE DcfmInv'
    OBVIOUS
  <1>0. TypeOK /\ NoVerdictLeaks
    BY DEF DcfmInv, AgeInv
  <1> USE DcfmAssumption
  <1>1. ASSUME NEW n \in Neighbors, LinkTimeOver(n) PROVE DcfmInv'
    BY <1>0, <1>1, OthersKeep DEF LinkTimeOver, Change, TypeOK, NoVerdictLeaks
  <1>2. ASSUME NEW s \in TcSources, RecvTc(s) PROVE DcfmInv'
    <2>1. LinksOf(s) \subseteq Addrs
      BY DEF LinksOf, Addrs
    <2>2. topology' \subseteq TcSources \X Addrs
      BY <1>0, <1>2, <2>1 DEF RecvTc, TypeOK
    <2>3. QED BY <1>0, <1>2, <2>2, OthersKeep DEF RecvTc, TypeOK, NoVerdictLeaks
  <1>3. ASSUME NEW s \in TcSources, TopologyTupleTimerExpire(s) PROVE DcfmInv'
    BY <1>0, <1>3, OthersKeep DEF TopologyTupleTimerExpire, Change, TypeOK, NoVerdictLeaks
  <1>4. ASSUME NEW n \in Neighbors, NEW claim \in Claims[n], SwitchClaim(n, claim) PROVE DcfmInv'
    <2>1. claim \in SUBSET Addrs
      OBVIOUS
    <2>2. claimed' \in [Neighbors -> SUBSET Addrs]
      BY <1>0, <1>4, <2>1 DEF SwitchClaim, TypeOK
    <2>3. QED BY <1>0, <1>4, <2>2, OthersKeep DEF SwitchClaim, Change, TypeOK, NoVerdictLeaks
  <1>5. CASE SetEnabled
    <2>1. m_enabled' \in BOOLEAN
      BY <1>5 DEF SetEnabled
    <2>2. TypeOK'
      BY <1>0, <1>5, <2>1 DEF SetEnabled, Change, TypeOK
    <2>3. QED BY <1>5, <2>2, OthersKeep DEF SetEnabled, NoVerdictLeaks
  <1>6. CASE UNCHANGED vars
    BY <1>0, <1>6, OthersKeep DEF vars, TypeOK, NoVerdictLeaks
  <1>7. QED BY <1>1, <1>2, <1>3, <1>4, <1>5, <1>6, HelloKeeps, LossKeeps,
       ExpireKeeps, TickKeeps DEF Next

\* DCFM keeps its types, the ages of its two-hop tuples and the verdicts of the
\* window it measures in, whatever it hears and however it is switched.
THEOREM DcfmInvariance == Spec => []DcfmInv
  BY DcfmInit, DcfmStep, PTL DEF Spec

\* No verdict is left of a measuring window that SetEnabled has ended, and
\* none is there while the defence is off.
THEOREM ColdStart == Spec => [](TypeOK /\ NoVerdictLeaks)
  <1>1. DcfmInv => TypeOK /\ NoVerdictLeaks
    BY DEF DcfmInv, AgeInv
  <1>2. QED BY <1>1, DcfmInvariance, PTL

\* OnRecvHello flags or clears a sender by what its earlier HELLOs listed
\* within their validity time and neither they denied nor NeighborLoss erased,
\* for any network, claims, denials and loss of messages.
THEOREM RecentVerdicts == Spec => VerdictOfRecentHellos
  <1>1. ASSUME DcfmInv, NEW n \in Neighbors, NEW me \in Hearing, NEW denied \in Denials[n],
               RecvHello(n, me, denied), m_enabled
        PROVE  \E old \in SUBSET (Listed(VTime + 1) \ Listed(VTime)) :
                  n \in m_riskyNodes' <=> Contradicts(n, Listed(VTime) \cup old)
    <2> DEFINE old == twoHopSet \ Listed(VTime)
    <2>1. ASSUME NEW p \in Pairs
          PROVE  /\ p \in Listed(VTime) => p \in twoHopSet
                 /\ p \in twoHopSet => p \in Listed(VTime + 1)
      <3>1. /\ twoHopTime[p] \in None .. VTime /\ listedAgo[p] \in 0 .. Long /\ TupleAge(p)
            /\ VTime \in Nat
        BY <1>1, DcfmAssumption DEF DcfmInv, AgeInv, TypeOK
      <3>2. listedAgo[p] <= VTime => twoHopTime[p] # None
        BY <3>1 DEF TupleAge
      <3>3. twoHopTime[p] # None => listedAgo[p] <= VTime + 1
        BY <3>1 DEF TupleAge, None
      <3>4. QED BY <3>2, <3>3 DEF Listed, twoHopSet
    <2>2. Listed(VTime) \cup old = twoHopSet
      BY <2>1 DEF Listed, twoHopSet
    <2>3. old \in SUBSET (Listed(VTime + 1) \ Listed(VTime))
      BY <2>1 DEF twoHopSet
    <2>4. n \in m_riskyNodes' <=> Contradicts(n, twoHopSet)
      BY <1>1 DEF RecvHello, EvaluateContradictionRules
    <2> HIDE DEF old
    <2>5. n \in m_riskyNodes' <=> Contradicts(n, Listed(VTime) \cup old)
      BY <2>2, <2>4
    <2>6. QED BY <2>3, <2>5
  <1>2. DcfmInv /\ [Next]_vars =>
          [\A n \in Neighbors : \A me \in Hearing, denied \in Denials[n] :
              RecvHello(n, me, denied) /\ m_enabled =>
              \E old \in SUBSET (Listed(VTime + 1) \ Listed(VTime)) :
                  n \in m_riskyNodes' <=> Contradicts(n, Listed(VTime) \cup old)]_vars
    BY <1>1
  <1>3. QED BY <1>2, DcfmInvariance, PTL DEF Spec, VerdictOfRecentHellos

-----------------------------------------------------------------------------
(* The search for a hexagon.                                               *)

\* All links are known in both directions.
LEMMA KnownLinks ==
    ASSUME TypeOK, {{e[1], e[2]} : e \in Known} = links
    PROVE  \A a, b : <<a, b>> \in Known <=> {a, b} \in links
  <1> DEFINE near == {<<m_mainAddress, n>> : n \in neighborSet} \cup twoHopSet
  <1>1. /\ \A e \in near : e = <<e[1], e[2]>>
        /\ \A e \in topology : e = <<e[1], e[2]>>
    BY DEF twoHopSet, Pairs, TypeOK
  <1>2. Known = near \cup {<<e[2], e[1]>> : e \in near}
                  \cup topology \cup {<<t[2], t[1]>> : t \in topology}
    BY DEF Known, TopologyEdges
  <1> HIDE DEF near
  <1>3. \A a, b : <<a, b>> \in Known => <<b, a>> \in Known
    BY <1>1, <1>2
  <1>4. \A e \in Known : e = <<e[1], e[2]>>
    BY <1>1, <1>2
  <1> SUFFICES ASSUME NEW a, NEW b PROVE <<a, b>> \in Known <=> {a, b} \in links
    OBVIOUS
  <1>5. ASSUME <<a, b>> \in Known PROVE {a, b} \in links
    BY <1>5
  <1>6. ASSUME {a, b} \in links PROVE <<a, b>> \in Known
    <2>1. PICK e \in Known : {a, b} = {e[1], e[2]}
      BY <1>6
    <2>2. (a = e[1] /\ b = e[2]) \/ (a = e[2] /\ b = e[1])
      BY <2>1
    <2>3. QED BY <1>3, <1>4, <2>2
  <1>7. QED BY <1>5, <1>6

\* Around this node, when it knows all links: its neighbours are those that
\* it has heard of, its blues those that they have links to.
LEMMA KnownSurroundings ==
    ASSUME TypeOK, KnowsAll
    PROVE  /\ \A n \in neighborSet : {m_mainAddress, n} \in links /\ n \in Neighbors
           /\ \A n, a : {m_mainAddress, n} \in links /\ {n, a} \in links
                            /\ n # m_mainAddress /\ a # m_mainAddress
                            => n \in neighborSet /\ (a \in neighborSet \/ a \in Blues)
           /\ \A b \in Blues : b # m_mainAddress /\ b \notin neighborSet /\
                                  \E n \in neighborSet : {n, b} \in links
           /\ \A a, b : {a, b} \in links => a \in Nodes \cup {m_mainAddress}
  <1>1. /\ links \in Graphs /\ neighborSet \subseteq Neighbors
        /\ links \subseteq SUBSET (Nodes \cup {m_mainAddress})
        /\ \A n \in Nodes : {m_mainAddress, n} \in links <=> n \in Neighbors
        /\ Neighbors \subseteq Nodes /\ m_mainAddress \notin Nodes
    BY DcfmAssumption DEF TypeOK
  <1>2. \A a, b : <<a, b>> \in Known <=> {a, b} \in links
    BY KnownLinks DEF KnowsAll
  <1>3. \A p \in Pairs : p[2] \in LinksOf(p[1]) <=> p \in twoHopSet
    BY DEF KnowsAll
  <1>4. \A a, b : {a, b} \in links => a \in Nodes \cup {m_mainAddress}
    BY <1>1
  <1>5. ASSUME NEW n \in neighborSet PROVE {m_mainAddress, n} \in links /\ n \in Neighbors
    <2>1. n \in Neighbors /\ n \in Nodes
      BY <1>1
    <2>2. QED BY <1>1, <2>1
  <1>6. ASSUME NEW n, NEW a, {m_mainAddress, n} \in links, {n, a} \in links,
               n # m_mainAddress, a # m_mainAddress
        PROVE  n \in neighborSet /\ (a \in neighborSet \/ a \in Blues)
    <2>1. {a, n} = {n, a} /\ {n, m_mainAddress} = {m_mainAddress, n}
      OBVIOUS
    <2>2. n \in Nodes /\ n \in Neighbors /\ a \in Nodes
      BY <1>1, <1>4, <1>6, <2>1
    <2>3. <<n, a>> \in Pairs /\ a \in LinksOf(n)
      BY <1>1, <1>6, <2>2 DEF Pairs, Addrs, LinksOf
    <2>4. <<n, a>> \in twoHopSet
      BY <1>3, <2>3
    <2>5. n \in neighborSet
      BY <1>6, <2>2 DEF KnowsAll, LinksOf
    <2>6. a \in {p[2] : p \in twoHopSet}
      BY <2>4
    <2>7. QED BY <2>5, <2>6 DEF Blues
  <1>7. ASSUME NEW b \in Blues
        PROVE  /\ b # m_mainAddress /\ b \notin neighborSet
               /\ \E n \in neighborSet : {n, b} \in links
    <2>1. PICK p \in twoHopSet : b = p[2]
      BY DEF Blues
    <2>2. p \in Pairs /\ p[1] \in neighborSet
      <3>1. p \in Pairs /\ p[1] \in Neighbors
        BY DEF twoHopSet, Pairs
      <3>2. p[1] \in Nodes /\ {m_mainAddress, p[1]} \in links
        BY <1>1, <3>1
      <3>3. QED BY <3>1, <3>2 DEF KnowsAll, LinksOf
    <2>3. {p[1], b} \in links
      BY <1>3, <2>1, <2>2 DEF LinksOf
    <2>4. QED BY <2>1, <2>2, <2>3 DEF Blues, Pairs
  <1>8. QED BY <1>4, <1>5, <1>6, <1>7

\* Six nodes are six different ones.
Different(a, b, c, d, e, f) ==
    /\ b # a
    /\ c \notin {a, b}
    /\ d \notin {a, b, c}
    /\ e \notin {a, b, c, d}
    /\ f \notin {a, b, c, d, e}

\* Six names are six nodes if no two are the same.
LEMMA SixDifferent ==
    ASSUME NEW a, NEW b, NEW c, NEW d, NEW e, NEW f
    PROVE  Cardinality({a, b, c, d, e, f}) = 6 <=> Different(a, b, c, d, e, f)
  <1>1. IsFiniteSet({a}) /\ Cardinality({a}) = 1
    BY FS_Singleton
  <1>2. /\ IsFiniteSet({a, b})
        /\ Cardinality({a, b}) = IF b = a THEN 1 ELSE 2
    <2>1. {a, b} = {a} \cup {b}
      OBVIOUS
    <2>2. QED BY <1>1, <2>1, FS_AddElement
  <1>3. /\ IsFiniteSet({a, b, c})
        /\ Cardinality({a, b, c}) = Cardinality({a, b}) + IF c \in {a, b} THEN 0 ELSE 1
    <2>1. {a, b, c} = {a, b} \cup {c} /\ Cardinality({a, b}) \in Nat
      BY <1>2
    <2>2. QED BY <1>2, <2>1, FS_AddElement
  <1>4. /\ IsFiniteSet({a, b, c, d})
        /\ Cardinality({a, b, c, d}) = Cardinality({a, b, c}) + IF d \in {a, b, c} THEN 0 ELSE 1
    <2>1. {a, b, c, d} = {a, b, c} \cup {d} /\ Cardinality({a, b, c}) \in Nat
      BY <1>3, FS_CardinalityType
    <2>2. QED BY <1>3, <2>1, FS_AddElement
  <1>5. /\ IsFiniteSet({a, b, c, d, e})
        /\ Cardinality({a, b, c, d, e}) =
              Cardinality({a, b, c, d}) + IF e \in {a, b, c, d} THEN 0 ELSE 1
    <2>1. {a, b, c, d, e} = {a, b, c, d} \cup {e} /\ Cardinality({a, b, c, d}) \in Nat
      BY <1>4, FS_CardinalityType
    <2>2. QED BY <1>4, <2>1, FS_AddElement
  <1>6. Cardinality({a, b, c, d, e, f}) =
            Cardinality({a, b, c, d, e}) + IF f \in {a, b, c, d, e} THEN 0 ELSE 1
    <2>1. {a, b, c, d, e, f} = {a, b, c, d, e} \cup {f} /\ Cardinality({a, b, c, d, e}) \in Nat
      BY <1>5, FS_CardinalityType
    <2>2. QED BY <1>5, <2>1, FS_AddElement
  <1> DEFINE n2 == Cardinality({a, b})
             n3 == Cardinality({a, b, c})
             n4 == Cardinality({a, b, c, d})
             n5 == Cardinality({a, b, c, d, e})
             n6 == Cardinality({a, b, c, d, e, f})
             C3 == c \in {a, b}
             C4 == d \in {a, b, c}
             C5 == e \in {a, b, c, d}
             C6 == f \in {a, b, c, d, e}
  <1>7. /\ n2 = IF b = a THEN 1 ELSE 2
        /\ n3 = n2 + IF C3 THEN 0 ELSE 1
        /\ n4 = n3 + IF C4 THEN 0 ELSE 1
        /\ n5 = n4 + IF C5 THEN 0 ELSE 1
        /\ n6 = n5 + IF C6 THEN 0 ELSE 1
    BY <1>2, <1>3, <1>4, <1>5, <1>6
  <1> HIDE DEF n2, n3, n4, n5, n6, C3, C4, C5, C6
  <1>8. n6 = 6 <=> b # a /\ ~C3 /\ ~C4 /\ ~C5 /\ ~C6
    BY <1>7
  <1>9. QED BY <1>8 DEF n6, C3, C4, C5, C6, Different

\* The links among the six nodes of a ring without a chord, from this node on.
Ring(a, b, c, d, e, f) ==
    /\ {a, b} \in links /\ {b, c} \in links /\ {c, d} \in links
    /\ {d, e} \in links /\ {e, f} \in links /\ {a, f} \in links
    /\ {a, c} \notin links /\ {a, d} \notin links /\ {a, e} \notin links
    /\ {b, d} \notin links /\ {b, e} \notin links /\ {b, f} \notin links
    /\ {c, e} \notin links /\ {c, f} \notin links /\ {d, f} \notin links

\* The links of a ring, by position.
LEMMA RingLinks ==
    ASSUME NEW a, NEW b, NEW c, NEW d, NEW e, NEW f
    PROVE  (LET s == <<a, b, c, d, e, f>>
            IN  \A i, j \in 1 .. 6 : i < j =>
                    ({s[i], s[j]} \in links <=> (j = i + 1 \/ (i = 1 /\ j = 6))))
           <=> Ring(a, b, c, d, e, f)
  <1> DEFINE s == <<a, b, c, d, e, f>>
             L(i, j) == {s[i], s[j]} \in links
             All == \A i, j \in 1 .. 6 : i < j => (L(i, j) <=> (j = i + 1 \/ (i = 1 /\ j = 6)))
  <1>1. /\ s[1] = a /\ s[2] = b /\ s[3] = c /\ s[4] = d /\ s[5] = e /\ s[6] = f
    OBVIOUS
  <1>2. Ring(a, b, c, d, e, f) <=>
            /\ L(1, 2) /\ L(2, 3) /\ L(3, 4) /\ L(4, 5) /\ L(5, 6) /\ L(1, 6)
            /\ ~L(1, 3) /\ ~L(1, 4) /\ ~L(1, 5)
            /\ ~L(2, 4) /\ ~L(2, 5) /\ ~L(2, 6)
            /\ ~L(3, 5) /\ ~L(3, 6) /\ ~L(4, 6)
    BY <1>1 DEF Ring
  <1> HIDE DEF L
  <1>3. ASSUME All
        PROVE  /\ L(1, 2) /\ L(2, 3) /\ L(3, 4) /\ L(4, 5) /\ L(5, 6) /\ L(1, 6)
               /\ ~L(1, 3) /\ ~L(1, 4) /\ ~L(1, 5)
               /\ ~L(2, 4) /\ ~L(2, 5) /\ ~L(2, 6)
               /\ ~L(3, 5) /\ ~L(3, 6) /\ ~L(4, 6)
    BY <1>3
  <1>4. ASSUME /\ L(1, 2) /\ L(2, 3) /\ L(3, 4) /\ L(4, 5) /\ L(5, 6) /\ L(1, 6)
               /\ ~L(1, 3) /\ ~L(1, 4) /\ ~L(1, 5)
               /\ ~L(2, 4) /\ ~L(2, 5) /\ ~L(2, 6)
               /\ ~L(3, 5) /\ ~L(3, 6) /\ ~L(4, 6)
        PROVE  All
    <2> SUFFICES ASSUME NEW i \in 1 .. 6, NEW j \in 1 .. 6, i < j
                 PROVE  L(i, j) <=> (j = i + 1 \/ (i = 1 /\ j = 6))
      OBVIOUS
    <2>1. /\ i = 1 \/ i = 2 \/ i = 3 \/ i = 4 \/ i = 5
          /\ j = 2 \/ j = 3 \/ j = 4 \/ j = 5 \/ j = 6
      OBVIOUS
    <2>2. QED BY <1>4, <2>1
  <1>5. All <=> Ring(a, b, c, d, e, f)
    BY <1>2, <1>3, <1>4
  <1>6. QED BY <1>5 DEF L

\* The two forms of a ring around this node.
LEMMA RingAsLinks ==
    ASSUME NEW g1, NEW b1, NEW far, NEW b2, NEW g2
    PROVE  RingAround(g1, b1, far, b2, g2) <=>
               /\ Different(m_mainAddress, g1, b1, far, b2, g2)
               /\ Ring(m_mainAddress, g1, b1, far, b2, g2)
               /\ \A n \in LinksOf(m_mainAddress) : {n, far} \notin links
  <1>1. Cardinality({m_mainAddress, g1, g2, b1, b2, far}) = 6 <=>
            Different(m_mainAddress, g1, b1, far, b2, g2)
    <2>1. {m_mainAddress, g1, g2, b1, b2, far} = {m_mainAddress, g1, b1, far, b2, g2}
      OBVIOUS
    <2>2. Cardinality({m_mainAddress, g1, b1, far, b2, g2}) = 6 <=>
              Different(m_mainAddress, g1, b1, far, b2, g2)
      BY SixDifferent, Zenon
    <2>3. QED BY <2>1, <2>2
  <1> DEFINE R == LET s == <<m_mainAddress, g1, b1, far, b2, g2>>
                  IN  \A i, j \in 1 .. 6 : i < j =>
                          ({s[i], s[j]} \in links <=> (j = i + 1 \/ (i = 1 /\ j = 6)))
             C == Cardinality({m_mainAddress, g1, g2, b1, b2, far}) = 6
  <1>2. R <=> Ring(m_mainAddress, g1, b1, far, b2, g2)
    BY RingLinks
  <1>3. RingAround(g1, b1, far, b2, g2) <=>
            C /\ R /\ \A n \in LinksOf(m_mainAddress) : {n, far} \notin links
    BY DEF RingAround
  <1>4. C <=> Different(m_mainAddress, g1, b1, far, b2, g2)
    BY <1>1
  <1> HIDE DEF R, C
  <1>5. QED BY <1>2, <1>3, <1>4

\* A node that knows all finds a hexagon only on a ring.
LEMMA HexagonIsRing ==
    ASSUME TypeOK, KnowsAll, RunGcohpAlgorithm
    PROVE  InducedRing
  <1> DEFINE m == m_mainAddress
  <1>1. \A a, b : {a, b} = {b, a}
    OBVIOUS
  <1>2. \A a, b : <<a, b>> \in Known <=> {a, b} \in links
    BY KnownLinks DEF KnowsAll
  <1>3. /\ \A n \in neighborSet : {m, n} \in links /\ n \in Neighbors
        /\ \A n, a : {m, n} \in links /\ {n, a} \in links /\ n # m /\ a # m
                        => n \in neighborSet /\ (a \in neighborSet \/ a \in Blues)
        /\ \A b \in Blues : b # m /\ b \notin neighborSet /\ \E n \in neighborSet : {n, b} \in links
        /\ \A a, b : {a, b} \in links => a \in Nodes \cup {m}
    BY KnownSurroundings
  <1>4. m \notin Nodes /\ m \notin neighborSet /\ Nodes \subseteq Addrs /\ m \in Addrs
    BY DcfmAssumption DEF TypeOK, Addrs
  <1>5. \A n, a : {n, a} \in links <=> a \in LinksOf(n)
    <2>1. \A n, a : {n, a} \in links => a \in Nodes \cup {m}
      BY <1>1, <1>3
    <2>2. QED BY <2>1 DEF LinksOf
  <1>6. PICK e, f \in {x \in Known : x[1] \in neighborSet /\ x[2] \in Blues} :
            /\ e[1] # f[1] /\ e[2] # f[2]
            /\ <<e[1], f[1]>> \notin Known /\ <<e[2], f[2]>> \notin Known
            /\ <<e[1], f[2]>> \notin Known /\ <<f[1], e[2]>> \notin Known
            /\ \E c \in Addrs \ (Blues \cup neighborSet) :
                  <<e[2], c>> \in Known /\ <<f[2], c>> \in Known
    BY DEF RunGcohpAlgorithm
  <1>7. PICK far \in Addrs \ (Blues \cup neighborSet) : <<e[2], far>> \in Known /\ <<f[2], far>> \in Known
    BY <1>6
  <1> DEFINE g1 == e[1]
             b1 == e[2]
             g2 == f[1]
             b2 == f[2]
  <1>8. {g1, b1} \in links /\ {g2, b2} \in links
    BY <1>6 DEF KnowsAll
  <1>9. /\ g1 \in neighborSet /\ g2 \in neighborSet /\ b1 \in Blues /\ b2 \in Blues
        /\ g1 # g2 /\ b1 # b2
        /\ {g1, g2} \notin links /\ {b1, b2} \notin links
        /\ {g1, b2} \notin links /\ {g2, b1} \notin links
        /\ {b1, far} \in links /\ {b2, far} \in links
    BY <1>2, <1>6, <1>7
  <1> HIDE DEF g1, b1, g2, b2
  <1>10. {m, g1} \in links /\ {m, g2} \in links /\ g1 # m /\ g2 # m
    BY <1>3, <1>4, <1>9
  <1>11. b1 # m /\ b2 # m /\ b1 \notin neighborSet /\ b2 \notin neighborSet
    BY <1>3, <1>9
  <1>12. {m, b1} \notin links /\ {m, b2} \notin links
    BY <1>1, <1>3, <1>8, <1>10, <1>11
  <1>13. far # m /\ far \notin neighborSet /\ far \notin Blues
    BY <1>1, <1>7, <1>9, <1>12
  <1>14. {m, far} \notin links
    BY <1>1, <1>3, <1>9, <1>11, <1>13
  <1>15. ASSUME NEW n \in LinksOf(m) PROVE {n, far} \notin links
    <2>1. {m, n} \in links
      BY <1>5
    <2>2. n # m \/ {n, far} \notin links
      BY <1>14
    <2>3. QED BY <1>3, <1>13, <2>1, <2>2
  <1>16. {g1, far} \notin links /\ {far, g2} \notin links
    BY <1>1, <1>5, <1>10, <1>15
  <1>17. Ring(m, g1, b1, far, b2, g2)
    BY <1>1, <1>8, <1>9, <1>10, <1>12, <1>14, <1>16 DEF Ring
  <1>18. Different(m, g1, b1, far, b2, g2)
    BY <1>9, <1>10, <1>11, <1>13 DEF Different
  <1>19. g1 \in LinksOf(m) /\ g2 \in LinksOf(m) /\ b1 \in LinksOf(g1) /\ b2 \in LinksOf(g2)
         /\ far \in LinksOf(b1)
    BY <1>5, <1>8, <1>9, <1>10
  <1>20. RingAround(g1, b1, far, b2, g2)
    BY <1>15, <1>17, <1>18, RingAsLinks
  <1>21. QED BY <1>19, <1>20 DEF InducedRing

\* A ring whose links are heard is found by a node that was told no untruth.
LEMMA RingIsHexagon ==
    ASSUME TypeOK, Truthful, RingHeard
    PROVE  RunGcohpAlgorithm
  <1> DEFINE m == m_mainAddress
  <1>1. \A a, b : {a, b} = {b, a}
    OBVIOUS
  <1>2. \A a, b : <<a, b>> \in Known => {a, b} \in links
    <2> SUFFICES ASSUME NEW a, NEW b, <<a, b>> \in Known PROVE {a, b} \in links
      OBVIOUS
    <2>1. {<<a, b>>[1], <<a, b>>[2]} \in links
      BY Zenon DEF Truthful
    <2>2. QED BY <2>1
  <1>3. /\ neighborSet \subseteq Neighbors /\ Neighbors \subseteq Nodes /\ m \notin Nodes
        /\ Nodes \subseteq Addrs
        /\ \A n \in Nodes : {m, n} \in links <=> n \in Neighbors
    BY DcfmAssumption DEF TypeOK, Addrs
  <1>4. \A n \in Neighbors : n \in LinksOf(m)
    BY <1>3 DEF LinksOf
  <1>5. PICK g1, g2 \in neighborSet :
            \E b1 \in LinksOf(g1), b2 \in LinksOf(g2) : \E far \in LinksOf(b1) :
                /\ RingAround(g1, b1, far, b2, g2)
                /\ <<g1, b1>> \in twoHopSet /\ <<g2, b2>> \in twoHopSet
                /\ <<b1, far>> \in Known /\ <<b2, far>> \in Known
    BY DEF RingHeard
  <1>6. PICK b1 \in LinksOf(g1), b2 \in LinksOf(g2) : \E far \in LinksOf(b1) :
            /\ RingAround(g1, b1, far, b2, g2)
            /\ <<g1, b1>> \in twoHopSet /\ <<g2, b2>> \in twoHopSet
            /\ <<b1, far>> \in Known /\ <<b2, far>> \in Known
    BY <1>5
  <1>7. PICK far \in LinksOf(b1) :
            /\ RingAround(g1, b1, far, b2, g2)
            /\ <<g1, b1>> \in twoHopSet /\ <<g2, b2>> \in twoHopSet
            /\ <<b1, far>> \in Known /\ <<b2, far>> \in Known
    BY <1>6
  <1>8. /\ Different(m, g1, b1, far, b2, g2)
        /\ Ring(m, g1, b1, far, b2, g2)
        /\ \A n \in LinksOf(m) : {n, far} \notin links
    BY <1>7, RingAsLinks
  <1>9. /\ {m, b1} \notin links /\ {m, b2} \notin links /\ {m, far} \notin links
        /\ {g1, g2} \notin links /\ {b1, b2} \notin links
        /\ {g1, b2} \notin links /\ {g2, b1} \notin links
    BY <1>1, <1>8 DEF Ring
  <1>10. ASSUME NEW a, {m, a} \notin links PROVE a \notin neighborSet
    BY <1>3, <1>10
  <1>11. b1 \notin neighborSet /\ b2 \notin neighborSet /\ far \notin neighborSet
    BY <1>9, <1>10
  <1>12. b1 \in Blues /\ b2 \in Blues
    <2>1. ASSUME NEW g, NEW b, <<g, b>> \in twoHopSet, b \notin neighborSet PROVE b \in Blues
      <3>1. <<g, b>>[2] = b
        OBVIOUS
      <3>2. b \in {p[2] : p \in twoHopSet}
        BY <2>1, <3>1
      <3>3. QED BY <2>1, <3>2 DEF Blues
    <2>2. QED BY <1>7, <1>11, <2>1
  <1>13. far \notin Blues
    <2> SUFFICES ASSUME NEW p \in twoHopSet, p[2] = far PROVE FALSE
      BY DEF Blues
    <2>1. p \in Pairs /\ p[1] \in Neighbors /\ p = <<p[1], far>>
      BY DEF twoHopSet, Pairs
    <2>2. p \in Known
      BY DEF Known
    <2>3. {p[1], far} \in links
      BY <1>2, <2>1, <2>2
    <2>4. QED BY <1>4, <1>8, <2>1, <2>3
  <1>14. far \in Addrs
    BY <1>3 DEF LinksOf, Addrs
  <1> DEFINE e == <<g1, b1>>
             f == <<g2, b2>>
  <1>15. /\ e \in Known /\ f \in Known
         /\ e[1] = g1 /\ e[2] = b1 /\ f[1] = g2 /\ f[2] = b2
    BY <1>7 DEF Known
  <1> HIDE DEF e, f
  <1>16. /\ e[1] \in neighborSet /\ e[2] \in Blues /\ f[1] \in neighborSet /\ f[2] \in Blues
         /\ e[1] # f[1] /\ e[2] # f[2]
         /\ <<e[1], f[1]>> \notin Known /\ <<e[2], f[2]>> \notin Known
         /\ <<e[1], f[2]>> \notin Known /\ <<f[1], e[2]>> \notin Known
         /\ <<e[2], far>> \in Known /\ <<f[2], far>> \in Known
    BY <1>2, <1>5, <1>7, <1>8, <1>9, <1>12, <1>15 DEF Different
  <1>17. far \in Addrs \ (Blues \cup neighborSet)
    BY <1>11, <1>13, <1>14
  <1>18. QED BY <1>15, <1>16, <1>17 DEF RunGcohpAlgorithm

\* RunGcohpAlgorithm, for any network.  A node that was told no untruth finds
\* every ring of six nodes without a chord, its far node three hops away, whose
\* links it has heard; what it finds is such a ring if it has heard all links.
\* Nothing is said of what it finds before that, or when told of false links.
THEOREM HexagonsAreRings == Spec => []HexagonFound
  <1>1. TypeOK => HexagonFound
    BY HexagonIsRing, RingIsHexagon DEF HexagonFound
  <1>2. QED BY <1>1, ColdStart, PTL
=============================================================================
