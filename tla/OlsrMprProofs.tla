---------------------------- MODULE OlsrMprProofs ----------------------------
(***************************************************************************)
(* Theorems about MprComputation for every neighbour and two-hop set.      *)
(***************************************************************************)
EXTENDS OlsrMpr, FiniteSetTheorems, TLAPS

\* Covering takes records away and adds none.
LEMMA CoverShrinks ==
    ASSUME NEW relays, NEW tuples PROVE Cover(relays, tuples) \subseteq tuples
  BY DEF Cover

\* If N2 holds exactly the uncovered records, choosing relays and covering
\* them keeps it so.
LEMMA CoverKeepsUncovered ==
    ASSUME N2IsUncovered, NEW relays,
           UNCHANGED input, mprSet' = mprSet \cup relays, n2' = Cover(relays, n2),
           \A r \in relays : \A t : <<r, t>> \in twoHopSet /\ (\E q \in TwoHopTuplesToCover : q[2] = t)
                                  => <<r, t>> \in TwoHopTuplesToCover
    PROVE  N2IsUncovered'
  <1>1. TwoHopTuplesToCover' = TwoHopTuplesToCover /\ twoHopSet' = twoHopSet
    BY DEF input, TwoHopTuplesToCover, WillingN, N
  <1>2. ASSUME NEW p \in TwoHopTuplesToCover
        PROVE  p \in n2' <=> ~CoveredBy(mprSet, p[2])'
    <2>1. CoveredBy(mprSet, p[2])' <=> CoveredBy(mprSet, p[2]) \/ CoveredBy(relays, p[2])
      BY <1>1 DEF CoveredBy
    <2>2. CASE CoveredBy(mprSet, p[2])
      BY <2>1, <2>2, CoverShrinks DEF N2IsUncovered
    <2>3. CASE ~CoveredBy(mprSet, p[2])
      <3>1. p \in n2
        BY <2>3 DEF N2IsUncovered
      <3>2. \A r \in relays : <<r, p[2]>> \in n2 <=> <<r, p[2]>> \in twoHopSet
        BY <2>3 DEF N2IsUncovered, TwoHopTuplesToCover
      <3>3. p \in n2' <=> ~CoveredBy(relays, p[2])
        BY <3>1, <3>2 DEF Cover, CoveredBy
      <3>4. QED BY <2>1, <2>3, <3>3
    <2>4. QED BY <2>2, <2>3
  <1>3. n2' \subseteq TwoHopTuplesToCover
    BY CoverShrinks DEF N2IsUncovered
  <1>4. QED BY <1>1, <1>2, <1>3 DEF N2IsUncovered, CoveredBy

\* A willing relay's tuple to a two-hop neighbour to be covered is itself one
\* to be covered.
LEMMA WillingRelays ==
    ASSUME NEW relays \in SUBSET WillingN
    PROVE  \A r \in relays : \A t :
              <<r, t>> \in twoHopSet /\ (\E q \in TwoHopTuplesToCover : q[2] = t)
                => <<r, t>> \in TwoHopTuplesToCover
  BY DEF TwoHopTuplesToCover

\* A record that is left to cover has a willing relay.
LEMMA N2Willing ==
    ASSUME N2IsUncovered, NEW p \in n2 PROVE p[1] \in WillingN
  BY DEF N2IsUncovered, TwoHopTuplesToCover

\* A relay of step 4 has a record left, so it is willing.
LEMMA CandidateWilling ==
    ASSUME N2IsUncovered, NEW y, Reachability(y) > 0 PROVE y \in WillingN
  <1>1. {p \in n2 : p[1] = y} # {}
    <2>1. Cardinality({}) = 0
      BY FS_EmptySet
    <2>2. QED BY <2>1 DEF Reachability
  <1>2. QED BY <1>1, N2Willing

MprInv == N2IsUncovered /\ MprsAreWilling /\ (pc = "done" => n2 = {}) /\ SuspectsNotAlone

\* Every step of the computation keeps the invariant.
LEMMA MprStep == MprInv /\ [Next]_vars => MprInv'
  <1> SUFFICES ASSUME MprInv, [Next]_vars PROVE MprInv'
    OBVIOUS
  <1> USE DEF MprInv
  <1>1. CASE SelectAlways
    <2> DEFINE relays == {n \in N : neighborSet[n].willingness = ALWAYS}
    <2>1. relays \in SUBSET WillingN
      BY DEF WillingN, ALWAYS, NEVER
    <2>2. /\ UNCHANGED input /\ mprSet' = mprSet \cup relays /\ n2' = Cover(relays, n2)
          /\ WillingN' = WillingN /\ pc' = "unique"
      BY <1>1 DEF SelectAlways, input, WillingN, N
    <2> HIDE DEF relays
    <2>3. N2IsUncovered'
      BY <2>1, <2>2, WillingRelays, CoverKeepsUncovered
    <2>4. QED BY <2>1, <2>2, <2>3 DEF MprsAreWilling, SuspectsNotAlone
  <1>2. CASE SelectUnique
    <2> DEFINE relays == {p[1] : p \in SoleRecords}
    <2>1. relays \in SUBSET WillingN
      BY N2Willing DEF SoleRecords
    <2>2. /\ UNCHANGED input /\ mprSet' = mprSet \cup relays /\ n2' = Cover(relays, n2)
          /\ WillingN' = WillingN /\ pc' = "greedy"
      BY <1>2 DEF SelectUnique, input, WillingN, N
    <2> HIDE DEF relays
    <2>3. N2IsUncovered'
      BY <2>1, <2>2, WillingRelays, CoverKeepsUncovered
    <2>4. QED BY <2>1, <2>2, <2>3 DEF MprsAreWilling, SuspectsNotAlone
  <1>3. CASE SelectGreedy
    <2>1. PICK max \in N : /\ Reachability(max) > 0
                           /\ mprSet' = mprSet \cup {max} /\ n2' = Cover({max}, n2)
      BY <1>3 DEF SelectGreedy
    <2>2. max \in WillingN
      BY <2>1, CandidateWilling
    <2>3. UNCHANGED input /\ WillingN' = WillingN /\ pc' = "greedy"
      BY <1>3 DEF SelectGreedy, input, WillingN, N
    <2>4. N2IsUncovered'
      <3>1. {max} \in SUBSET WillingN
        BY <2>2
      <3>2. QED BY <2>1, <2>3, <3>1, WillingRelays, CoverKeepsUncovered
    <2>5. QED BY <2>1, <2>2, <2>3, <2>4 DEF MprsAreWilling, SuspectsNotAlone
  <1>4. CASE AddBackup
    <2>1. /\ UNCHANGED input /\ WillingN' = WillingN /\ n2 = {} /\ n2' = {}
          /\ TwoHopTuplesToCover' = TwoHopTuplesToCover
      BY <1>4 DEF AddBackup, input, WillingN, N, TwoHopTuplesToCover
    <2>2. mprSet \subseteq mprSet' /\ mprSet' \subseteq WillingN
      BY <1>4 DEF AddBackup, MprsAreWilling, BackupCandidates
    <2>3. N2IsUncovered'
      BY <2>1, <2>2 DEF N2IsUncovered, CoveredBy, input
    <2>4. SuspectsNotAlone'
      <3>1. CASE mprSet # {} /\ mprSet \subseteq suspects' /\ BackupCandidates # {}
        BY <1>4, <3>1 DEF AddBackup, SuspectsNotAlone, BackupCandidates
      <3>2. CASE ~(mprSet # {} /\ mprSet \subseteq suspects' /\ BackupCandidates # {})
        BY <1>4, <2>1, <3>2 DEF AddBackup, SuspectsNotAlone, BackupCandidates
      <3>3. QED BY <3>1, <3>2
    <2>5. QED BY <2>1, <2>2, <2>3, <2>4 DEF MprsAreWilling
  <1>5. CASE UNCHANGED vars
    BY <1>5 DEF vars, N2IsUncovered, MprsAreWilling, SuspectsNotAlone, TwoHopTuplesToCover,
                CoveredBy, WillingN, N
  <1>6. QED BY <1>1, <1>2, <1>3, <1>4, <1>5 DEF Next

\* The computation starts with nothing selected.
LEMMA MprInitial == Init => MprInv
  BY DEF Init, MprInv, N2IsUncovered, MprsAreWilling, SuspectsNotAlone, CoveredBy

\* Every step keeps the types.
LEMMA MprTypes == TypeOK /\ MprInv /\ [Next]_vars => TypeOK'
  <1> SUFFICES ASSUME TypeOK, MprInv', [Next]_vars PROVE TypeOK'
    BY MprStep
  <1>1. /\ UNCHANGED input
        /\ pc' \in {"always", "unique", "greedy", "done"}
        /\ suspects' \subseteq Neighbors
    BY DEF Next, vars, input, TypeOK, SelectAlways, SelectUnique, SelectGreedy, AddBackup
  <1>2. /\ neighborSet' \in UNION {[S -> NeighborTuple] : S \in SUBSET Neighbors}
        /\ twoHopSet' \subseteq Neighbors \X Targets
    BY <1>1 DEF TypeOK, input
  <1>3. n2' \subseteq twoHopSet'
    BY DEF MprInv, N2IsUncovered, TwoHopTuplesToCover
  <1>4. WillingN' \subseteq Neighbors
    BY <1>2 DEF WillingN, N
  <1>5. mprSet' \subseteq Neighbors
    BY <1>4 DEF MprInv, MprsAreWilling
  <1>6. QED BY <1>1, <1>2, <1>3, <1>5 DEF TypeOK

\* The types at the start.
LEMMA TypesInitial == Init => TypeOK
  BY DEF Init, TypeOK, TwoHopTuplesToCover

\* MprComputation keeps its types.
THEOREM MprTypesKept == Spec => []TypeOK
  BY MprInitial, MprStep, TypesInitial, MprTypes, PTL DEF Spec

\* Whatever the neighbour and two-hop sets hold and whichever equal candidate
\* steps 1, 3 and 4 take first, the MPR set MprComputation returns covers all
\* strict two-hop neighbours.
THEOREM MprCoverage == Spec => []MprSetCovers
  <1>1. MprInv => MprSetCovers
    BY DEF MprInv, N2IsUncovered, MprSetCovers
  <1>2. QED BY <1>1, MprInitial, MprStep, PTL DEF Spec

\* MprComputation, its backup rule included, selects willing symmetric
\* neighbours only, and leaves suspects on their own only for want of a clean
\* willing neighbour.
THEOREM MprSelection == Spec => [](MprsAreWilling /\ SuspectsNotAlone)
  <1>1. MprInv => MprsAreWilling /\ SuspectsNotAlone
    BY DEF MprInv
  <1>2. QED BY <1>1, MprInitial, MprStep, PTL DEF Spec

-----------------------------------------------------------------------------
(* Step 4 makes progress.  TLC checks that it ends; what holds for every   *)
(* input is that no turn is without a candidate or leaves N2 as it was.    *)

\* While records are left, some symmetric neighbour leads to one of them.
THEOREM CandidateExists == Spec => [](n2 # {} => \E y \in N : Reachability(y) > 0)
  <1>1. ASSUME TypeOK, MprInv, n2 # {} PROVE \E y \in N : Reachability(y) > 0
    <2>1. PICK p \in n2 : p[1] \in WillingN
      BY <1>1, N2Willing DEF MprInv
    <2>2. IsFiniteSet(n2)
      BY <1>1, MprAssumption, FS_Product, FS_Subset DEF TypeOK
    <2> DEFINE records == {q \in n2 : q[1] = p[1]}
    <2>3. IsFiniteSet(records) /\ records # {}
      BY <2>2, FS_Subset
    <2>4. Cardinality(records) \in Nat /\ Cardinality(records) # 0
      BY <2>3, FS_CardinalityType, FS_EmptySet
    <2>5. Reachability(p[1]) > 0
      BY <2>4 DEF Reachability
    <2>6. QED BY <2>1, <2>5 DEF WillingN
  <1>2. QED BY <1>1, MprInitial, MprStep, TypesInitial, MprTypes, PTL DEF Spec

\* Each turn of step 4 erases a record of N2 and adds none, so the loop has as
\* many turns at most as there are records.
THEOREM GreedyShrinks == Spec => [][SelectGreedy => n2' \subseteq n2 /\ n2' # n2]_vars
  <1>1. ASSUME TypeOK, SelectGreedy PROVE n2' \subseteq n2 /\ n2' # n2
    <2>1. PICK max \in N : Reachability(max) > 0 /\ n2' = Cover({max}, n2)
      BY <1>1 DEF SelectGreedy
    <2>2. {q \in n2 : q[1] = max} # {}
      <3>1. Cardinality({}) = 0
        BY FS_EmptySet
      <3>2. QED BY <2>1, <3>1 DEF Reachability
    <2>3. PICK q \in n2 : q[1] = max
      BY <2>2
    <2>4. q = <<max, q[2]>>
      BY <1>1, <2>3 DEF TypeOK
    <2>5. q \notin Cover({max}, n2)
      BY <2>4 DEF Cover
    <2>6. QED BY <2>1, <2>3, <2>5, CoverShrinks
  <1>2. TypeOK /\ [Next]_vars => [SelectGreedy => n2' \subseteq n2 /\ n2' # n2]_vars
    BY <1>1
  <1>3. QED BY <1>2, MprTypesKept, PTL DEF Spec

\* Degree() as written counts nothing for a candidate of step 4, all of which
\* are in the neighbour set: it never decides a tie.
THEOREM DegreeCountsNothing == \A y \in N : Degree(y) = 0
  <1> SUFFICES ASSUME NEW y \in N PROVE Degree(y) = 0
    OBVIOUS
  <1>1. {p \in twoHopSet : p[1] = y /\ p[1] \notin DOMAIN neighborSet} = {}
    BY DEF N
  <1>2. QED BY <1>1, FS_EmptySet DEF Degree
=============================================================================
