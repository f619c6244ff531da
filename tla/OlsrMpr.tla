------------------------------- MODULE OlsrMpr -------------------------------
(***************************************************************************)
(* RoutingProtocol::MprComputation: how a node picks, among its symmetric  *)
(* neighbours, the multipoint relays (MPRs) that must reach every strict   *)
(* two-hop neighbour.  The function's numbered steps are the actions; its  *)
(* input is any state the neighbour and two-hop sets may be in, symmetric  *)
(* or not, stale or not.  Where the code takes the first of several equal  *)
(* candidates of a list, the action takes any of them: the order of the    *)
(* list is the order in which HELLOs happened to arrive.                   *)
(***************************************************************************)
EXTENDS Integers, FiniteSets

CONSTANTS
    Neighbors,      \* main addresses that may be in the neighbour set
    Targets,        \* main addresses that may be two-hop neighbours
    m_mainAddress,  \* this node
    Willingness     \* the willingness values in use

NEVER == 0
DEFAULT == 3
ALWAYS == 7

ASSUME MprAssumption ==
    /\ Willingness \subseteq NEVER .. ALWAYS
    /\ m_mainAddress \notin Neighbors
    /\ IsFiniteSet(Neighbors) /\ IsFiniteSet(Targets)

VARIABLES
    neighborSet,  \* m_state.m_neighborSet: address -> [status, willingness]
    twoHopSet,    \* m_state.m_twoHopNeighborSet: <<neighbour, two-hop neighbour>>
    pc,           \* the step of MprComputation to run next
    mprSet,       \* the local mprSet, and the node's MPR set once pc = "done"
    n2,           \* the local N2: two-hop tuples still to be covered
    suspects      \* who IsMalicious() names while the backup rule runs

vars == <<neighborSet, twoHopSet, pc, mprSet, n2, suspects>>
input == <<neighborSet, twoHopSet>>

NeighborTuple == [status : {"SYM", "NOT_SYM"}, willingness : Willingness]

\* N, the symmetric neighbours.
N == {n \in DOMAIN neighborSet : neighborSet[n].status = "SYM"}

WillingN == {n \in N : neighborSet[n].willingness # NEVER}

\* mutant: tuples of neighbours that are not symmetric (any more) are kept
TuplesOfAnyNeighbor == {p \in twoHopSet : p[2] # m_mainAddress /\ p[2] \notin N}

\* mutant: the willingness of the neighbour is not looked at
TuplesOfUnwilling == {p \in twoHopSet : p[1] \in N /\ p[2] # m_mainAddress /\ p[2] \notin N}

\* The initial N2: tuples of willing symmetric neighbours, leading neither to
\* this node nor to one of its symmetric neighbours.
TwoHopTuplesToCover ==
    {p \in twoHopSet : p[1] \in WillingN /\ p[2] # m_mainAddress /\ p[2] \notin N}

\* mutant: every record is taken for covered
CoverAll(relays, tuples) == {}

\* CoverTwoHopNeighbors for each of `relays`: the records left in `tuples`.
Cover(relays, tuples) ==
    {p \in tuples : ~\E r \in relays : <<r, p[2]>> \in tuples}

Init ==
    /\ neighborSet \in UNION {[S -> NeighborTuple] : S \in SUBSET Neighbors}
    /\ twoHopSet \in SUBSET (Neighbors \X Targets)
    /\ pc = "always"
    /\ mprSet = {}
    /\ n2 = TwoHopTuplesToCover
    /\ suspects = {}

\* Step 1: neighbours that are always willing.
SelectAlways ==
    /\ pc = "always"
    /\ LET relays == {n \in N : neighborSet[n].willingness = ALWAYS}
       IN  mprSet' = mprSet \cup relays /\ n2' = Cover(relays, n2)
    /\ pc' = "unique"
    /\ UNCHANGED <<input, suspects>>

\* The records whose two-hop neighbour only they lead to.
SoleRecords == {p \in n2 : ~\E q \in n2 : q[2] = p[2] /\ q[1] # p[1]}

\* Step 3: neighbours that alone reach some two-hop neighbour.
SelectUnique ==
    /\ pc = "unique"
    /\ LET relays == {p[1] : p \in SoleRecords}
       IN  mprSet' = mprSet \cup relays /\ n2' = Cover(relays, n2)
    /\ pc' = "greedy"
    /\ UNCHANGED <<input, suspects>>

\* Degree() as written: it counts the tuples of y whose *neighbour* is unknown.
Degree(y) == Cardinality({p \in twoHopSet : p[1] = y /\ p[1] \notin DOMAIN neighborSet})

Reachability(y) == Cardinality({p \in n2 : p[1] = y})

\* a goes before b in step 4.2.
Preferred(a, b) ==
    \/ neighborSet[a].willingness > neighborSet[b].willingness
    \/ /\ neighborSet[a].willingness = neighborSet[b].willingness
       /\ \/ Reachability(a) > Reachability(b)
          \/ Reachability(a) = Reachability(b) /\ Degree(a) > Degree(b)

\* Step 4: one turn of the loop.
SelectGreedy ==
    /\ pc = "greedy"
    /\ n2 # {}
    /\ LET candidates == {n \in N : Reachability(n) > 0}
       IN  \E max \in candidates :
              /\ \A n \in candidates : ~Preferred(n, max)
              /\ mprSet' = mprSet \cup {max}
              /\ n2' = Cover({max}, n2)
    /\ UNCHANGED <<input, pc, suspects>>

\* mutant: the backup is picked among the two-hop neighbours
CleanTargets == Targets \ suspects'

\* mutant: the backup is picked among the relays
CleanRelays == (mprSet \cap WillingN) \ suspects'

\* The neighbours the backup rule may add.
BackupCandidates == WillingN \ suspects'

\* The loop is over: if every relay is suspected, one clean neighbour joins.
AddBackup ==
    /\ pc = "greedy"
    /\ n2 = {}
    /\ suspects' \in SUBSET Neighbors
    /\ IF mprSet # {} /\ mprSet \subseteq suspects' /\ BackupCandidates # {}
         THEN \E b \in BackupCandidates : mprSet' = mprSet \cup {b}
         ELSE UNCHANGED mprSet
    /\ pc' = "done"
    /\ UNCHANGED <<input, n2>>

Next == SelectAlways \/ SelectUnique \/ SelectGreedy \/ AddBackup

Spec == Init /\ [][Next]_vars

\* A function that is running keeps running.
FairSpec == Spec /\ WF_vars(Next)

-----------------------------------------------------------------------------
(* Properties.                                                             *)

TypeOK ==
    /\ neighborSet \in UNION {[S -> NeighborTuple] : S \in SUBSET Neighbors}
    /\ twoHopSet \subseteq Neighbors \X Targets
    /\ pc \in {"always", "unique", "greedy", "done"}
    /\ mprSet \subseteq Neighbors
    /\ n2 \subseteq Neighbors \X Targets
    /\ suspects \subseteq Neighbors

\* A two-hop neighbour is covered by a relay that leads to it.
CoveredBy(relays, target) == \E r \in relays : <<r, target>> \in twoHopSet

\* When the computation returns, every two-hop neighbour this node has to
\* reach through someone is reached by one of its MPRs.
MprSetCovers ==
    pc = "done" => \A p \in TwoHopTuplesToCover : CoveredBy(mprSet, p[2])

\* N2 is at every step what the relays chosen so far leave uncovered.  So no
\* turn of step 4 takes a relay that covers nothing new, and none is skipped.
N2IsUncovered ==
    n2 = {p \in TwoHopTuplesToCover : ~CoveredBy(mprSet, p[2])}

\* An MPR, the backup relay included, is a symmetric neighbour that did not
\* refuse to relay.
MprsAreWilling == mprSet \subseteq WillingN

\* If the MPRs returned are all suspected, no clean symmetric neighbour was
\* willing to join them.
SuspectsNotAlone ==
    pc = "done" /\ mprSet # {} /\ mprSet \subseteq suspects => WillingN \subseteq suspects

\* The loop of step 4 runs out of two-hop neighbours; no turn of it is without
\* a candidate.
Terminates == <>(pc = "done")
=============================================================================
