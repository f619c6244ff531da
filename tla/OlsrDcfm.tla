------------------------------- MODULE OlsrDcfm -------------------------------
(***************************************************************************)
(* The contradiction rules of the DCFM defence (OlsrDefenseGcop), fed by   *)
(* the neighbour, two-hop and topology sets of the node that runs it, and  *)
(* its search for a hexagon, which decides whether a fictitious node is    *)
(* advertised.                                                             *)
(*                                                                         *)
(* RecvOlsr calls OnRecvHello before ProcessHello: a sender is judged by   *)
(* what its HELLOs before the one at hand have left behind.                *)
(*                                                                         *)
(* The links of the network are fixed in a behaviour; the neighbours list  *)
(* theirs truthfully, except that one may, for a while, list some address  *)
(* it has no link to.  A HELLO may deny an address, which is listed as     *)
(* NOT_NEIGH while the link to it is not symmetric, and may not have heard *)
(* this node.  HELLOs and TCs come at any time or not at all.              *)
(*                                                                         *)
(* Every node has one interface: the address a HELLO came from, which the  *)
(* rules are given, is the originator, which its tuples are stored under.  *)
(***************************************************************************)
EXTENDS Integers, FiniteSets

CONSTANTS
    m_mainAddress,   \* this node
    Fake,            \* its fictitious node, m_mainAddress + 65536
    Neighbors,       \* the nodes whose HELLOs it hears
    Nodes,           \* all other nodes
    Graphs,          \* sets of links, a link being a set of two nodes
    Claims,          \* [Neighbors -> sets of addresses listed untruthfully]
    Denials,         \* [Neighbors -> sets of addresses a HELLO may deny]
    TcSources,       \* nodes whose TCs arrive
    VTime,           \* validity time of a HELLO, in ticks
    MaxChanges       \* bound: switches of Enabled or of a claim, losses, and
                     \* HELLOs that deny a link or have not heard this node

Addrs == Nodes \cup {m_mainAddress, Fake}

ASSUME DcfmAssumption ==
    /\ m_mainAddress \notin Nodes /\ Fake \notin Nodes \cup {m_mainAddress}
    /\ Neighbors \subseteq Nodes /\ TcSources \subseteq Nodes
    /\ \A g \in Graphs : g \subseteq SUBSET (Nodes \cup {m_mainAddress})
    /\ \A g \in Graphs : \A n \in Nodes : {m_mainAddress, n} \in g <=> n \in Neighbors
    /\ Claims \in [Neighbors -> SUBSET SUBSET Addrs]
    /\ Denials \in [Neighbors -> SUBSET SUBSET Addrs]
    /\ VTime \in Nat \ {0} /\ MaxChanges \in Nat

VARIABLES
    links,           \* the links of the network
    claimed,         \* what each neighbour lists untruthfully at present
    neighborSet,     \* neighbours with a tuple, whatever its status
    symTime,         \* symTime of the link to a neighbour, minus now
    twoHopTime,      \* <<neighbour, two-hop>> -> expirationTime minus now
    topology,        \* <<last, dest>> pairs of the topology set
    m_enabled,
    m_riskyNodes,
    changes,         \* how much of MaxChanges is used up
    \* history, read by the properties only
    listedAgo,       \* <<neighbour, address>> -> ticks since it was listed, Long
                     \* if it was denied or the neighbour lost since
    judged           \* neighbours a HELLO came from since Enabled last changed

vars == <<links, claimed, neighborSet, symTime, twoHopTime, topology, m_enabled, m_riskyNodes,
          changes, listedAgo, judged>>

Hearing == {"HEARD", "LOST", "NONE"}
Pairs == Neighbors \X (Addrs \ {m_mainAddress})
Past == -1
None == -2                 \* twoHopTime without a tuple
Long == VTime + 2          \* listedAgo stops counting here

LinksOf(n) == {a \in Nodes \cup {m_mainAddress} : {n, a} \in links}

Init ==
    /\ links \in Graphs
    /\ claimed = [n \in Neighbors |-> {}]
    /\ neighborSet = {}
    /\ symTime = [n \in Neighbors |-> Past]
    /\ twoHopTime = [p \in Pairs |-> None]
    /\ topology = {}
    /\ m_enabled \in BOOLEAN    \* the attribute may be set before the start
    /\ m_riskyNodes = {}
    /\ changes = 0
    /\ listedAgo = [p \in Pairs |-> Long]
    /\ judged = {}

-----------------------------------------------------------------------------
(* The rules, over a set of two-hop pairs.                                 *)

twoHopSet == {p \in Pairs : twoHopTime[p] # None}

ClaimsOf(n, twoHops) == {p[2] : p \in {q \in twoHops : q[1] = n}}

TopologyEdges == topology \cup {<<t[2], t[1]>> : t \in topology}

CheckRule1(n, twoHops) ==
    \E a \in ClaimsOf(n, twoHops) :
        IF a \in neighborSet THEN <<a, n>> \notin twoHops ELSE a = Fake

CheckRule2(n, twoHops) ==
    LET groupN == ClaimsOf(n, twoHops)
        groupZ == {e[2] : e \in {f \in TopologyEdges : f[1] \in groupN}} \ (groupN \cup neighborSet)
        groupM == {t[1] : t \in {u \in topology : u[2] = n}}
    IN  \E z \in groupZ : \A m \in groupM : <<z, m>> \notin TopologyEdges

CheckRule3(n, twoHops) ==
    LET senderReachable == ClaimsOf(n, twoHops) \ neighborSet
        netTargets == {t[2] : t \in {u \in topology : u[1] # m_mainAddress}} \ neighborSet
    IN  Cardinality(senderReachable) >= Cardinality(netTargets)

Contradicts(n, twoHops) ==
    CheckRule1(n, twoHops) \/ CheckRule2(n, twoHops) \/ CheckRule3(n, twoHops)

\* mutant: a flag, once set, stays
NeverCleared(n) ==
    m_riskyNodes' = IF m_enabled /\ Contradicts(n, twoHopSet) THEN m_riskyNodes \cup {n}
                    ELSE m_riskyNodes

EvaluateContradictionRules(n) ==
    m_riskyNodes' = IF ~m_enabled THEN m_riskyNodes
                    ELSE IF Contradicts(n, twoHopSet) THEN m_riskyNodes \cup {n}
                    ELSE m_riskyNodes \ {n}

-----------------------------------------------------------------------------
(* The search for a hexagon.                                               *)

\* All links this node knows of, in both directions.  Those to its neighbours
\* count whatever their status: the search never asks for one of them.
Known ==
    LET near == {<<m_mainAddress, n>> : n \in neighborSet} \cup twoHopSet
    IN  near \cup {<<e[2], e[1]>> : e \in near} \cup TopologyEdges

Blues == {p[2] : p \in twoHopSet} \ neighborSet

\* mutant: a link across, from one green to the other's blue, is overlooked
HexagonWithChord ==
    LET e3 == {e \in Known : e[1] \in neighborSet /\ e[2] \in Blues}
    IN  \E e, f \in e3 :
            /\ e[1] # f[1] /\ e[2] # f[2]
            /\ <<e[1], f[1]>> \notin Known /\ <<e[2], f[2]>> \notin Known
            /\ \E c \in Addrs \ (Blues \cup neighborSet) :
                  <<e[2], c>> \in Known /\ <<f[2], c>> \in Known

\* RequiresFictitiousNode, apart from the switches: SendHello and SendTc list
\* the fictitious node if this holds.
RunGcohpAlgorithm ==
    LET e3 == {e \in Known : e[1] \in neighborSet /\ e[2] \in Blues}
    IN  \E e, f \in e3 :
            /\ e[1] # f[1] /\ e[2] # f[2]
            /\ <<e[1], f[1]>> \notin Known /\ <<e[2], f[2]>> \notin Known
            /\ <<e[1], f[2]>> \notin Known /\ <<f[1], e[2]>> \notin Known
            /\ \E c \in Addrs \ (Blues \cup neighborSet) :
                  <<e[2], c>> \in Known /\ <<f[2], c>> \in Known

-----------------------------------------------------------------------------
(* Messages and events.                                                    *)

\* What the HELLOs of n list as symmetric neighbours.
Lists(n) == (LinksOf(n) \cup claimed[n]) \ {m_mainAddress}

Change == changes < MaxChanges /\ changes' = changes + 1

\* f with `new` for the addresses n lists, and `gone` for those it denies.
Told(f, n, lists, denied, new, gone) ==
    [p \in Pairs |-> IF p[1] = n /\ p[2] \in lists THEN new
                     ELSE IF p[1] = n /\ p[2] \in denied THEN gone
                     ELSE f[p]]

\* mutant: the tuples outlive the validity time by a tick
PopulateForLonger(n, lists, denied) ==
    /\ twoHopTime' = Told(twoHopTime, n, lists, denied, VTime + 1, None)
    /\ listedAgo' = Told(listedAgo, n, lists, denied, 0, Long)

\* mutant: the branch for NOT_NEIGH is missing
PopulateOnly(n, lists, denied) ==
    /\ twoHopTime' = Told(twoHopTime, n, lists, {}, VTime, None)
    /\ listedAgo' = Told(listedAgo, n, lists, denied, 0, Long)

PopulateTwoHopNeighborSet(n, lists, denied) ==
    /\ twoHopTime' = Told(twoHopTime, n, lists, denied, VTime, None)
    /\ listedAgo' = Told(listedAgo, n, lists, denied, 0, Long)

\* symTime after a HELLO that says `me` of this node's interface.
LinkSensing(n, me) ==
    CASE me = "HEARD" -> VTime
      [] me = "LOST" -> Past
      [] me = "NONE" -> symTime[n]

\* RecvOlsr with a HELLO of a neighbour: the rules first, then ProcessHello.
\* Over a link that is not symmetric, nothing is learnt of its neighbours.
RecvHello(n, me, denied) ==
    LET sym == LinkSensing(n, me)
    IN  /\ EvaluateContradictionRules(n)
        /\ neighborSet' = neighborSet \cup {n}
        /\ symTime' = [symTime EXCEPT ![n] = sym]
        /\ IF sym >= 0 THEN PopulateTwoHopNeighborSet(n, Lists(n) \ denied, denied)
                       ELSE UNCHANGED <<twoHopTime, listedAgo>>
        /\ judged' = judged \cup {n}
        /\ IF me = "HEARD" /\ denied = {} THEN UNCHANGED changes ELSE Change
        /\ UNCHANGED <<links, claimed, topology, m_enabled>>

\* Each tuple has an event due when it has expired.
Nb2hopTupleTimerExpire(p) ==
    /\ twoHopTime[p] = Past
    /\ twoHopTime' = [twoHopTime EXCEPT ![p] = None]
    /\ UNCHANGED <<links, claimed, neighborSet, symTime, topology, m_enabled, m_riskyNodes, changes,
                   listedAgo, judged>>

\* LinkTupleTimerExpire once symTime is over.  It may be late, and the first
\* one of a node does nothing, see OlsrNeighborhood.
NeighborLoss(n) ==
    /\ n \in neighborSet /\ symTime[n] = Past
    /\ ClaimsOf(n, twoHopSet) # {}
    /\ twoHopTime' = [p \in Pairs |-> IF p[1] = n THEN None ELSE twoHopTime[p]]
    /\ listedAgo' = [p \in Pairs |-> IF p[1] = n THEN Long ELSE listedAgo[p]]
    /\ UNCHANGED <<links, claimed, neighborSet, symTime, topology, m_enabled, m_riskyNodes, changes,
                   judged>>

\* LinkTupleTimerExpire once time is over, RemoveLinkTuple: any HELLO that
\* renews a two-hop tuple keeps the link for as long.  The neighbour stays on
\* the list of risky nodes.
LinkTimeOver(n) ==
    /\ n \in neighborSet /\ symTime[n] = Past
    /\ \A p \in Pairs : p[1] = n => twoHopTime[p] < 0
    /\ neighborSet' = neighborSet \ {n}
    /\ Change
    /\ UNCHANGED <<links, claimed, symTime, twoHopTime, topology, m_enabled, m_riskyNodes, listedAgo,
                   judged>>

\* A TC that lists the links of a node, all its neighbours having selected it,
\* in a packet from a symmetric neighbour.
RecvTc(source) ==
    /\ \E n \in neighborSet : symTime[n] > 0
    /\ topology' = topology \cup {<<source, a>> : a \in LinksOf(source)}
    /\ UNCHANGED <<links, claimed, neighborSet, symTime, twoHopTime, m_enabled, m_riskyNodes, changes,
                   listedAgo, judged>>

\* The TCs of a node were lost for as long as its tuples are held.
TopologyTupleTimerExpire(source) ==
    /\ \E t \in topology : t[1] = source
    /\ topology' = {t \in topology : t[1] # source}
    /\ Change
    /\ UNCHANGED <<links, claimed, neighborSet, symTime, twoHopTime, m_enabled, m_riskyNodes, listedAgo, judged>>

\* A neighbour takes up a claim, or drops it.
SwitchClaim(n, claim) ==
    /\ claim # claimed[n]
    /\ claimed' = [claimed EXCEPT ![n] = claim]
    /\ Change
    /\ UNCHANGED <<links, neighborSet, symTime, twoHopTime, topology, m_enabled, m_riskyNodes, listedAgo, judged>>

\* mutant: the flags outlive the switch
SwitchOnly ==
    /\ m_enabled' = ~m_enabled
    /\ judged' = {}
    /\ Change
    /\ UNCHANGED <<links, claimed, neighborSet, symTime, twoHopTime, topology, m_riskyNodes, listedAgo>>

\* A real transition of Enabled.
SetEnabled ==
    /\ m_enabled' = ~m_enabled
    /\ m_riskyNodes' = {}
    /\ judged' = {}
    /\ Change
    /\ UNCHANGED <<links, claimed, neighborSet, symTime, twoHopTime, topology, listedAgo>>

Tick ==
    /\ \A p \in Pairs : twoHopTime[p] # Past
    /\ symTime' = [n \in Neighbors |-> IF symTime[n] = Past THEN Past ELSE symTime[n] - 1]
    /\ twoHopTime' = [p \in Pairs |-> IF twoHopTime[p] = None THEN None ELSE twoHopTime[p] - 1]
    /\ listedAgo' = [p \in Pairs |-> IF listedAgo[p] = Long THEN Long ELSE listedAgo[p] + 1]
    /\ UNCHANGED <<links, claimed, neighborSet, topology, m_enabled, m_riskyNodes, changes, judged>>

Next ==
    \/ \E n \in Neighbors : \E me \in Hearing, denied \in Denials[n] : RecvHello(n, me, denied)
    \/ \E n \in Neighbors : NeighborLoss(n) \/ LinkTimeOver(n)
    \/ \E p \in Pairs : Nb2hopTupleTimerExpire(p)
    \/ \E s \in TcSources : RecvTc(s) \/ TopologyTupleTimerExpire(s)
    \/ \E n \in Neighbors : \E claim \in Claims[n] : SwitchClaim(n, claim)
    \/ SetEnabled
    \/ Tick

Spec == Init /\ [][Next]_vars

\* Time passes, timers run, and not all HELLOs of a neighbour are lost.
Fairness ==
    /\ WF_vars(Tick)
    /\ WF_vars(\E p \in Pairs : Nb2hopTupleTimerExpire(p))
    /\ \A n \in Neighbors : WF_vars(RecvHello(n, "HEARD", {}))

FairSpec == Spec /\ Fairness

-----------------------------------------------------------------------------
(* Properties.                                                             *)

TypeOK ==
    /\ links \in Graphs
    /\ claimed \in [Neighbors -> SUBSET Addrs]
    /\ neighborSet \subseteq Neighbors
    /\ symTime \in [Neighbors -> Past .. VTime]
    /\ twoHopTime \in [Pairs -> None .. VTime]
    /\ topology \subseteq TcSources \X Addrs
    /\ m_enabled \in BOOLEAN
    /\ m_riskyNodes \subseteq Neighbors
    /\ changes \in 0 .. MaxChanges
    /\ listedAgo \in [Pairs -> 0 .. Long]
    /\ judged \subseteq Neighbors

\* What the HELLOs of the last `age` ticks listed and none denied since, of
\* neighbours not lost since.
Listed(age) == {p \in Pairs : listedAgo[p] <= age}

\* A sender is flagged, or cleared, by what the HELLOs before the one at hand
\* listed within their validity time and have not denied again, unless
\* NeighborLoss forgot it, give or take the instant a tuple expires: by nothing
\* older and by all of that.
VerdictOfRecentHellos ==
    [][\A n \in Neighbors : \A me \in Hearing, denied \in Denials[n] :
          RecvHello(n, me, denied) /\ m_enabled =>
              \E old \in SUBSET (Listed(VTime + 1) \ Listed(VTime)) :
                  n \in m_riskyNodes' <=> Contradicts(n, Listed(VTime) \cup old)]_vars

\* The comment in EvaluateContradictionRules: a node that stops violating must
\* clear on its very next clean HELLO, one that contradicts nothing when it is
\* taken for all the sender has said.
ClearedByCleanHello ==
    [][\A n \in Neighbors : \A me \in Hearing, denied \in Denials[n] :
          LET others == {p \in twoHopSet : p[1] # n}
              latest == {n} \X (Lists(n) \ denied)
          IN  RecvHello(n, me, denied) /\ m_enabled /\ ~Contradicts(n, others \cup latest)
                => n \notin m_riskyNodes']_vars

\* The cold start of SetEnabled: no verdict of one measuring window is left in
\* the next, and none is there while the defence is off.
NoVerdictLeaks == m_riskyNodes \subseteq judged /\ (~m_enabled => m_riskyNodes = {})

\* A ring of six nodes without a chord, from this node on, whose far node is
\* three hops away.  A far node that some other neighbour has a link to closes
\* no hexagon: a comment of RunGcohpAlgorithm calls that case dropped on purpose.
RingAround(g1, b1, far, b2, g2) ==
    LET ring == <<m_mainAddress, g1, b1, far, b2, g2>>
    IN  /\ Cardinality({m_mainAddress, g1, g2, b1, b2, far}) = 6
        /\ \A i, j \in 1 .. 6 : i < j =>
              ({ring[i], ring[j]} \in links <=> (j = i + 1 \/ (i = 1 /\ j = 6)))
        /\ \A n \in LinksOf(m_mainAddress) : {n, far} \notin links

InducedRing ==
    \E g1, g2 \in LinksOf(m_mainAddress) :
    \E b1 \in LinksOf(g1), b2 \in LinksOf(g2) : \E far \in LinksOf(b1) :
        RingAround(g1, b1, far, b2, g2)

\* The links this node knows of are links, and not all need be known.
Truthful == {{e[1], e[2]} : e \in Known} \subseteq links

\* Its two neighbours on a ring list theirs, and the links of the far node are
\* known from either end.
RingHeard ==
    \E g1, g2 \in neighborSet :
    \E b1 \in LinksOf(g1), b2 \in LinksOf(g2) : \E far \in LinksOf(b1) :
        /\ RingAround(g1, b1, far, b2, g2)
        /\ <<g1, b1>> \in twoHopSet /\ <<g2, b2>> \in twoHopSet
        /\ <<b1, far>> \in Known /\ <<b2, far>> \in Known

\* Every neighbour is heard and lists all its links, and every link is known.
KnowsAll ==
    /\ neighborSet = LinksOf(m_mainAddress)
    /\ {{e[1], e[2]} : e \in Known} = links
    /\ \A p \in Pairs : p[2] \in LinksOf(p[1]) <=> p \in twoHopSet

\* RunGcohpAlgorithm overlooks no ring whose links it has heard, whatever else
\* it does not know, as long as it was told no untruth; and what it finds is a
\* ring if it knows all.  Told of a link that is none, or not told of a chord,
\* it may find a hexagon where none is, or miss one.
HexagonFound ==
    /\ Truthful /\ RingHeard => RunGcohpAlgorithm
    /\ KnowsAll /\ RunGcohpAlgorithm => InducedRing

\* Once nothing untruthful is listed any more, all TCs have come, and no
\* neighbour stays unheard for the validity time of a HELLO, the flags go and
\* stay away.
Calm ==
    /\ \A n \in Neighbors : claimed[n] = {}
    /\ neighborSet = Neighbors
    /\ \A n \in Neighbors : \A a \in LinksOf(n) \ {m_mainAddress} : <<n, a>> \in twoHopSet
    /\ \A s \in TcSources : \A a \in LinksOf(s) : <<s, a>> \in topology

Cleared == <>[]Calm => <>[](m_riskyNodes = {})
=============================================================================
