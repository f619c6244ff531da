----------------------------- MODULE OlsrRouting -----------------------------
(***************************************************************************)
(* The routing tables of one OLSR node: how they are computed from the     *)
(* link, neighbour, two-hop, topology and interface association sets, and  *)
(* how far those move on before the tables are computed again.             *)
(*                                                                         *)
(* Neighbours may have several interfaces.  Until a MID message says so,   *)
(* each of their addresses counts as a neighbour of its own; ProcessMid    *)
(* then renames what was recorded.                                         *)
(*                                                                         *)
(* The sets are lists, in the order their tuples were added.  Deadlines    *)
(* are left out: an event of a tuple may find it expired whenever it       *)
(* could; how long tuples are held is the subject of OlsrNeighborhood and  *)
(* OlsrTopology.                                                           *)
(***************************************************************************)
EXTENDS Integers, Sequences, FiniteSets, SequencesExt

CONSTANTS
    Addrs,      \* addresses of all other nodes, and Self
    Self,       \* m_mainAddress
    Ifaces,     \* the interface addresses HELLOs may come from
    Main,       \* [Addrs -> Addrs], the main address an address belongs to
    Hellos,     \* HELLOs that may be received
    Tcs,        \* TCs that may be received
    Suspects,   \* addresses the defence may condemn
    MaxEvents,  \* bound: two-hop events under way
    MaxExpiries \* bound: timer events and verdicts

Hello == [iface : Ifaces, me : {"NONE", "LOST", "HEARD"}, willing : BOOLEAN,
          lists : SUBSET Addrs, denies : SUBSET Addrs]
Tc == [originator : Addrs \ {Self}, dests : SUBSET Addrs]

ASSUME RoutingAssumption ==
    /\ IsFiniteSet(Addrs)
    /\ Self \in Addrs /\ Ifaces \subseteq Addrs \ {Self}
    /\ Main \in [Addrs -> Addrs]
    /\ \A a \in Addrs : Main[Main[a]] = Main[a]
    /\ Hellos \subseteq Hello
    /\ Tcs \subseteq Tc
    /\ Suspects \subseteq Addrs \ {Self}
    /\ MaxEvents \in Nat /\ MaxExpiries \in Nat

VARIABLES
    m_state,          \* the repositories, see State
    twoHopEvents,     \* pairs Nb2hopTupleTimerExpire events are scheduled for
    m_linkTupleTimerFirstTime,
    blacklist,        \* GetBlacklist() of the defence
    m_table, m_tableAvoidingSuspects,
    \* history, read by the properties only
    fresh,            \* nothing changed since the tables were computed
    basis,            \* the suspects and associations they were computed from
    expiries          \* timer events and verdicts so far

tables == <<m_table, m_tableAvoidingSuspects>>
vars == <<m_state, twoHopEvents, m_linkTupleTimerFirstTime, blacklist, tables, fresh, basis,
          expiries>>

Link == [iface : Ifaces, sym : BOOLEAN, lossSeen : BOOLEAN]
Neighbor == [main : Addrs, sym : BOOLEAN, willing : BOOLEAN]
TwoHop == [neighbor : Addrs, twoHop : Addrs]
Topology == [last : Addrs, dest : Addrs]
Entry == [next : Ifaces, distance : 1 .. Cardinality(Addrs)]

Empty == [a \in {} |-> a]

\* The list without the tuples in `gone`, the others in their order.
Without(list, gone) ==
    LET kept[k \in 0 .. Len(list)] ==
          IF k = 0 THEN <<>>
          ELSE IF list[k] \in gone THEN kept[k - 1] ELSE Append(kept[k - 1], list[k])
    IN  kept[Len(list)]

Init ==
    /\ m_state = [links |-> <<>>, neighbors |-> <<>>, twoHops |-> <<>>, topology |-> <<>>,
                  assocs |-> {}]
    /\ twoHopEvents = {}
    /\ m_linkTupleTimerFirstTime = TRUE
    /\ blacklist = {}
    /\ m_table = Empty /\ m_tableAvoidingSuspects = Empty
    /\ fresh = TRUE
    /\ basis = [suspects |-> {}, assocs |-> {}]
    /\ expiries = 0

-----------------------------------------------------------------------------
(* The computation of a table.                                             *)

GetMainAddress(state, a) == IF a \in state.assocs THEN Main[a] ELSE a

\* The positions of the links of a neighbour.
LinksOf(state, main) ==
    {k \in DOMAIN state.links : GetMainAddress(state, state.links[k].iface) = main}

SymNeighbor(state, main) ==
    \E k \in DOMAIN state.neighbors : state.neighbors[k].main = main /\ state.neighbors[k].sym

WillingNeighbor(state, main) ==
    \E k \in DOMAIN state.neighbors : state.neighbors[k].main = main /\ state.neighbors[k].willing

AddEntry(table, dest, next, distance) ==
    [d \in DOMAIN table \cup {dest} |->
        IF d = dest THEN [next |-> next, distance |-> distance] ELSE table[d]]

\* Step 2: the links of a symmetric neighbour, and its main address over the
\* last of them if it is none of theirs.
AddNeighbor(state, excluded, table, n) ==
    LET links == LinksOf(state, n.main)
        ifaces == {state.links[k].iface : k \in links}
        direct == [d \in DOMAIN table \cup ifaces |->
                      IF d \in ifaces THEN [next |-> d, distance |-> 1] ELSE table[d]]
    IN  IF ~n.sym \/ n.main \in excluded \/ links = {} THEN table
        ELSE IF n.main \in ifaces THEN direct
        ELSE AddEntry(direct, n.main, state.links[Max(links)].iface, 1)

NeighborRoutes(state, excluded) ==
    LET table[k \in 0 .. Len(state.neighbors)] ==
          IF k = 0 THEN Empty
          ELSE AddNeighbor(state, excluded, table[k - 1], state.neighbors[k])
    IN  table[Len(state.neighbors)]

\* mutant: a two-hop neighbour may also be a neighbour
AddAnyTwoHop(state, table, t) ==
    IF /\ t.twoHop # Self /\ WillingNeighbor(state, t.neighbor) /\ t.neighbor \in DOMAIN table
      THEN AddEntry(table, t.twoHop, table[t.neighbor].next, 2)
      ELSE table

\* Step 3, the two-hop neighbours: a later tuple overwrites an earlier one.
AddTwoHop(state, table, t) ==
    IF /\ ~SymNeighbor(state, t.twoHop)
       /\ t.twoHop # Self
       /\ WillingNeighbor(state, t.neighbor)
       /\ t.neighbor \in DOMAIN table
      THEN AddEntry(table, t.twoHop, table[t.neighbor].next, 2)
      ELSE table

TwoHopRoutes(state, neighbors) ==
    LET table[k \in 0 .. Len(state.twoHops)] ==
          IF k = 0 THEN neighbors ELSE AddTwoHop(state, table[k - 1], state.twoHops[k])
    IN  table[Len(state.twoHops)]

\* mutant: the next hop is the last hop, not the first
AddFromLastHop(excluded, table, t, h) ==
    IF /\ t.last \notin excluded
       /\ t.dest \notin DOMAIN table
       /\ t.last \in DOMAIN table /\ table[t.last].distance = h
      THEN AddEntry(table, t.dest, t.last, h + 1)
      ELSE table

\* Step 3.1, one topology tuple at distance h.
AddFromTopology(excluded, table, t, h) ==
    IF /\ t.last \notin excluded
       /\ t.dest \notin DOMAIN table
       /\ t.last \in DOMAIN table /\ table[t.last].distance = h
      THEN AddEntry(table, t.dest, table[t.last].next, h + 1)
      ELSE table

RoutesFrom(state, excluded, nearer, h) ==
    LET table[k \in 0 .. Len(state.topology)] ==
          IF k = 0 THEN nearer
          ELSE AddFromTopology(excluded, table[k - 1], state.topology[k], h)
    IN  table[Len(state.topology)]

\* mutant: the walk over the topology set begins one hop too far out
WalkFromThree == 3

\* The loop over h = 2, 3, ... ends when it adds nothing, and would not add
\* any more.
WalkFrom == 2

FurtherRoutes(state, excluded, twoHops) ==
    LET farthest == Cardinality(Addrs) - 1
        table[h \in 0 .. farthest] ==
          IF h < WalkFrom THEN twoHops ELSE RoutesFrom(state, excluded, table[h - 1], h)
    IN  table[farthest]

\* Step 4, the other addresses of a known destination.
AddAssociated(table, assocs) ==
    [a \in DOMAIN table \cup {i \in assocs : Main[i] \in DOMAIN table} |->
        IF a \in DOMAIN table THEN table[a] ELSE table[Main[a]]]

ComputeRoutingTableCore(state, excluded) ==
    LET neighbors == NeighborRoutes(state, excluded)
        twoHops == TwoHopRoutes(state, neighbors)
        further == FurtherRoutes(state, excluded, twoHops)
    IN  AddAssociated(further, state.assocs)

\* mutant: the tables are computed in the other order
OtherOrder(state) ==
    LET standard == ComputeRoutingTableCore(state, {})
        avoiding == ComputeRoutingTableCore(state, blacklist)
    IN  /\ m_table' = IF blacklist = {} THEN standard ELSE avoiding
        /\ m_tableAvoidingSuspects' = standard
        /\ fresh' = TRUE
        /\ basis' = [suspects |-> blacklist, assocs |-> state.assocs]

RoutingTableComputation(state) ==
    LET standard == ComputeRoutingTableCore(state, {})
    IN  /\ m_table' = standard
        /\ m_tableAvoidingSuspects' = IF blacklist = {} THEN standard
                                      ELSE ComputeRoutingTableCore(state, blacklist)
        /\ fresh' = TRUE
        /\ basis' = [suspects |-> blacklist, assocs |-> state.assocs]

-----------------------------------------------------------------------------
(* Messages.                                                               *)

FirstNeighbor(state, main) ==
    LET found == {k \in DOMAIN state.neighbors : state.neighbors[k].main = main}
    IN  IF found = {} THEN 0 ELSE Min(found)

\* InsertNeighborTuple overwrites the first tuple of that address.
InsertNeighborTuple(state, n) ==
    LET k == FirstNeighbor(state, n.main)
    IN  IF k = 0 THEN [state EXCEPT !.neighbors = Append(@, n)]
                 ELSE [state EXCEPT !.neighbors[k] = n]

LinkTupleAdded(state, link, willing) ==
    InsertNeighborTuple(state, [main |-> GetMainAddress(state, link.iface), sym |-> link.sym,
                                willing |-> willing])

\* LinkTupleUpdated sets the status of the first neighbour tuple only.
LinkTupleUpdated(state, link, willing) ==
    LET main == GetMainAddress(state, link.iface)
        known == IF FirstNeighbor(state, main) = 0 THEN LinkTupleAdded(state, link, willing)
                                                   ELSE state
    IN  [known EXCEPT !.neighbors[FirstNeighbor(known, main)].sym =
            \E k \in LinksOf(known, main) : known.links[k].sym]

LinkSensing(state, m) ==
    LET found == {k \in DOMAIN state.links : state.links[k].iface = m.iface}
        created == found = {}
        known == IF created
            THEN [state EXCEPT !.links = Append(@, [iface |-> m.iface, sym |-> FALSE, lossSeen |-> FALSE])]
            ELSE state
        k == IF created THEN Len(known.links) ELSE CHOOSE j \in found : TRUE
        link == [known.links[k] EXCEPT !.lossSeen = FALSE,
                    !.sym = CASE m.me = "HEARD" -> TRUE [] m.me = "LOST" -> FALSE [] OTHER -> @]
        sensed == [known EXCEPT !.links[k] = link]
        updated == IF created /\ m.me = "NONE" THEN sensed
                   ELSE LinkTupleUpdated(sensed, link, m.willing)
    IN  IF created THEN LinkTupleAdded(updated, link, m.willing) ELSE updated

PopulateNeighborSet(state, m) ==
    LET k == FirstNeighbor(state, Main[m.iface])
    IN  IF k = 0 THEN state ELSE [state EXCEPT !.neighbors[k].willing = m.willing]

\* The two-hop neighbours a HELLO adds, under the main addresses known so far.
Listed(state, m) ==
    {[neighbor |-> Main[m.iface], twoHop |-> GetMainAddress(state, a)] :
        a \in {x \in m.lists : GetMainAddress(state, x) # Self}}

HasSymLink(state, main) ==
    \E k \in DOMAIN state.links : state.links[k].sym /\ GetMainAddress(state, state.links[k].iface) = main

NewTwoHops(state, m) ==
    IF HasSymLink(state, Main[m.iface]) THEN Listed(state, m) \ ToSet(state.twoHops) ELSE {}

PopulateTwoHopNeighborSet(state, m) ==
    LET denied == {[neighbor |-> Main[m.iface], twoHop |-> GetMainAddress(state, a)] : a \in m.denies}
    IN  IF HasSymLink(state, Main[m.iface])
          THEN [state EXCEPT !.twoHops =
                  Without(@ \o SetToSeq(NewTwoHops(state, m)), denied)]
          ELSE state

\* RecvOlsr with a HELLO: ProcessHello, then the tables.
RecvHello(m) ==
    LET sensed == PopulateNeighborSet(LinkSensing(m_state, m), m)
    IN  /\ m_state' = PopulateTwoHopNeighborSet(sensed, m)
        /\ twoHopEvents' = twoHopEvents \cup NewTwoHops(sensed, m)
        /\ Cardinality(twoHopEvents') <= MaxEvents
        /\ RoutingTableComputation(m_state')
        /\ UNCHANGED <<m_linkTupleTimerFirstTime, blacklist, expiries>>

SomeSymLink == \E k \in DOMAIN m_state.links : m_state.links[k].sym

RenamedNeighbors(state) ==
    [k \in DOMAIN state.neighbors |->
        [state.neighbors[k] EXCEPT !.main = GetMainAddress(state, @)]]

\* mutant: two-hop tuples keep the addresses they were recorded under
RenameNeighborsOnly(state) == [state EXCEPT !.neighbors = RenamedNeighbors(state)]

\* Step 3 of ProcessMid.
Rename(state) ==
    [state EXCEPT
        !.neighbors = RenamedNeighbors(state),
        !.twoHops = [k \in DOMAIN @ |->
            [neighbor |-> GetMainAddress(state, @[k].neighbor),
             twoHop |-> GetMainAddress(state, @[k].twoHop)]]]

\* RecvOlsr with a MID of `main`, from a symmetric neighbour.
RecvMid(main) ==
    LET listed == {a \in Addrs : Main[a] = main /\ a # main}
    IN  /\ SomeSymLink /\ listed # {}
        /\ m_state' = Rename([m_state EXCEPT !.assocs = @ \cup listed])
        /\ RoutingTableComputation(m_state')
        /\ UNCHANGED <<twoHopEvents, m_linkTupleTimerFirstTime, blacklist, expiries>>

\* RecvOlsr with a TC that is newer than those before.
RecvTc(m) ==
    /\ SomeSymLink
    /\ m_state' = [m_state EXCEPT !.topology =
          Without(@, {t \in ToSet(@) : t.last = m.originator}) \o
          SetToSeq({[last |-> m.originator, dest |-> d] : d \in m.dests})]
    /\ RoutingTableComputation(m_state')
    /\ UNCHANGED <<twoHopEvents, m_linkTupleTimerFirstTime, blacklist, expiries>>

-----------------------------------------------------------------------------
(* Events and verdicts: only a neighbour loss computes the tables.         *)

TablesStale == fresh' = FALSE /\ UNCHANGED <<tables, basis>>

\* LinkTupleTimerExpire once symTime is over.
SymTimeOver(k) ==
    LET link == [m_state.links[k] EXCEPT !.sym = FALSE, !.lossSeen = TRUE]
        over == [m_state EXCEPT !.links[k] = link]
        updated == LinkTupleUpdated(over, link, TRUE)
        main == GetMainAddress(over, link.iface)
    IN  /\ ~m_state.links[k].lossSeen
        /\ m_linkTupleTimerFirstTime' = FALSE
        /\ IF m_linkTupleTimerFirstTime
             THEN m_state' = over /\ TablesStale
             ELSE /\ m_state' = [updated EXCEPT !.twoHops =
                        Without(@, {t \in ToSet(@) : t.neighbor = main})]
                  /\ RoutingTableComputation(m_state')
        /\ UNCHANGED <<twoHopEvents, blacklist>>

\* LinkTupleTimerExpire once time is over, RemoveLinkTuple.
LinkTimeOver(k) ==
    LET n == FirstNeighbor(m_state, GetMainAddress(m_state, m_state.links[k].iface))
    IN  /\ m_state.links[k].lossSeen
        /\ m_state' = [m_state EXCEPT !.links = RemoveAt(@, k),
                          !.neighbors = IF n = 0 THEN @ ELSE RemoveAt(@, n)]
        /\ TablesStale
        /\ UNCHANGED <<twoHopEvents, m_linkTupleTimerFirstTime, blacklist>>

\* An event whose tuple is gone, or has expired.
Nb2hopTupleTimerExpire(pair) ==
    /\ LET found == {k \in DOMAIN m_state.twoHops : m_state.twoHops[k] = pair}
       IN  m_state' = [m_state EXCEPT !.twoHops = IF found = {} THEN @ ELSE RemoveAt(@, Min(found))]
    /\ twoHopEvents' = twoHopEvents \ {pair}
    /\ TablesStale
    /\ UNCHANGED <<m_linkTupleTimerFirstTime, blacklist>>

TopologyTupleTimerExpire(k) ==
    /\ m_state' = [m_state EXCEPT !.topology = RemoveAt(@, k)]
    /\ TablesStale
    /\ UNCHANGED <<twoHopEvents, m_linkTupleTimerFirstTime, blacklist>>

IfaceAssocTupleTimerExpire(a) ==
    /\ m_state' = [m_state EXCEPT !.assocs = @ \ {a}]
    /\ TablesStale
    /\ UNCHANGED <<twoHopEvents, m_linkTupleTimerFirstTime, blacklist>>

\* The defence condemns a, or releases it.
Verdict(a) ==
    /\ blacklist' = IF a \in blacklist THEN blacklist \ {a} ELSE blacklist \cup {a}
    /\ TablesStale
    /\ UNCHANGED <<m_state, twoHopEvents, m_linkTupleTimerFirstTime>>

Expiry ==
    \/ \E k \in DOMAIN m_state.links : SymTimeOver(k) \/ LinkTimeOver(k)
    \/ \E pair \in twoHopEvents : Nb2hopTupleTimerExpire(pair)
    \/ \E k \in DOMAIN m_state.topology : TopologyTupleTimerExpire(k)
    \/ \E a \in m_state.assocs : IfaceAssocTupleTimerExpire(a)
    \/ \E a \in Suspects : Verdict(a)

Next ==
    \/ \E m \in Hellos : RecvHello(m)
    \/ \E main \in {Main[a] : a \in Addrs} : RecvMid(main)
    \/ \E m \in Tcs : RecvTc(m)
    \/ Expiry /\ expiries < MaxExpiries /\ expiries' = expiries + 1

Spec == Init /\ [][Next]_vars

-----------------------------------------------------------------------------
(* Properties.                                                             *)

TableOK(table) == DOMAIN table \subseteq Addrs /\ \A d \in DOMAIN table : table[d] \in Entry

TypeOK ==
    /\ ToSet(m_state.links) \subseteq Link
    /\ ToSet(m_state.neighbors) \subseteq Neighbor
    /\ ToSet(m_state.twoHops) \subseteq TwoHop
    /\ ToSet(m_state.topology) \subseteq Topology
    /\ m_state.assocs \subseteq Addrs
    /\ twoHopEvents \subseteq TwoHop
    /\ m_linkTupleTimerFirstTime \in BOOLEAN
    /\ blacklist \subseteq Suspects
    /\ TableOK(m_table) /\ TableOK(m_tableAvoidingSuspects)
    /\ fresh \in BOOLEAN
    /\ basis \in [suspects : SUBSET Suspects, assocs : SUBSET Addrs]
    /\ expiries \in 0 .. MaxExpiries

\* Every route of either table resolves to a direct one in at most one step:
\* FindSendEntry neither fails, a fatal error in RouteOutput and RouteInput,
\* nor runs in circles.
SendEntryFound ==
    \A table \in {m_table, m_tableAvoidingSuspects} : \A d \in DOMAIN table :
        LET next == table[d].next
        IN  next \in DOMAIN table /\ table[next].next = next /\ table[next].distance = 1

\* All recorded addresses are the main addresses known at present, however
\* HELLOs, MIDs and the expiry of associations interleave.
Resolved ==
    /\ \A n \in ToSet(m_state.neighbors) : GetMainAddress(m_state, n.main) = n.main
    /\ \A t \in ToSet(m_state.twoHops) :
          /\ GetMainAddress(m_state, t.neighbor) = t.neighbor
          /\ GetMainAddress(m_state, t.twoHop) = t.twoHop

\* What this node knows, without the suspects: who it hears, and who is a
\* neighbour of whom.
HeardNodes(state, excluded) ==
    {a \in Addrs : \E n \in ToSet(state.neighbors) :
        /\ n.sym /\ n.main \notin excluded
        /\ LinksOf(state, n.main) # {}
        /\ GetMainAddress(state, a) = n.main
        /\ a = n.main \/ \E l \in ToSet(state.links) : l.iface = a}

Adjacent(state, excluded) ==
    {<<t.neighbor, t.twoHop>> : t \in {u \in ToSet(state.twoHops) : WillingNeighbor(state, u.neighbor)}}
    \cup {<<t.last, t.dest>> : t \in {u \in ToSet(state.topology) : u.last \notin excluded}}
    \cup {<<Main[a], a>> : a \in state.assocs} \cup {<<a, Main[a]>> : a \in state.assocs}

ReachableFrom(start, edges) ==
    LET within[h \in 0 .. Cardinality(Addrs)] ==
          IF h = 0 THEN start
          ELSE LET nearer == within[h - 1]
               IN  nearer \cup {e[2] : e \in {f \in edges : f[1] \in nearer}}
    IN  within[Cardinality(Addrs)]

\* The addresses that must have a route: neighbours, their two-hop neighbours
\* and what the topology set leads to from there.  What a neighbour has in its
\* TCs counts only if its HELLOs list it: the walk starts two hops out.
MustHaveRoute(state, excluded) ==
    LET heard == HeardNodes(state, excluded)
        twoHops == {t.twoHop : t \in {u \in ToSet(state.twoHops) :
                       /\ u.neighbor \in heard /\ WillingNeighbor(state, u.neighbor)
                       /\ ~SymNeighbor(state, u.twoHop) /\ u.twoHop # Self}}
        topology == {<<t.last, t.dest>> : t \in {u \in ToSet(state.topology) :
                       u.last \notin excluded \cup heard}}
    IN  heard \cup ReachableFrom(twoHops, topology)

\* A table just computed has a route to all that is known to be reachable, and
\* each of its routes goes to a neighbour from which a chain of recorded links
\* leads to the destination.
RoutesMatchKnowledge ==
    fresh =>
        \A r \in {<<m_table, {}>>, <<m_tableAvoidingSuspects, blacklist>>} :
            LET through(next) == {d \in DOMAIN r[1] : r[1][d].next = next}
                edges == Adjacent(m_state, {})
            IN  /\ MustHaveRoute(m_state, r[2]) \subseteq DOMAIN r[1]
                /\ \A next \in {r[1][d].next : d \in DOMAIN r[1]} :
                      /\ next \in HeardNodes(m_state, r[2])
                      /\ through(next) \subseteq
                            ReachableFrom({next, GetMainAddress(m_state, next)}, edges)

\* The second table's next hops, however long ago it was computed: one that
\* belongs to a node suspected at that computation is an interface no MID had
\* yet told to be that node's.  ComputeRoutingTableCore compares main
\* addresses, and takes such an interface for a neighbour of its own.  A node
\* suspected only since then may be a next hop, although a comment in
\* FindSuspectAvoidingSendEntry says that every suspected node is avoided.
AvoidsSuspects ==
    \A d \in DOMAIN m_tableAvoidingSuspects :
        LET next == m_tableAvoidingSuspects[d].next
        IN  Main[next] \in basis.suspects => next \notin basis.assocs \cup {Main[next]}

\* Every two-hop tuple has an event that removes it once it has expired.
TwoHopsAreTimed == ToSet(m_state.twoHops) \subseteq twoHopEvents
=============================================================================
