-------------------------- MODULE OlsrRoutingProofs --------------------------
(***************************************************************************)
(* Proofs about OlsrRouting.                                               *)
(***************************************************************************)
EXTENDS OlsrRouting, ListLemmas

-----------------------------------------------------------------------------
(* Lists.                                                                  *)

\* Erasing leaves only what was there.
LEMMA WithoutKeeps ==
    ASSUME NEW S, NEW s \in Seq(S), NEW gone
    PROVE  Without(s, gone) \in Seq(S)
  <1> DEFINE T == Seq(S)
             n == Len(s)
             none == <<>>
             Step(l, k) == IF s[k] \in gone THEN l ELSE Append(l, s[k])
             g == [p \in (1 .. n) \X T |-> Step(p[2], p[1])]
             Is(f) == f = [k \in 0 .. n |->
                 IF k = 0 THEN <<>>
                 ELSE IF s[k] \in gone THEN f[k - 1] ELSE Append(f[k - 1], s[k])]
             kept == CHOOSE f : Is(f)
             U == {k \in 0 .. n : kept[k] \in T}
  <1>1. n \in Nat /\ none \in T
    OBVIOUS
  <1>2. ASSUME NEW l \in T, NEW k \in 1 .. n PROVE Step(l, k) \in T
    OBVIOUS
  <1>3. Without(s, gone) = kept[n]
    BY DEF Without
  <1> HIDE DEF T, n, none, Step
  <1>4. \A l \in T, k \in 1 .. n : g[<<k, l>>] = Step(l, k)
    BY <1>2
  <1>45. g \in [(1 .. n) \X T -> T]
    BY <1>2
  <1> HIDE DEF g
  <1>5. PICK h \in [0 .. n -> T] : IsLoop(h, n, none, g)
    BY <1>1, <1>45, LoopExists
  <1>6. ASSUME NEW k \in 0 .. n
        PROVE  h[k] = IF k = 0 THEN <<>>
                      ELSE IF s[k] \in gone THEN h[k - 1] ELSE Append(h[k - 1], s[k])
    <2>1. CASE k = 0
      BY <1>5, <2>1 DEF none, IsLoop
    <2>2. CASE k # 0
      <3>1. k \in 1 .. n /\ k - 1 \in 0 .. n
        BY <1>1, <2>2
      <3>2. h[k] = g[<<k, h[k - 1]>>] /\ h[k - 1] \in T
        BY <1>5, <2>2, <3>1 DEF IsLoop
      <3>3. QED BY <1>4, <2>2, <3>1, <3>2 DEF Step
    <2>3. QED BY <2>1, <2>2
  <1>7. Is(h)
    BY <1>5, <1>6
  <1>8. Is(kept)
    BY <1>7
  <1> HIDE DEF kept
  <1>9. kept[0] = none /\ \A k \in 1 .. n : kept[k] = Step(kept[k - 1], k)
    <2>1. \A k \in 0 .. n : kept[k] = IF k = 0 THEN none ELSE Step(kept[k - 1], k)
      BY <1>8 DEF Step, none
    <2>2. QED BY <1>1, <2>1
  <1>10. 0 \in U /\ \A k \in 1 .. n : k - 1 \in U => k \in U
    BY <1>1, <1>2, <1>9
  <1> HIDE DEF U
  <1>11. \A k \in 0 .. n : k \in U
    BY <1>1, <1>10, InductionUpTo
  <1>12. QED BY <1>1, <1>3, <1>11 DEF U, T

-----------------------------------------------------------------------------
(* The tables a computation may have reached: each entry's next hop is an  *)
(* interface with a link, is in the table itself as a direct route, and    *)
(* belongs to a symmetric neighbour that is not excluded.                  *)

Repositories ==
    [links : Seq(Link), neighbors : Seq(Neighbor), twoHops : Seq(TwoHop),
     topology : Seq(Topology), assocs : SUBSET Addrs]

IsMain(state, a) == GetMainAddress(state, a) = a

IsResolved(state) ==
    /\ \A k \in DOMAIN state.neighbors : IsMain(state, state.neighbors[k].main)
    /\ \A k \in DOMAIN state.twoHops :
          IsMain(state, state.twoHops[k].neighbor) /\ IsMain(state, state.twoHops[k].twoHop)

States == {state \in Repositories : IsResolved(state)}

\* The sets of OlsrState are lists of tuples.
LEMMA StateShape ==
    ASSUME NEW state \in States
    PROVE  /\ state.links \in Seq(Link) /\ state.neighbors \in Seq(Neighbor)
           /\ state.twoHops \in Seq(TwoHop) /\ state.topology \in Seq(Topology)
           /\ state.assocs \in SUBSET Addrs
           /\ IsResolved(state)
  BY DEF States, Repositories

\* The tuples in them.
LEMMA StateElements ==
    ASSUME NEW state \in States
    PROVE  /\ \A k \in DOMAIN state.links : state.links[k] \in Link
           /\ \A k \in DOMAIN state.neighbors : state.neighbors[k] \in Neighbor
           /\ \A k \in DOMAIN state.twoHops : state.twoHops[k] \in TwoHop
           /\ \A k \in DOMAIN state.topology : state.topology[k] \in Topology
  BY StateShape

DirectHop(state, excluded, table, next) ==
    /\ next \in DOMAIN table /\ table[next].next = next /\ table[next].distance = 1
    /\ \E k \in DOMAIN state.links : state.links[k].iface = next
    /\ SymNeighbor(state, GetMainAddress(state, next))
    /\ GetMainAddress(state, next) \notin excluded

AnyTable == UNION {[D -> Entry] : D \in SUBSET Addrs}

Tables(state, excluded) ==
    {table \in AnyTable : \A d \in DOMAIN table : DirectHop(state, excluded, table, table[d].next)}

\* There is this node, and with an interface one more address.
LEMMA AddressCount ==
    /\ Cardinality(Addrs) \in Nat /\ 1 <= Cardinality(Addrs)
    /\ Ifaces # {} => 2 <= Cardinality(Addrs)
  <1>1. IsFiniteSet(Addrs) /\ Self \in Addrs /\ Ifaces \subseteq Addrs \ {Self}
    BY RoutingAssumption
  <1>2. Cardinality(Addrs) \in Nat
    BY <1>1, FS_CardinalityType
  <1>3. IsFiniteSet(Addrs \ {Self}) /\ Cardinality(Addrs \ {Self}) = Cardinality(Addrs) - 1
    BY <1>1, FS_RemoveElement
  <1>4. Cardinality(Addrs \ {Self}) \in Nat
    BY <1>3, FS_CardinalityType
  <1>5. Ifaces # {} => Cardinality(Addrs \ {Self}) # 0
    BY <1>1, <1>3, FS_EmptySet
  <1>6. QED BY <1>2, <1>3, <1>4, <1>5

\* A table as a function.
LEMMA TableShape ==
    ASSUME NEW table \in AnyTable
    PROVE  /\ DOMAIN table \in SUBSET Addrs
           /\ \A d \in DOMAIN table : table[d] \in Entry
           /\ table = [d \in DOMAIN table |-> table[d]]
  BY DEF AnyTable

\* A table, entry by entry.
LEMMA IsTable ==
    ASSUME NEW D \in SUBSET Addrs, NEW table, table = [d \in D |-> table[d]],
           \A d \in D : table[d] \in Entry
    PROVE  table \in AnyTable /\ DOMAIN table = D
  BY DEF AnyTable

\* A further destination over a hop that is known, if it is no direct hop.
LEMMA AddEntryKeeps ==
    ASSUME NEW state, NEW excluded, NEW table \in Tables(state, excluded), NEW dest \in Addrs,
           NEW hop \in DOMAIN table, NEW distance \in 1 .. Cardinality(Addrs),
           \A d \in DOMAIN table : table[d].next # dest
    PROVE  AddEntry(table, dest, table[hop].next, distance) \in Tables(state, excluded)
  <1> DEFINE next == table[hop].next
             more == AddEntry(table, dest, next, distance)
             D == DOMAIN table \cup {dest}
  <1>1. table \in AnyTable /\ \A d \in DOMAIN table : DirectHop(state, excluded, table, table[d].next)
    BY DEF Tables
  <1>2. DOMAIN table \in SUBSET Addrs /\ \A d \in DOMAIN table : table[d] \in Entry
    BY <1>1, TableShape
  <1>3. D \in SUBSET Addrs /\ DOMAIN more = D /\ more = [d \in D |-> more[d]]
    BY <1>2 DEF AddEntry
  <1>4. more[dest] = [next |-> next, distance |-> distance]
    BY DEF AddEntry
  <1>5. \A d \in DOMAIN table : d # dest => more[d] = table[d]
    BY DEF AddEntry
  <1>6. next \in Ifaces
    BY <1>2 DEF Entry
  <1> HIDE DEF more, next
  <1>7. more[dest] \in Entry
    BY <1>4, <1>6 DEF Entry
  <1>8. \A d \in D : more[d] \in Entry
    BY <1>2, <1>5, <1>7
  <1>9. more \in AnyTable
    BY <1>3, <1>8, IsTable
  <1>10. ASSUME NEW d \in DOMAIN table PROVE DirectHop(state, excluded, more, table[d].next)
    <2>1. DirectHop(state, excluded, table, table[d].next)
      BY <1>1
    <2>2. table[d].next # dest /\ table[d].next \in DOMAIN table
      BY <2>1 DEF DirectHop
    <2>3. more[table[d].next] = table[table[d].next] /\ table[d].next \in DOMAIN more
      BY <1>3, <1>5, <2>2
    <2>4. QED BY <2>1, <2>3 DEF DirectHop
  <1>11. ASSUME NEW d \in DOMAIN more PROVE DirectHop(state, excluded, more, more[d].next)
    <2>1. CASE d = dest
      <3>1. more[d].next = table[hop].next
        BY <1>4, <2>1 DEF next
      <3>2. QED BY <1>10, <3>1
    <2>2. CASE d # dest
      <3>1. d \in DOMAIN table /\ more[d].next = table[d].next
        BY <1>3, <1>5, <2>2
      <3>2. QED BY <1>10, <3>1
    <2>3. QED BY <2>1, <2>2
  <1>12. more \in Tables(state, excluded)
    BY <1>9, <1>11 DEF Tables
  <1>13. QED BY <1>12 DEF more, next

\* Step 2 for one neighbour.
LEMMA AddNeighborKeeps ==
    ASSUME NEW state \in States, NEW excluded, NEW table \in Tables(state, excluded),
           NEW j \in DOMAIN state.neighbors
    PROVE  AddNeighbor(state, excluded, table, state.neighbors[j]) \in Tables(state, excluded)
  <1> DEFINE n == state.neighbors[j]
             links == LinksOf(state, n.main)
             ifaces == {state.links[k].iface : k \in links}
             direct == [d \in DOMAIN table \cup ifaces |->
                           IF d \in ifaces THEN [next |-> d, distance |-> 1] ELSE table[d]]
             last == state.links[Max(links)].iface
  <1>1. CASE ~n.sym \/ n.main \in excluded \/ links = {}
    BY <1>1 DEF AddNeighbor
  <1>2. CASE n.sym /\ n.main \notin excluded /\ links # {}
    <2>1. /\ state.links \in Seq(Link) /\ state.neighbors \in Seq(Neighbor)
          /\ n.main \in Addrs /\ IsMain(state, n.main)
      BY StateShape, StateElements DEF IsResolved, Neighbor
    <2>2. links \subseteq DOMAIN state.links /\ \A k \in links : GetMainAddress(state, state.links[k].iface) = n.main
      BY DEF LinksOf
    <2>3. \A k \in links : state.links[k].iface \in Ifaces
      BY <2>2, StateElements DEF Link
    <2>4. ifaces \subseteq Ifaces /\ Ifaces \subseteq Addrs
      BY <2>3, RoutingAssumption
    <2>5. SymNeighbor(state, n.main)
      BY <1>2 DEF SymNeighbor
    <2>6. \A d \in ifaces : /\ \E k \in DOMAIN state.links : state.links[k].iface = d
                            /\ GetMainAddress(state, d) = n.main
      BY <2>2
    <2>7. table \in AnyTable /\ \A d \in DOMAIN table : DirectHop(state, excluded, table, table[d].next)
      BY DEF Tables
    <2>8. DOMAIN table \in SUBSET Addrs /\ \A d \in DOMAIN table : table[d] \in Entry
      BY <2>7, TableShape
    <2>9. Max(links) \in links
      <3>1. Len(state.links) \in Nat /\ DOMAIN state.links = 1 .. Len(state.links)
        BY <2>1
      <3>2. links \in SUBSET (1 .. Len(state.links))
        BY <2>2, <3>1
      <3>3. QED BY <1>2, <3>1, <3>2, MaxIn
    <2>10. last \in ifaces
      BY <2>9
    <2>11. AddNeighbor(state, excluded, table, n) =
              IF n.main \in ifaces THEN direct ELSE AddEntry(direct, n.main, last, 1)
      BY <1>2 DEF AddNeighbor
    <2>12. \A k \in DOMAIN state.links : GetMainAddress(state, state.links[k].iface) = n.main =>
              state.links[k].iface \in ifaces
      BY DEF LinksOf
    <2> HIDE DEF ifaces, n, links, last
    <2>13. /\ DOMAIN direct = DOMAIN table \cup ifaces
           /\ \A d \in ifaces : direct[d] = [next |-> d, distance |-> 1]
           /\ \A d \in DOMAIN table \ ifaces : direct[d] = table[d]
           /\ direct = [d \in DOMAIN table \cup ifaces |-> direct[d]]
      OBVIOUS
    <2> HIDE DEF direct
    <2>14. direct \in AnyTable
      <3>1. 1 \in 1 .. Cardinality(Addrs)
        BY AddressCount
      <3>2. \A d \in ifaces : direct[d] \in Entry
        BY <2>4, <2>13, <3>1 DEF Entry
      <3>3. \A d \in DOMAIN table \cup ifaces : direct[d] \in Entry
        BY <2>8, <2>13, <3>2
      <3>4. DOMAIN table \cup ifaces \in SUBSET Addrs
        BY <2>4, <2>8
      <3>5. QED BY <2>13, <3>3, <3>4, IsTable
    <2>15. \A d \in ifaces : DirectHop(state, excluded, direct, d)
      BY <1>2, <2>5, <2>6, <2>13 DEF DirectHop
    <2>16. ASSUME NEW d \in DOMAIN direct PROVE DirectHop(state, excluded, direct, direct[d].next)
      <3>1. CASE d \in ifaces
        BY <2>13, <2>15, <3>1
      <3>2. CASE d \notin ifaces
        <4>1. d \in DOMAIN table /\ direct[d] = table[d]
          BY <2>13, <3>2
        <4>2. DirectHop(state, excluded, table, table[d].next)
          BY <2>7, <4>1
        <4>3. CASE table[d].next \in ifaces
          BY <2>15, <4>1, <4>3
        <4>4. CASE table[d].next \notin ifaces
          <5>1. table[d].next \in DOMAIN direct /\ direct[table[d].next] = table[table[d].next]
            BY <2>13, <4>2, <4>4 DEF DirectHop
          <5>2. QED BY <4>1, <4>2, <5>1 DEF DirectHop
        <4>5. QED BY <4>3, <4>4
      <3>3. QED BY <3>1, <3>2
    <2>17. direct \in Tables(state, excluded)
      BY <2>14, <2>16 DEF Tables
    <2>18. CASE n.main \notin ifaces
      <3>1. last \in DOMAIN direct /\ direct[last].next = last
        BY <2>10, <2>13
      <3>2. \A d \in DOMAIN direct : direct[d].next # n.main
        <4> SUFFICES ASSUME NEW d \in DOMAIN direct, direct[d].next = n.main PROVE FALSE
          OBVIOUS
        <4>1. PICK k \in DOMAIN state.links : state.links[k].iface = n.main
          BY <2>16 DEF DirectHop
        <4>2. QED BY <2>1, <2>12, <2>18, <4>1 DEF IsMain
      <3>3. 1 \in 1 .. Cardinality(Addrs)
        BY AddressCount
      <3>4. AddEntry(direct, n.main, direct[last].next, 1) \in Tables(state, excluded)
        BY <2>1, <2>17, <3>1, <3>2, <3>3, AddEntryKeeps
      <3>5. QED BY <2>11, <2>18, <3>1, <3>4 DEF n
    <2>19. QED BY <2>11, <2>17, <2>18 DEF n
  <1>3. QED BY <1>1, <1>2

\* Step 3 for one two-hop neighbour: it is no neighbour, hence no direct hop.
LEMMA AddTwoHopKeeps ==
    ASSUME NEW state \in States, NEW excluded, NEW table \in Tables(state, excluded),
           NEW j \in DOMAIN state.twoHops
    PROVE  AddTwoHop(state, table, state.twoHops[j]) \in Tables(state, excluded)
  <1> DEFINE t == state.twoHops[j]
  <1>1. CASE ~(/\ ~SymNeighbor(state, t.twoHop) /\ t.twoHop # Self
               /\ WillingNeighbor(state, t.neighbor) /\ t.neighbor \in DOMAIN table)
    BY <1>1 DEF AddTwoHop
  <1>2. CASE /\ ~SymNeighbor(state, t.twoHop) /\ t.twoHop # Self
             /\ WillingNeighbor(state, t.neighbor) /\ t.neighbor \in DOMAIN table
    <2>1. t.twoHop \in Addrs /\ IsMain(state, t.twoHop)
      BY StateShape, StateElements DEF IsResolved, TwoHop
    <2>2. AddTwoHop(state, table, t) = AddEntry(table, t.twoHop, table[t.neighbor].next, 2)
      BY <1>2 DEF AddTwoHop
    <2> HIDE DEF t
    <2>3. table \in AnyTable /\ \A d \in DOMAIN table : DirectHop(state, excluded, table, table[d].next)
      BY DEF Tables
    <2>4. table[t.neighbor].next \in Ifaces
      BY <1>2, <2>3, TableShape DEF Entry
    <2>5. 2 \in 1 .. Cardinality(Addrs)
      BY <2>4, AddressCount
    <2>6. \A d \in DOMAIN table : table[d].next # t.twoHop
      BY <1>2, <2>1, <2>3 DEF DirectHop, IsMain
    <2>7. AddEntry(table, t.twoHop, table[t.neighbor].next, 2) \in Tables(state, excluded)
      BY <1>2, <2>1, <2>5, <2>6, AddEntryKeeps
    <2>8. QED BY <2>2, <2>7 DEF t
  <1>3. QED BY <1>1, <1>2

\* Step 3.1 for one topology tuple: only addresses without a route are added.
LEMMA AddFromTopologyKeeps ==
    ASSUME NEW state \in States, NEW excluded, NEW table \in Tables(state, excluded),
           NEW j \in DOMAIN state.topology, NEW h \in 1 .. Cardinality(Addrs) - 1
    PROVE  AddFromTopology(excluded, table, state.topology[j], h) \in Tables(state, excluded)
  <1> DEFINE t == state.topology[j]
  <1>1. CASE ~(/\ t.last \notin excluded /\ t.dest \notin DOMAIN table
               /\ t.last \in DOMAIN table /\ table[t.last].distance = h)
    BY <1>1 DEF AddFromTopology
  <1>2. CASE /\ t.last \notin excluded /\ t.dest \notin DOMAIN table
             /\ t.last \in DOMAIN table /\ table[t.last].distance = h
    <2>1. t.dest \in Addrs
      BY StateElements DEF Topology
    <2>2. AddFromTopology(excluded, table, t, h) = AddEntry(table, t.dest, table[t.last].next, h + 1)
      BY <1>2 DEF AddFromTopology
    <2> HIDE DEF t
    <2>3. \A d \in DOMAIN table : DirectHop(state, excluded, table, table[d].next)
      BY DEF Tables
    <2>4. h + 1 \in 1 .. Cardinality(Addrs)
      BY AddressCount
    <2>5. \A d \in DOMAIN table : table[d].next # t.dest
      BY <1>2, <2>3 DEF DirectHop
    <2>6. AddEntry(table, t.dest, table[t.last].next, h + 1) \in Tables(state, excluded)
      BY <1>2, <2>1, <2>4, <2>5, AddEntryKeeps
    <2>7. QED BY <2>2, <2>6 DEF t
  <1>3. QED BY <1>1, <1>2

\* Step 4: an associated address takes over its main address's entry.
LEMMA AddAssociatedKeeps ==
    ASSUME NEW state \in States, NEW excluded, NEW table \in Tables(state, excluded)
    PROVE  AddAssociated(table, state.assocs) \in Tables(state, excluded)
  <1> DEFINE more == AddAssociated(table, state.assocs)
             D == DOMAIN table \cup {i \in state.assocs : Main[i] \in DOMAIN table}
  <1>1. table \in AnyTable /\ \A d \in DOMAIN table : DirectHop(state, excluded, table, table[d].next)
    BY DEF Tables
  <1>2. DOMAIN table \in SUBSET Addrs /\ \A d \in DOMAIN table : table[d] \in Entry
    BY <1>1, TableShape
  <1>3. state.assocs \subseteq Addrs
    BY DEF States, Repositories
  <1>4. /\ D \in SUBSET Addrs /\ DOMAIN more = D /\ more = [d \in D |-> more[d]]
        /\ \A d \in DOMAIN table : more[d] = table[d]
        /\ \A d \in D \ DOMAIN table : Main[d] \in DOMAIN table /\ more[d] = table[Main[d]]
    BY <1>2, <1>3 DEF AddAssociated
  <1> HIDE DEF more, D
  <1>5. \A d \in D : \E e \in DOMAIN table : more[d] = table[e]
    BY <1>4
  <1>6. more \in AnyTable
    <2>1. \A d \in D : more[d] \in Entry
      BY <1>2, <1>5
    <2>2. QED BY <1>4, <2>1, IsTable
  <1>7. ASSUME NEW d \in DOMAIN more PROVE DirectHop(state, excluded, more, more[d].next)
    <2>1. PICK e \in DOMAIN table : more[d] = table[e]
      BY <1>4, <1>5
    <2>2. DirectHop(state, excluded, table, table[e].next)
      BY <1>1
    <2>3. table[e].next \in DOMAIN more /\ more[table[e].next] = table[table[e].next]
      BY <1>4, <2>2 DEF DirectHop, D
    <2>4. QED BY <2>1, <2>2, <2>3 DEF DirectHop
  <1>8. QED BY <1>6, <1>7 DEF Tables, more

\* The cleared table is closed.
LEMMA EmptyIsTable ==
    ASSUME NEW state, NEW excluded
    PROVE  Empty \in Tables(state, excluded)
  <1>1. DOMAIN Empty = {} /\ Empty = [d \in {} |-> Empty[d]]
    BY DEF Empty
  <1>2. Empty \in AnyTable
    BY <1>1, IsTable
  <1>3. QED BY <1>1, <1>2 DEF Tables

\* Step 2.
LEMMA NeighborTurns ==
    ASSUME NEW state \in States, NEW excluded
    PROVE  \E f : /\ f[0] = Empty
                  /\ \A k \in 1 .. Len(state.neighbors) : f[k] = AddNeighbor(state, excluded, f[k - 1], state.neighbors[k])
                  /\ \A k \in 0 .. Len(state.neighbors) : f[k] \in Tables(state, excluded)
                  /\ NeighborRoutes(state, excluded) = f[Len(state.neighbors)]
  <1> DEFINE T == Tables(state, excluded)
             n == Len(state.neighbors)
             Step(t, k) == AddNeighbor(state, excluded, t, state.neighbors[k])
             g == [p \in (1 .. n) \X T |-> Step(p[2], p[1])]
             Is(f) == f = [k \in 0 .. n |->
                 IF k = 0 THEN Empty ELSE AddNeighbor(state, excluded, f[k - 1], state.neighbors[k])]
             table == CHOOSE f : Is(f)
             U == {k \in 0 .. n : table[k] \in T}
  <1>1. n \in Nat /\ Empty \in T
    BY StateShape, EmptyIsTable
  <1>2. ASSUME NEW t \in T, NEW k \in 1 .. n PROVE Step(t, k) \in T
    <2>1. k \in DOMAIN state.neighbors
      BY StateShape
    <2>2. QED BY <2>1, AddNeighborKeeps
  <1>3. NeighborRoutes(state, excluded) = table[n]
    BY DEF NeighborRoutes
  <1>4. ASSUME NEW x
        PROVE  Is(x) <=> x = [k \in 0 .. n |-> IF k = 0 THEN Empty ELSE Step(x[k - 1], k)]
    OBVIOUS
  <1> HIDE DEF T, n, Step, Is
  <1>5. \A t \in T, k \in 1 .. n : g[<<k, t>>] = Step(t, k)
    BY <1>2
  <1>6. g \in [(1 .. n) \X T -> T]
    BY <1>2
  <1> HIDE DEF g
  <1>7. PICK f \in [0 .. n -> T] : IsLoop(f, n, Empty, g)
    BY <1>1, <1>6, LoopExists
  <1>8. ASSUME NEW k \in 0 .. n
        PROVE  f[k] = IF k = 0 THEN Empty ELSE Step(f[k - 1], k)
    <2>1. CASE k = 0
      BY <1>7, <2>1 DEF IsLoop
    <2>2. CASE k # 0
      <3>1. k \in 1 .. n /\ k - 1 \in 0 .. n
        BY <1>1, <2>2
      <3>2. f[k] = g[<<k, f[k - 1]>>] /\ f[k - 1] \in T
        BY <1>7, <3>1 DEF IsLoop
      <3>3. QED BY <1>5, <2>2, <3>1, <3>2
    <2>3. QED BY <2>1, <2>2
  <1>9. Is(f)
    <2>1. f = [k \in 0 .. n |-> IF k = 0 THEN Empty ELSE Step(f[k - 1], k)]
      BY <1>7, <1>8
    <2>2. QED BY <1>4, <2>1
  <1>10. Is(table)
    BY <1>9
  <1> HIDE DEF table
  <1>11. table[0] = Empty /\ \A k \in 1 .. n : table[k] = Step(table[k - 1], k)
    <2>1. table = [k \in 0 .. n |-> IF k = 0 THEN Empty ELSE Step(table[k - 1], k)]
      BY <1>4, <1>10
    <2>2. QED BY <1>1, <2>1
  <1>12. 0 \in U /\ \A k \in 1 .. n : k - 1 \in U => k \in U
    BY <1>1, <1>2, <1>11
  <1> HIDE DEF U
  <1>13. \A k \in 0 .. n : k \in U
    BY <1>1, <1>12, InductionUpTo
  <1>14. QED BY <1>3, <1>11, <1>13 DEF U, T, n, Step

\* The routes to neighbours are a closed table.
LEMMA NeighborRoutesKeeps ==
    ASSUME NEW state \in States, NEW excluded
    PROVE  NeighborRoutes(state, excluded) \in Tables(state, excluded)
  BY NeighborTurns, StateShape

\* Step 3, the two-hop neighbours.
LEMMA TwoHopTurns ==
    ASSUME NEW state \in States, NEW excluded,
           NEW neighbors \in Tables(state, excluded)
    PROVE  \E f : /\ f[0] = neighbors
                  /\ \A k \in 1 .. Len(state.twoHops) : f[k] = AddTwoHop(state, f[k - 1], state.twoHops[k])
                  /\ \A k \in 0 .. Len(state.twoHops) : f[k] \in Tables(state, excluded)
                  /\ TwoHopRoutes(state, neighbors) = f[Len(state.twoHops)]
  <1> DEFINE T == Tables(state, excluded)
             n == Len(state.twoHops)
             Step(t, k) == AddTwoHop(state, t, state.twoHops[k])
             g == [p \in (1 .. n) \X T |-> Step(p[2], p[1])]
             Is(f) == f = [k \in 0 .. n |->
                 IF k = 0 THEN neighbors ELSE AddTwoHop(state, f[k - 1], state.twoHops[k])]
             table == CHOOSE f : Is(f)
             U == {k \in 0 .. n : table[k] \in T}
  <1>1. n \in Nat /\ neighbors \in T
    BY StateShape
  <1>2. ASSUME NEW t \in T, NEW k \in 1 .. n PROVE Step(t, k) \in T
    <2>1. k \in DOMAIN state.twoHops
      BY StateShape
    <2>2. QED BY <2>1, AddTwoHopKeeps
  <1>3. TwoHopRoutes(state, neighbors) = table[n]
    BY DEF TwoHopRoutes
  <1>4. ASSUME NEW x
        PROVE  Is(x) <=> x = [k \in 0 .. n |-> IF k = 0 THEN neighbors ELSE Step(x[k - 1], k)]
    OBVIOUS
  <1> HIDE DEF T, n, Step, Is
  <1>5. \A t \in T, k \in 1 .. n : g[<<k, t>>] = Step(t, k)
    BY <1>2
  <1>6. g \in [(1 .. n) \X T -> T]
    BY <1>2
  <1> HIDE DEF g
  <1>7. PICK f \in [0 .. n -> T] : IsLoop(f, n, neighbors, g)
    BY <1>1, <1>6, LoopExists
  <1>8. ASSUME NEW k \in 0 .. n
        PROVE  f[k] = IF k = 0 THEN neighbors ELSE Step(f[k - 1], k)
    <2>1. CASE k = 0
      BY <1>7, <2>1 DEF IsLoop
    <2>2. CASE k # 0
      <3>1. k \in 1 .. n /\ k - 1 \in 0 .. n
        BY <1>1, <2>2
      <3>2. f[k] = g[<<k, f[k - 1]>>] /\ f[k - 1] \in T
        BY <1>7, <3>1 DEF IsLoop
      <3>3. QED BY <1>5, <2>2, <3>1, <3>2
    <2>3. QED BY <2>1, <2>2
  <1>9. Is(f)
    <2>1. f = [k \in 0 .. n |-> IF k = 0 THEN neighbors ELSE Step(f[k - 1], k)]
      BY <1>7, <1>8
    <2>2. QED BY <1>4, <2>1
  <1>10. Is(table)
    BY <1>9
  <1> HIDE DEF table
  <1>11. table[0] = neighbors /\ \A k \in 1 .. n : table[k] = Step(table[k - 1], k)
    <2>1. table = [k \in 0 .. n |-> IF k = 0 THEN neighbors ELSE Step(table[k - 1], k)]
      BY <1>4, <1>10
    <2>2. QED BY <1>1, <2>1
  <1>12. 0 \in U /\ \A k \in 1 .. n : k - 1 \in U => k \in U
    BY <1>1, <1>2, <1>11
  <1> HIDE DEF U
  <1>13. \A k \in 0 .. n : k \in U
    BY <1>1, <1>12, InductionUpTo
  <1>14. QED BY <1>3, <1>11, <1>13 DEF U, T, n, Step

\* The routes to two-hop neighbours keep it closed.
LEMMA TwoHopRoutesKeeps ==
    ASSUME NEW state \in States, NEW excluded,
           NEW neighbors \in Tables(state, excluded)
    PROVE  TwoHopRoutes(state, neighbors) \in Tables(state, excluded)
  BY TwoHopTurns, StateShape

\* Step 3.1, one turn.
LEMMA TopologyTurns ==
    ASSUME NEW state \in States, NEW excluded,
           NEW nearer \in Tables(state, excluded), NEW h \in 1 .. Cardinality(Addrs) - 1
    PROVE  \E f : /\ f[0] = nearer
                  /\ \A k \in 1 .. Len(state.topology) : f[k] = AddFromTopology(excluded, f[k - 1], state.topology[k], h)
                  /\ \A k \in 0 .. Len(state.topology) : f[k] \in Tables(state, excluded)
                  /\ RoutesFrom(state, excluded, nearer, h) = f[Len(state.topology)]
  <1> DEFINE T == Tables(state, excluded)
             n == Len(state.topology)
             Step(t, k) == AddFromTopology(excluded, t, state.topology[k], h)
             g == [p \in (1 .. n) \X T |-> Step(p[2], p[1])]
             Is(f) == f = [k \in 0 .. n |->
                 IF k = 0 THEN nearer ELSE AddFromTopology(excluded, f[k - 1], state.topology[k], h)]
             table == CHOOSE f : Is(f)
             U == {k \in 0 .. n : table[k] \in T}
  <1>1. n \in Nat /\ nearer \in T
    BY StateShape
  <1>2. ASSUME NEW t \in T, NEW k \in 1 .. n PROVE Step(t, k) \in T
    <2>1. k \in DOMAIN state.topology
      BY StateShape
    <2>2. QED BY <2>1, AddFromTopologyKeeps
  <1>3. RoutesFrom(state, excluded, nearer, h) = table[n]
    BY DEF RoutesFrom
  <1>4. ASSUME NEW x
        PROVE  Is(x) <=> x = [k \in 0 .. n |-> IF k = 0 THEN nearer ELSE Step(x[k - 1], k)]
    OBVIOUS
  <1> HIDE DEF T, n, Step, Is
  <1>5. \A t \in T, k \in 1 .. n : g[<<k, t>>] = Step(t, k)
    BY <1>2
  <1>6. g \in [(1 .. n) \X T -> T]
    BY <1>2
  <1> HIDE DEF g
  <1>7. PICK f \in [0 .. n -> T] : IsLoop(f, n, nearer, g)
    BY <1>1, <1>6, LoopExists
  <1>8. ASSUME NEW k \in 0 .. n
        PROVE  f[k] = IF k = 0 THEN nearer ELSE Step(f[k - 1], k)
    <2>1. CASE k = 0
      BY <1>7, <2>1 DEF IsLoop
    <2>2. CASE k # 0
      <3>1. k \in 1 .. n /\ k - 1 \in 0 .. n
        BY <1>1, <2>2
      <3>2. f[k] = g[<<k, f[k - 1]>>] /\ f[k - 1] \in T
        BY <1>7, <3>1 DEF IsLoop
      <3>3. QED BY <1>5, <2>2, <3>1, <3>2
    <2>3. QED BY <2>1, <2>2
  <1>9. Is(f)
    <2>1. f = [k \in 0 .. n |-> IF k = 0 THEN nearer ELSE Step(f[k - 1], k)]
      BY <1>7, <1>8
    <2>2. QED BY <1>4, <2>1
  <1>10. Is(table)
    BY <1>9
  <1> HIDE DEF table
  <1>11. table[0] = nearer /\ \A k \in 1 .. n : table[k] = Step(table[k - 1], k)
    <2>1. table = [k \in 0 .. n |-> IF k = 0 THEN nearer ELSE Step(table[k - 1], k)]
      BY <1>4, <1>10
    <2>2. QED BY <1>1, <2>1
  <1>12. 0 \in U /\ \A k \in 1 .. n : k - 1 \in U => k \in U
    BY <1>1, <1>2, <1>11
  <1> HIDE DEF U
  <1>13. \A k \in 0 .. n : k \in U
    BY <1>1, <1>12, InductionUpTo
  <1>14. QED BY <1>3, <1>11, <1>13 DEF U, T, n, Step

\* So does a turn of the topology walk.
LEMMA RoutesFromKeeps ==
    ASSUME NEW state \in States, NEW excluded,
           NEW nearer \in Tables(state, excluded), NEW h \in 1 .. Cardinality(Addrs) - 1
    PROVE  RoutesFrom(state, excluded, nearer, h) \in Tables(state, excluded)
  BY TopologyTurns, StateShape

\* Step 3.1, all turns.
LEMMA FurtherTurns ==
    ASSUME NEW state \in States, NEW excluded,
           NEW twoHops \in Tables(state, excluded)
    PROVE  \E f : /\ f[0] = twoHops
                  /\ \A k \in 1 .. Cardinality(Addrs) - 1 : f[k] = (IF k < WalkFrom THEN twoHops ELSE RoutesFrom(state, excluded, f[k - 1], k))
                  /\ \A k \in 0 .. Cardinality(Addrs) - 1 : f[k] \in Tables(state, excluded)
                  /\ FurtherRoutes(state, excluded, twoHops) = f[Cardinality(Addrs) - 1]
  <1> DEFINE T == Tables(state, excluded)
             n == Cardinality(Addrs) - 1
             Step(t, k) == IF k < WalkFrom THEN twoHops ELSE RoutesFrom(state, excluded, t, k)
             g == [p \in (1 .. n) \X T |-> Step(p[2], p[1])]
             Is(f) == f = [k \in 0 .. n |->
                 IF k < WalkFrom THEN twoHops ELSE RoutesFrom(state, excluded, f[k - 1], k)]
             table == CHOOSE f : Is(f)
             U == {k \in 0 .. n : table[k] \in T}
  <1>1. n \in Nat /\ twoHops \in T
    BY AddressCount
  <1>2. ASSUME NEW t \in T, NEW k \in 1 .. n PROVE Step(t, k) \in T
    BY AddressCount, RoutesFromKeeps DEF WalkFrom
  <1>3. FurtherRoutes(state, excluded, twoHops) = table[n]
    BY DEF FurtherRoutes
  <1>4. ASSUME NEW x
        PROVE  Is(x) <=> x = [k \in 0 .. n |-> IF k = 0 THEN twoHops ELSE Step(x[k - 1], k)]
    BY DEF WalkFrom
  <1> HIDE DEF T, n, Step, Is
  <1>5. \A t \in T, k \in 1 .. n : g[<<k, t>>] = Step(t, k)
    BY <1>2
  <1>6. g \in [(1 .. n) \X T -> T]
    BY <1>2
  <1> HIDE DEF g
  <1>7. PICK f \in [0 .. n -> T] : IsLoop(f, n, twoHops, g)
    BY <1>1, <1>6, LoopExists
  <1>8. ASSUME NEW k \in 0 .. n
        PROVE  f[k] = IF k = 0 THEN twoHops ELSE Step(f[k - 1], k)
    <2>1. CASE k = 0
      BY <1>7, <2>1 DEF IsLoop
    <2>2. CASE k # 0
      <3>1. k \in 1 .. n /\ k - 1 \in 0 .. n
        BY <1>1, <2>2
      <3>2. f[k] = g[<<k, f[k - 1]>>] /\ f[k - 1] \in T
        BY <1>7, <3>1 DEF IsLoop
      <3>3. QED BY <1>5, <2>2, <3>1, <3>2
    <2>3. QED BY <2>1, <2>2
  <1>9. Is(f)
    <2>1. f = [k \in 0 .. n |-> IF k = 0 THEN twoHops ELSE Step(f[k - 1], k)]
      BY <1>7, <1>8
    <2>2. QED BY <1>4, <2>1
  <1>10. Is(table)
    BY <1>9
  <1> HIDE DEF table
  <1>11. table[0] = twoHops /\ \A k \in 1 .. n : table[k] = Step(table[k - 1], k)
    <2>1. table = [k \in 0 .. n |-> IF k = 0 THEN twoHops ELSE Step(table[k - 1], k)]
      BY <1>4, <1>10
    <2>2. QED BY <1>1, <2>1
  <1>12. 0 \in U /\ \A k \in 1 .. n : k - 1 \in U => k \in U
    BY <1>1, <1>2, <1>11
  <1> HIDE DEF U
  <1>13. \A k \in 0 .. n : k \in U
    BY <1>1, <1>12, InductionUpTo
  <1>14. QED BY <1>3, <1>11, <1>13 DEF U, T, n, Step

\* So does the whole walk.
LEMMA FurtherRoutesKeeps ==
    ASSUME NEW state \in States, NEW excluded,
           NEW twoHops \in Tables(state, excluded)
    PROVE  FurtherRoutes(state, excluded, twoHops) \in Tables(state, excluded)
  BY FurtherTurns, AddressCount

\* The tables of either computation.
LEMMA CoreKeeps ==
    ASSUME NEW state \in States, NEW excluded
    PROVE  ComputeRoutingTableCore(state, excluded) \in Tables(state, excluded)
  <1> DEFINE neighbors == NeighborRoutes(state, excluded)
             twoHops == TwoHopRoutes(state, neighbors)
             further == FurtherRoutes(state, excluded, twoHops)
  <1>1. neighbors \in Tables(state, excluded)
    BY NeighborRoutesKeeps
  <1> HIDE DEF neighbors
  <1>2. twoHops \in Tables(state, excluded)
    BY <1>1, TwoHopRoutesKeeps
  <1> HIDE DEF twoHops
  <1>3. further \in Tables(state, excluded)
    BY <1>2, FurtherRoutesKeeps
  <1> HIDE DEF further
  <1>4. AddAssociated(further, state.assocs) \in Tables(state, excluded)
    BY <1>3, AddAssociatedKeeps
  <1>5. QED BY <1>4 DEF ComputeRoutingTableCore, neighbors, twoHops, further

-----------------------------------------------------------------------------
(* Reachability: the loop of ReachableFrom has as many turns as there are  *)
(* addresses, and each turn that is not the last adds one.                 *)

Spread(edges, S) == S \cup {e[2] : e \in {f \in edges : f[1] \in S}}

\* The turns of the loop.
LEMMA ReachableTurns ==
    ASSUME NEW start \in SUBSET Addrs, NEW edges \in SUBSET (Addrs \X Addrs)
    PROVE  \E w \in [0 .. Cardinality(Addrs) -> SUBSET Addrs] :
               /\ w[0] = start
               /\ \A k \in 1 .. Cardinality(Addrs) : w[k] = Spread(edges, w[k - 1])
               /\ ReachableFrom(start, edges) = w[Cardinality(Addrs)]
  <1> DEFINE T == SUBSET Addrs
             n == Cardinality(Addrs)
             Step(t) == Spread(edges, t)
             g == [p \in (1 .. n) \X T |-> Step(p[2])]
             Is(f) == f = [h \in 0 .. n |->
                 IF h = 0 THEN start
                 ELSE LET nearer == f[h - 1]
                      IN  nearer \cup {e[2] : e \in {f2 \in edges : f2[1] \in nearer}}]
             w == CHOOSE f : Is(f)
             U == {k \in 0 .. n : w[k] \in T}
  <1>1. n \in Nat /\ start \in T
    BY AddressCount
  <1>2. ASSUME NEW t \in T PROVE Step(t) \in T
    BY DEF Spread
  <1>3. ReachableFrom(start, edges) = w[n]
    BY DEF ReachableFrom
  <1>4. ASSUME NEW x
        PROVE  Is(x) <=> x = [k \in 0 .. n |-> IF k = 0 THEN start ELSE Step(x[k - 1])]
    BY DEF Spread
  <1> HIDE DEF T, n, Step, Is
  <1>5. \A t \in T, k \in 1 .. n : g[<<k, t>>] = Step(t)
    BY <1>2
  <1>6. g \in [(1 .. n) \X T -> T]
    BY <1>2
  <1> HIDE DEF g
  <1>7. PICK f \in [0 .. n -> T] : IsLoop(f, n, start, g)
    BY <1>1, <1>6, LoopExists
  <1>8. ASSUME NEW k \in 0 .. n
        PROVE  f[k] = IF k = 0 THEN start ELSE Step(f[k - 1])
    <2>1. CASE k = 0
      BY <1>7, <2>1 DEF IsLoop
    <2>2. CASE k # 0
      <3>1. k \in 1 .. n /\ k - 1 \in 0 .. n
        BY <1>1, <2>2
      <3>2. f[k] = g[<<k, f[k - 1]>>] /\ f[k - 1] \in T
        BY <1>7, <3>1 DEF IsLoop
      <3>3. QED BY <1>5, <2>2, <3>1, <3>2
    <2>3. QED BY <2>1, <2>2
  <1>9. Is(f)
    <2>1. f = [k \in 0 .. n |-> IF k = 0 THEN start ELSE Step(f[k - 1])]
      BY <1>7, <1>8
    <2>2. QED BY <1>4, <2>1
  <1>10. Is(w)
    BY <1>9
  <1> HIDE DEF w
  <1>11. w = [k \in 0 .. n |-> IF k = 0 THEN start ELSE Step(w[k - 1])]
    BY <1>4, <1>10
  <1>12. w[0] = start /\ \A k \in 1 .. n : w[k] = Step(w[k - 1])
    BY <1>1, <1>11
  <1>13. 0 \in U /\ \A k \in 1 .. n : k - 1 \in U => k \in U
    BY <1>1, <1>2, <1>12
  <1> HIDE DEF U
  <1>14. \A k \in 0 .. n : k \in U
    BY <1>1, <1>13, InductionUpTo
  <1>15. w \in [0 .. n -> T]
    <2>1. \A k \in 0 .. n : w[k] \in T
      BY <1>14 DEF U
    <2>2. w = [k \in 0 .. n |-> w[k]]
      BY <1>11
    <2>3. QED BY <2>1, <2>2
  <1>16. QED BY <1>3, <1>12, <1>15 DEF T, n, Step

\* Whatever contains the start and is closed contains all that is reachable.
LEMMA ReachableLeast ==
    ASSUME NEW start \in SUBSET Addrs, NEW edges \in SUBSET (Addrs \X Addrs),
           NEW T, start \subseteq T, \A e \in edges : e[1] \in T => e[2] \in T
    PROVE  ReachableFrom(start, edges) \subseteq T
  <1> DEFINE n == Cardinality(Addrs)
  <1>1. PICK w \in [0 .. n -> SUBSET Addrs] :
            /\ w[0] = start
            /\ \A k \in 1 .. n : w[k] = Spread(edges, w[k - 1])
            /\ ReachableFrom(start, edges) = w[n]
    BY ReachableTurns
  <1> DEFINE U == {k \in 0 .. n : w[k] \subseteq T}
  <1>2. n \in Nat
    BY AddressCount
  <1> HIDE DEF n
  <1>3. 0 \in U
    BY <1>1, <1>2
  <1>4. \A k \in 1 .. n : k - 1 \in U => k \in U
    BY <1>1, <1>2 DEF Spread
  <1> HIDE DEF U
  <1>5. \A k \in 0 .. n : k \in U
    BY <1>2, <1>3, <1>4, InductionUpTo
  <1>6. QED BY <1>1, <1>2, <1>5 DEF U

\* All that is reachable contains the start and is closed.
LEMMA ReachableClosed ==
    ASSUME NEW start \in SUBSET Addrs, NEW edges \in SUBSET (Addrs \X Addrs)
    PROVE  /\ ReachableFrom(start, edges) \subseteq Addrs
           /\ start \subseteq ReachableFrom(start, edges)
           /\ \A e \in edges : e[1] \in ReachableFrom(start, edges)
                                   => e[2] \in ReachableFrom(start, edges)
  <1> DEFINE n == Cardinality(Addrs)
  <1>1. PICK w \in [0 .. n -> SUBSET Addrs] :
            /\ w[0] = start
            /\ \A k \in 1 .. n : w[k] = Spread(edges, w[k - 1])
            /\ ReachableFrom(start, edges) = w[n]
    BY ReachableTurns
  <1> DEFINE U == {k \in 0 .. n : start \subseteq w[k]}
             Stable(k) == Spread(edges, w[k]) = w[k]
             V == {k \in 0 .. n : Stable(k) \/ Cardinality(w[k]) >= k}
  <1>2. n \in Nat /\ IsFiniteSet(Addrs)
    BY AddressCount, RoutingAssumption
  <1>3. \A k \in 0 .. n : w[k] \subseteq Addrs /\ IsFiniteSet(w[k]) /\ Cardinality(w[k]) \in Nat
    BY <1>1, <1>2, FS_Subset, FS_CardinalityType
  <1>4. 0 \in U /\ \A k \in 1 .. n : k - 1 \in U => k \in U
    <2> HIDE DEF n
    <2>1. QED BY <1>1, <1>2 DEF Spread
  <1>5. 0 \in V
    <2>1. Cardinality(w[0]) >= 0
      BY <1>2, <1>3
    <2>2. QED BY <1>2, <2>1
  <1>6. ASSUME NEW k \in 1 .. n, k - 1 \in V PROVE k \in V
    <2>1. k \in 0 .. n /\ k - 1 \in 0 .. n
      BY <1>2
    <2>2. w[k] = Spread(edges, w[k - 1])
      BY <1>1
    <2>3. CASE Stable(k - 1)
      <3>1. Stable(k)
        BY <2>2, <2>3
      <3>2. QED BY <2>1, <3>1
    <2>4. CASE ~Stable(k - 1)
      <3>1. w[k - 1] \subseteq w[k] /\ w[k - 1] # w[k]
        BY <2>2, <2>4 DEF Spread
      <3>2. Cardinality(w[k - 1]) < Cardinality(w[k])
        BY <1>3, <2>1, <3>1, FS_Subset
      <3>3. Cardinality(w[k - 1]) >= k - 1
        BY <1>6, <2>4
      <3>4. Cardinality(w[k]) >= k
        BY <1>3, <2>1, <3>2, <3>3
      <3>5. QED BY <2>1, <3>4
    <2>5. QED BY <2>3, <2>4
  <1> HIDE DEF U, V
  <1>7. n \in U /\ n \in V
    <2>1. (\A k \in 0 .. n : k \in U) /\ (\A k \in 0 .. n : k \in V)
      <3> HIDE DEF n
      <3>1. QED BY <1>2, <1>4, <1>5, <1>6, InductionUpTo
    <2>2. QED BY <1>2, <2>1
  <1>8. Stable(n)
    <2>1. CASE ~Stable(n)
      <3>1. Cardinality(w[n]) >= n
        BY <1>7, <2>1 DEF V
      <3>2. n \in 0 .. n
        BY <1>2
      <3>3. w[n] = Addrs
        BY <1>2, <1>3, <3>1, <3>2, FS_Subset
      <3>4. Spread(edges, w[n]) = w[n]
        BY <3>3 DEF Spread
      <3>5. QED BY <3>4
    <2>2. QED BY <2>1
  <1>9. \A e \in edges : e[1] \in w[n] => e[2] \in w[n]
    BY <1>8 DEF Spread
  <1>10. start \subseteq w[n] /\ w[n] \subseteq Addrs
    <2>1. n \in 0 .. n
      BY <1>2
    <2>2. QED BY <1>3, <1>7, <2>1 DEF U
  <1>11. QED BY <1>1, <1>9, <1>10

-----------------------------------------------------------------------------
(* What a table is compared with: each destination lies behind its next    *)
(* hop, and the next hop is one this node hears.                           *)

Behind(state, next) ==
    ReachableFrom({next, GetMainAddress(state, next)}, Adjacent(state, {}))

Sound(state, table) == \A d \in DOMAIN table : d \in Behind(state, table[d].next)

\* The edges of the recorded graph.
LEMMA AdjacentShape ==
    ASSUME NEW state \in States
    PROVE  /\ Adjacent(state, {}) \in SUBSET (Addrs \X Addrs)
           /\ \A k \in DOMAIN state.twoHops :
                  WillingNeighbor(state, state.twoHops[k].neighbor) =>
                      <<state.twoHops[k].neighbor, state.twoHops[k].twoHop>> \in Adjacent(state, {})
           /\ \A k \in DOMAIN state.topology :
                  <<state.topology[k].last, state.topology[k].dest>> \in Adjacent(state, {})
           /\ \A a \in state.assocs : <<Main[a], a>> \in Adjacent(state, {})
  <1> DEFINE heard == {<<t.neighbor, t.twoHop>> :
                          t \in {u \in ToSet(state.twoHops) : WillingNeighbor(state, u.neighbor)}}
             told == {<<t.last, t.dest>> : t \in {u \in ToSet(state.topology) : u.last \notin {}}}
             down == {<<Main[a], a>> : a \in state.assocs}
             up == {<<a, Main[a]>> : a \in state.assocs}
  <1>1. Adjacent(state, {}) = heard \cup told \cup down \cup up
    BY DEF Adjacent
  <1>2. ToSet(state.twoHops) \subseteq TwoHop /\ ToSet(state.topology) \subseteq Topology
    BY StateShape, ListOfToSet
  <1>3. heard \in SUBSET (Addrs \X Addrs)
    BY <1>2 DEF TwoHop
  <1>4. told \in SUBSET (Addrs \X Addrs)
    BY <1>2 DEF Topology
  <1>5. down \in SUBSET (Addrs \X Addrs) /\ up \in SUBSET (Addrs \X Addrs)
    BY StateShape, RoutingAssumption
  <1>6. ASSUME NEW k \in DOMAIN state.twoHops, WillingNeighbor(state, state.twoHops[k].neighbor)
        PROVE  <<state.twoHops[k].neighbor, state.twoHops[k].twoHop>> \in heard
    <2>1. state.twoHops[k] \in ToSet(state.twoHops)
      BY DEF ToSet
    <2>2. QED BY <1>6, <2>1
  <1>7. ASSUME NEW k \in DOMAIN state.topology
        PROVE  <<state.topology[k].last, state.topology[k].dest>> \in told
    <2>1. state.topology[k] \in ToSet(state.topology)
      BY DEF ToSet
    <2>2. QED BY <2>1
  <1>8. \A a \in state.assocs : <<Main[a], a>> \in down
    OBVIOUS
  <1> HIDE DEF heard, told, down, up
  <1>9. QED BY <1>1, <1>3, <1>4, <1>5, <1>6, <1>7, <1>8

\* Behind a next hop: the hop, its main address and whatever is adjacent.
LEMMA BehindFacts ==
    ASSUME NEW state \in States, NEW next \in Addrs
    PROVE  /\ next \in Behind(state, next) /\ GetMainAddress(state, next) \in Behind(state, next)
           /\ \A a, b : a \in Behind(state, next) /\ <<a, b>> \in Adjacent(state, {})
                            => b \in Behind(state, next)
  <1>1. {next, GetMainAddress(state, next)} \in SUBSET Addrs
    BY RoutingAssumption DEF GetMainAddress
  <1>2. Adjacent(state, {}) \in SUBSET (Addrs \X Addrs)
    BY AdjacentShape
  <1>3. /\ {next, GetMainAddress(state, next)} \subseteq Behind(state, next)
        /\ \A e \in Adjacent(state, {}) : e[1] \in Behind(state, next) => e[2] \in Behind(state, next)
    BY <1>1, <1>2, ReachableClosed DEF Behind
  <1>4. QED BY <1>3

\* The next hop of an entry.
LEMMA NextIsAddress ==
    ASSUME NEW state, NEW excluded, NEW table \in Tables(state, excluded), NEW d \in DOMAIN table
    PROVE  /\ table[d].next \in Addrs /\ table[d].distance \in 1 .. Cardinality(Addrs)
           /\ d \in Addrs
  <1>1. table \in AnyTable
    BY DEF Tables
  <1>2. table[d] \in Entry /\ d \in Addrs
    BY <1>1, TableShape
  <1>3. QED BY <1>2, RoutingAssumption DEF Entry

\* An entry behind a sound next hop, over a recorded edge.
LEMMA AddEntrySound ==
    ASSUME NEW state \in States, NEW excluded, NEW table \in Tables(state, excluded),
           Sound(state, table), NEW hop \in DOMAIN table, NEW dest, NEW distance,
           <<hop, dest>> \in Adjacent(state, {})
    PROVE  Sound(state, AddEntry(table, dest, table[hop].next, distance))
  <1>1. hop \in Behind(state, table[hop].next) /\ table[hop].next \in Addrs
    BY NextIsAddress DEF Sound
  <1>2. dest \in Behind(state, table[hop].next)
    BY <1>1, BehindFacts
  <1>3. QED BY <1>2 DEF Sound, AddEntry

\* A neighbour is a sound route.
LEMMA AddNeighborSound ==
    ASSUME NEW state \in States, NEW excluded, NEW table \in Tables(state, excluded),
           Sound(state, table), NEW j \in DOMAIN state.neighbors
    PROVE  Sound(state, AddNeighbor(state, excluded, table, state.neighbors[j]))
  <1> DEFINE n == state.neighbors[j]
             links == LinksOf(state, n.main)
             ifaces == {state.links[k].iface : k \in links}
             direct == [d \in DOMAIN table \cup ifaces |->
                           IF d \in ifaces THEN [next |-> d, distance |-> 1] ELSE table[d]]
             last == state.links[Max(links)].iface
  <1>1. CASE ~n.sym \/ n.main \in excluded \/ links = {}
    BY <1>1 DEF AddNeighbor
  <1>2. CASE n.sym /\ n.main \notin excluded /\ links # {}
    <2>1. links \subseteq DOMAIN state.links /\ \A k \in links : GetMainAddress(state, state.links[k].iface) = n.main
      BY DEF LinksOf
    <2>2. \A k \in links : state.links[k].iface \in Addrs
      BY <2>1, StateElements, RoutingAssumption DEF Link
    <2>3. Max(links) \in links
      <3>1. Len(state.links) \in Nat /\ DOMAIN state.links = 1 .. Len(state.links)
        BY StateShape
      <3>2. links \in SUBSET (1 .. Len(state.links))
        BY <2>1, <3>1
      <3>3. QED BY <1>2, <3>1, <3>2, MaxIn
    <2>4. last \in Addrs /\ GetMainAddress(state, last) = n.main
      BY <2>1, <2>2, <2>3
    <2>5. \A d \in ifaces : d \in Addrs
      BY <2>2
    <2>6. AddNeighbor(state, excluded, table, n) =
              IF n.main \in ifaces THEN direct ELSE AddEntry(direct, n.main, last, 1)
      BY <1>2 DEF AddNeighbor
    <2> HIDE DEF ifaces, links, last, n
    <2>7. Sound(state, direct)
      <3> SUFFICES ASSUME NEW d \in DOMAIN direct PROVE d \in Behind(state, direct[d].next)
        BY DEF Sound
      <3>1. CASE d \in ifaces
        <4>1. direct[d].next = d
          BY <3>1
        <4>2. QED BY <2>5, <3>1, <4>1, BehindFacts
      <3>2. CASE d \notin ifaces
        <4>1. d \in DOMAIN table /\ direct[d] = table[d]
          BY <3>2
        <4>2. QED BY <4>1 DEF Sound
      <3>3. QED BY <3>1, <3>2
    <2> HIDE DEF direct
    <2>8. n.main \in Behind(state, last)
      BY <2>4, BehindFacts
    <2>9. Sound(state, AddEntry(direct, n.main, last, 1))
      BY <2>7, <2>8 DEF Sound, AddEntry
    <2>10. QED BY <2>6, <2>7, <2>9 DEF n
  <1>3. QED BY <1>1, <1>2

\* A two-hop neighbour lies behind a recorded edge.
LEMMA AddTwoHopSound ==
    ASSUME NEW state \in States, NEW excluded, NEW table \in Tables(state, excluded),
           Sound(state, table), NEW j \in DOMAIN state.twoHops
    PROVE  Sound(state, AddTwoHop(state, table, state.twoHops[j]))
  <1>1. WillingNeighbor(state, state.twoHops[j].neighbor) =>
            <<state.twoHops[j].neighbor, state.twoHops[j].twoHop>> \in Adjacent(state, {})
    BY AdjacentShape
  <1>2. QED BY <1>1, AddEntrySound DEF AddTwoHop

\* So does the destination of a topology tuple.
LEMMA AddFromTopologySound ==
    ASSUME NEW state \in States, NEW excluded, NEW table \in Tables(state, excluded),
           Sound(state, table), NEW j \in DOMAIN state.topology, NEW h
    PROVE  Sound(state, AddFromTopology(excluded, table, state.topology[j], h))
  <1>1. <<state.topology[j].last, state.topology[j].dest>> \in Adjacent(state, {})
    BY AdjacentShape
  <1>2. QED BY <1>1, AddEntrySound DEF AddFromTopology

\* So does an interface behind its main address.
LEMMA AddAssociatedSound ==
    ASSUME NEW state \in States, NEW excluded, NEW table \in Tables(state, excluded),
           Sound(state, table)
    PROVE  Sound(state, AddAssociated(table, state.assocs))
  <1> DEFINE more == AddAssociated(table, state.assocs)
  <1> SUFFICES ASSUME NEW d \in DOMAIN more PROVE d \in Behind(state, more[d].next)
    BY DEF Sound
  <1>1. CASE d \in DOMAIN table
    <2>1. more[d] = table[d]
      BY <1>1 DEF AddAssociated
    <2>2. QED BY <1>1, <2>1 DEF Sound
  <1>2. CASE d \notin DOMAIN table
    <2>1. d \in state.assocs /\ Main[d] \in DOMAIN table /\ more[d] = table[Main[d]]
      BY <1>2 DEF AddAssociated
    <2>2. Main[d] \in Behind(state, table[Main[d]].next) /\ table[Main[d]].next \in Addrs
      BY <2>1, NextIsAddress DEF Sound
    <2>3. <<Main[d], d>> \in Adjacent(state, {})
      BY <2>1, AdjacentShape
    <2>4. QED BY <2>1, <2>2, <2>3, BehindFacts
  <1>3. QED BY <1>1, <1>2

\* A loop all of whose turns are sound.
LEMMA SoundAfter ==
    ASSUME NEW state, NEW n \in Nat, NEW f, Sound(state, f[0]),
           \A k \in 1 .. n : Sound(state, f[k - 1]) => Sound(state, f[k])
    PROVE  Sound(state, f[n])
  <1> DEFINE U == {k \in 0 .. n : Sound(state, f[k])}
  <1>1. 0 \in U /\ \A k \in 1 .. n : k - 1 \in U => k \in U
    <2> SUFFICES ASSUME NEW k \in 1 .. n, k - 1 \in U PROVE k \in U
      OBVIOUS
    <2>1. k \in 0 .. n
      OBVIOUS
    <2>2. QED BY <2>1
  <1> HIDE DEF U
  <1>2. n \in 0 .. n /\ \A k \in 0 .. n : k \in U
    BY <1>1, InductionUpTo
  <1>3. QED BY <1>2 DEF U

\* Every destination of a computed table lies behind its next hop.
LEMMA CoreSound ==
    ASSUME NEW state \in States, NEW excluded
    PROVE  Sound(state, ComputeRoutingTableCore(state, excluded))
  <1> DEFINE neighbors == NeighborRoutes(state, excluded)
             twoHops == TwoHopRoutes(state, neighbors)
             further == FurtherRoutes(state, excluded, twoHops)
             N == Cardinality(Addrs) - 1
  <1>1. Sound(state, neighbors)
    <2>1. PICK f : /\ f[0] = Empty
                   /\ \A k \in 1 .. Len(state.neighbors) :
                          f[k] = AddNeighbor(state, excluded, f[k - 1], state.neighbors[k])
                   /\ \A k \in 0 .. Len(state.neighbors) : f[k] \in Tables(state, excluded)
                   /\ neighbors = f[Len(state.neighbors)]
      BY NeighborTurns
    <2>2. Len(state.neighbors) \in Nat /\ DOMAIN state.neighbors = 1 .. Len(state.neighbors)
      BY StateShape
    <2>3. Sound(state, f[0])
      BY <2>1 DEF Sound, Empty
    <2>4. ASSUME NEW k \in 1 .. Len(state.neighbors), Sound(state, f[k - 1]) PROVE Sound(state, f[k])
      <3>1. k \in DOMAIN state.neighbors /\ f[k - 1] \in Tables(state, excluded)
        BY <2>1, <2>2
      <3>2. QED BY <2>1, <2>4, <3>1, AddNeighborSound
    <2>5. Sound(state, f[Len(state.neighbors)])
      BY <2>2, <2>3, <2>4, SoundAfter
    <2>6. QED BY <2>1, <2>5
  <1>2. neighbors \in Tables(state, excluded)
    BY NeighborRoutesKeeps
  <1> HIDE DEF neighbors
  <1>3. Sound(state, twoHops)
    <2>1. PICK f : /\ f[0] = neighbors
                   /\ \A k \in 1 .. Len(state.twoHops) :
                          f[k] = AddTwoHop(state, f[k - 1], state.twoHops[k])
                   /\ \A k \in 0 .. Len(state.twoHops) : f[k] \in Tables(state, excluded)
                   /\ twoHops = f[Len(state.twoHops)]
      BY <1>2, TwoHopTurns
    <2>2. Len(state.twoHops) \in Nat /\ DOMAIN state.twoHops = 1 .. Len(state.twoHops)
      BY StateShape
    <2>3. Sound(state, f[0])
      BY <1>1, <2>1
    <2>4. ASSUME NEW k \in 1 .. Len(state.twoHops), Sound(state, f[k - 1]) PROVE Sound(state, f[k])
      <3>1. k \in DOMAIN state.twoHops /\ f[k - 1] \in Tables(state, excluded)
        BY <2>1, <2>2
      <3>2. QED BY <2>1, <2>4, <3>1, AddTwoHopSound
    <2>5. Sound(state, f[Len(state.twoHops)])
      BY <2>2, <2>3, <2>4, SoundAfter
    <2>6. QED BY <2>1, <2>5
  <1>4. twoHops \in Tables(state, excluded)
    BY <1>2, TwoHopRoutesKeeps
  <1> HIDE DEF twoHops
  <1>5. ASSUME NEW nearer \in Tables(state, excluded), Sound(state, nearer), NEW h \in 1 .. N
        PROVE  Sound(state, RoutesFrom(state, excluded, nearer, h))
    <2>1. PICK f : /\ f[0] = nearer
                   /\ \A k \in 1 .. Len(state.topology) :
                          f[k] = AddFromTopology(excluded, f[k - 1], state.topology[k], h)
                   /\ \A k \in 0 .. Len(state.topology) : f[k] \in Tables(state, excluded)
                   /\ RoutesFrom(state, excluded, nearer, h) = f[Len(state.topology)]
      BY TopologyTurns
    <2>2. Len(state.topology) \in Nat /\ DOMAIN state.topology = 1 .. Len(state.topology)
      BY StateShape
    <2>3. Sound(state, f[0])
      BY <1>5, <2>1
    <2>4. ASSUME NEW k \in 1 .. Len(state.topology), Sound(state, f[k - 1]) PROVE Sound(state, f[k])
      <3>1. k \in DOMAIN state.topology /\ f[k - 1] \in Tables(state, excluded)
        BY <2>1, <2>2
      <3>2. QED BY <2>1, <2>4, <3>1, AddFromTopologySound
    <2>5. Sound(state, f[Len(state.topology)])
      BY <2>2, <2>3, <2>4, SoundAfter
    <2>6. QED BY <2>1, <2>5
  <1>6. Sound(state, further)
    <2>1. PICK f : /\ f[0] = twoHops
                   /\ \A k \in 1 .. N : f[k] = (IF k < WalkFrom THEN twoHops
                                                ELSE RoutesFrom(state, excluded, f[k - 1], k))
                   /\ \A k \in 0 .. N : f[k] \in Tables(state, excluded)
                   /\ further = f[N]
      BY <1>4, FurtherTurns
    <2>2. N \in Nat
      BY AddressCount
    <2>3. Sound(state, f[0])
      BY <1>3, <2>1
    <2> HIDE DEF N
    <2>4. ASSUME NEW k \in 1 .. N, Sound(state, f[k - 1]) PROVE Sound(state, f[k])
      <3>1. k - 1 \in 0 .. N
        BY <2>2
      <3>2. Sound(state, RoutesFrom(state, excluded, f[k - 1], k))
        BY <1>5, <2>1, <2>4, <3>1
      <3>3. QED BY <1>3, <2>1, <3>2
    <2>5. QED BY <2>1, <2>2, <2>3, <2>4, SoundAfter
  <1>7. further \in Tables(state, excluded)
    BY <1>4, FurtherRoutesKeeps
  <1> HIDE DEF further
  <1>8. Sound(state, AddAssociated(further, state.assocs))
    BY <1>6, <1>7, AddAssociatedSound
  <1>9. QED BY <1>8 DEF ComputeRoutingTableCore, neighbors, twoHops, further

-----------------------------------------------------------------------------
(* What a table must contain: a loop never loses a destination, so what    *)
(* one turn adds is still there after the last.                            *)

\* A loop that only adds destinations.
LEMMA DomainGrows ==
    ASSUME NEW n \in Nat, NEW f, \A k \in 1 .. n : DOMAIN f[k - 1] \subseteq DOMAIN f[k]
    PROVE  \A j \in 0 .. n : DOMAIN f[j] \subseteq DOMAIN f[n]
  <1> SUFFICES ASSUME NEW j \in 0 .. n, NEW d \in DOMAIN f[j] PROVE d \in DOMAIN f[n]
    OBVIOUS
  <1> DEFINE U == {k \in 0 .. n : k < j \/ d \in DOMAIN f[k]}
  <1>1. 0 \in U
    OBVIOUS
  <1>2. ASSUME NEW k \in 1 .. n, k - 1 \in U PROVE k \in U
    <2>1. CASE k < j
      BY <2>1
    <2>2. CASE k = j
      BY <2>2
    <2>3. CASE j < k
      <3>1. d \in DOMAIN f[k - 1]
        BY <1>2, <2>3
      <3>2. QED BY <3>1
    <2>4. QED BY <2>1, <2>2, <2>3
  <1> HIDE DEF U
  <1>3. n \in 0 .. n /\ \A k \in 0 .. n : k \in U
    BY <1>1, <1>2, InductionUpTo
  <1>4. QED BY <1>3 DEF U

\* The only direct routes are to addresses of neighbours.
Near(state, excluded, table) ==
    \A d \in DOMAIN table : table[d].distance = 1 => d \in HeardNodes(state, excluded)

\* A neighbour's addresses, as step 2 finds them.
LEMMA HeardFrom ==
    ASSUME NEW state \in States, NEW excluded, NEW j \in DOMAIN state.neighbors, NEW a \in Addrs,
           state.neighbors[j].sym, state.neighbors[j].main \notin excluded,
           LinksOf(state, state.neighbors[j].main) # {},
           GetMainAddress(state, a) = state.neighbors[j].main,
           a = state.neighbors[j].main \/ \E k \in DOMAIN state.links : state.links[k].iface = a
    PROVE  a \in HeardNodes(state, excluded)
  <1>1. state.neighbors[j] \in ToSet(state.neighbors)
    BY DEF ToSet
  <1>2. a = state.neighbors[j].main \/ \E l \in ToSet(state.links) : l.iface = a
    BY DEF ToSet
  <1>3. QED BY <1>1, <1>2 DEF HeardNodes

\* The next hop of any entry is an address of a neighbour.
LEMMA NextIsHeard ==
    ASSUME NEW state \in States, NEW excluded, NEW table \in Tables(state, excluded),
           NEW d \in DOMAIN table
    PROVE  table[d].next \in HeardNodes(state, excluded)
  <1> DEFINE next == table[d].next
  <1>1. DirectHop(state, excluded, table, next) /\ next \in Addrs
    BY NextIsAddress DEF Tables
  <1> HIDE DEF next
  <1>2. PICK j \in DOMAIN state.neighbors :
            state.neighbors[j].main = GetMainAddress(state, next) /\ state.neighbors[j].sym
    BY <1>1 DEF DirectHop, SymNeighbor
  <1>3. LinksOf(state, state.neighbors[j].main) # {}
    BY <1>1, <1>2 DEF DirectHop, LinksOf
  <1>4. next \in HeardNodes(state, excluded)
    BY <1>1, <1>2, <1>3, HeardFrom DEF DirectHop
  <1>5. QED BY <1>4 DEF next

\* Step 2 for one neighbour: all of its addresses, and nothing lost.
LEMMA AddNeighborAdds ==
    ASSUME NEW state \in States, NEW excluded, NEW table \in Tables(state, excluded),
           NEW j \in DOMAIN state.neighbors
    PROVE  LET n == state.neighbors[j]
               more == AddNeighbor(state, excluded, table, n)
           IN  /\ DOMAIN table \subseteq DOMAIN more
               /\ (\A d \in DOMAIN table : d \in HeardNodes(state, excluded))
                     => \A d \in DOMAIN more : d \in HeardNodes(state, excluded)
               /\ n.sym /\ n.main \notin excluded /\ LinksOf(state, n.main) # {} =>
                     /\ n.main \in DOMAIN more
                     /\ \A k \in LinksOf(state, n.main) : state.links[k].iface \in DOMAIN more
  <1> DEFINE n == state.neighbors[j]
             links == LinksOf(state, n.main)
             ifaces == {state.links[k].iface : k \in links}
             direct == [d \in DOMAIN table \cup ifaces |->
                           IF d \in ifaces THEN [next |-> d, distance |-> 1] ELSE table[d]]
             last == state.links[Max(links)].iface
             more == AddNeighbor(state, excluded, table, n)
  <1>1. CASE ~n.sym \/ n.main \in excluded \/ links = {}
    BY <1>1 DEF AddNeighbor
  <1>2. CASE n.sym /\ n.main \notin excluded /\ links # {}
    <2>1. DOMAIN more = DOMAIN table \cup ifaces \cup {n.main}
      BY <1>2 DEF AddNeighbor, AddEntry
    <2>2. n.main \in Addrs /\ GetMainAddress(state, n.main) = n.main
      BY StateShape, StateElements DEF IsResolved, Neighbor, IsMain
    <2>3. n.main \in HeardNodes(state, excluded)
      BY <1>2, <2>2, HeardFrom
    <2>4. ASSUME NEW d \in ifaces PROVE d \in HeardNodes(state, excluded)
      <3>1. PICK k \in DOMAIN state.links :
                d = state.links[k].iface /\ GetMainAddress(state, d) = n.main
        BY <2>4 DEF LinksOf
      <3>2. d \in Addrs
        BY <3>1, StateElements, RoutingAssumption DEF Link
      <3>3. QED BY <1>2, <3>1, <3>2, HeardFrom
    <2> HIDE DEF more, n
    <2>5. QED BY <2>1, <2>3, <2>4 DEF more, n
  <1>3. QED BY <1>1, <1>2

\* After step 2 exactly the neighbours' addresses are known.
LEMMA NeighborRoutesAreHeard ==
    ASSUME NEW state \in States, NEW excluded
    PROVE  DOMAIN NeighborRoutes(state, excluded) = HeardNodes(state, excluded)
  <1> DEFINE last == Len(state.neighbors)
             heard == HeardNodes(state, excluded)
  <1>1. PICK f : /\ f[0] = Empty
                 /\ \A k \in 1 .. last : f[k] = AddNeighbor(state, excluded, f[k - 1], state.neighbors[k])
                 /\ \A k \in 0 .. last : f[k] \in Tables(state, excluded)
                 /\ NeighborRoutes(state, excluded) = f[last]
    BY NeighborTurns
  <1>2. last \in Nat /\ DOMAIN state.neighbors = 1 .. last
    BY StateShape
  <1> DEFINE U == {k \in 0 .. last : \A d \in DOMAIN f[k] : d \in heard}
  <1>3. ASSUME NEW k \in 1 .. last
        PROVE  /\ k \in DOMAIN state.neighbors /\ f[k - 1] \in Tables(state, excluded)
               /\ f[k] = AddNeighbor(state, excluded, f[k - 1], state.neighbors[k])
    BY <1>1, <1>2
  <1> HIDE DEF last
  <1>4. \A k \in 1 .. last : DOMAIN f[k - 1] \subseteq DOMAIN f[k]
    BY <1>3, AddNeighborAdds
  <1>5. ASSUME NEW k \in 1 .. last, k - 1 \in U PROVE k \in U
    <2>1. \A d \in DOMAIN f[k] : d \in heard
      BY <1>3, <1>5, AddNeighborAdds
    <2>2. k \in 0 .. last
      BY <1>2
    <2>3. QED BY <2>1, <2>2
  <1>6. 0 \in U
    BY <1>1, <1>2 DEF Empty
  <1> HIDE DEF U
  <1>7. DOMAIN f[last] \subseteq heard
    <2>1. \A k \in 1 .. last : k - 1 \in U => k \in U
      BY <1>5
    <2>2. \A k \in 0 .. last : k \in U
      BY <1>2, <1>6, <2>1, InductionUpTo
    <2>3. last \in 0 .. last
      BY <1>2
    <2>4. QED BY <2>2, <2>3 DEF U
  <1>8. ASSUME NEW a \in heard PROVE a \in DOMAIN f[last]
    <2>1. PICK n \in ToSet(state.neighbors) :
              /\ n.sym /\ n.main \notin excluded /\ LinksOf(state, n.main) # {}
              /\ GetMainAddress(state, a) = n.main
              /\ a = n.main \/ \E l \in ToSet(state.links) : l.iface = a
      BY <1>8 DEF HeardNodes
    <2>2. PICK j \in 1 .. last : n = state.neighbors[j]
      BY <1>2 DEF ToSet
    <2>3. n.main \in DOMAIN f[j] /\ \A k \in LinksOf(state, n.main) : state.links[k].iface \in DOMAIN f[j]
      BY <1>3, <2>1, <2>2, AddNeighborAdds
    <2>4. a \in DOMAIN f[j]
      <3>1. CASE a = n.main
        BY <2>3, <3>1
      <3>2. CASE a # n.main
        <4>1. PICK k \in DOMAIN state.links : state.links[k].iface = a
          BY <2>1, <3>2 DEF ToSet
        <4>2. k \in LinksOf(state, n.main)
          BY <2>1, <4>1 DEF LinksOf
        <4>3. QED BY <2>3, <4>1, <4>2
      <3>3. QED BY <3>1, <3>2
    <2>5. DOMAIN f[j] \subseteq DOMAIN f[last]
      BY <1>2, <1>4, DomainGrows
    <2>6. QED BY <2>4, <2>5
  <1>9. QED BY <1>1, <1>7, <1>8

\* A list of two-hop neighbours: those of a willing neighbour with a route.
LEMMA TwoHopRoutesAdd ==
    ASSUME NEW state \in States, NEW excluded, NEW neighbors \in Tables(state, excluded),
           Near(state, excluded, neighbors), \A d \in DOMAIN neighbors : neighbors[d].distance = 1
    PROVE  LET table == TwoHopRoutes(state, neighbors)
           IN  /\ DOMAIN neighbors \subseteq DOMAIN table
               /\ Near(state, excluded, table)
               /\ \A d \in DOMAIN table : table[d].distance <= 2
               /\ \A t \in ToSet(state.twoHops) :
                     /\ t.neighbor \in DOMAIN neighbors /\ WillingNeighbor(state, t.neighbor)
                     /\ ~SymNeighbor(state, t.twoHop) /\ t.twoHop # Self
                     => t.twoHop \in DOMAIN table
  <1> DEFINE last == Len(state.twoHops)
             Ok(table) == /\ Near(state, excluded, table)
                          /\ \A d \in DOMAIN table : table[d].distance <= 2
  <1>1. PICK f : /\ f[0] = neighbors
                 /\ \A k \in 1 .. last : f[k] = AddTwoHop(state, f[k - 1], state.twoHops[k])
                 /\ \A k \in 0 .. last : f[k] \in Tables(state, excluded)
                 /\ TwoHopRoutes(state, neighbors) = f[last]
    BY TwoHopTurns
  <1>2. last \in Nat /\ DOMAIN state.twoHops = 1 .. last
    BY StateShape
  <1> HIDE DEF last
  <1>3. \A k \in 1 .. last : DOMAIN f[k - 1] \subseteq DOMAIN f[k]
    BY <1>1 DEF AddTwoHop, AddEntry
  <1>4. \A j \in 0 .. last : DOMAIN f[j] \subseteq DOMAIN f[last]
    BY <1>2, <1>3, DomainGrows
  <1>5. ASSUME NEW k \in 1 .. last, Ok(f[k - 1]) PROVE Ok(f[k])
    <2>1. ASSUME NEW table, Ok(table), NEW dest, NEW next PROVE Ok(AddEntry(table, dest, next, 2))
      BY <2>1 DEF Near, AddEntry
    <2>2. f[k] = AddTwoHop(state, f[k - 1], state.twoHops[k])
      BY <1>1
    <2> HIDE DEF Ok
    <2>3. QED BY <1>5, <2>1, <2>2 DEF AddTwoHop
  <1>6. Ok(f[last])
    <2> DEFINE U == {k \in 0 .. last : Ok(f[k])}
    <2>1. Ok(f[0])
      BY <1>1
    <2> HIDE DEF Ok
    <2>2. 0 \in U
      BY <1>2, <2>1
    <2>3. ASSUME NEW k \in 1 .. last, k - 1 \in U PROVE k \in U
      BY <1>2, <1>5, <2>3
    <2> HIDE DEF U
    <2>4. \A k \in 0 .. last : k \in U
      BY <1>2, <2>2, <2>3, InductionUpTo
    <2>5. last \in 0 .. last
      BY <1>2
    <2>6. QED BY <2>4, <2>5 DEF U
  <1>7. ASSUME NEW t \in ToSet(state.twoHops),
               t.neighbor \in DOMAIN neighbors /\ WillingNeighbor(state, t.neighbor),
               ~SymNeighbor(state, t.twoHop) /\ t.twoHop # Self
        PROVE  t.twoHop \in DOMAIN f[last]
    <2>1. PICK j \in 1 .. last : t = state.twoHops[j]
      BY <1>2 DEF ToSet
    <2>2. j - 1 \in 0 .. last /\ j \in 0 .. last /\ 0 \in 0 .. last
      BY <1>2
    <2>3. DOMAIN f[0] \subseteq DOMAIN f[j - 1]
      <3>1. j - 1 \in Nat /\ \A k \in 1 .. j - 1 : DOMAIN f[k - 1] \subseteq DOMAIN f[k]
        BY <1>2, <1>3
      <3>2. 0 \in 0 .. j - 1
        BY <3>1
      <3> DEFINE m == j - 1
      <3> HIDE DEF m
      <3>3. m \in Nat /\ \A k \in 1 .. m : DOMAIN f[k - 1] \subseteq DOMAIN f[k]
        BY <3>1 DEF m
      <3>4. \A i \in 0 .. m : DOMAIN f[i] \subseteq DOMAIN f[m]
        BY <3>3, DomainGrows
      <3>5. QED BY <3>2, <3>4 DEF m
    <2>4. f[j] = AddTwoHop(state, f[j - 1], t)
      BY <1>1, <2>1
    <2>5. t.twoHop \in DOMAIN f[j]
      BY <1>1, <1>7, <2>3, <2>4 DEF AddTwoHop, AddEntry
    <2>6. QED BY <1>4, <2>2, <2>5
  <1>8. DOMAIN neighbors \subseteq DOMAIN f[last]
    BY <1>1, <1>2, <1>4
  <1>9. QED BY <1>1, <1>6, <1>7, <1>8

\* One turn of the walk: entries stay, new ones are one hop farther than one
\* there was, and all that begins at distance h is followed.
LEMMA RoutesFromAdds ==
    ASSUME NEW state \in States, NEW excluded, NEW nearer \in Tables(state, excluded),
           NEW h \in 1 .. Cardinality(Addrs) - 1
    PROVE  LET table == RoutesFrom(state, excluded, nearer, h)
           IN  /\ \A d \in DOMAIN nearer : d \in DOMAIN table /\ table[d] = nearer[d]
               /\ \A d \in DOMAIN table \ DOMAIN nearer :
                     /\ table[d].distance = h + 1
                     /\ \E e \in DOMAIN nearer : nearer[e].distance = h
               /\ \A t \in ToSet(state.topology) :
                     /\ t.last \notin excluded /\ t.last \in DOMAIN nearer
                     /\ nearer[t.last].distance = h
                     => t.dest \in DOMAIN table
  <1> DEFINE last == Len(state.topology)
             Ok(table) ==
                /\ \A d \in DOMAIN nearer : d \in DOMAIN table /\ table[d] = nearer[d]
                /\ \A d \in DOMAIN table \ DOMAIN nearer :
                      /\ table[d].distance = h + 1
                      /\ \E e \in DOMAIN nearer : nearer[e].distance = h
  <1>1. PICK f : /\ f[0] = nearer
                 /\ \A k \in 1 .. last : f[k] = AddFromTopology(excluded, f[k - 1], state.topology[k], h)
                 /\ \A k \in 0 .. last : f[k] \in Tables(state, excluded)
                 /\ RoutesFrom(state, excluded, nearer, h) = f[last]
    BY TopologyTurns
  <1>2. last \in Nat /\ DOMAIN state.topology = 1 .. last /\ h \in Nat
    BY StateShape, AddressCount
  <1> HIDE DEF last
  <1>3. \A k \in 1 .. last : DOMAIN f[k - 1] \subseteq DOMAIN f[k]
    BY <1>1 DEF AddFromTopology, AddEntry
  <1>4. \A j \in 0 .. last : DOMAIN f[j] \subseteq DOMAIN f[last]
    BY <1>2, <1>3, DomainGrows
  <1>5. ASSUME NEW table, Ok(table), NEW t PROVE Ok(AddFromTopology(excluded, table, t, h))
    <2>1. CASE ~(/\ t.last \notin excluded /\ t.dest \notin DOMAIN table
                 /\ t.last \in DOMAIN table /\ table[t.last].distance = h)
      BY <1>5, <2>1 DEF AddFromTopology
    <2>2. CASE /\ t.last \notin excluded /\ t.dest \notin DOMAIN table
               /\ t.last \in DOMAIN table /\ table[t.last].distance = h
      <3> DEFINE more == AddFromTopology(excluded, table, t, h)
      <3>1. /\ DOMAIN more = DOMAIN table \cup {t.dest}
            /\ more[t.dest] = [next |-> table[t.last].next, distance |-> h + 1]
            /\ \A d \in DOMAIN table : more[d] = table[d]
        BY <2>2 DEF AddFromTopology, AddEntry
      <3>2. t.last \in DOMAIN nearer /\ nearer[t.last].distance = h
        BY <1>2, <1>5, <2>2
      <3> HIDE DEF more
      <3>3. QED BY <1>5, <3>1, <3>2 DEF more
    <2>3. QED BY <2>1, <2>2
  <1>6. \A k \in 0 .. last : Ok(f[k])
    <2> DEFINE V == {k \in 0 .. last : Ok(f[k])}
    <2>1. Ok(f[0])
      BY <1>1
    <2> HIDE DEF Ok
    <2>2. 0 \in V
      BY <1>2, <2>1
    <2>3. ASSUME NEW k \in 1 .. last, k - 1 \in V PROVE k \in V
      BY <1>1, <1>2, <1>5, <2>3
    <2> HIDE DEF V
    <2>4. \A k \in 0 .. last : k \in V
      BY <1>2, <2>2, <2>3, InductionUpTo
    <2>5. QED BY <2>4 DEF V
  <1>7. ASSUME NEW t \in ToSet(state.topology), t.last \notin excluded, t.last \in DOMAIN nearer,
               nearer[t.last].distance = h
        PROVE  t.dest \in DOMAIN f[last]
    <2>1. PICK j \in 1 .. last : t = state.topology[j]
      BY <1>2 DEF ToSet
    <2>2. j - 1 \in 0 .. last /\ j \in 0 .. last
      BY <1>2
    <2>3. t.last \in DOMAIN f[j - 1] /\ f[j - 1][t.last].distance = h
      BY <1>6, <1>7, <2>2
    <2>4. f[j] = AddFromTopology(excluded, f[j - 1], t, h)
      BY <1>1, <2>1
    <2>5. t.dest \in DOMAIN f[j]
      BY <1>7, <2>3, <2>4 DEF AddFromTopology, AddEntry
    <2>6. QED BY <1>4, <2>2, <2>5
  <1>8. Ok(f[last])
    BY <1>2, <1>6
  <1>9. QED BY <1>1, <1>7, <1>8

\* A table with routes of every length has a route to every address.
LEMMA AllLengthsAllAddresses ==
    ASSUME NEW table \in AnyTable,
           \A i \in 1 .. Cardinality(Addrs) : \E d \in DOMAIN table : table[d].distance = i
    PROVE  DOMAIN table = Addrs
  <1> DEFINE n == Cardinality(Addrs)
             D == DOMAIN table
             f == [d \in D |-> table[d].distance]
  <1>1. IsFiniteSet(Addrs) /\ n \in Nat /\ D \in SUBSET Addrs
    BY RoutingAssumption, AddressCount, TableShape
  <1>2. IsFiniteSet(D) /\ Cardinality(D) <= n /\ (Cardinality(D) = n => D = Addrs)
    BY <1>1, FS_Subset
  <1>3. \A d \in D : table[d].distance \in 1 .. n
    BY TableShape DEF Entry
  <1>4. f \in Surjection(D, 1 .. n)
    BY <1>3 DEF Surjection
  <1>5. Cardinality(1 .. n) <= Cardinality(D)
    BY <1>2, <1>4, FS_Surjection
  <1>6. Cardinality(1 .. n) = n
    <2>1. 1 <= n
      BY AddressCount
    <2> HIDE DEF n
    <2>2. QED BY <1>1, <2>1, FS_Interval
  <1>7. Cardinality(D) \in Nat
    BY <1>2, FS_CardinalityType
  <1>8. QED BY <1>1, <1>2, <1>5, <1>6, <1>7

\* The walk after the turn for distance h: routes are no longer than h + 1,
\* every tuple that begins nearer than that is followed, and there is no gap
\* in the lengths of the routes.
Walked(state, excluded, table, h) ==
    /\ Near(state, excluded, table)
    /\ \A d \in DOMAIN table : table[d].distance <= 2 \/ table[d].distance <= h + 1
    /\ \A d \in DOMAIN table : table[d].distance > 2 =>
          \E e \in DOMAIN table : table[e].distance = table[d].distance - 1
    /\ \A t \in ToSet(state.topology) :
          /\ t.last \notin excluded /\ t.last \in DOMAIN table
          /\ table[t.last].distance \in 2 .. h
          => t.dest \in DOMAIN table

\* A turn of the walk reaches all that is one tuple further.
LEMMA WalkedTurn ==
    ASSUME NEW state \in States, NEW excluded, NEW nearer \in Tables(state, excluded),
           NEW h \in 2 .. Cardinality(Addrs) - 1, Walked(state, excluded, nearer, h - 1)
    PROVE  Walked(state, excluded, RoutesFrom(state, excluded, nearer, h), h)
  <1> DEFINE table == RoutesFrom(state, excluded, nearer, h)
  <1>1. h \in 1 .. Cardinality(Addrs) - 1 /\ h \in Nat /\ h >= 2
    BY AddressCount
  <1>2. /\ \A d \in DOMAIN nearer : d \in DOMAIN table /\ table[d] = nearer[d]
        /\ \A d \in DOMAIN table \ DOMAIN nearer :
              /\ table[d].distance = h + 1
              /\ \E e \in DOMAIN nearer : nearer[e].distance = h
        /\ \A t \in ToSet(state.topology) :
              /\ t.last \notin excluded /\ t.last \in DOMAIN nearer /\ nearer[t.last].distance = h
              => t.dest \in DOMAIN table
    BY <1>1, RoutesFromAdds
  <1>3. \A d \in DOMAIN nearer : nearer[d].distance \in Nat
    BY NextIsAddress, AddressCount
  <1> HIDE DEF table
  <1>4. Near(state, excluded, table)
    BY <1>1, <1>2 DEF Near, Walked
  <1>5. \A d \in DOMAIN table : table[d].distance <= 2 \/ table[d].distance <= h + 1
    BY <1>1, <1>2, <1>3 DEF Walked
  <1>6. ASSUME NEW d \in DOMAIN table, table[d].distance > 2
        PROVE  \E e \in DOMAIN table : table[e].distance = table[d].distance - 1
    <2>1. CASE d \in DOMAIN nearer
      BY <1>2, <1>6, <2>1 DEF Walked
    <2>2. CASE d \notin DOMAIN nearer
      BY <1>1, <1>2, <2>2
    <2>3. QED BY <2>1, <2>2
  <1>7. ASSUME NEW t \in ToSet(state.topology), t.last \notin excluded, t.last \in DOMAIN table,
               table[t.last].distance \in 2 .. h
        PROVE  t.dest \in DOMAIN table
    <2>1. t.last \in DOMAIN nearer /\ nearer[t.last].distance \in 2 .. h
      BY <1>1, <1>2, <1>7
    <2>2. CASE nearer[t.last].distance = h
      BY <1>2, <1>7, <2>1, <2>2
    <2>3. CASE nearer[t.last].distance # h
      <3>1. nearer[t.last].distance \in 2 .. h - 1
        BY <1>1, <2>1, <2>3
      <3>2. t.dest \in DOMAIN nearer
        BY <1>7, <2>1, <3>1 DEF Walked
      <3>3. QED BY <1>2, <3>2
    <2>4. QED BY <2>2, <2>3
  <1>8. QED BY <1>4, <1>5, <1>6, <1>7 DEF Walked, table

\* The walk ends because no route can be longer than there are addresses: a
\* route of that length has all the addresses on its way.
LEMMA WalkIsComplete ==
    ASSUME NEW state \in States, NEW excluded, NEW table \in Tables(state, excluded),
           Walked(state, excluded, table, Cardinality(Addrs) - 1),
           NEW t \in ToSet(state.topology), t.last \in DOMAIN table,
           t.last \notin excluded \cup HeardNodes(state, excluded)
    PROVE  t.dest \in DOMAIN table
  <1> DEFINE N == Cardinality(Addrs)
             Has(i) == \E d \in DOMAIN table : table[d].distance = i
             U == {i \in 0 .. N - 1 : Has(N - i)}
  <1>1. N \in Nat /\ N >= 1
    BY AddressCount
  <1>2. t.dest \in Addrs
    <2>1. t \in Topology
      BY StateShape, ListOfToSet
    <2>2. QED BY <2>1 DEF Topology
  <1>3. table[t.last].distance \in 2 .. N
    <2>1. table[t.last].distance \in 1 .. N
      BY NextIsAddress
    <2>2. table[t.last].distance # 1
      BY DEF Walked, Near
    <2> HIDE DEF N
    <2>3. QED BY <1>1, <2>1, <2>2
  <1>4. CASE table[t.last].distance # N
    <2>1. table[t.last].distance \in 2 .. N - 1
      <3> HIDE DEF N
      <3>1. QED BY <1>1, <1>3, <1>4
    <2>2. QED BY <2>1 DEF Walked
  <1>5. CASE table[t.last].distance = N
    <2>1. Has(1)
      BY DEF Tables, DirectHop
    <2>2. ASSUME NEW i \in 3 .. N, Has(i) PROVE Has(i - 1)
      <3>1. PICK d \in DOMAIN table : table[d].distance = i
        BY <2>2
      <3>2. i > 2
        BY <1>1
      <3>3. QED BY <3>1, <3>2 DEF Walked
    <2>3. Has(N)
      BY <1>5
    <2> HIDE DEF N, Has
    <2>4. 0 \in U
      BY <1>1, <2>3
    <2>5. ASSUME NEW i \in 1 .. N - 1, i - 1 \in U PROVE i \in U
      <3>1. Has(N - (i - 1)) /\ N - i \in 1 .. N - 1 /\ i \in 0 .. N - 1
        BY <1>1, <2>5
      <3>2. CASE N - i = 1
        BY <2>1, <3>1, <3>2
      <3>3. CASE N - i # 1
        <4>1. N - (i - 1) \in 3 .. N /\ (N - (i - 1)) - 1 = N - i
          BY <1>1, <3>1, <3>3
        <4>2. Has((N - (i - 1)) - 1)
          BY <2>2, <3>1, <4>1
        <4>3. QED BY <3>1, <4>1, <4>2
      <3>4. QED BY <3>2, <3>3
    <2> HIDE DEF U
    <2>6. \A i \in 0 .. N - 1 : i \in U
      <3>1. N - 1 \in Nat
        BY <1>1
      <3>2. QED BY <2>4, <2>5, <3>1, InductionUpTo
    <2>7. ASSUME NEW i \in 1 .. N PROVE Has(i)
      <3>1. N - i \in 0 .. N - 1 /\ N - (N - i) = i
        BY <1>1
      <3>2. N - i \in U
        BY <2>6, <3>1
      <3>3. Has(N - (N - i))
        BY <3>2 DEF U
      <3>4. QED BY <3>1, <3>3
    <2>8. DOMAIN table = Addrs
      <3>1. table \in AnyTable
        BY DEF Tables
      <3>2. QED BY <2>7, <3>1, AllLengthsAllAddresses DEF N, Has
    <2>9. QED BY <1>2, <2>8
  <1>6. QED BY <1>4, <1>5

\* Step 3.1: the topology set is followed from whatever is two hops away.
LEMMA FurtherRoutesAdd ==
    ASSUME NEW state \in States, NEW excluded, NEW twoHops \in Tables(state, excluded),
           Near(state, excluded, twoHops), \A d \in DOMAIN twoHops : twoHops[d].distance <= 2
    PROVE  LET table == FurtherRoutes(state, excluded, twoHops)
           IN  /\ DOMAIN twoHops \subseteq DOMAIN table
               /\ Walked(state, excluded, table, Cardinality(Addrs) - 1)
  <1> DEFINE N == Cardinality(Addrs) - 1
  <1>1. PICK f : /\ f[0] = twoHops
                 /\ \A k \in 1 .. N : f[k] = (IF k < WalkFrom THEN twoHops
                                              ELSE RoutesFrom(state, excluded, f[k - 1], k))
                 /\ \A k \in 0 .. N : f[k] \in Tables(state, excluded)
                 /\ FurtherRoutes(state, excluded, twoHops) = f[N]
    BY FurtherTurns
  <1>2. N \in Nat
    BY AddressCount
  <1> DEFINE Ok(k) == DOMAIN twoHops \subseteq DOMAIN f[k] /\ Walked(state, excluded, f[k], k)
             U == {k \in 0 .. N : Ok(k)}
  <1>3. \A k \in {0, 1} : Walked(state, excluded, twoHops, k)
    <2>1. \A d \in DOMAIN twoHops : twoHops[d].distance \in Nat
      BY NextIsAddress, AddressCount
    <2>2. QED BY <2>1 DEF Walked
  <1>4. 0 \in U
    BY <1>1, <1>2, <1>3
  <1>5. ASSUME NEW k \in 1 .. N, k - 1 \in U PROVE k \in U
    <2>1. k \in 0 .. N /\ k - 1 \in 0 .. N
      BY <1>2
    <2>2. CASE k = 1
      <3>1. f[k] = twoHops
        BY <1>1, <2>2 DEF WalkFrom
      <3>2. QED BY <1>3, <2>1, <2>2, <3>1
    <2>3. CASE k # 1
      <3>1. f[k] = RoutesFrom(state, excluded, f[k - 1], k)
        BY <1>1, <1>2, <2>3 DEF WalkFrom
      <3>2. f[k - 1] \in Tables(state, excluded) /\ k \in 2 .. N
        BY <1>1, <1>2, <2>1, <2>3
      <3>3. Walked(state, excluded, f[k], k)
        BY <1>5, <3>1, <3>2, WalkedTurn
      <3>4. DOMAIN f[k - 1] \subseteq DOMAIN f[k]
        BY <3>1, <3>2, RoutesFromAdds
      <3>5. QED BY <1>5, <2>1, <3>3, <3>4
    <2>4. QED BY <2>2, <2>3
  <1> HIDE DEF N, U
  <1>6. \A k \in 0 .. N : k \in U
    BY <1>2, <1>4, <1>5, InductionUpTo
  <1>7. N \in 0 .. N
    BY <1>2
  <1>8. Ok(N)
    BY <1>6, <1>7 DEF U
  <1>9. QED BY <1>1, <1>8 DEF N

\* What the properties ask of a table computed from `state`.
Matches(state, excluded, table) ==
    /\ MustHaveRoute(state, excluded) \subseteq DOMAIN table
    /\ \A d \in DOMAIN table : table[d].next \in HeardNodes(state, excluded)
    /\ Sound(state, table)

\* Every computation yields the routes that what is known calls for.
LEMMA CoreMatches ==
    ASSUME NEW state \in States, NEW excluded
    PROVE  Matches(state, excluded, ComputeRoutingTableCore(state, excluded))
  <1> DEFINE heard == HeardNodes(state, excluded)
             near == {t.twoHop : t \in {u \in ToSet(state.twoHops) :
                        /\ u.neighbor \in heard /\ WillingNeighbor(state, u.neighbor)
                        /\ ~SymNeighbor(state, u.twoHop) /\ u.twoHop # Self}}
             edges == {<<t.last, t.dest>> : t \in {u \in ToSet(state.topology) :
                        u.last \notin excluded \cup heard}}
             neighbors == NeighborRoutes(state, excluded)
             twoHops == TwoHopRoutes(state, neighbors)
             further == FurtherRoutes(state, excluded, twoHops)
             table == AddAssociated(further, state.assocs)
  <1>1. MustHaveRoute(state, excluded) = heard \cup ReachableFrom(near, edges)
    BY DEF MustHaveRoute
  <1>2. table = ComputeRoutingTableCore(state, excluded)
    BY DEF ComputeRoutingTableCore
  <1>3. neighbors \in Tables(state, excluded) /\ DOMAIN neighbors = heard
    BY NeighborRoutesKeeps, NeighborRoutesAreHeard
  <1>4. \A d \in DOMAIN neighbors : neighbors[d].distance = 1
    <2>1. PICK f : /\ f[0] = Empty
                   /\ \A k \in 1 .. Len(state.neighbors) :
                          f[k] = AddNeighbor(state, excluded, f[k - 1], state.neighbors[k])
                   /\ neighbors = f[Len(state.neighbors)]
      BY NeighborTurns
    <2> DEFINE U == {k \in 0 .. Len(state.neighbors) : \A d \in DOMAIN f[k] : f[k][d].distance = 1}
    <2>2. Len(state.neighbors) \in Nat
      BY StateShape
    <2>3. 0 \in U
      BY <2>1, <2>2 DEF Empty
    <2>4. ASSUME NEW k \in 1 .. Len(state.neighbors), k - 1 \in U PROVE k \in U
      <3>1. \A d \in DOMAIN f[k] : f[k][d].distance = 1
        <4>1. ASSUME NEW prev, \A d \in DOMAIN prev : prev[d].distance = 1, NEW n
              PROVE  LET more == AddNeighbor(state, excluded, prev, n)
                     IN  \A d \in DOMAIN more : more[d].distance = 1
          <5> DEFINE ifaces == {state.links[i].iface : i \in LinksOf(state, n.main)}
                     direct == [d \in DOMAIN prev \cup ifaces |->
                         IF d \in ifaces THEN [next |-> d, distance |-> 1] ELSE prev[d]]
                     last == state.links[Max(LinksOf(state, n.main))].iface
          <5>1. \A d \in DOMAIN direct : direct[d].distance = 1
            BY <4>1
          <5>2. AddNeighbor(state, excluded, prev, n) \in
                    {prev, direct, AddEntry(direct, n.main, last, 1)}
            BY DEF AddNeighbor
          <5> HIDE DEF direct, last
          <5>3. \A d \in DOMAIN AddEntry(direct, n.main, last, 1) :
                    AddEntry(direct, n.main, last, 1)[d].distance = 1
            BY <5>1 DEF AddEntry
          <5>4. QED BY <4>1, <5>1, <5>2, <5>3
        <4>2. f[k] = AddNeighbor(state, excluded, f[k - 1], state.neighbors[k])
          BY <2>1
        <4>3. \A d \in DOMAIN f[k - 1] : f[k - 1][d].distance = 1
          BY <2>4
        <4>4. QED BY <4>1, <4>2, <4>3
      <3>2. k \in 0 .. Len(state.neighbors)
        BY <2>2
      <3>3. QED BY <3>1, <3>2
    <2> HIDE DEF U
    <2>5. \A k \in 0 .. Len(state.neighbors) : k \in U
      BY <2>2, <2>3, <2>4, InductionUpTo
    <2>6. Len(state.neighbors) \in 0 .. Len(state.neighbors)
      BY <2>2
    <2>7. QED BY <2>1, <2>5, <2>6 DEF U
  <1> HIDE DEF neighbors
  <1>5. Near(state, excluded, neighbors)
    BY <1>3 DEF Near
  <1>6. /\ twoHops \in Tables(state, excluded)
        /\ DOMAIN neighbors \subseteq DOMAIN twoHops
        /\ Near(state, excluded, twoHops)
        /\ \A d \in DOMAIN twoHops : twoHops[d].distance <= 2
        /\ \A t \in ToSet(state.twoHops) :
              /\ t.neighbor \in DOMAIN neighbors /\ WillingNeighbor(state, t.neighbor)
              /\ ~SymNeighbor(state, t.twoHop) /\ t.twoHop # Self
              => t.twoHop \in DOMAIN twoHops
    BY <1>3, <1>4, <1>5, TwoHopRoutesKeeps, TwoHopRoutesAdd
  <1> HIDE DEF twoHops
  <1>7. near \subseteq DOMAIN twoHops
    BY <1>3, <1>6
  <1>8. /\ further \in Tables(state, excluded)
        /\ DOMAIN twoHops \subseteq DOMAIN further
        /\ Walked(state, excluded, further, Cardinality(Addrs) - 1)
    BY <1>6, FurtherRoutesKeeps, FurtherRoutesAdd
  <1> HIDE DEF further
  <1>9. \A e \in edges : e[1] \in DOMAIN further => e[2] \in DOMAIN further
    <2> SUFFICES ASSUME NEW t \in ToSet(state.topology), t.last \notin excluded \cup heard,
                        t.last \in DOMAIN further
                 PROVE  t.dest \in DOMAIN further
      OBVIOUS
    <2>1. QED BY <1>8, WalkIsComplete
  <1>10. near \in SUBSET Addrs
    <2>1. ToSet(state.twoHops) \subseteq TwoHop
      BY StateShape, ListOfToSet
    <2>2. QED BY <2>1 DEF TwoHop
  <1>11. edges \in SUBSET (Addrs \X Addrs)
    <2>1. ToSet(state.topology) \subseteq Topology
      BY StateShape, ListOfToSet
    <2>2. QED BY <2>1 DEF Topology
  <1>12. near \subseteq DOMAIN further
    BY <1>7, <1>8
  <1> HIDE DEF near, edges
  <1>13. ReachableFrom(near, edges) \subseteq DOMAIN further
    BY <1>9, <1>10, <1>11, <1>12, ReachableLeast
  <1>14. heard \subseteq DOMAIN further
    BY <1>3, <1>6, <1>8
  <1>15. DOMAIN further \subseteq DOMAIN table
    BY DEF AddAssociated
  <1>16. table \in Tables(state, excluded)
    BY <1>8, AddAssociatedKeeps
  <1> HIDE DEF table, heard
  <1>17. \A d \in DOMAIN table : table[d].next \in HeardNodes(state, excluded)
    BY <1>16, NextIsHeard
  <1>18. Sound(state, table)
    BY <1>2, CoreSound
  <1>19. MustHaveRoute(state, excluded) \subseteq DOMAIN table
    BY <1>1, <1>13, <1>14, <1>15
  <1>20. QED BY <1>2, <1>17, <1>18, <1>19 DEF Matches

-----------------------------------------------------------------------------
(* The handlers keep the repositories resolved.                            *)

KnownNeighbors(state) == {n \in Neighbor : IsMain(state, n.main)}

KnownTwoHops(state) == {t \in TwoHop : IsMain(state, t.neighbor) /\ IsMain(state, t.twoHop)}

\* The neighbour and two-hop sets hold main addresses.
LEMMA StateLists ==
    ASSUME NEW state \in States
    PROVE  /\ state.neighbors \in Seq(KnownNeighbors(state))
           /\ state.twoHops \in Seq(KnownTwoHops(state))
  <1>1. state.neighbors \in Seq(Neighbor) /\ state.twoHops \in Seq(TwoHop)
    BY StateShape
  <1>2. \A k \in DOMAIN state.neighbors : state.neighbors[k] \in KnownNeighbors(state)
    BY StateShape, StateElements DEF IsResolved, KnownNeighbors
  <1>3. \A k \in DOMAIN state.twoHops : state.twoHops[k] \in KnownTwoHops(state)
    BY StateShape, StateElements DEF IsResolved, KnownTwoHops
  <1>4. QED BY <1>1, <1>2, <1>3

\* Another neighbour set of main addresses.
LEMMA WithNeighbors ==
    ASSUME NEW state \in States, NEW list \in Seq(KnownNeighbors(state))
    PROVE  [state EXCEPT !.neighbors = list] \in States
  <1> DEFINE new == [state EXCEPT !.neighbors = list]
  <1>1. list \in Seq(Neighbor) /\ \A k \in DOMAIN list : IsMain(state, list[k].main)
    <2>1. \A k \in DOMAIN list : list[k] \in Neighbor /\ IsMain(state, list[k].main)
      BY DEF KnownNeighbors
    <2>2. QED BY <2>1
  <1>2. state \in Repositories /\ IsResolved(state)
    BY DEF States
  <1>3. /\ new \in Repositories /\ new.assocs = state.assocs
        /\ new.neighbors = list /\ new.twoHops = state.twoHops
    BY <1>1, <1>2 DEF Repositories
  <1> HIDE DEF new
  <1>4. \A a : IsMain(new, a) <=> IsMain(state, a)
    BY <1>3 DEF IsMain, GetMainAddress
  <1>5. IsResolved(new)
    BY <1>1, <1>2, <1>3, <1>4 DEF IsResolved
  <1>6. QED BY <1>3, <1>5 DEF States, new

\* Another two-hop set of main addresses.
LEMMA WithTwoHops ==
    ASSUME NEW state \in States, NEW list \in Seq(KnownTwoHops(state))
    PROVE  [state EXCEPT !.twoHops = list] \in States
  <1> DEFINE new == [state EXCEPT !.twoHops = list]
  <1>1. list \in Seq(TwoHop) /\ \A k \in DOMAIN list :
            IsMain(state, list[k].neighbor) /\ IsMain(state, list[k].twoHop)
    <2>1. \A k \in DOMAIN list :
            list[k] \in TwoHop /\ IsMain(state, list[k].neighbor) /\ IsMain(state, list[k].twoHop)
      BY DEF KnownTwoHops
    <2>2. QED BY <2>1
  <1>2. state \in Repositories /\ IsResolved(state)
    BY DEF States
  <1>3. /\ new \in Repositories /\ new.assocs = state.assocs
        /\ new.twoHops = list /\ new.neighbors = state.neighbors
    BY <1>1, <1>2 DEF Repositories
  <1> HIDE DEF new
  <1>4. \A a : IsMain(new, a) <=> IsMain(state, a)
    BY <1>3 DEF IsMain, GetMainAddress
  <1>5. IsResolved(new)
    BY <1>1, <1>2, <1>3, <1>4 DEF IsResolved
  <1>6. QED BY <1>3, <1>5 DEF States, new

\* Another link set.
LEMMA WithLinks ==
    ASSUME NEW state \in States, NEW list \in Seq(Link)
    PROVE  [state EXCEPT !.links = list] \in States
  <1> DEFINE new == [state EXCEPT !.links = list]
  <1>1. state \in Repositories /\ IsResolved(state)
    BY DEF States
  <1>2. /\ new \in Repositories /\ new.assocs = state.assocs
        /\ new.neighbors = state.neighbors /\ new.twoHops = state.twoHops
    BY <1>1 DEF Repositories
  <1> HIDE DEF new
  <1>3. IsResolved(new)
    BY <1>1, <1>2 DEF IsResolved, IsMain, GetMainAddress
  <1>4. QED BY <1>2, <1>3 DEF States, new

\* Another topology set.
LEMMA WithTopology ==
    ASSUME NEW state \in States, NEW list \in Seq(Topology)
    PROVE  [state EXCEPT !.topology = list] \in States
  <1> DEFINE new == [state EXCEPT !.topology = list]
  <1>1. state \in Repositories /\ IsResolved(state)
    BY DEF States
  <1>2. /\ new \in Repositories /\ new.assocs = state.assocs
        /\ new.neighbors = state.neighbors /\ new.twoHops = state.twoHops
    BY <1>1 DEF Repositories
  <1> HIDE DEF new
  <1>3. IsResolved(new)
    BY <1>1, <1>2 DEF IsResolved, IsMain, GetMainAddress
  <1>4. QED BY <1>2, <1>3 DEF States, new

\* A main address is its own main address.
LEMMA MainIsMain ==
    ASSUME NEW state \in Repositories, NEW a \in Addrs
    PROVE  /\ GetMainAddress(state, a) \in Addrs /\ IsMain(state, GetMainAddress(state, a))
           /\ Main[a] \in Addrs /\ IsMain(state, Main[a])
  BY RoutingAssumption DEF IsMain, GetMainAddress

\* FindNeighborTuple gives a tuple of the set, or none.
LEMMA FirstNeighborFound ==
    ASSUME NEW state \in States, NEW main
    PROVE  \/ FirstNeighbor(state, main) = 0
           \/ FirstNeighbor(state, main) \in DOMAIN state.neighbors
  <1> DEFINE found == {k \in DOMAIN state.neighbors : state.neighbors[k].main = main}
  <1>1. found \in SUBSET Nat /\ found \subseteq DOMAIN state.neighbors
    BY StateShape
  <1>2. found # {} => Min(found) \in found
    BY <1>1, MinIn
  <1>3. FirstNeighbor(state, main) = IF found = {} THEN 0 ELSE Min(found)
    BY DEF FirstNeighbor
  <1>4. QED BY <1>1, <1>2, <1>3

\* InsertNeighborTuple keeps main addresses main.
LEMMA InsertNeighborKeeps ==
    ASSUME NEW state \in States, NEW n \in KnownNeighbors(state)
    PROVE  InsertNeighborTuple(state, n) \in States
  <1> DEFINE k == FirstNeighbor(state, n.main)
             appended == Append(state.neighbors, n)
             replaced == [state.neighbors EXCEPT ![k] = n]
  <1>1. InsertNeighborTuple(state, n) =
           IF k = 0 THEN [state EXCEPT !.neighbors = appended] ELSE [state EXCEPT !.neighbors = replaced]
    BY DEF InsertNeighborTuple
  <1> HIDE DEF k
  <1>2. appended \in Seq(KnownNeighbors(state)) /\ replaced \in Seq(KnownNeighbors(state))
    BY StateLists, ListOfAppend, ListOfUpdate
  <1> HIDE DEF appended, replaced
  <1>3. QED BY <1>1, <1>2, WithNeighbors

\* So does LinkTupleAdded.
LEMMA LinkTupleAddedKeeps ==
    ASSUME NEW state \in States, NEW link \in Link, NEW willing \in BOOLEAN
    PROVE  LinkTupleAdded(state, link, willing) \in States
  <1> DEFINE n == [main |-> GetMainAddress(state, link.iface), sym |-> link.sym, willing |-> willing]
  <1>1. link.iface \in Addrs /\ link.sym \in BOOLEAN
    BY RoutingAssumption DEF Link
  <1>2. n \in KnownNeighbors(state)
    BY <1>1, MainIsMain DEF KnownNeighbors, Neighbor, States
  <1> HIDE DEF n
  <1>3. InsertNeighborTuple(state, n) \in States
    BY <1>2, InsertNeighborKeeps
  <1>4. QED BY <1>3 DEF LinkTupleAdded, n

\* So does LinkTupleUpdated.
LEMMA LinkTupleUpdatedKeeps ==
    ASSUME NEW state \in States, NEW link \in Link, NEW willing \in BOOLEAN
    PROVE  LinkTupleUpdated(state, link, willing) \in States
  <1> DEFINE main == GetMainAddress(state, link.iface)
             known == IF FirstNeighbor(state, main) = 0 THEN LinkTupleAdded(state, link, willing)
                                                        ELSE state
             j == FirstNeighbor(known, main)
             sym == \E k \in LinksOf(known, main) : known.links[k].sym
             list == [known.neighbors EXCEPT ![j] = [known.neighbors[j] EXCEPT !.sym = sym]]
  <1>1. LinkTupleUpdated(state, link, willing) = [known EXCEPT !.neighbors = list]
    BY DEF LinkTupleUpdated
  <1>2. known \in States
    BY LinkTupleAddedKeeps
  <1>3. sym \in BOOLEAN
    OBVIOUS
  <1> HIDE DEF known, main, j, sym
  <1>4. list \in Seq(KnownNeighbors(known))
    <2>1. known.neighbors \in Seq(KnownNeighbors(known))
      BY <1>2, StateLists
    <2>2. j \in DOMAIN known.neighbors =>
             [known.neighbors[j] EXCEPT !.sym = sym] \in KnownNeighbors(known)
      <3> SUFFICES ASSUME j \in DOMAIN known.neighbors
                   PROVE  [known.neighbors[j] EXCEPT !.sym = sym] \in KnownNeighbors(known)
        OBVIOUS
      <3>1. known.neighbors[j] \in KnownNeighbors(known)
        BY <2>1
      <3>2. QED BY <1>3, <3>1 DEF KnownNeighbors, Neighbor
    <2>3. QED BY <2>1, <2>2, ListOfUpdate
  <1> HIDE DEF list
  <1>5. QED BY <1>1, <1>2, <1>4, WithNeighbors

\* So does LinkSensing.
LEMMA LinkSensingKeeps ==
    ASSUME NEW state \in States, NEW m \in Hello
    PROVE  LinkSensing(state, m) \in States
  <1> DEFINE found == {k \in DOMAIN state.links : state.links[k].iface = m.iface}
             created == found = {}
             fresh0 == [iface |-> m.iface, sym |-> FALSE, lossSeen |-> FALSE]
             known == IF created THEN [state EXCEPT !.links = Append(state.links, fresh0)] ELSE state
             k == IF created THEN Len(known.links) ELSE CHOOSE j \in found : TRUE
             link == [known.links[k] EXCEPT !.lossSeen = FALSE,
                         !.sym = CASE m.me = "HEARD" -> TRUE [] m.me = "LOST" -> FALSE [] OTHER -> @]
             list == [known.links EXCEPT ![k] = link]
             sensed == [known EXCEPT !.links = list]
             updated == IF created /\ m.me = "NONE" THEN sensed
                        ELSE LinkTupleUpdated(sensed, link, m.willing)
  <1>1. LinkSensing(state, m) = IF created THEN LinkTupleAdded(updated, link, m.willing) ELSE updated
    BY DEF LinkSensing
  <1>2. m.willing \in BOOLEAN /\ fresh0 \in Link
    BY DEF Hello, Link
  <1>3. state.links \in Seq(Link)
    BY StateShape
  <1>4. Append(state.links, fresh0) \in Seq(Link)
    BY <1>2, <1>3, ListOfAppend
  <1>5. known \in States /\ k \in DOMAIN known.links
    <2>1. CASE created
      <3> DEFINE more == Append(state.links, fresh0)
      <3>1. Len(more) \in DOMAIN more
        BY <1>3
      <3>2. more \in Seq(Link)
        BY <1>4
      <3> HIDE DEF more
      <3>3. [state EXCEPT !.links = more] \in States
        BY <3>2, WithLinks
      <3>4. [state EXCEPT !.links = more].links = more
        BY DEF States, Repositories
      <3>5. QED BY <2>1, <3>1, <3>3, <3>4 DEF more
    <2>2. CASE ~created
      BY <2>2
    <2>3. QED BY <2>1, <2>2
  <1> HIDE DEF known, k, created
  <1>6. link \in Link
    <2>1. known.links[k] \in Link
      BY <1>5, StateElements
    <2>2. QED BY <2>1 DEF Link
  <1> HIDE DEF link
  <1>7. list \in Seq(Link)
    BY <1>5, <1>6, StateShape, ListOfUpdate
  <1> HIDE DEF list
  <1>8. sensed \in States
    BY <1>5, <1>7, WithLinks
  <1> HIDE DEF sensed
  <1>9. updated \in States
    BY <1>2, <1>6, <1>8, LinkTupleUpdatedKeeps
  <1> HIDE DEF updated
  <1>10. QED BY <1>1, <1>2, <1>6, <1>9, LinkTupleAddedKeeps

\* So does PopulateNeighborSet.
LEMMA PopulateNeighborKeeps ==
    ASSUME NEW state \in States, NEW m \in Hello
    PROVE  PopulateNeighborSet(state, m) \in States
  <1> DEFINE k == FirstNeighbor(state, Main[m.iface])
             list == [state.neighbors EXCEPT ![k] = [state.neighbors[k] EXCEPT !.willing = m.willing]]
  <1>1. PopulateNeighborSet(state, m) = IF k = 0 THEN state ELSE [state EXCEPT !.neighbors = list]
    BY DEF PopulateNeighborSet
  <1> HIDE DEF k
  <1>2. list \in Seq(KnownNeighbors(state))
    <2>1. state.neighbors \in Seq(KnownNeighbors(state))
      BY StateLists
    <2>2. k \in DOMAIN state.neighbors =>
             [state.neighbors[k] EXCEPT !.willing = m.willing] \in KnownNeighbors(state)
      <3> SUFFICES ASSUME k \in DOMAIN state.neighbors
                   PROVE  [state.neighbors[k] EXCEPT !.willing = m.willing] \in KnownNeighbors(state)
        OBVIOUS
      <3>1. state.neighbors[k] \in KnownNeighbors(state)
        BY <2>1
      <3>2. m.willing \in BOOLEAN
        BY DEF Hello
      <3>3. QED BY <3>1, <3>2 DEF KnownNeighbors, Neighbor
    <2>3. QED BY <2>1, <2>2, ListOfUpdate
  <1> HIDE DEF list
  <1>3. QED BY <1>1, <1>2, WithNeighbors

\* The two-hop tuples of a HELLO are resolved as they are recorded.
LEMMA NewTwoHopsKnown ==
    ASSUME NEW state \in States, NEW m \in Hello
    PROVE  NewTwoHops(state, m) \in SUBSET KnownTwoHops(state) /\ IsFiniteSet(NewTwoHops(state, m))
  <1> DEFINE main == Main[m.iface]
             A == {a \in m.lists : GetMainAddress(state, a) # Self}
             f == [a \in A |-> [neighbor |-> main, twoHop |-> GetMainAddress(state, a)]]
  <1>1. m.lists \subseteq Addrs /\ m.iface \in Addrs /\ state \in Repositories
    BY RoutingAssumption DEF Hello, States
  <1>2. main \in Addrs /\ IsMain(state, main)
    BY <1>1, MainIsMain
  <1>3. \A a \in m.lists : GetMainAddress(state, a) \in Addrs /\ IsMain(state, GetMainAddress(state, a))
    BY <1>1, MainIsMain
  <1>4. IsFiniteSet(A)
    BY <1>1, RoutingAssumption, FS_Subset
  <1>5. \A a \in A : f[a] \in KnownTwoHops(state)
    <2> HIDE DEF main
    <2>1. ASSUME NEW a \in A PROVE [neighbor |-> main, twoHop |-> GetMainAddress(state, a)] \in KnownTwoHops(state)
      BY <1>2, <1>3 DEF KnownTwoHops, TwoHop
    <2>2. QED BY <2>1
  <1>6. Listed(state, m) = {f[a] : a \in A}
    BY DEF Listed
  <1> HIDE DEF A
  <1>7. IsFiniteSet({f[a] : a \in A})
    BY <1>4, FiniteImage
  <1> HIDE DEF f
  <1>8. Listed(state, m) \in SUBSET KnownTwoHops(state) /\ IsFiniteSet(Listed(state, m))
    BY <1>5, <1>6, <1>7
  <1>9. NewTwoHops(state, m) \in SUBSET Listed(state, m)
    BY DEF NewTwoHops
  <1>10. QED BY <1>8, <1>9, FS_Subset

\* PopulateTwoHopNeighborSet keeps main addresses main.
LEMMA PopulateTwoHopKeeps ==
    ASSUME NEW state \in States, NEW m \in Hello
    PROVE  PopulateTwoHopNeighborSet(state, m) \in States
  <1> DEFINE denied == {[neighbor |-> Main[m.iface], twoHop |-> GetMainAddress(state, a)] : a \in m.denies}
             more == state.twoHops \o SetToSeq(NewTwoHops(state, m))
             list == Without(more, denied)
  <1>1. PopulateTwoHopNeighborSet(state, m) =
           IF HasSymLink(state, Main[m.iface]) THEN [state EXCEPT !.twoHops = list] ELSE state
    BY DEF PopulateTwoHopNeighborSet
  <1>2. more \in Seq(KnownTwoHops(state))
    <2>1. SetToSeq(NewTwoHops(state, m)) \in Seq(KnownTwoHops(state))
      BY NewTwoHopsKnown, SetToSeqKeeps
    <2>2. state.twoHops \in Seq(KnownTwoHops(state))
      BY StateLists
    <2>3. QED BY <2>1, <2>2, ListOfConcat
  <1> HIDE DEF more
  <1>3. list \in Seq(KnownTwoHops(state))
    BY <1>2, WithoutKeeps
  <1> HIDE DEF list
  <1>4. QED BY <1>1, <1>3, WithTwoHops

\* ProcessMid: what was recorded gets the main addresses now known.
LEMMA RenameKeeps ==
    ASSUME NEW state \in Repositories
    PROVE  Rename(state) \in States
  <1> DEFINE neighbors == [k \in DOMAIN state.neighbors |->
                 [state.neighbors[k] EXCEPT !.main = GetMainAddress(state, @)]]
             twoHops == [k \in DOMAIN state.twoHops |->
                 [neighbor |-> GetMainAddress(state, state.twoHops[k].neighbor),
                  twoHop |-> GetMainAddress(state, state.twoHops[k].twoHop)]]
             new == [state EXCEPT !.neighbors = neighbors, !.twoHops = twoHops]
  <1>1. Rename(state) = new
    BY DEF Rename, RenamedNeighbors
  <1>2. state.neighbors \in Seq(Neighbor) /\ state.twoHops \in Seq(TwoHop)
    BY DEF Repositories
  <1>3. /\ DOMAIN state.neighbors = 1 .. Len(state.neighbors) /\ Len(state.neighbors) \in Nat
        /\ DOMAIN state.twoHops = 1 .. Len(state.twoHops) /\ Len(state.twoHops) \in Nat
    BY <1>2
  <1>4. ASSUME NEW k \in DOMAIN state.neighbors
        PROVE  neighbors[k] \in Neighbor /\ IsMain(state, neighbors[k].main)
    <2>1. state.neighbors[k] \in Neighbor
      BY <1>2
    <2>2. /\ GetMainAddress(state, state.neighbors[k].main) \in Addrs
          /\ IsMain(state, GetMainAddress(state, state.neighbors[k].main))
      BY <2>1, MainIsMain DEF Neighbor
    <2>3. QED BY <2>1, <2>2 DEF Neighbor
  <1>5. ASSUME NEW k \in DOMAIN state.twoHops
        PROVE  /\ twoHops[k] \in TwoHop
               /\ IsMain(state, twoHops[k].neighbor) /\ IsMain(state, twoHops[k].twoHop)
    <2>1. state.twoHops[k] \in TwoHop
      BY <1>2
    <2>2. /\ GetMainAddress(state, state.twoHops[k].neighbor) \in Addrs
          /\ IsMain(state, GetMainAddress(state, state.twoHops[k].neighbor))
          /\ GetMainAddress(state, state.twoHops[k].twoHop) \in Addrs
          /\ IsMain(state, GetMainAddress(state, state.twoHops[k].twoHop))
      BY <2>1, MainIsMain DEF TwoHop
    <2>3. QED BY <2>2 DEF TwoHop
  <1>6. DOMAIN neighbors = DOMAIN state.neighbors /\ DOMAIN twoHops = DOMAIN state.twoHops
    OBVIOUS
  <1>7. neighbors \in [1 .. Len(state.neighbors) -> Neighbor]
    BY <1>3, <1>4
  <1>8. twoHops \in [1 .. Len(state.twoHops) -> TwoHop]
    BY <1>3, <1>5
  <1> HIDE DEF neighbors, twoHops
  <1>9. neighbors \in Seq(Neighbor) /\ twoHops \in Seq(TwoHop)
    BY <1>3, <1>7, <1>8
  <1>10. /\ new \in Repositories /\ new.assocs = state.assocs
         /\ new.neighbors = neighbors /\ new.twoHops = twoHops
    BY <1>9 DEF Repositories
  <1> HIDE DEF new
  <1>11. \A a : IsMain(new, a) <=> IsMain(state, a)
    BY <1>10 DEF IsMain, GetMainAddress
  <1>12. IsResolved(new)
    BY <1>4, <1>5, <1>6, <1>10, <1>11 DEF IsResolved
  <1>13. QED BY <1>1, <1>10, <1>12 DEF States

\* So does the end of a symmetric time.
LEMMA SymTimeOverKeeps ==
    ASSUME m_state \in States, NEW k \in DOMAIN m_state.links, SymTimeOver(k)
    PROVE  m_state' \in States
  <1> DEFINE link == [m_state.links[k] EXCEPT !.sym = FALSE, !.lossSeen = TRUE]
             list == [m_state.links EXCEPT ![k] = link]
             over == [m_state EXCEPT !.links = list]
             updated == LinkTupleUpdated(over, link, TRUE)
             main == GetMainAddress(over, link.iface)
             twoHops == Without(updated.twoHops, {t \in ToSet(updated.twoHops) : t.neighbor = main})
  <1>1. m_state' = over \/ m_state' = [updated EXCEPT !.twoHops = twoHops]
    BY DEF SymTimeOver
  <1>2. link \in Link
    <2>1. m_state.links[k] \in Link
      BY StateElements
    <2>2. QED BY <2>1 DEF Link
  <1> HIDE DEF link
  <1>3. list \in Seq(Link)
    BY <1>2, StateShape, ListOfUpdate
  <1> HIDE DEF list
  <1>4. over \in States
    BY <1>3, WithLinks
  <1> HIDE DEF over, main
  <1>5. updated \in States
    BY <1>2, <1>4, LinkTupleUpdatedKeeps
  <1> HIDE DEF updated
  <1>6. twoHops \in Seq(KnownTwoHops(updated))
    BY <1>5, StateLists, WithoutKeeps
  <1> HIDE DEF twoHops
  <1>7. [updated EXCEPT !.twoHops = twoHops] \in States
    BY <1>5, <1>6, WithTwoHops
  <1>8. QED BY <1>1, <1>4, <1>7

\* So does the end of a link tuple.
LEMMA LinkTimeOverKeeps ==
    ASSUME m_state \in States, NEW k \in DOMAIN m_state.links, LinkTimeOver(k)
    PROVE  m_state' \in States
  <1> DEFINE n == FirstNeighbor(m_state, GetMainAddress(m_state, m_state.links[k].iface))
             links == RemoveAt(m_state.links, k)
             neighbors == IF n = 0 THEN m_state.neighbors ELSE RemoveAt(m_state.neighbors, n)
             fewer == [m_state EXCEPT !.links = links]
  <1>1. m_state' = [fewer EXCEPT !.neighbors = neighbors]
    BY DEF LinkTimeOver
  <1>2. n = 0 \/ n \in DOMAIN m_state.neighbors
    BY FirstNeighborFound
  <1> HIDE DEF n
  <1>3. links \in Seq(Link)
    BY StateShape, RemoveAtKeeps
  <1>4. neighbors \in Seq(KnownNeighbors(m_state))
    BY <1>2, StateLists, RemoveAtKeeps
  <1> HIDE DEF links, neighbors
  <1>5. fewer \in States /\ fewer.assocs = m_state.assocs
    BY <1>3, WithLinks DEF States, Repositories
  <1> HIDE DEF fewer
  <1>6. KnownNeighbors(fewer) = KnownNeighbors(m_state)
    BY <1>5 DEF KnownNeighbors, IsMain, GetMainAddress
  <1>7. QED BY <1>1, <1>4, <1>5, <1>6, WithNeighbors

\* So does the end of a two-hop tuple.
LEMMA TwoHopExpireKeeps ==
    ASSUME m_state \in States, NEW pair, Nb2hopTupleTimerExpire(pair)
    PROVE  m_state' \in States
  <1> DEFINE found == {k \in DOMAIN m_state.twoHops : m_state.twoHops[k] = pair}
             list == IF found = {} THEN m_state.twoHops ELSE RemoveAt(m_state.twoHops, Min(found))
  <1>1. m_state' = [m_state EXCEPT !.twoHops = list]
    BY DEF Nb2hopTupleTimerExpire
  <1>2. found \in SUBSET Nat /\ found \subseteq DOMAIN m_state.twoHops
    BY StateShape
  <1>3. found # {} => Min(found) \in DOMAIN m_state.twoHops
    BY <1>2, MinIn
  <1> HIDE DEF found
  <1>4. list \in Seq(KnownTwoHops(m_state))
    BY <1>3, StateLists, RemoveAtKeeps
  <1> HIDE DEF list
  <1>5. QED BY <1>1, <1>4, WithTwoHops

\* A main address stays main when an association ends.
LEMMA AssocExpireKeeps ==
    ASSUME m_state \in States, NEW a, IfaceAssocTupleTimerExpire(a)
    PROVE  m_state' \in States
  <1>1. m_state \in Repositories /\ IsResolved(m_state)
    BY DEF States
  <1>2. /\ m_state' \in Repositories /\ m_state'.assocs = m_state.assocs \ {a}
        /\ m_state'.neighbors = m_state.neighbors /\ m_state'.twoHops = m_state.twoHops
    BY <1>1 DEF Repositories, IfaceAssocTupleTimerExpire
  <1>3. \A x : IsMain(m_state, x) => IsMain(m_state', x)
    BY <1>2 DEF IsMain, GetMainAddress
  <1>4. IsResolved(m_state')
    BY <1>1, <1>2, <1>3 DEF IsResolved
  <1>5. QED BY <1>2, <1>4 DEF States

-----------------------------------------------------------------------------
(* The inductive invariant: the repositories are typed and resolved, each  *)
(* table, however old, is closed under next hops, the avoiding table leads *)
(* through nobody known to be excluded when it was computed, and both      *)
(* fresh tables match what the repositories say.                           *)

Closed(table) ==
    /\ table \in AnyTable
    /\ \A d \in DOMAIN table :
          LET next == table[d].next
          IN  next \in DOMAIN table /\ table[next].next = next /\ table[next].distance = 1

Avoiding ==
    /\ basis \in [suspects : SUBSET Suspects, assocs : SUBSET Addrs]
    /\ AvoidsSuspects

Matching ==
    fresh => /\ Matches(m_state, {}, m_table)
             /\ Matches(m_state, blacklist, m_tableAvoidingSuspects)

RoutingInv ==
    /\ m_state \in States
    /\ twoHopEvents \subseteq TwoHop
    /\ m_linkTupleTimerFirstTime \in BOOLEAN
    /\ blacklist \subseteq Suspects
    /\ Closed(m_table) /\ Closed(m_tableAvoidingSuspects)
    /\ Avoiding /\ Matching
    /\ fresh \in BOOLEAN
    /\ expiries \in 0 .. MaxExpiries

\* A node that has heard nothing has no routes.
LEMMA RoutingInvInit == Init => RoutingInv
  <1> SUFFICES ASSUME Init PROVE RoutingInv
    OBVIOUS
  <1>1. m_state \in Repositories /\ IsResolved(m_state)
    BY DEF Init, Repositories, IsResolved
  <1>2. Empty \in AnyTable /\ DOMAIN Empty = {}
    BY EmptyIsTable DEF Tables, Empty
  <1>3. Closed(Empty)
    BY <1>2 DEF Closed
  <1>4. 0 \in 0 .. MaxExpiries
    BY RoutingAssumption
  <1>5. Avoiding
    BY <1>2 DEF Init, Avoiding, AvoidsSuspects
  <1>6. Matching
    <2>1. /\ m_state.neighbors = <<>> /\ m_state.twoHops = <<>> /\ m_state.topology = <<>>
          /\ m_table = Empty /\ m_tableAvoidingSuspects = Empty
      BY DEF Init
    <2>2. \A x : x \notin ToSet(<<>>)
      BY DEF ToSet
    <2>3. ASSUME NEW excluded PROVE Matches(m_state, excluded, Empty)
      <3>1. ReachableFrom({}, {}) \subseteq {}
        BY ReachableLeast
      <3>2. HeardNodes(m_state, excluded) = {}
        BY <2>1, <2>2 DEF HeardNodes
      <3>3. MustHaveRoute(m_state, excluded) \subseteq {}
        BY <2>1, <2>2, <3>1, <3>2 DEF MustHaveRoute
      <3>4. QED BY <1>2, <3>3 DEF Matches, Sound
    <2>4. QED BY <2>1, <2>3 DEF Matching
  <1>7. QED BY <1>1, <1>3, <1>4, <1>5, <1>6 DEF Init, RoutingInv, States

\* The tables after a computation.
LEMMA ComputedTables ==
    ASSUME m_state' \in States, RoutingTableComputation(m_state'), blacklist' = blacklist,
           blacklist \subseteq Suspects
    PROVE  Closed(m_table)' /\ Closed(m_tableAvoidingSuspects)' /\ Avoiding' /\ Matching' /\ fresh' \in BOOLEAN
  <1>1. m_table' \in Tables(m_state', {})
    BY CoreKeeps DEF RoutingTableComputation
  <1>2. m_tableAvoidingSuspects' \in Tables(m_state', blacklist)
    BY CoreKeeps DEF RoutingTableComputation
  <1>3. ASSUME NEW excluded, NEW table \in Tables(m_state', excluded)
        PROVE  /\ Closed(table)
               /\ \A d \in DOMAIN table : GetMainAddress(m_state', table[d].next) \notin excluded
    BY DEF Tables, DirectHop, Closed
  <1>4. Closed(m_table') /\ Closed(m_tableAvoidingSuspects')
    BY <1>1, <1>2, <1>3
  <1>5. Avoiding'
    <2>1. basis' = [suspects |-> blacklist, assocs |-> m_state'.assocs]
      BY DEF RoutingTableComputation
    <2>2. m_state'.assocs \in SUBSET Addrs
      BY StateShape
    <2>3. ASSUME NEW d \in DOMAIN m_tableAvoidingSuspects',
                 Main[m_tableAvoidingSuspects'[d].next] \in basis'.suspects
          PROVE  m_tableAvoidingSuspects'[d].next \notin
                    basis'.assocs \cup {Main[m_tableAvoidingSuspects'[d].next]}
      <3> DEFINE next == m_tableAvoidingSuspects'[d].next
      <3>1. GetMainAddress(m_state', next) \notin blacklist
        BY <1>2, <1>3
      <3>2. Main[next] \in blacklist
        BY <2>1, <2>3
      <3>3. next \notin m_state'.assocs /\ next # Main[next]
        BY <3>1, <3>2 DEF GetMainAddress
      <3>4. QED BY <2>1, <3>3
    <2>4. AvoidsSuspects'
      BY <2>3 DEF AvoidsSuspects
    <2>5. QED BY <2>1, <2>2, <2>4 DEF Avoiding
  <1>6. Matching'
    <2>1. \A excluded : Matches(m_state', excluded, ComputeRoutingTableCore(m_state', excluded))
      BY CoreMatches
    <2>2. /\ m_table' = ComputeRoutingTableCore(m_state', {})
          /\ m_tableAvoidingSuspects' = ComputeRoutingTableCore(m_state', blacklist')
      BY DEF RoutingTableComputation
    <2>3. QED BY <2>1, <2>2 DEF Matching
  <1>7. QED BY <1>4, <1>5, <1>6 DEF RoutingTableComputation, Closed

\* The tables while they wait for the next computation.
LEMMA StaleTables ==
    ASSUME RoutingInv, TablesStale
    PROVE  Closed(m_table)' /\ Closed(m_tableAvoidingSuspects)' /\ Avoiding' /\ Matching' /\ fresh' \in BOOLEAN
  BY DEF RoutingInv, TablesStale, tables, Closed, Avoiding, AvoidsSuspects, Matching

\* Every message and every timer keeps the invariant.
LEMMA RoutingInvStep == RoutingInv /\ [Next]_vars => RoutingInv'
  <1> SUFFICES ASSUME RoutingInv, [Next]_vars PROVE RoutingInv'
    OBVIOUS
  <1>1. m_state \in States /\ m_state \in Repositories
    BY DEF RoutingInv, States
  <1>2. ASSUME NEW m \in Hellos, RecvHello(m) PROVE RoutingInv'
    <2> DEFINE sensed == PopulateNeighborSet(LinkSensing(m_state, m), m)
    <2>1. m \in Hello
      BY RoutingAssumption
    <2>2. sensed \in States
      BY <1>1, <2>1, LinkSensingKeeps, PopulateNeighborKeeps
    <2>3. m_state' = PopulateTwoHopNeighborSet(sensed, m) /\ twoHopEvents' = twoHopEvents \cup NewTwoHops(sensed, m)
      BY <1>2 DEF RecvHello
    <2> HIDE DEF sensed
    <2>4. m_state' \in States
      BY <2>1, <2>2, <2>3, PopulateTwoHopKeeps
    <2>5. twoHopEvents' \subseteq TwoHop
      BY <2>1, <2>2, <2>3, NewTwoHopsKnown DEF RoutingInv, KnownTwoHops
    <2>6. Closed(m_table)' /\ Closed(m_tableAvoidingSuspects)' /\ Avoiding' /\ Matching' /\ fresh' \in BOOLEAN
      BY <1>2, <2>4, ComputedTables DEF RoutingInv, RecvHello
    <2>7. QED BY <1>2, <2>4, <2>5, <2>6 DEF RoutingInv, RecvHello
  <1>3. ASSUME NEW main \in {Main[a] : a \in Addrs}, RecvMid(main) PROVE RoutingInv'
    <2> DEFINE listed == {a \in Addrs : Main[a] = main /\ a # main}
               told == [m_state EXCEPT !.assocs = m_state.assocs \cup listed]
    <2>1. told \in Repositories
      BY <1>1 DEF Repositories
    <2>2. m_state' = Rename(told)
      BY <1>3 DEF RecvMid
    <2> HIDE DEF told
    <2>3. m_state' \in States
      BY <2>1, <2>2, RenameKeeps
    <2>4. Closed(m_table)' /\ Closed(m_tableAvoidingSuspects)' /\ Avoiding' /\ Matching' /\ fresh' \in BOOLEAN
      BY <1>3, <2>3, ComputedTables DEF RoutingInv, RecvMid
    <2>5. QED BY <1>3, <2>3, <2>4 DEF RoutingInv, RecvMid
  <1>4. ASSUME NEW m \in Tcs, RecvTc(m) PROVE RoutingInv'
    <2> DEFINE adverts == [d \in m.dests |-> [last |-> m.originator, dest |-> d]]
               new == {[last |-> m.originator, dest |-> d] : d \in m.dests}
               kept == Without(m_state.topology, {t \in ToSet(m_state.topology) : t.last = m.originator})
               list == kept \o SetToSeq(new)
    <2>1. m.originator \in Addrs /\ m.dests \subseteq Addrs
      BY RoutingAssumption DEF Tc
    <2>2. new \in SUBSET Topology
      BY <2>1 DEF Topology
    <2>3. IsFiniteSet(new)
      <3>1. IsFiniteSet(m.dests)
        BY <2>1, RoutingAssumption, FS_Subset
      <3>2. new = {adverts[d] : d \in m.dests}
        OBVIOUS
      <3>3. DOMAIN adverts = m.dests
        OBVIOUS
      <3> HIDE DEF adverts, new
      <3>4. QED BY <3>1, <3>2, <3>3, FiniteImage
    <2>4. m_state' = [m_state EXCEPT !.topology = list]
      BY <1>4 DEF RecvTc
    <2> HIDE DEF new
    <2>5. kept \in Seq(Topology)
      BY <1>1, StateShape, WithoutKeeps
    <2>6. SetToSeq(new) \in Seq(Topology)
      BY <2>2, <2>3, SetToSeqKeeps
    <2> HIDE DEF kept
    <2>7. list \in Seq(Topology)
      BY <2>5, <2>6, ListOfConcat
    <2> HIDE DEF list
    <2>8. m_state' \in States
      BY <1>1, <2>4, <2>7, WithTopology
    <2>9. Closed(m_table)' /\ Closed(m_tableAvoidingSuspects)' /\ Avoiding' /\ Matching' /\ fresh' \in BOOLEAN
      BY <1>4, <2>8, ComputedTables DEF RoutingInv, RecvTc
    <2>10. QED BY <1>4, <2>8, <2>9 DEF RoutingInv, RecvTc
  <1>5. ASSUME Expiry, expiries < MaxExpiries, expiries' = expiries + 1 PROVE RoutingInv'
    <2>1. expiries' \in 0 .. MaxExpiries
      BY <1>5, RoutingAssumption DEF RoutingInv
    <2>2. ASSUME NEW k \in DOMAIN m_state.links, SymTimeOver(k) PROVE RoutingInv'
      <3>1. m_state' \in States
        BY <1>1, <2>2, SymTimeOverKeeps
      <3>2. \/ TablesStale
            \/ RoutingTableComputation(m_state') /\ blacklist' = blacklist
        BY <2>2 DEF SymTimeOver
      <3>3. Closed(m_table)' /\ Closed(m_tableAvoidingSuspects)' /\ Avoiding' /\ Matching' /\ fresh' \in BOOLEAN
        BY <3>1, <3>2, ComputedTables, StaleTables DEF RoutingInv
      <3>4. QED BY <2>1, <2>2, <3>1, <3>3 DEF RoutingInv, SymTimeOver
    <2>3. ASSUME NEW k \in DOMAIN m_state.links, LinkTimeOver(k) PROVE RoutingInv'
      <3>1. m_state' \in States
        BY <1>1, <2>3, LinkTimeOverKeeps
      <3>2. Closed(m_table)' /\ Closed(m_tableAvoidingSuspects)' /\ Avoiding' /\ Matching' /\ fresh' \in BOOLEAN
        BY <2>3, StaleTables DEF LinkTimeOver
      <3>3. QED BY <2>1, <2>3, <3>1, <3>2 DEF RoutingInv, LinkTimeOver
    <2>4. ASSUME NEW pair \in twoHopEvents, Nb2hopTupleTimerExpire(pair) PROVE RoutingInv'
      <3>1. m_state' \in States
        BY <1>1, <2>4, TwoHopExpireKeeps
      <3>2. Closed(m_table)' /\ Closed(m_tableAvoidingSuspects)' /\ Avoiding' /\ Matching' /\ fresh' \in BOOLEAN
        BY <2>4, StaleTables DEF Nb2hopTupleTimerExpire
      <3>3. QED BY <2>1, <2>4, <3>1, <3>2 DEF RoutingInv, Nb2hopTupleTimerExpire
    <2>5. ASSUME NEW k \in DOMAIN m_state.topology, TopologyTupleTimerExpire(k) PROVE RoutingInv'
      <3> DEFINE list == RemoveAt(m_state.topology, k)
      <3>1. list \in Seq(Topology)
        BY <1>1, StateShape, RemoveAtKeeps
      <3>2. m_state' = [m_state EXCEPT !.topology = list]
        BY <2>5 DEF TopologyTupleTimerExpire
      <3> HIDE DEF list
      <3>3. m_state' \in States
        BY <1>1, <3>1, <3>2, WithTopology
      <3>4. Closed(m_table)' /\ Closed(m_tableAvoidingSuspects)' /\ Avoiding' /\ Matching' /\ fresh' \in BOOLEAN
        BY <2>5, StaleTables DEF TopologyTupleTimerExpire
      <3>5. QED BY <2>1, <2>5, <3>3, <3>4 DEF RoutingInv, TopologyTupleTimerExpire
    <2>6. ASSUME NEW a \in m_state.assocs, IfaceAssocTupleTimerExpire(a) PROVE RoutingInv'
      <3>1. m_state' \in States
        BY <1>1, <2>6, AssocExpireKeeps
      <3>2. Closed(m_table)' /\ Closed(m_tableAvoidingSuspects)' /\ Avoiding' /\ Matching' /\ fresh' \in BOOLEAN
        BY <2>6, StaleTables DEF IfaceAssocTupleTimerExpire
      <3>3. QED BY <2>1, <2>6, <3>1, <3>2 DEF RoutingInv, IfaceAssocTupleTimerExpire
    <2>7. ASSUME NEW a \in Suspects, Verdict(a) PROVE RoutingInv'
      <3>1. blacklist' \subseteq Suspects
        BY <2>7 DEF RoutingInv, Verdict
      <3>2. Closed(m_table)' /\ Closed(m_tableAvoidingSuspects)' /\ Avoiding' /\ Matching' /\ fresh' \in BOOLEAN
        BY <2>7, StaleTables DEF Verdict
      <3>3. QED BY <2>1, <2>7, <3>1, <3>2 DEF RoutingInv, Verdict
    <2>8. QED BY <1>5, <2>2, <2>3, <2>4, <2>5, <2>6, <2>7 DEF Expiry
  <1>6. CASE UNCHANGED vars
    BY <1>6 DEF vars, tables, RoutingInv, Closed, Avoiding, AvoidsSuspects, Matching
  <1>7. QED BY <1>2, <1>3, <1>4, <1>5, <1>6 DEF Next

\* The repositories and both tables keep their types.
THEOREM RoutingTypes == Spec => []TypeOK
  <1>1. RoutingInv => TypeOK
    <2> SUFFICES ASSUME RoutingInv PROVE TypeOK
      OBVIOUS
    <2>1. m_state \in States
      BY DEF RoutingInv
    <2>2. /\ ToSet(m_state.links) \subseteq Link /\ ToSet(m_state.neighbors) \subseteq Neighbor
          /\ ToSet(m_state.twoHops) \subseteq TwoHop /\ ToSet(m_state.topology) \subseteq Topology
          /\ m_state.assocs \subseteq Addrs
      BY <2>1, StateShape, ListOfToSet
    <2>3. ASSUME NEW table \in AnyTable PROVE TableOK(table)
      BY TableShape DEF TableOK
    <2>4. QED BY <2>2, <2>3 DEF RoutingInv, TypeOK, Closed, Avoiding
  <1>2. QED BY <1>1, RoutingInvInit, RoutingInvStep, PTL DEF Spec

\* FindSendEntry finds a direct route in one step from every entry of either
\* table, for any number of addresses and however stale the tables are.
THEOREM RoutesResolve == Spec => []SendEntryFound
  <1>1. RoutingInv => SendEntryFound
    BY DEF RoutingInv, SendEntryFound, Closed
  <1>2. QED BY <1>1, RoutingInvInit, RoutingInvStep, PTL DEF Spec

\* ProcessMid, ProcessHello and the expiry of associations leave no tuple
\* under an address that is known to be a secondary one.
THEOREM OnlyMainAddresses == Spec => []Resolved
  <1>1. RoutingInv => Resolved
    <2> SUFFICES ASSUME RoutingInv PROVE Resolved
      OBVIOUS
    <2>1. IsResolved(m_state)
      BY DEF RoutingInv, States
    <2>2. QED BY <2>1 DEF IsResolved, IsMain, Resolved, ToSet
  <1>2. QED BY <1>1, RoutingInvInit, RoutingInvStep, PTL DEF Spec

\* RoutingTableComputation misses nothing and makes nothing up, for any
\* repositories: a table just computed has a route to all that its three steps
\* can reach, and a chain of recorded links leads from the next hop of each
\* route to its destination.
THEOREM RoutesAreKnown == Spec => []RoutesMatchKnowledge
  <1>1. RoutingInv => RoutesMatchKnowledge
    <2> SUFFICES ASSUME RoutingInv, fresh,
                        NEW r \in {<<m_table, {}>>, <<m_tableAvoidingSuspects, blacklist>>}
                 PROVE  /\ MustHaveRoute(m_state, r[2]) \subseteq DOMAIN r[1]
                        /\ \A next \in {r[1][d].next : d \in DOMAIN r[1]} :
                              /\ next \in HeardNodes(m_state, r[2])
                              /\ {d \in DOMAIN r[1] : r[1][d].next = next} \subseteq
                                    ReachableFrom({next, GetMainAddress(m_state, next)},
                                                  Adjacent(m_state, {}))
      BY DEF RoutesMatchKnowledge
    <2>1. Matches(m_state, r[2], r[1])
      BY DEF RoutingInv, Matching
    <2>2. QED BY <2>1 DEF Matches, Sound, Behind
  <1>2. QED BY <1>1, RoutingInvInit, RoutingInvStep, PTL DEF Spec

\* No next hop of the second table was known to belong to a suspect when the
\* table was computed: an address that does belong to one is an unassociated
\* interface.  Of the suspects of the moment nothing follows, and nothing of
\* what the nodes behind the next hop do.
THEOREM SuspectsAvoided == Spec => []AvoidsSuspects
  <1>1. RoutingInv => AvoidsSuspects
    BY DEF RoutingInv, Avoiding
  <1>2. QED BY <1>1, RoutingInvInit, RoutingInvStep, PTL DEF Spec

=============================================================================
