# OLSR with blackhole defences: TLA+ models and proofs

This directory holds a verification development for the OLSR routing protocol of
this repository (`src/olsr`), an ns-3 model extended with attackers and with
defence strategies. The specifications are translated from the C++ sources;
`PROJECT.json` maps every definition to the lines it stands for.

## 1. The system

Every node runs one `olsr::RoutingProtocol`. It is driven by the ns-3
simulator: one event at a time, run to completion, in time order. There are no
threads; what is concurrent is the order of events of one instant, the order and
fate of messages, and timers that fire for state which changed after they were
set.

| Component | State | Operations | Interacts with |
|---|---|---|---|
| Link sensing, neighbourhood (`olsr-routing-protocol.cc`, `olsr-state.cc`) | link set, neighbour set, two-hop set, MPR selector set, one pending event per link / tuple, `m_linkTupleTimerFirstTime` | `ProcessHello` (`LinkSensing`, `PopulateNeighborSet`, `PopulateTwoHopNeighborSet`, `MprComputation`, `PopulateMprSelectorSet`), `SendHello`, `LinkTupleTimerExpire`, `Nb2hopTupleTimerExpire`, `MprSelTupleTimerExpire`, `NeighborLoss` | HELLOs of the neighbours; MPR selection; moves the ANSN |
| MPR selection | MPR set | `MprComputation`, `Degree`, `CoverTwoHopNeighbors` | neighbour and two-hop sets; `IsMalicious` of the defence; HELLOs advertise the result |
| Topology dissemination | `m_ansn`, topology set, tuple events | `TcTimerExpire`, `SendTc`, `ProcessTc`, `TopologyTupleTimerExpire` | MPR selectors are what a TC advertises; the flood; routing table; defence rules |
| Flooding | duplicate set, `m_queuedMessages`, its timer | `RecvOlsr`, `ForwardDefault`, `QueueMessage`, `SendQueuedMessages`, `DupTupleTimerExpire` | every flooded message; selector set, link set |
| Routing table | `m_table`, `m_tableAvoidingSuspects` | `RoutingTableComputation`, `Lookup`, `FindSendEntry`, `RouteInput`, `RouteOutput` | all sets above; blacklist of the defence |
| MID and HNA | interface association set, association sets | `ProcessMid`, `ProcessHna`, `SendMid`, `SendHna`, expiry events | rewrites addresses in the neighbourhood; routing table |
| Codecs | none | `SecondsToEmf`, `EmfToSeconds`, message (de)serialisation | hold times travel encoded |
| DCFM / GCOP defence | risky nodes, enabled flag | `OnRecvHello` (three contradiction rules), `RequiresFictitiousNode`, `SetEnabled` | reads the neighbourhood and topology sets of its node |
| Watchdog defence | evidence counters, pending packets, blacklist, probation, MAC windows | sniffer and MAC callbacks, `PeriodicCheck`, `SetEnabled` | data path, MAC, 1 s defence timer |
| Trust, FPNT (`files for all defenses/`) | trust values, fuzzy Petri net | alternative builds of the same files | as DCFM |
| Harness (`scratch/`) | windows, feature vectors | sets up and measures runs | switches defences on and off |

What is hard here: soft state with timers that fire late and for replaced
tuples; messages lost, overtaking one another and repeated; sequence numbers that
wrap; state of one set derived from another that has aged meanwhile; tuples that
are renamed while their events carry the old name; comparisons with `<` in one
place and `<=` in another at one instant; copies of a message that come over
several neighbours and interfaces; a periodic check that is both self-scheduled
and called from outside, and frames that two hooks report.

What makes the components correct:

* topology set: never goes back to an older advertisement, never holds a link
  longer than its lifetime, forgets nodes that are gone;
* MPR selection: every two-hop neighbour is covered by a willing symmetric relay,
  and the computation ends;
* neighbourhood: a neighbour is symmetric only while a link to it is heard, and
  what was derived from it goes when it goes;
* flooding: each message is processed and retransmitted at most once per node,
  reaches every node through MPRs if nothing is lost, and is forgotten;
* routing table: routes to all that is known, along recorded links, through next
  hops that exist; the second table around the suspects;
* defences: no verdict without the evidence the code asks for, nothing kept
  across a reset, nothing done while disabled, and a verdict ends.

## 2. Modules

| Module | Models | Status |
|---|---|---|
| `OlsrTopology` | the topology set of a node and the originators that fill it | checked, proved |
| `AdvertisedView` | abstract specification of a topology set: originators offer what they have, a set takes whole offers over | refined by `OlsrTopology` |
| `OlsrMpr` | `MprComputation` | checked, proved |
| `OlsrNeighborhood` | link, neighbour, two-hop and MPR selector sets of a node and their events | checked, proved |
| `OlsrFlooding` | message queues, packets, duplicate sets and `ForwardDefault` of a network | checked, proved |
| `OlsrRouting` | both routing tables of a node, over the sets they are computed from, `ProcessMid` included | checked, proved |
| `OlsrDcfm` | the DCFM / GCOP rules and the hexagon search of a node, over the sets HELLOs and TCs fill | checked, proved |
| `OlsrWatchdog` | the watchdog of a node with its two timers and hooks | checked, proved |
| `Olsr...Proofs` | theorems about the module of that name | proved |
| `ListLemmas` | what lists and loops over them keep, cited by the proofs about routing and flooding | proved |
| `MC...` | instances for TLC | |

The components are tied together by contracts. `OlsrMprProofs` proves what
`MprComputation` returns; `OlsrNeighborhood` uses exactly that, and
`OlsrFlooding` states its delivery property under it (`Covered`). `OlsrRouting`
and `OlsrDcfm` each contain the handlers that fill the sets they read.

### OlsrTopology

Variables and the code: `mprSelectors`, `ansn`, `tcTimer` are the selector set,
`m_ansn` and the TC timer of each originator; `topologySet` is
`m_state.m_topologySet` of the receiving node, a tuple's `left` being
`expirationTime - now`; `timers` are the pending `TopologyTupleTimerExpire`
events; `net` is the flood: a set of TCs, each delivered at most once (the
duplicate set), in any order, within `MaxDelay`, or never. A tick stands for the
microsecond that `DELAY` adds to every deadline, so an event runs one tick after
`expirationTime`. `advanced`, `sinceAdv`, `accepted` are history variables.

Every handler that changes `m_ansn` or the advertised set is an action of the
originator: adding and expiring selectors (ANSN moves), `NeighborLoss` (selector
goes, ANSN stays), new neighbours (ANSN moves, set stays), a TC with the
addresses a defended or malicious originator injects, the malicious offset.
The receiver's actions are `ProcessTc`, the loss or discarding of a TC, and the
expiry event with its three outcomes.

### OlsrMpr

The numbered steps of `MprComputation` are the actions; every neighbour set,
status, willingness and two-hop set is an initial state, since the computation may
run on any state the sets are in. A choice the code makes by list order is
nondeterministic. The two-hop set is a set of pairs: duplicates that `ProcessMid`
may create are not represented (they would only change reachability counts).

### OlsrNeighborhood

The state is that of one node: the four sets with the deadlines of their tuples
(`symTime` and `linkTime` are `LinkTuple::symTime` and `time`, minus now), the
pending expiry events, the MPR set and `m_linkTupleTimerFirstTime`. `asymTime`
is left out: only `SendHello` reads it. `ProcessHello` is one action with every
function it calls, in the code's order; a HELLO says over which link it comes,
how it lists this node and how it lists each two-hop neighbour. A link code the
code ignores is a HELLO that does not list this node. `MprComputation` is taken
by its contract, the one `OlsrMprProofs` proves: willing symmetric neighbours that
cover. The neighbours are free: they send any HELLO at any time, the same instant
included, or fall silent. Each interface's main address is fixed (`Main`); what
`ProcessMid` rewrites is in `OlsrRouting`, the node's ANSN in `OlsrTopology`.
`sinceHeard` is a history variable.

Two things the model brings out and no documentation promises against: an MPR
whose link tuple ends through `RemoveLinkTuple` stays in the MPR set until the next
HELLO of anyone, because only `NeighborLoss` recomputes it, and if no HELLO comes it
stays for ever (`MprsAreSymmetric` and `SilentForgotten` say so); and the link event of a
refreshed link is not moved, so a link whose symmetry lapses may be removed without
a neighbour loss.

### OlsrFlooding

`node[n]` holds `m_queuedMessages`, the duplicate set and the pending
`DupTupleTimerExpire` events of node `n`; `queueTimer` is
`m_queuedMessagesTimer`. `SendQueuedMessages` cuts the queue into packets of
`OLSR_MAX_MSGS` and broadcasts them on every interface; a packet waits in
`arriving` of each interface in range until `RecvOlsr` there handles it,
message by message, as the code does: own messages and messages with no time to
live are dropped, known ones are not processed again, then `ForwardDefault`
decides. A message is an id with its time to live and hop count; what it says is
irrelevant to the flood. `sym` and `selectors` answer `FindSymLinkTuple` and
`FindMprSelectorTuple`; they may change, and packets may be lost, `MaxDisturbances`
times. A jitter is any number of ticks up to `MaxJitter`.

### OlsrRouting

The five sets are lists in the order the code appends to them, because routes of
equal length depend on it; `m_table` and `m_tableAvoidingSuspects` are functions
from address to next hop and distance. `RoutingTableComputation` is translated
step by step (links of symmetric neighbours, two-hop neighbours, topology by
distance, interface associations), a recursive function for each of the code's loops, and is run
where the code runs it: at the end of every received packet, and not after most
timer events. Interfaces of a neighbour count as separate neighbours until a MID
tells otherwise; `RecvMid` renames neighbour and two-hop tuples and leaves the
events (`twoHopEvents`) with the old names. There is no clock: a tuple's event may
find it expired at any time. `basis` is a history variable: the suspects and the
interface associations both tables were computed from. The local interface of a route is left out: there is
one, and `AddEntry` only fails for an unknown one.

### OlsrDcfm

`RecvHello` is `OnRecvHello` followed by `ProcessHello`, in that order: a sender
is judged by what its earlier HELLOs left behind. The three rules are operators
over the two-hop pairs so that the same rule can be asked about what was truly
listed. The network's links are fixed in a behaviour; neighbours list them
truthfully except for what `Claims` allows one of them, an address without a link
or the fictitious node. A HELLO may deny addresses (`Denials`: they are listed as
NOT_NEIGH, which erases their two-hop tuples at once), may say that it lost this
node or not list it, and `LinkSensing` keeps the symmetric time that follows from
it; without symmetry nothing is learnt from a HELLO, and `NeighborLoss` erases what
was. Its event may be late or, the first time, do nothing, so it is an action that
may happen but need not. `RunGcohpAlgorithm` is the hexagon search behind
`RequiresFictitiousNode`. TCs list all links of their sender. Every node has one
interface here: the rules are given the address a HELLO came from, while the sets
are kept under its originator, and with several interfaces the two may differ.
`RunGcopAlgorithm` is off the live path
(`RequiresFictitiousNode` calls the other one) and left out.

### OlsrWatchdog

Per neighbour: `packetsSentTo`, `packetsForwarded`, `macTxFailures`,
`notForwardedEvidence`, the pending packets with their age, the state of probation,
the RTS/CTS difference of the current and the previous round, the term of a
verdict; per node: the warm-up, the drop windows, the switch. The hooks are
actions: data handed to a next hop, MAC drops, overheard relays, other frames,
RTS and CTS, reception drops. Two timers run the checks: `PeriodicCheck` as an
event that schedules itself (`checksDue`, `checksNext` count such events), and
`HandleDefenseTimer`, which calls it and so starts one more. A packet handed to the
MAC may never reach its next hop (`lost`); the failure is reported to the
destination of the IP header, as in the code. A packet the MAC gave up on may have
arrived all the same, its acknowledgement lost, and may be overheard. A relayed frame
is reported by two hooks, and `OverhearRelay` runs `OnNeighborForwardedPacket` twice,
as they do. `sinceReset` is a history variable;
`MCOlsrWatchdogWindow` adds one more for its finding. A `BlacklistDuration` of
zero, which disables the release, is not modelled.

## 3. Runs

| Run | Shows | Bounds and why they suffice |
|---|---|---|
| `topology` | types, one ANSN per originator, every tuple has its event, staleness bound, no rollback, refinement of `AdvertisedView` (whole TCs are taken over, never mixed with older ones), links of a silent originator are forgotten | one originator (tuples of different originators never meet), two links, hold time 3, delay 1 so a TC overtakes the one sent a tick earlier, ANSN moves twice starting at 65535 so it wraps at once |
| `mpr` | coverage, willing relays, backup rule, the greedy loop ends | three neighbours, one of them also a target, every status, and one willingness for each way the code treats it (never, ordinary, always) |
| `neighborhood` | events, bounds on symmetric status and two-hop tuples, agreement of the five sets; the tuples and events of a silent neighbour go, the MPR set may keep it | one neighbour over one interface, one two-hop neighbour, validity and hold time 2 (the code has them equal), so that every order of deadlines, HELLOs and events occurs; tuples of different neighbours meet only in the MPR set, and the proofs hold for any number of neighbours and interfaces |
| `flooding` | a message is retransmitted at most once per node in spite of losses and changes, reaches everyone once if there are none, is forgotten by no node before the hold time has passed, and ends | five nodes: two ways from the originator to a node, one of them through a relay with two interfaces, and a node behind; a HELLO beside the TC; one message per packet so that a queue of two is cut; one disturbance, anywhere at any time; hold time above the longest flood |
| `routing` | a send-entry is found in one step, addresses are resolved, routes are what the sets imply, the next hops of the second table are none of the suspects it was computed with, as far as interfaces were known | two neighbours, one with two interfaces, two nodes behind; five HELLOs that between them list, lose and deny, one of them from a second interface with no will to relay; three pending two-hop events, two expiries or verdicts |
| `dcfm` | verdicts follow from recent HELLOs, less what was denied since, and from nothing else; none leaks over a switch, flags go in calm; every ring of six whose links were heard is seen, and nothing else once all is known | a ring of six nodes, the smallest with a hexagon, without a chord and with one from a neighbour to the other's neighbour, the case the search must look for by name (a chord between the two neighbours asks for the TCs of both before anyone can be cleared by rule 2, which doubles the states: checked once with all four TCs, 200 000 states, and not kept); one neighbour may list a link it has not or the fictitious node, and may deny its link to the next node; TCs of the three nodes that the two searches can learn more from; two changes (switches, claims, topology and link losses, HELLOs that deny or have not heard this node) |
| `watchdog` | each packet counts once, verdicts are justified, not early, end in bounded time and always end | one next hop (neighbours share only the drop windows), one destination, three packets for a threshold of two, so that evidence before and during probation occur; one self-scheduled check beside the defence timer's per instant |
| `topology_wrap` | finding: TCs after the wrap look old | ANSN 65200, two offsets of 200 |
| `watchdog_blame` | finding: evidence for a packet the MAC could not deliver | two packets, one failure |
| `watchdog_window` | finding: the MAC window is shorter than a packet's lifetime | two checks per instant |
| `routing_two_hop` | finding: a renamed two-hop tuple has no event | as `routing` |
| `dcfm_latest_hello` | finding: a clean HELLO does not clear, it may even flag | as `dcfm`, nothing denied |

Deadlock checking is off for `mpr` and `flooding` only: a computation returns, and a
network that has nothing to send and nothing to forget rests.

In the run `neighborhood`, `LinksMatchNeighbors` and `MprsAreSymmetric` are stated
for one interface per neighbour; with several they do not hold (see section 5), and
what holds then is in the proofs and in `routing`.

Fairness. The simulator runs every scheduled event and then advances its clock, so
`Tick` and every timer event are weakly fair (`topology`, `neighborhood`,
`flooding`, `dcfm`, `watchdog`), and a packet or TC in the air is received or lost
by the end of its delay. HELLOs of a neighbour are not fair in `neighborhood`: it may
stop at any time. They are in `dcfm`, whose liveness property is about a network in
which not all HELLOs are lost. In `mpr` a running function keeps running.

## 4. Proofs

Each theorem holds for all constants that meet the named assumption of its module.
An invariant that is not inductive is proved from one that is:

* `OlsrTopologyProofs`. `SoftState`: types, `OneAnsnPerOriginator` and
  `EveryTupleHasTimer`, inductive together: an expiry event may only remove a tuple
  because the event that follows its deadline is still pending. `Staleness` adds
  `InFlightFresh` (a TC in flight is at least as old as the time since its links
  were advertised). `RollbackFree` holds under `OneAnsnCycle` (ANSNs start at
  65535 and do not go round once more) and `FloodWithinHoldTime` (no TC is in the
  flood longer than a tuple is held): the invariant ties the numbers in flight and in
  the set to the history (`NumbersInv`) and says that while an overtaken TC is in
  flight a tuple of the newer one is still held (`OvertakenInv`). Both assumptions
  are needed.
* `OlsrMprProofs`. `MprCoverage` and `MprSelection` from the invariant that N2 is
  exactly what the relays chosen so far leave uncovered (`MprInv`); `MprTypesKept`;
  `CandidateExists` and `GreedyShrinks`, which together say that step 4 always has a
  candidate and always takes records away, the safety half of `Terminates`;
  `DegreeCountsNothing`.
* `OlsrNeighborhoodProofs`. `TuplesAreTimed`, `SymmetryIsBounded` and
  `TwoHopsAreBounded` from one invariant, `IndInv`: every tuple has its event (so the
  clock cannot pass a deadline without the event that ends the tuple), a symmetric
  link was heard within a validity time, and the link a symmetric status rests on
  ends by `SymmetryLimit` after it was last heard. The limit is the larger of two
  validity times and validity plus hold time, because a HELLO that does not list this
  node still prolongs the tuple. `SetsAgree` assumes one interface per neighbour
  (`OneInterface`) and adds `Consistent`.
* `OlsrWatchdogProofs`. `Accounting`, `Verdicts`, `Terms` and `SwitchedOff` from
  `IndInv`: what a node's counters say of each other (`NodeInv`) and that verdicts are
  reviewed at the round (`TimersAtRound`); `Warmup` needs that warm-up and probation
  count against the time since the reset (`WarmupCounts`). They hold for any number
  of neighbours, packets and self-scheduled checks.
* `OlsrDcfmProofs`. `ColdStart`, and `RecentVerdicts` from `DcfmInv`, which ties the
  age of every two-hop tuple to the time since its address was last listed, denied
  or erased with its neighbour (`TupleAge`). `HexagonsAreRings` is about the hexagon
  search, for any number of neighbours and any network, in two halves with different
  conditions. If all a node knows of is true (`Truthful`), it finds every induced ring
  whose links it has heard (`RingHeard`), whatever else it has not heard
  (`RingIsHexagon`). If it knows all links (`KnowsAll`), what it finds is such a ring:
  the six nodes are different, adjacent around the ring and nowhere else
  (`HexagonIsRing`, `RingAsLinks`). False links may hide a ring or make one, and an
  unheard chord may make one; the theorem says nothing of that. The far node must be three hops away: a ring whose far node has a
  link to another neighbour is dropped by the search on purpose, as a comment of
  `RunGcohpAlgorithm` says, and `InducedRing` says so too. The assumption that the
  links of this node lead to the nodes it hears (`DcfmAssumption`) is used here.
* `OlsrRoutingProofs`. `RoutingTypes`, `RoutesResolve`, `OnlyMainAddresses` and
  `SuspectsAvoided` from `RoutingInv`: the repositories hold main addresses only
  (`States`), both tables are closed under next hops, each of which is a direct route
  (`Closed`), and the next hops of the second table, whenever it was computed, have
  no main address that was suspected then, by the associations of then (`Avoiding`). Each loop of the computation stays among the
  closed tables, step by step, whatever the order and the repetitions in the sets.
  `SuspectsAvoided` is a statement about next hops and about the computation. An
  interface of a suspect that no MID has associated counts as a neighbour of its own
  and is not avoided, and verdicts that come later are not looked at.

  `RoutesAreKnown` says what the loops compute, not only what they keep (`Matching`).
  Soundness: each loop stays among the tables whose routes lie behind their next hops
  in the recorded graph. Completeness: a pass over a set leaves a route for each of its
  tuples that qualifies, and no pass takes a route away; a turn of the topology walk
  reaches all that is one tuple further (`WalkedTurn`), a turn that adds nothing means
  that nothing is left to reach, and as every turn but the last gives some address a
  route of a new length there are no more turns than addresses (`WalkIsComplete`).
  Reachability itself is the least set closed under the edges (`ReachableLeast`,
  `ReachableClosed`). The walk starts two hops out, so what a neighbour alone
  advertises in its TCs leads nowhere (`MustHaveRoute`), and interface associations
  come after the walk.
* `OlsrFloodingProofs`. `FloodTypes` and `TuplesHaveOneEvent` from `TypeInv`: in every
  duplicate set a message has at most one tuple, that tuple exactly one event, and the
  event is due at the latest one tick after the tuple's deadline, so time cannot pass a
  tuple that has expired. `HeldLongEnough` is the other side: until its deadline a tuple
  is neither removed nor shortened, and forgets nothing of what it says. `SentOnOnce` adds `OnceInv`, which relates every copy that is
  queued or on the air to all duplicate sets: no tuple of its message is older than the
  jitters its hops and its wait account for, its hops are at most the number of nodes
  that have sent the message on, and each of those nodes still holds the tuple that
  says so. Hence a copy cannot meet a node that has sent the message on and forgotten
  it. The theorem assumes `FloodsAreShort`: the longest jitter times the number of nodes,
  or times the time to live, fits `OLSR_DUP_HOLD_TIME`. With the code's half second and
  30 seconds that is a network of 60 nodes; without it a tuple may end while a copy that
  waited at every hop is still under way, and a second retransmission is possible. The
  number of nodes is enough because a node's retransmission counts one hop at most once,
  and the originator drops its own message. Losses, changes of links and of selectors
  need no assumption.

  `FloodsReachAll` is `FloodComplete` for every connected network (`Connected`) whose
  MPR selectors cover the two-hop neighbourhoods, as long as nothing is lost or
  changed. `CompleteInv` adds what an undisturbed flood keeps. A node that sent a
  message has told, or is about to tell, everyone in range (`ReachedInv`); nobody
  forgets a message while a copy is under way (`Remembered`, from the ages of
  `OnceInv`), so it is processed once (`Told`). The heart is `FirstInv`, because a node
  decides on its first copy and another sender may be the first: take a node t that has
  no neighbour among the senders, and next to it a node that has the message. Then some
  node u, two hops from t, was the first to bring the message near t, and the relays
  that u selected towards t still have u's copy first in line on every interface that
  hears u. Such a relay cannot take it in without sending it on. When the flood is over
  no copy is in line, so the nodes with the message have no link to the others
  (`AllTold`). The argument uses that a broadcast arrives at all interfaces in range
  before the next one there, and it assumes `FloodsAreShort` and `FloodsLiveLong`: at
  most one node more than the time to live, 256 for the code's TCs. The bound is sharp:
  a chain of one node more ends out of reach. The run has a smaller time to live on
  purpose, so that copies do reach its end.
* `ListLemmas`. A loop of the code is a recursive function over the first numbers; the
  lemmas say that its values exist and stay in any set that its start is in and its body
  keeps (`LoopExists`, `InductionUpTo`), and what appending, erasing and replacing keep.

`Refinement` in `OlsrTopologyProofs` states that a topology set implements
`AdvertisedView`, under the assumptions of `RollbackFree`. There an originator offers
all it has to advertise at a time, with its number and possibly with injected
addresses; a holder replaces what it holds of the originator by one newer offer as a
whole, or adds an offer of the number it holds. The TCs on their way are the offers: a
node holds nothing that no TC of the present number listed, and never a mixture with an
older one. Links advertised under one number may come from several TCs, because
`NeighborLoss` changes the set without moving the ANSN. An expiry event takes one link
away.

Only model-checked:

* liveness (`SilentForgotten`, `Terminates`, `FloodsEnd`, `Cleared`, `Readmitted`), which
  is outside the prover;
* the findings.

## 5. Findings and notes

With a run (`findings` in `PROJECT.json`): plain comparison of sequence numbers
contradicts the "Sequence Number Arithmetic" of the malicious TC; a MAC failure is
credited to the IP destination, so a next hop is blamed for packets it never got; the
two-round MAC window rotates several times a round; a two-hop tuple renamed by a MID
is never timed out; a clean HELLO does not clear the flag of a neighbour that stopped
violating, because the rules read what the HELLOs before it left, which lasts for
their validity time (its trace: a neighbour drops a false claim, and the clean HELLO
that follows sets its flag).

Differences between comment and code met on the way, without a run:

* `Degree()` is 0 for every candidate (`olsr-routing-protocol.cc:757`), so it decides
  no tie, against the comment at 1022-1024: theorem `DegreeCountsNothing`.
* The backup rule (1104) acts only if all MPRs are suspects, so a suspect may stay the
  sole MPR of a target, against the comment at 820-824.
* Step 3 erases several records of a two-hop neighbour (955, comment at 960-961).
* `LinkTupleAdded` (2867) demotes a neighbour that has another symmetric link;
  `LinkTupleUpdated` (2892) asks all links.
* The suspect-avoiding table is used after the verdicts have changed, until the next
  OLSR packet: a table computed without suspects names the suspect of a later verdict as
  next hop, and `RouteOutput` (3467-3482) does not ask again, while the comment at
  3395-3396 says that every suspected node is avoided. What the stale table still keeps
  is `AvoidsSuspects`.
* The first symmetric timeout of a node is swallowed (3179) and is no neighbour loss,
  against `olsr-routing-protocol.h:602-604`: two-hop and selector tuples stay until they
  time out. `SymmetryBound` bounds what follows.
* `olsr-defense-gcop.cc:493` speaks of a minimum-size guard of rule 3; there is none.
* The header of the GCOP defence and the repository's README name GCOP with GCOHP as
  a fallback; the live path runs GCOHP alone.
* The fictitious node enters and leaves TCs without a new ANSN (2274). The loop that
  clears the HNA table (1453) removes half of it.

## 6. Not modelled

* HNA: its sets are touched by no other component; with it go the HNA table and the
  host network associations.
* `RouteInput`, `RouteOutput` and their callbacks: what they read of the tables is
  `SendEntryFound`; the rest is ns-3's forwarding.
* Codecs: byte layout and a floating-point encoding of times; messages carry exact
  times here.
* The defence interface: empty virtual functions; each hook that does something is in
  the module of the defence that overrides it.
* Trust and FPNT (`files for all defenses/`): alternative builds of the same files
  whose verdicts are floating-point trust values and fuzzy inference. The copies of the
  OLSR sources there are not mapped a second time.
* Helper, harness and example programs: configuration and statistics; the harness
  appears as the actions that switch a defence.
* All other directories are stock ns-3 (LTE, Wi-Fi, TCP and so on). Its clock and
  event queue are the environment of every module (`Tick`, pending events).

## 7. What could follow

Two nodes exchanging lossy HELLOs (an instance of `OlsrNeighborhood` each) and the
liveness of their link; that routes are shortest within the topology walk; the time
codec as a pure algorithm over integers.
