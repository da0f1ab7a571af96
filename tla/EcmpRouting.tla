----------------------------- MODULE EcmpRouting -----------------------------
(***************************************************************************)
(* Equal-cost multipath in ns3::Ipv4GlobalRouting: the route tables of the *)
(* nodes, the weight table all nodes share, which is read once from a file *)
(* and cached by node and number of candidates, and the choice of a next   *)
(* hop for every packet.                                                   *)
(*                                                                         *)
(* A packet is its destination, whether the lookup finds a TCP or UDP      *)
(* header in it, and the hash h of what the lookup takes for its           *)
(* addresses, ports and protocol.  FNV-1a and the avalanche step are any   *)
(* function, and the node's salt, which is mixed in, covers the node's     *)
(* number and the addresses of its interfaces: h is a hash for every node  *)
(* and every set of addresses the node may have.  The lookup that          *)
(* GetEgressPortOrInvalid makes is one with another h: its payload still   *)
(* begins with the IP header, whose first bytes are read as the ports.     *)
(***************************************************************************)
EXTENDS WeightedChoice, SeqSets, FiniteSets, SequencesExt

CONSTANTS
    Node, Dest, Interface,
    Addresses,       \* the lists of interface addresses a node may have
    AnyInterface,    \* a null output device
    NoFile,          \* the weight file cannot be opened
    Lines,           \* lines the weight file may have: a node and its tokens
    Bad,             \* a token strtoull does not take
    MaxWeight,       \* uint32_t's maximum
    Packets,         \* the packets looked up
    m_respondToInterfaceEvents,                 \* attribute, FALSE by default
    MaxLines, MaxEdits, MaxRoutes, MaxLookups   \* bounds; MaxEdits is for the
                     \* edits of the file and the events of the interfaces

ASSUME EcmpAssumption ==
    /\ IsFiniteSet(Node) /\ IsFiniteSet(Interface)
    /\ AnyInterface \notin Interface \cup Node
    /\ MaxWeight \in Nat
    /\ \A l \in Lines : l.node \in Node /\ l.tokens \in Seq(Nat \cup {Bad})
    /\ \A p \in Packets : p.dest \in Dest /\ p.ported \in BOOLEAN
                          /\ p.h \in [Node \X Addresses -> Hash]
    /\ m_respondToInterfaceEvents \in BOOLEAN
    /\ MaxLines \in Nat /\ MaxEdits \in Nat /\ MaxRoutes \in Nat /\ MaxLookups \in Nat

VARIABLES
    file,                       \* ecmpProbability.txt
    addresses,                  \* of each node's interfaces
    g_weightsLoaded, g_nodeRawWeights, g_ecmpWeightCacheByNodeN,
    m_hostRoutes, m_networkRoutes, m_ASexternalRoutes,   \* per node
    m_perflowEcmpRouting, m_randomEcmpRouting,
    nEdits,
    loadedFrom,                 \* history: the file when it was read
    taken                       \* history: the lookups that chose a route

weightVars == <<g_weightsLoaded, g_nodeRawWeights, g_ecmpWeightCacheByNodeN, loadedFrom>>
routeVars == <<m_hostRoutes, m_networkRoutes, m_ASexternalRoutes>>
modeVars == <<m_perflowEcmpRouting, m_randomEcmpRouting>>
vars == <<file, addresses, weightVars, routeVars, modeVars, nEdits, taken>>

Files == {NoFile} \cup BoundedSeq(Lines, MaxLines)
Route == [dests : SUBSET Dest, interface : Interface]
None == <<>>    \* the empty table, and no weights

Init ==
    /\ file \in Files
    /\ addresses \in [Node -> Addresses]
    /\ g_weightsLoaded = FALSE
    /\ g_nodeRawWeights = None
    /\ g_ecmpWeightCacheByNodeN = None
    /\ m_hostRoutes = [v \in Node |-> <<>>]
    /\ m_networkRoutes = [v \in Node |-> <<>>]
    /\ m_ASexternalRoutes = [v \in Node |-> <<>>]
    /\ m_perflowEcmpRouting \in BOOLEAN /\ m_randomEcmpRouting \in BOOLEAN
    /\ nEdits = 0 /\ loadedFrom = NoFile /\ taken = {}

------------------------------------------------------------------------------
\* The weight table.
\* Mutant of Clamped: a weight may exceed 32 bits.
NotClamped(t) == t

Clamped(t) == IF t > MaxWeight THEN MaxWeight ELSE t

\* The weights of a line: bad tokens are skipped.
WeightsOf(line) ==
    LET good == Filter(line.tokens, Nat)
    IN  [i \in DOMAIN good |-> Clamped(good[i])]

\* One turn of the loop of LoadAllNodeWeightsFile: a line without weights is
\* skipped, and a later line for a node replaces an earlier one.
TableWith(table, line) ==
    IF WeightsOf(line) = <<>> THEN table
    ELSE [v \in DOMAIN table \cup {line.node} |->
             IF v = line.node THEN WeightsOf(line) ELSE table[v]]

\* The table after each number of lines.
TablesOf(lines) ==
    LET table[i \in 0 .. Len(lines)] ==
          IF i = 0 THEN None ELSE TableWith(table[i - 1], lines[i])
    IN  table

TableAfter(lines) == TablesOf(lines)[Len(lines)]

LoadAllNodeWeightsFile == IF file = NoFile THEN None ELSE TableAfter(file)

\* Mutant of LoadedAfterwards: a file that cannot be opened is tried again.
RetryMissingFile == g_weightsLoaded \/ file # NoFile

\* g_weightsLoaded is set whether or not the file could be opened.
LoadedAfterwards == TRUE

Raw == IF g_weightsLoaded THEN g_nodeRawWeights ELSE LoadAllNodeWeightsFile

\* Mutant of CacheKey: the number of candidates is left out.
CacheKeyOfNode(v, n) == <<v, 0>>

CacheKey(v, n) == <<v, n>>

\* What GetNodeWeights yields for n candidates, None when it returns false.
NodeWeights(v, n) ==
    LET key == CacheKey(v, n)
        raw == Raw
    IN  IF key \in DOMAIN g_ecmpWeightCacheByNodeN THEN g_ecmpWeightCacheByNodeN[key]
        ELSE IF /\ v \in DOMAIN raw
                /\ Len(raw[v]) >= n
                /\ Total(SubSeq(raw[v], 1, n)) > 0
          THEN SubSeq(raw[v], 1, n)
          ELSE None

\* What GetNodeWeights does to the table and the cache.
GetNodeWeights(v, n) ==
    LET key == CacheKey(v, n)
        w == NodeWeights(v, n)
    IN  IF key \in DOMAIN g_ecmpWeightCacheByNodeN
          THEN UNCHANGED weightVars
          ELSE /\ g_weightsLoaded' = LoadedAfterwards
               /\ g_nodeRawWeights' = Raw
               /\ loadedFrom' = IF g_weightsLoaded THEN loadedFrom ELSE file
               /\ g_ecmpWeightCacheByNodeN' =
                    IF w = None THEN g_ecmpWeightCacheByNodeN
                    ELSE [k \in DOMAIN g_ecmpWeightCacheByNodeN \cup {key} |->
                             IF k = key THEN w ELSE g_ecmpWeightCacheByNodeN[k]]

------------------------------------------------------------------------------
\* The parts of LookupGlobal.
Matching(routes, dest, oif) ==
    Filter(routes, {r \in Route : dest \in r.dests /\ oif \in {AnyInterface, r.interface}})

\* Host routes before network routes, and of external routes the first only.
\* Prefix lengths are not compared.
AllRoutes(v, dest, oif) ==
    LET host == Matching(m_hostRoutes[v], dest, oif)
        network == Matching(m_networkRoutes[v], dest, oif)
        external == Matching(m_ASexternalRoutes[v], dest, oif)
    IN  IF host # <<>> THEN host
        ELSE IF network # <<>> THEN network
        ELSE SubSeq(external, 1, IF external = <<>> THEN 0 ELSE 1)

\* h32: GetNodeHeavySalt reads the addresses as they are at the lookup.
FlowHash(v, p) == p.h[<<v, addresses[v]>>]

\* The index a flow's hash gives among n candidates.
FlowIndex(v, n, h) ==
    LET w == NodeWeights(v, n)
    IN  IF w = None THEN ChooseEvenly(n, h) ELSE ChooseWeighted(w, h)

HashesFlow(n, ported) == n > 1 /\ m_perflowEcmpRouting /\ ported
DrawsAtRandom(n) == n > 1 /\ ~m_perflowEcmpRouting /\ m_randomEcmpRouting

\* The values selectIndex may have.
SelectIndex(v, n, ported, h) ==
    IF HashesFlow(n, ported) THEN {FlowIndex(v, n, h)}
    ELSE IF DrawsAtRandom(n) THEN 1 .. n
    ELSE {1}

ReadsWeights(v, n, ported) ==
    IF HashesFlow(n, ported) THEN GetNodeWeights(v, n) ELSE UNCHANGED weightVars

\* A lookup that finds a route, as RouteOutput makes it with or without an
\* output device, for IP and for GetEgressPortOrInvalid, and RouteInput without.
LookupGlobal(v, p, oif) ==
    LET routes == AllRoutes(v, p.dest, oif)
        n == Len(routes)
    IN  /\ Cardinality(taken) < MaxLookups
        /\ n > 0
        /\ ReadsWeights(v, n, p.ported)
        /\ \E i \in SelectIndex(v, n, p.ported, FlowHash(v, p)) :
             taken' = taken \cup {[node |-> v, addresses |-> addresses[v], packet |-> p,
                                   routes |-> routes, weights |-> NodeWeights(v, n),
                                   index |-> i]}
        /\ UNCHANGED <<file, addresses, routeVars, modeVars, nEdits>>

------------------------------------------------------------------------------
\* Route tables.
NRoutes(v) == Len(m_hostRoutes[v]) + Len(m_networkRoutes[v]) + Len(m_ASexternalRoutes[v])

AddHostRouteTo(v, dest, interface) ==
    /\ NRoutes(v) < MaxRoutes
    /\ m_hostRoutes' = [m_hostRoutes EXCEPT ![v] =
                           Append(@, [dests |-> {dest}, interface |-> interface])]
    /\ UNCHANGED <<file, addresses, weightVars, m_networkRoutes, m_ASexternalRoutes,
                   modeVars, nEdits, taken>>

AddNetworkRouteTo(v, dests, interface) ==
    /\ NRoutes(v) < MaxRoutes
    /\ m_networkRoutes' = [m_networkRoutes EXCEPT ![v] =
                              Append(@, [dests |-> dests, interface |-> interface])]
    /\ UNCHANGED <<file, addresses, weightVars, m_hostRoutes, m_ASexternalRoutes,
                   modeVars, nEdits, taken>>

AddASExternalRouteTo(v, dests, interface) ==
    /\ NRoutes(v) < MaxRoutes
    /\ m_ASexternalRoutes' = [m_ASexternalRoutes EXCEPT ![v] =
                                 Append(@, [dests |-> dests, interface |-> interface])]
    /\ UNCHANGED <<file, addresses, weightVars, m_hostRoutes, m_networkRoutes,
                   modeVars, nEdits, taken>>

\* RemoveRoute counts through the three tables in this order.
RemoveRoute(v, index) ==
    LET hosts == Len(m_hostRoutes[v])
        networks == Len(m_networkRoutes[v])
    IN  /\ IF index <= hosts
             THEN /\ m_hostRoutes' = [m_hostRoutes EXCEPT ![v] = RemoveAt(@, index)]
                  /\ UNCHANGED <<m_networkRoutes, m_ASexternalRoutes>>
           ELSE IF index <= hosts + networks
             THEN /\ m_networkRoutes' =
                       [m_networkRoutes EXCEPT ![v] = RemoveAt(@, index - hosts)]
                  /\ UNCHANGED <<m_hostRoutes, m_ASexternalRoutes>>
             ELSE /\ m_ASexternalRoutes' = [m_ASexternalRoutes EXCEPT ![v] =
                                               RemoveAt(@, index - hosts - networks)]
                  /\ UNCHANGED <<m_hostRoutes, m_networkRoutes>>
        /\ UNCHANGED <<file, addresses, weightVars, modeVars, nEdits, taken>>

\* Recomputed routes are any.
Recomputed(Routes) == [Node -> BoundedSeq(Routes, MaxRoutes)]

\* DeleteGlobalRoutes, BuildGlobalRoutingDatabase and InitializeRoutes: the
\* routes of every node are removed one by one from index 0, and those computed
\* are added, within one event.
RecomputeRoutes ==
    /\ m_hostRoutes' \in Recomputed({r \in Route : Cardinality(r.dests) = 1})
    /\ m_networkRoutes' \in Recomputed({r \in Route : r.dests # {}})
    /\ m_ASexternalRoutes' \in Recomputed({r \in Route : r.dests # {}})
    /\ \A v \in Node : NRoutes(v)' <= MaxRoutes

\* An interface goes up or down, or gets or loses an address, and
\* NotifyInterfaceUp, NotifyInterfaceDown, NotifyAddAddress or
\* NotifyRemoveAddress is called; before the simulation starts the routes are
\* not recomputed.  What has been read of the weight file stays.
NotifyInterfaceEvent ==
    /\ nEdits < MaxEdits
    /\ nEdits' = nEdits + 1
    /\ \E v \in Node, a \in Addresses : addresses' = [addresses EXCEPT ![v] = a]
    /\ \/ m_respondToInterfaceEvents /\ RecomputeRoutes
       \/ UNCHANGED routeVars
    /\ UNCHANGED <<file, weightVars, modeVars, taken>>

\* Somebody edits the weight file.
EditFile ==
    /\ nEdits < MaxEdits
    /\ nEdits' = nEdits + 1
    /\ file' \in Files
    /\ UNCHANGED <<addresses, weightVars, routeVars, modeVars, taken>>

Next ==
    \/ EditFile
    \/ NotifyInterfaceEvent
    \/ \E v \in Node :
        \/ \E p \in Packets, oif \in Interface \cup {AnyInterface} : LookupGlobal(v, p, oif)
        \/ \E interface \in Interface :
            \/ \E dest \in Dest : AddHostRouteTo(v, dest, interface)
            \/ \E dests \in SUBSET Dest \ {{}} :
                AddNetworkRouteTo(v, dests, interface)
                \/ AddASExternalRouteTo(v, dests, interface)
        \/ \E index \in 1 .. NRoutes(v) : RemoveRoute(v, index)

Spec == Init /\ [][Next]_vars

------------------------------------------------------------------------------
Weight == 0 .. MaxWeight

\* Types; no stored weight needs more than 32 bits.
TypeOK ==
    /\ file \in Files /\ loadedFrom \in Files
    /\ addresses \in [Node -> Addresses]
    /\ g_weightsLoaded \in BOOLEAN
    /\ DOMAIN g_nodeRawWeights \subseteq Node
    /\ \A v \in DOMAIN g_nodeRawWeights : g_nodeRawWeights[v] \in Seq(Weight)
    /\ DOMAIN g_ecmpWeightCacheByNodeN \subseteq Node \X Nat
    /\ m_hostRoutes \in [Node -> Seq(Route)]
    /\ m_networkRoutes \in [Node -> Seq(Route)]
    /\ m_ASexternalRoutes \in [Node -> Seq(Route)]
    /\ nEdits \in Nat

\* What the weight file says of v and n candidates: the first n weights of the
\* last line for v that has any, and one each if there are too few or all are 0.
DocumentedWeights(v, n) ==
    LET lines == IF loadedFrom = NoFile THEN <<>> ELSE loadedFrom
        of == {i \in DOMAIN lines : lines[i].node = v /\ WeightsOf(lines[i]) # <<>>}
        last == CHOOSE i \in of : \A j \in of : j <= i
        w == IF of = {} THEN <<>> ELSE WeightsOf(lines[last])
    IN  IF Len(w) >= n /\ Total(SubSeq(w, 1, n)) > 0 THEN SubSeq(w, 1, n)
        ELSE [i \in 1 .. n |-> 1]

\* The hash values that choose a candidate are its weight's share of all of them,
\* up to rounding, whatever lookups filled the cache before, unless the sum of
\* the weights exceeds the number of hash values and the product wraps.
SharesFollowWeights ==
    g_weightsLoaded => \A v \in Node, n \in 2 .. MaxRoutes :
        LET w == DocumentedWeights(v, n)
        IN  Total(w) <= HashRange => \A i \in 1 .. n :
              LET share == Cardinality({h \in Hash : FlowIndex(v, n, h) = i})
                  error == share * Total(w) - HashRange * w[i]
              IN  -Total(w) < error /\ error < Total(w)

\* A flow keeps its path while the node keeps its addresses: two lookups of one
\* flow among the same candidates, at one node with the same interface addresses,
\* choose the same, however the weight file is edited in between, whatever else
\* is looked up and whatever the interfaces did meanwhile.  With other addresses
\* the salt is another and the flow may move, which the attribute's help text, a
\* stable hash of the flow, does not say.
OnePathPerFlow ==
    m_perflowEcmpRouting => \A s, t \in taken :
        /\ s.node = t.node /\ s.addresses = t.addresses /\ s.routes = t.routes
        /\ s.packet.ported = t.packet.ported /\ s.packet.h = t.packet.h
        => s.index = t.index

\* A next hop of weight 0 is never taken by a hashed flow.
ZeroWeightNeverTaken ==
    \A t \in taken :
        /\ m_perflowEcmpRouting /\ t.packet.ported /\ Len(t.routes) > 1
        /\ t.weights # None
        => t.weights[t.index] > 0
==============================================================================
