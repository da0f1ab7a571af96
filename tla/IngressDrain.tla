----------------------------- MODULE IngressDrain -----------------------------
(***************************************************************************)
(* The receive half of all the QbbNetDevices of one node, and the          *)
(* EgressTokenManager they share: received frames wait in per-class        *)
(* ingress queues, occupancy watermarks send XOFF and XON to the peer, and *)
(* DoIngressDrain hands one frame at a time to IP against a token of the   *)
(* egress port IP will choose, in round-robin order among the ingress      *)
(* ports that want that egress port.                                       *)
(*                                                                         *)
(* A packet is the set of egress ports its route lookup may return: empty  *)
(* for a packet delivered locally or without a route (kInvalidPortId), one *)
(* port for a single path or a hashed flow, several when the lookup picks  *)
(* one of several equal-cost paths at random on every call.                *)
(***************************************************************************)
EXTENDS Integers, Sequences, FiniteSets

CONSTANTS
    NPrio,        \* priority classes (8 in the code)
    Ingress,      \* interface numbers of the node's QbbNetDevices
    Egress,       \* interface numbers a route may name
    Registered,   \* egress ports with a bucket: those that are QbbNetDevices
    Routes,       \* the packets that may arrive
    PfcEnable, PfcHighPkts, PfcLowPkts,   \* device attributes
    Capacity,     \* m_capacity of a bucket, in token units
    Cost,         \* token units one packet costs
    Rate,         \* token units a bucket gains per unit of time
    DrainRetry,   \* delay before a refused DoIngressDrain runs again (10us)
    MaxRx         \* bound: data frames received by the node

ASSUME NPrioAssumption == NPrio \in Nat \ {0}
ASSUME PortAssumption ==
    /\ Ingress \subseteq Nat /\ IsFiniteSet(Ingress)
    /\ Egress \subseteq Nat /\ Registered \subseteq Egress
    /\ Routes \subseteq SUBSET Egress
ASSUME WatermarkAssumption ==
    PfcEnable \in BOOLEAN /\ PfcHighPkts \in Nat /\ PfcLowPkts \in Nat
ASSUME BucketAssumption ==
    Capacity \in Nat /\ Cost \in Nat \ {0} /\ Rate \in Nat
ASSUME TimingAssumption == DrainRetry \in Nat \ {0} /\ MaxRx \in Nat

VARIABLES
    m_ingressQ,        \* per device and class: packets waiting
    m_rxOccPkts,       \* per device and class: the occupancy PFC looks at
    m_localCongested,  \* per device and class: XOFF sent, XON owed
    m_pfcTxXoff, m_pfcTxXon,   \* per device and class: frames sent
    drainEvent,        \* per device: time left until DoIngressDrain, or Expired
    m_tokens,          \* per egress port: what Refill would leave in the bucket
    activeIngressPorts,   \* per egress port: demand registered
    lastServedIngress,    \* per egress port
    nRx,
    passedOver         \* history, per egress and ingress port: grants of that
                       \* egress to others since this ingress last joined

deviceVars == <<m_ingressQ, m_rxOccPkts, m_localCongested, m_pfcTxXoff,
                m_pfcTxXon, drainEvent>>
managerVars == <<m_tokens, activeIngressPorts, lastServedIngress>>
vars == <<deviceVars, managerVars, nRx, passedOver>>

Prio == 0 .. (NPrio - 1)
Expired == -1

\* Mutant of Woken: the wake-up is forgotten.
NotWoken(ev) == ev

\* "if (m_ingressDrainEv.IsExpired()) m_ingressDrainEv = ScheduleNow(...)"
Woken(ev) == IF ev = Expired THEN 0 ELSE ev

PerClass(x) == [d \in Ingress |-> [pr \in Prio |-> x]]
Least(S) == CHOOSE x \in S : \A y \in S : x <= y
AtMost(x, bound) == IF x < bound THEN x ELSE bound
OneIf(b) == IF b THEN 1 ELSE 0

\* EnsureTokenManager: the first device of the node that receives a data frame
\* registers a full bucket for each QbbNetDevice of the node.
ManagerInit ==
    /\ m_tokens = [e \in Registered |-> Capacity]
    /\ activeIngressPorts = [e \in Egress |-> {}]
    /\ lastServedIngress = [e \in Egress |-> 0]

Init ==
    /\ m_ingressQ = PerClass(<<>>)
    /\ m_rxOccPkts = PerClass(0)
    /\ m_localCongested = PerClass(FALSE)
    /\ m_pfcTxXoff = PerClass(0) /\ m_pfcTxXon = PerClass(0)
    /\ drainEvent = [d \in Ingress |-> Expired]
    /\ ManagerInit
    /\ nRx = 0
    /\ passedOver = [e \in Egress |-> [d \in Ingress |-> 0]]

------------------------------------------------------------------------------
\* Mutants of SendsXoff: one packet late; again for every further packet.
SendsXoffLate(d, pr, occ) == ~m_localCongested[d][pr] /\ occ > PfcHighPkts
SendsXoffAgain(d, pr, occ) == occ >= PfcHighPkts

SendsXoff(d, pr, occ) == ~m_localCongested[d][pr] /\ occ >= PfcHighPkts

\* OnDataRx: both watermarks are looked at, XOFF first.
OnDataRx(d, pr) ==
    IF ~PfcEnable
      THEN UNCHANGED <<m_rxOccPkts, m_localCongested, m_pfcTxXoff, m_pfcTxXon>>
      ELSE LET occ  == m_rxOccPkts[d][pr] + 1
               xoff == SendsXoff(d, pr, occ)
               cong == m_localCongested[d][pr] \/ xoff
               xon  == cong /\ occ <= PfcLowPkts
           IN  /\ m_rxOccPkts' = [m_rxOccPkts EXCEPT ![d][pr] = occ]
               /\ m_localCongested' = [m_localCongested EXCEPT ![d][pr] = cong /\ ~xon]
               /\ m_pfcTxXoff' = [m_pfcTxXoff EXCEPT ![d][pr] = @ + OneIf(xoff)]
               /\ m_pfcTxXon' = [m_pfcTxXon EXCEPT ![d][pr] = @ + OneIf(xon)]

\* HandleMacRx, data branch.
HandleMacRx(d, pr, route) ==
    /\ nRx < MaxRx
    /\ nRx' = nRx + 1
    /\ m_ingressQ' = [m_ingressQ EXCEPT ![d][pr] = Append(@, route)]
    /\ OnDataRx(d, pr)
    /\ drainEvent' = [drainEvent EXCEPT ![d] = Woken(@)]
    /\ UNCHANGED <<managerVars, passedOver>>

\* The class DoIngressDrain looks at, and no other: the highest with a packet.
Picks(d, pr) ==
    /\ m_ingressQ[d][pr] # <<>>
    /\ \A p \in Prio : p > pr => m_ingressQ[d][p] = <<>>

\* What GetEgressPortOrInvalid may answer for a packet: kInvalidPortId if it is
\* delivered locally or has no route, otherwise the port of the route it drew.
NoEgressPort(packet) == packet = {}
EgressPort(packet, e) == e \in packet

\* Mutant of OccupancyAfterPop: the count is not taken down.
OccupancyKept(d, pr) == m_rxOccPkts[d][pr]

OccupancyAfterPop(d, pr) ==
    IF m_rxOccPkts[d][pr] > 0 THEN m_rxOccPkts[d][pr] - 1 ELSE 0

\* The rest of DoIngressDrain once the packet may leave: pop, occupancy, XON,
\* hand the packet to IP, run again at once.
PopFront(d, pr) ==
    LET occ == OccupancyAfterPop(d, pr)
        xon == PfcEnable /\ m_localCongested[d][pr] /\ occ <= PfcLowPkts
    IN  /\ m_ingressQ' = [m_ingressQ EXCEPT ![d][pr] = Tail(@)]
        /\ m_rxOccPkts' = [m_rxOccPkts EXCEPT ![d][pr] = occ]
        /\ m_localCongested' = [m_localCongested EXCEPT ![d][pr] = @ /\ ~xon]
        /\ m_pfcTxXon' = [m_pfcTxXon EXCEPT ![d][pr] = @ + OneIf(xon)]
        /\ drainEvent' = [drainEvent EXCEPT ![d] = 0]
        /\ UNCHANGED m_pfcTxXoff

DrainIdle(d) ==
    /\ drainEvent[d] = 0
    /\ \A pr \in Prio : m_ingressQ[d][pr] = <<>>
    /\ drainEvent' = [drainEvent EXCEPT ![d] = Expired]
    /\ UNCHANGED <<m_ingressQ, m_rxOccPkts, m_localCongested, m_pfcTxXoff,
                   m_pfcTxXon, managerVars, nRx, passedOver>>

\* A packet without an egress port needs no token.
DrainLocal(d, pr) ==
    /\ drainEvent[d] = 0
    /\ Picks(d, pr)
    /\ NoEgressPort(Head(m_ingressQ[d][pr]))
    /\ PopFront(d, pr)
    /\ UNCHANGED <<managerVars, nRx, passedOver>>

------------------------------------------------------------------------------
\* EgressTokenManager.
\* Mutant of HasToken: part of a token is enough.
HasAnyToken(e) == m_tokens[e] > 0

HasToken(e) == m_tokens[e] >= Cost

\* RegisterDemand comes before TryConsumeTokenFair looks at the set.
WithDemand(e, d) == activeIngressPorts[e] \cup {d}

SelectNextIngress(active, last) ==
    LET after == {i \in active : i > last}
    IN  IF after # {} THEN Least(after) ELSE Least(active)

Contended(e, d) == Cardinality(WithDemand(e, d)) > 1

\* Mutant of MyTurn: first come, first served.
AlwaysMyTurn(e, d) == TRUE

MyTurn(e, d) ==
    Contended(e, d) => SelectNextIngress(WithDemand(e, d), lastServedIngress[e]) = d

\* Mutants of Refund: nothing is given back, or more than was taken.
RefundNothing(t) == t
RefundTwice(t) == AtMost(t + 2 * Cost, Capacity)

Refund(t) == AtMost(t + Cost, Capacity)

\* Grants of e to d, seen by the others that wait for e.
CountPassedOver(e, d, active) ==
    passedOver' = [passedOver EXCEPT ![e] = [i \in Ingress |->
        IF i # d /\ i \in active THEN @[i] + 1 ELSE 0]]

\* Mutant of Remaining: the demand is never withdrawn.
RemainingKept(e, d, pr) == WithDemand(e, d)

\* Demand left after a grant: UnregisterDemand runs only for the last packet
\* of the class.
Remaining(e, d, pr) ==
    IF Len(m_ingressQ[d][pr]) = 1 THEN WithDemand(e, d) \ {d} ELSE WithDemand(e, d)

\* TryConsumeTokenFair returns true.
DrainGranted(d, pr, e) ==
    /\ drainEvent[d] = 0
    /\ Picks(d, pr)
    /\ EgressPort(Head(m_ingressQ[d][pr]), e)
    /\ IF e \in Registered
         THEN /\ HasToken(e) /\ MyTurn(e, d)
              /\ m_tokens' = [m_tokens EXCEPT ![e] = @ - Cost]
              /\ lastServedIngress' =
                   [lastServedIngress EXCEPT ![e] = IF Contended(e, d) THEN d ELSE @]
         ELSE UNCHANGED <<m_tokens, lastServedIngress>>
    /\ activeIngressPorts' = [activeIngressPorts EXCEPT ![e] = Remaining(e, d, pr)]
    /\ CountPassedOver(e, d, activeIngressPorts[e])
    /\ PopFront(d, pr)
    /\ UNCHANGED nRx

\* TryConsumeTokenFair returns false: no token, or a token taken and refunded
\* because it is another port's turn.
DrainRefused(d, pr, e) ==
    /\ drainEvent[d] = 0
    /\ Picks(d, pr)
    /\ EgressPort(Head(m_ingressQ[d][pr]), e)
    /\ e \in Registered
    /\ IF HasToken(e)
         THEN ~MyTurn(e, d) /\ m_tokens' = [m_tokens EXCEPT ![e] = Refund(@ - Cost)]
         ELSE UNCHANGED m_tokens
    /\ activeIngressPorts' = [activeIngressPorts EXCEPT ![e] = WithDemand(e, d)]
    /\ drainEvent' = [drainEvent EXCEPT ![d] = DrainRetry]
    /\ UNCHANGED <<m_ingressQ, m_rxOccPkts, m_localCongested, m_pfcTxXoff,
                   m_pfcTxXon, lastServedIngress, nRx, passedOver>>

------------------------------------------------------------------------------
\* The simulator: time passes when no event is due.  Refill is lazy in the
\* code; TokenBucket shows that it yields what refilling at every unit does.
Down(x) == IF x > 0 THEN x - 1 ELSE x

Tick ==
    /\ \A d \in Ingress : drainEvent[d] # 0
    /\ drainEvent' = [d \in Ingress |-> Down(drainEvent[d])]
    /\ m_tokens' = [e \in Registered |-> AtMost(m_tokens[e] + Rate, Capacity)]
    /\ UNCHANGED <<m_ingressQ, m_rxOccPkts, m_localCongested, m_pfcTxXoff,
                   m_pfcTxXon, activeIngressPorts, lastServedIngress, nRx, passedOver>>

DoIngressDrain(d) ==
    \/ DrainIdle(d)
    \/ \E pr \in Prio :
        \/ DrainLocal(d, pr)
        \/ \E e \in Egress : DrainGranted(d, pr, e) \/ DrainRefused(d, pr, e)

Simulator == Tick \/ \E d \in Ingress : DoIngressDrain(d)

Next ==
    \/ \E d \in Ingress, pr \in Prio, route \in Routes : HandleMacRx(d, pr, route)
    \/ Simulator

Spec == Init /\ [][Next]_vars

\* The event loop keeps running, and events due at the same instant all run
\* before time passes.
FairSpec == Spec /\ WF_vars(Simulator)

------------------------------------------------------------------------------
\* Types of the node's devices and of the manager they share; no bucket holds
\* more than its capacity or less than nothing.
TypeOK ==
    /\ m_ingressQ \in [Ingress -> [Prio -> Seq(Routes)]]
    /\ m_rxOccPkts \in [Ingress -> [Prio -> Nat]]
    /\ m_localCongested \in [Ingress -> [Prio -> BOOLEAN]]
    /\ m_pfcTxXoff \in [Ingress -> [Prio -> Nat]]
    /\ m_pfcTxXon \in [Ingress -> [Prio -> Nat]]
    /\ drainEvent \in [Ingress -> Nat \cup {Expired}]
    /\ m_tokens \in [Registered -> 0 .. Capacity]
    /\ activeIngressPorts \in [Egress -> SUBSET Ingress]
    /\ lastServedIngress \in [Egress -> Ingress \cup {0}]
    /\ nRx \in Nat
    /\ passedOver \in [Egress -> [Ingress -> Nat]]

\* The occupancy PFC decides on is the length of the queue it stands for.
OccupancyIsLength ==
    PfcEnable => \A d \in Ingress, pr \in Prio :
        m_rxOccPkts[d][pr] = Len(m_ingressQ[d][pr])

\* Hysteresis, for watermarks in the right order: at the high watermark the
\* peer has been told to stop and not yet to go on, at the low watermark it has
\* been told to go on.
PfcHysteresis ==
    PfcEnable /\ PfcLowPkts < PfcHighPkts => \A d \in Ingress, pr \in Prio :
        /\ Len(m_ingressQ[d][pr]) >= PfcHighPkts => m_localCongested[d][pr]
        /\ Len(m_ingressQ[d][pr]) <= PfcLowPkts => ~m_localCongested[d][pr]

\* XOFF and XON strictly alternate, XOFF first: the congestion flag stands for
\* one XOFF that OnDataRx sent and DoIngressDrain has not yet answered by XON.
XoffXonAlternate ==
    \A d \in Ingress, pr \in Prio :
        m_pfcTxXoff[d][pr] = m_pfcTxXon[d][pr] + OneIf(m_localCongested[d][pr])

\* A device with a packet waiting has its DoIngressDrain pending.
DrainScheduled ==
    \A d \in Ingress :
        (\E pr \in Prio : m_ingressQ[d][pr] # <<>>) => drainEvent[d] # Expired

\* A token is spent only on a packet that leaves for that egress port: attempts
\* that end in a refusal cost nothing.
TokensBuyForwarding ==
    [][\A e \in Registered : m_tokens'[e] < m_tokens[e] =>
          /\ m_tokens'[e] = m_tokens[e] - Cost
          /\ \E d \in Ingress, pr \in Prio :
               /\ m_ingressQ[d][pr] # <<>>
               /\ EgressPort(Head(m_ingressQ[d][pr]), e)
               /\ m_ingressQ'[d][pr] = Tail(m_ingressQ[d][pr])]_vars

\* Round robin: an ingress port whose demand stays registered is passed over fewer
\* times, by all the others together, than there are ingress ports.
BoundedBypass ==
    \A e \in Registered, d \in Ingress : passedOver[e][d] < Cardinality(Ingress)

\* Every received packet is eventually handed to IP.  (The number of arrivals
\* being bounded, all queues are empty in the end.)
EventuallyDrained ==
    (\E d \in Ingress, pr \in Prio : m_ingressQ[d][pr] # <<>>)
        ~> \A d \in Ingress, pr \in Prio : m_ingressQ[d][pr] = <<>>
==============================================================================
