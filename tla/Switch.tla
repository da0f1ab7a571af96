-------------------------------- MODULE Switch --------------------------------
(***************************************************************************)
(* A node that forwards: the transmit half of the one device its packets   *)
(* leave by (QbbTransmit, extended here) and the receive halves of the     *)
(* devices they come in by, with the token manager these share             *)
(* (IngressDrain, instantiated here).  DoIngressDrain hands a packet to    *)
(* IP, which calls Send of the egress device before DoIngressDrain         *)
(* returns: one step.                                                      *)
(*                                                                         *)
(* Beyond the egress device is a peer that may pause it.  The egress       *)
(* device receives too, packets that leave by other ports: of its receive  *)
(* half only the XOFF and XON frames matter here, which pass through the   *)
(* same MAC queue and line without a token.  They are the environment's,   *)
(* any frame at any instant.  What the other ingress devices tell their    *)
(* peers leaves by other lines (PfcLink).                                  *)
(***************************************************************************)
EXTENDS QbbTransmit, FiniteSets

CONSTANTS
    Ingress, Egress, Registered, Routes,                     \* see IngressDrain
    PfcEnable, PfcHighPkts, PfcLowPkts, Capacity, Cost, Rate, DrainRetry

OutPort == 1
\* All traffic is for that one port.  (A packet for another port or for the node
\* itself may strand a demand: IngressDrainStarved.cfg.)
ASSUME SwitchAssumption ==
    /\ Registered = {OutPort} /\ Routes = {{OutPort}} /\ OutPort \notin Ingress
    /\ Capacity \in Nat /\ Cost \in Nat \ {0} /\ Rate \in Nat
    /\ TxTimes # {}
ASSUME IngressAssumption ==      \* those of IngressDrain
    /\ Ingress \subseteq Nat /\ IsFiniteSet(Ingress)
    /\ Egress \subseteq Nat /\ Registered \subseteq Egress
    /\ PfcEnable \in BOOLEAN /\ PfcHighPkts \in Nat /\ PfcLowPkts \in Nat
    /\ DrainRetry \in Nat \ {0}

VARIABLES
    m_ingressQ, m_rxOccPkts, m_localCongested, m_pfcTxXoff, m_pfcTxXon, drainEvent,
    m_tokens, activeIngressPorts, lastServedIngress, nRx, passedOver

In == INSTANCE IngressDrain WITH MaxRx <- MaxSends

inVars == <<m_ingressQ, m_rxOccPkts, m_localCongested, m_pfcTxXoff, m_pfcTxXon,
            drainEvent, m_tokens, activeIngressPorts, lastServedIngress, nRx,
            passedOver>>
nodeVars == <<vars, inVars>>

NodeInit == Init /\ In!Init

------------------------------------------------------------------------------
Arrives(d, pr, route) == In!HandleMacRx(d, pr, route) /\ UNCHANGED vars

\* The packet's class is read from its header on both sides.
Forwards(d, pr) == In!DrainGranted(d, pr, OutPort) /\ Send(pr)

Keeps(d) ==
    /\ In!DrainIdle(d) \/ \E pr \in Prio : In!DrainRefused(d, pr, OutPort)
    /\ UNCHANGED vars

PeerSpeaks(pr) ==
    /\ HandleXon(pr) \/ \E t \in PauseTimes : HandleXoff(pr, t)
    /\ UNCHANGED inVars

\* The egress device's receive half gets congested, or is no longer (OnDataRx and
\* DoIngressDrain of that device): SendPfcXoff or SendPfcXon.  The transmitter does
\* not look at the quanta, so the zero of an XON stands for those of an XOFF too.
OwnPfc(pr) == SendPfc(pr, 0) /\ UNCHANGED inVars

Transmits ==
    /\ \/ TryDequeueIdle
       \/ TransmitCompletes
       \/ \E pr \in Prio :
            \/ TryDequeueSent(pr)
            \/ TryDequeueRefused(pr)
            \/ ResumeFromPause(pr)
            \/ RefillMacQueueFromHold(pr)
    /\ UNCHANGED inVars

TimePasses == Tick /\ In!Tick

EventLoop ==
    \/ \E d \in Ingress : Keeps(d) \/ \E pr \in Prio : Forwards(d, pr)
    \/ Transmits
    \/ TimePasses

NodeNext ==
    \/ \E d \in Ingress, pr \in Prio, route \in Routes : Arrives(d, pr, route)
    \/ \E pr \in Prio : PeerSpeaks(pr) \/ OwnPfc(pr)
    \/ EventLoop

NodeSpec == NodeInit /\ [][NodeNext]_nodeVars

\* The event loop keeps running.
FairNodeSpec == NodeSpec /\ WF_nodeVars(EventLoop)

------------------------------------------------------------------------------
\* What the token buckets are for.  A bucket that gains no more than one packet
\* in the time the line needs for a frame keeps the egress device short of work:
\* it never holds more than a full bucket of packets, the one on the line, and
\* one for each XOFF or XON of its own, which take the line without a token; for
\* as long as its peer does not pause it and the MAC queue outlasts the retry of
\* a refused packet.
QueuedFrames == {f \in accepted : \E pr \in Prio : f \in Elems(m_txq[pr])}

Backlog ==
    Len(m_queue) + (IF READY THEN 0 ELSE 1) + Cardinality(QueuedFrames)

BacklogBounded ==
    (/\ nPfcRx = 0
     /\ \A t \in TxTimes : t * Rate <= Cost /\ t * QueueMax >= TxRetry) =>
        Backlog <= Capacity \div Cost + 1 + nPfcTx

\* Round robin and progress of the ingress side, whatever the egress device and
\* its peer do (see IngressDrain).
BoundedBypass == In!BoundedBypass
EventuallyDrained == In!EventuallyDrained
==============================================================================
