------------------------------- MODULE PfcLink -------------------------------
(***************************************************************************)
(* Priority flow control between two devices: the transmit half of one     *)
(* (QbbTransmit, extended here) and the receive half of its peer           *)
(* (IngressDrain, instantiated here for one ingress port whose packets all *)
(* leave by one egress port), joined by a PointToPointChannel.             *)
(*                                                                         *)
(* Data frames take the time on the line plus the propagation delay.  PFC  *)
(* frames go back through the peer's own transmitter, which is busy with   *)
(* traffic of its own: they take one of ReverseTimes, in order, or are     *)
(* dropped when its MAC queue is full.                                     *)
(***************************************************************************)
EXTENDS QbbTransmit, FiniteSetsExt

CONSTANTS
    Delay,          \* the channel's propagation delay
    ReverseTimes,   \* from SendPfcXoff or SendPfcXon at the peer to HandleMacRx here
    Pause,          \* the peer's m_defaultQuanta, as a time here
    PfcHighPkts, PfcLowPkts, Capacity, Cost, Rate, DrainRetry,   \* see IngressDrain
    MaxDrops        \* bound: PFC frames dropped

ASSUME LinkAssumption ==
    /\ Delay \in Nat /\ MaxDrops \in Nat
    /\ ReverseTimes \subseteq Nat /\ ReverseTimes # {} /\ IsFiniteSet(ReverseTimes)
    /\ 0 \notin TxTimes /\ TxTimes # {} /\ IsFiniteSet(TxTimes)
    /\ Pause \in PauseTimes \ {0}
    /\ PfcHighPkts \in Nat /\ PfcLowPkts \in Nat /\ PfcLowPkts < PfcHighPkts

VARIABLES
    m_ingressQ, m_rxOccPkts, m_localCongested, m_pfcTxXoff, m_pfcTxXon, drainEvent,
    m_tokens, activeIngressPorts, lastServedIngress, nRx, passedOver,
    toPeer,        \* data frames on the way, and the time left until they arrive
    fromPeer,      \* PFC frames on the way back, likewise
    nDropped,
    unprotected    \* history: a PFC frame was dropped, or a pause ran out while
                   \* the peer was still congested

Port == 1
Peer == INSTANCE IngressDrain WITH
    Ingress <- {Port}, Egress <- {2}, Registered <- {2}, Routes <- {{2}},
    PfcEnable <- TRUE, MaxRx <- MaxSends

peerVars == <<m_ingressQ, m_rxOccPkts, m_localCongested, m_pfcTxXoff, m_pfcTxXon,
              drainEvent, m_tokens, activeIngressPorts, lastServedIngress, nRx,
              passedOver>>
linkVars == <<toPeer, fromPeer, nDropped, unprotected>>
allVars == <<vars, peerVars, linkVars>>

LinkInit ==
    /\ Init /\ Peer!Init
    /\ toPeer = <<>> /\ fromPeer = <<>>
    /\ nDropped = 0 /\ unprotected = FALSE

------------------------------------------------------------------------------
\* PointToPointChannel::TransmitStart: what goes on the line arrives.
Propagates ==
    toPeer' = IF wire' = wire THEN toPeer
              ELSE Append(toPeer, [frame |-> wire'[Len(wire')],
                                   left |-> txCompleteIn' + Delay])

\* The PFC frames a step of the peer sends, XOFF before XON.
Answers(pr) ==
    (IF m_pfcTxXoff'[Port][pr] > m_pfcTxXoff[Port][pr] THEN <<Pause>> ELSE <<>>)
        \o (IF m_pfcTxXon'[Port][pr] > m_pfcTxXon[Port][pr] THEN <<0>> ELSE <<>>)

\* They keep their order.
Arrival(r) ==
    IF fromPeer = <<>> THEN r
    ELSE LET last == fromPeer[Len(fromPeer)].left IN IF r > last THEN r ELSE last

AnswerSent(pr) ==
    /\ \E r \in ReverseTimes :
         fromPeer' = fromPeer \o
             [i \in DOMAIN Answers(pr) |->
                 [prio |-> pr, n |-> Answers(pr)[i], left |-> Arrival(r)]]
    /\ UNCHANGED <<nDropped, unprotected>>

AnswerDropped(pr) ==
    /\ Answers(pr) # <<>>
    /\ nDropped < MaxDrops
    /\ nDropped' = nDropped + 1
    /\ unprotected' = TRUE
    /\ UNCHANGED fromPeer

------------------------------------------------------------------------------
DataArrives(pr) ==
    /\ toPeer # <<>>
    /\ Head(toPeer).left = 0
    /\ pr = Head(toPeer).frame.prio
    /\ Peer!HandleMacRx(Port, pr, {2})
    /\ toPeer' = Tail(toPeer)
    /\ AnswerSent(pr) \/ AnswerDropped(pr)
    /\ UNCHANGED vars

PeerDrains(pr) ==
    /\ Peer!Picks(Port, pr)
    /\ Peer!DrainGranted(Port, pr, 2) \/ Peer!DrainRefused(Port, pr, 2)
    /\ AnswerSent(pr) \/ AnswerDropped(pr)
    /\ UNCHANGED <<vars, toPeer>>

PeerIdles ==
    /\ Peer!DrainIdle(Port)
    /\ UNCHANGED <<vars, linkVars>>

PfcArrives(pr) ==
    /\ fromPeer # <<>>
    /\ Head(fromPeer).left = 0
    /\ pr = Head(fromPeer).prio
    /\ IF Head(fromPeer).n = 0 THEN HandleXon(pr) ELSE HandleXoff(pr, Head(fromPeer).n)
    /\ fromPeer' = Tail(fromPeer)
    /\ UNCHANGED <<peerVars, toPeer, nDropped, unprotected>>

Sends(pr) == Send(pr) /\ UNCHANGED <<peerVars, linkVars>>

Transmits ==
    /\ \/ TryDequeueIdle
       \/ TransmitCompletes
       \/ \E pr \in Prio :
            \/ TryDequeueSent(pr)
            \/ TryDequeueRefused(pr)
            \/ RefillMacQueueFromHold(pr)
    /\ Propagates
    /\ UNCHANGED <<peerVars, fromPeer, nDropped, unprotected>>

PauseRunsOut(pr) ==
    /\ ResumeFromPause(pr)
    /\ unprotected' = (unprotected \/ m_localCongested[Port][pr])
    /\ UNCHANGED <<peerVars, toPeer, fromPeer, nDropped>>

OneLess(s) == [i \in DOMAIN s |-> [s[i] EXCEPT !.left = Down(@)]]

TimePasses ==
    /\ Tick
    /\ Peer!Tick
    /\ toPeer # <<>> => Head(toPeer).left > 0
    /\ fromPeer # <<>> => Head(fromPeer).left > 0
    /\ toPeer' = OneLess(toPeer) /\ fromPeer' = OneLess(fromPeer)
    /\ UNCHANGED <<nDropped, unprotected>>

EventLoop ==
    \/ Transmits
    \/ PeerIdles
    \/ \E pr \in Prio :
        DataArrives(pr) \/ PeerDrains(pr) \/ PfcArrives(pr) \/ PauseRunsOut(pr)
    \/ TimePasses

LinkNext == (\E pr \in Prio : Sends(pr)) \/ EventLoop

LinkSpec == LinkInit /\ [][LinkNext]_allVars
FairLinkSpec == LinkSpec /\ WF_allVars(EventLoop)

------------------------------------------------------------------------------
\* The headroom.  Once the queue has reached the high watermark, what can still
\* arrive is the frame the line was busy with and those started before the XOFF
\* was taken, unless an XOFF was dropped or a pause ran out too soon.
Headroom == 1 + (Max(ReverseTimes) + Delay) \div Min(TxTimes)
QueueBounded ==
    ~unprotected => \A pr \in Prio :
        Len(m_ingressQ[Port][pr]) <= PfcHighPkts + Headroom

\* When no PFC frame is on its way the two ends agree: a class is paused here
\* exactly when it is congested there.
PeersAgree ==
    ~unprotected /\ fromPeer = <<>> =>
        \A pr \in Prio : m_paused[pr] = m_localCongested[Port][pr]

\* A pause and the congestion that caused it end, both at one time, whichever XOFF
\* or XON is dropped, whether the pause runs out before the peer has drained, and
\* although frames sent before the XOFF are still on the line.
CongestionEnds == \A pr \in Prio :
    m_paused[pr] \/ m_localCongested[Port][pr]
        ~> ~m_paused[pr] /\ ~m_localCongested[Port][pr]
==============================================================================
