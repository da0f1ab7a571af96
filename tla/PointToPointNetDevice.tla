------------------------ MODULE PointToPointNetDevice ------------------------
(***************************************************************************)
(* The transmitter of ns3::PointToPointNetDevice, the base class of        *)
(* QbbNetDevice: a drop-tail queue in front of a line that carries one     *)
(* frame at a time.  The module holds the state and the operations of the  *)
(* base class; the modules of the derived class decide who calls them.     *)
(*                                                                         *)
(* Time.  A simulator event that is pending is a number of time units left *)
(* until it runs; 0 means it is due now.                                   *)
(***************************************************************************)
EXTENDS Naturals, Sequences, SeqSets

CONSTANTS
    NPrio,      \* priority classes (8 in the code); class NPrio-1 is served first
    NoPkt,      \* the null m_currentPkt
    QueueMax,   \* capacity of m_queue in packets (DropTailQueue "MaxSize")
    TxTimes     \* possible transmission times of one frame

ASSUME NPrioAssumption == NPrio \in Nat \ {0}
ASSUME QueueMaxAssumption == QueueMax \in Nat \ {0}
ASSUME TxTimesAssumption == TxTimes \subseteq Nat

Prio == 0 .. (NPrio - 1)

\* A data frame is its class and the number of the packet it carries.  A PFC
\* frame enables one class (SendPfcXoff and SendPfcXon set a single bit), and
\* its n is the pause it asks for, 0 being XON.
DataFrame == [kind : {"data"}, prio : Prio, n : Nat]
PfcFrame  == [kind : {"pfc"},  prio : Prio, n : Nat]
Frame     == DataFrame \cup PfcFrame

ASSUME NoPktAssumption == NoPkt \notin Frame

VARIABLES
    m_queue,        \* the MAC queue
    m_currentPkt,   \* the frame on the line, NoPkt when there is none
    txCompleteIn,   \* time left until the TransmitComplete event
    wire            \* every frame handed to the channel, in order

p2pVars == <<m_queue, m_currentPkt, txCompleteIn, wire>>

\* TransmitStart sets m_txMachineState to BUSY where it sets m_currentPkt, and
\* TransmitComplete resets both, so the one determines the other.
READY == m_currentPkt = NoPkt

QueueFull == Len(m_queue) + 1 > QueueMax

P2PInit ==
    /\ m_queue = <<>>
    /\ m_currentPkt = NoPkt
    /\ txCompleteIn = 0
    /\ wire = <<>>

TransmitStart(f) ==
    /\ m_currentPkt' = f
    /\ txCompleteIn' \in TxTimes
    /\ wire' = Append(wire, f)

\* PointToPointNetDevice::Send when the queue takes the frame (returns true).
\* What goes on an idle line is the head of the queue, not necessarily f.
SendAccepted(f) ==
    /\ ~QueueFull
    /\ LET q == Append(m_queue, f) IN
         IF READY
           THEN m_queue' = Tail(q) /\ TransmitStart(Head(q))
           ELSE m_queue' = q /\ UNCHANGED <<m_currentPkt, txCompleteIn, wire>>

\* PointToPointNetDevice::Send when the queue is full (returns false): the
\* frame is dropped whether or not the line is idle.
SendRejected ==
    /\ QueueFull
    /\ UNCHANGED p2pVars

\* Mutant of TransmitComplete: the next frame is not pulled off the queue.
CompleteAndStop ==
    /\ ~READY
    /\ txCompleteIn = 0
    /\ m_currentPkt' = NoPkt
    /\ UNCHANGED <<m_queue, txCompleteIn, wire>>

TransmitComplete ==
    /\ ~READY
    /\ txCompleteIn = 0
    /\ IF m_queue = <<>>
         THEN m_currentPkt' = NoPkt /\ UNCHANGED <<m_queue, txCompleteIn, wire>>
         ELSE m_queue' = Tail(m_queue) /\ TransmitStart(Head(m_queue))

P2PTypeOK ==
    /\ m_queue \in Seq(Frame)
    /\ Len(m_queue) <= QueueMax
    /\ m_currentPkt \in Frame \cup {NoPkt}
    /\ txCompleteIn \in Nat
    /\ wire \in Seq(Frame)
==============================================================================
