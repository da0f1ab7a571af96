----------------------------- MODULE QbbTransmit -----------------------------
(***************************************************************************)
(* The transmit half of one ns3::QbbNetDevice: the eight software queues   *)
(* in front of the base device, the PFC gate on each class, the hold       *)
(* queues that take a paused class's frames back out of the MAC queue, and *)
(* the simulator events that wake all of this up again.                    *)
(*                                                                         *)
(* Callbacks run to completion, one at a time.  Packets from IP, PFC       *)
(* frames from the peer and PFC frames the receive half wants sent may     *)
(* come at any instant and in any order among the events due then.         *)
(***************************************************************************)
EXTENDS PointToPointNetDevice, Integers

CONSTANTS
    PauseTimes,   \* what Seconds(quanta * 512 * GetBitTime()) can be, quanta > 0
    TxRetry,      \* delay before TryDequeue retries a refused frame (10us)
    RefillRetry,  \* delay before RefillMacQueueFromHold retries (5us)
    MaxSends,     \* bound: packets handed to Send
    MaxPfcRx,     \* bound: PFC frames received
    MaxPfcTx      \* bound: PFC frames sent by the receive half

ASSUME PauseTimesAssumption == PauseTimes \subseteq Nat
ASSUME RetryAssumption == TxRetry \in Nat \ {0} /\ RefillRetry \in Nat \ {0}
ASSUME BoundAssumption == MaxSends \in Nat /\ MaxPfcRx \in Nat /\ MaxPfcTx \in Nat

VARIABLES
    m_txq,        \* per class: packets accepted by Send
    m_macHold,    \* per class: frames taken back out of the MAC queue
    m_paused,     \* per class: XOFF received
    pauseLeft,    \* per class: max(m_pauseUntil - Now, 0)
    txEvent,      \* m_txEvent: time left until TryDequeue runs, or Expired
    refillEvent,  \* m_refillEvent per class: which function runs, and when
    nSent, nPfcRx, nPfcTx,  \* what the bounds count
    accepted,     \* history: data frames Send has taken
    wasHeld       \* history: data frames that were ever in a hold queue

qbbVars == <<m_txq, m_macHold, m_paused, pauseLeft, txEvent, refillEvent>>
envVars == <<nSent, nPfcRx, nPfcTx, accepted, wasHeld>>
vars == <<p2pVars, qbbVars, envVars>>

Expired == -1
Idle == [fn |-> "none", left |-> 0]
EventRecord == [fn : {"none", "resume", "refill"}, left : Nat]

\* Mutant of Woken: the wake-up is forgotten.
NotWoken(ev) == ev

\* "if (m_txEvent.IsExpired()) m_txEvent = ScheduleNow(TryDequeue)"
Woken(ev) == IF ev = Expired THEN 0 ELSE ev

\* "m_paused[pr] && now < m_pauseUntil[pr]"
Gated(pr) == m_paused[pr] /\ pauseLeft[pr] > 0

DataOf(pr) == [kind : {"data"}, prio : {pr}, n : Nat]

Init ==
    /\ P2PInit
    /\ m_txq = [pr \in Prio |-> <<>>]
    /\ m_macHold = [pr \in Prio |-> <<>>]
    /\ m_paused = [pr \in Prio |-> FALSE]
    /\ pauseLeft = [pr \in Prio |-> 0]
    /\ txEvent = Expired
    /\ refillEvent = [pr \in Prio |-> Idle]
    /\ nSent = 0 /\ nPfcRx = 0 /\ nPfcTx = 0
    /\ accepted = {} /\ wasHeld = {}

------------------------------------------------------------------------------
\* Send: the packet always goes to its class's queue.
Send(pr) ==
    /\ nSent < MaxSends
    /\ LET f == [kind |-> "data", prio |-> pr, n |-> nSent] IN
         /\ m_txq' = [m_txq EXCEPT ![pr] = Append(@, f)]
         /\ accepted' = accepted \cup {f}
    /\ txEvent' = Woken(txEvent)
    /\ nSent' = nSent + 1
    /\ UNCHANGED <<p2pVars, m_macHold, m_paused, pauseLeft, refillEvent,
                   nPfcRx, nPfcTx, wasHeld>>

\* Mutant of Eligible: the gate is not consulted.
EligibleEvenIfPaused(pr) == m_txq[pr] # <<>>

\* PickNextPrio: the highest class with a packet that is not gated.
Eligible(pr) == m_txq[pr] # <<>> /\ ~Gated(pr)
PickNextPrio(pr) == Eligible(pr) /\ \A p \in Prio : p > pr => ~Eligible(p)

\* TryDequeue with nothing to send, with a frame the base class takes, and with
\* a frame it refuses: then the packet stays at the head and is tried again.
TryDequeueIdle ==
    /\ txEvent = 0
    /\ \A pr \in Prio : ~Eligible(pr)
    /\ txEvent' = Expired
    /\ UNCHANGED <<p2pVars, m_txq, m_macHold, m_paused, pauseLeft, refillEvent, envVars>>

TryDequeueSent(pr) ==
    /\ txEvent = 0
    /\ PickNextPrio(pr)
    /\ SendAccepted(Head(m_txq[pr]))
    /\ m_txq' = [m_txq EXCEPT ![pr] = Tail(@)]
    /\ txEvent' = 0
    /\ UNCHANGED <<m_macHold, m_paused, pauseLeft, refillEvent, envVars>>

\* Mutant of TryDequeueRefused: the refused packet goes back to the tail.
RefusedToTail(pr) ==
    /\ txEvent = 0
    /\ PickNextPrio(pr)
    /\ SendRejected
    /\ m_txq' = [m_txq EXCEPT ![pr] = Append(Tail(@), Head(@))]
    /\ txEvent' = TxRetry
    /\ UNCHANGED <<m_macHold, m_paused, pauseLeft, refillEvent, envVars>>

TryDequeueRefused(pr) ==
    /\ txEvent = 0
    /\ PickNextPrio(pr)
    /\ SendRejected
    /\ txEvent' = TxRetry
    /\ UNCHANGED <<m_txq, m_macHold, m_paused, pauseLeft, refillEvent, envVars>>

\* Mutants of PurgeMacQueueForPrio: frames are left in the MAC queue, thrown
\* away, or copied to the hold without leaving the MAC queue.
PurgeNothing(pr) == UNCHANGED <<m_queue, m_macHold, wasHeld>>
PurgeAndDiscard(pr) ==
    /\ m_queue' = Filter(m_queue, Frame \ DataOf(pr))
    /\ UNCHANGED <<m_macHold, wasHeld>>
PurgeAndCopy(pr) ==
    /\ m_macHold' = [m_macHold EXCEPT ![pr] = @ \o Filter(m_queue, DataOf(pr))]
    /\ wasHeld' = wasHeld \cup (Elems(m_queue) \cap DataOf(pr))
    /\ UNCHANGED m_queue

\* PurgeMacQueueForPrio: the class's data frames leave the MAC queue for the
\* end of its hold queue; PFC frames and the other classes stay.
PurgeMacQueueForPrio(pr) ==
    /\ m_queue' = Filter(m_queue, Frame \ DataOf(pr))
    /\ m_macHold' = [m_macHold EXCEPT ![pr] = @ \o Filter(m_queue, DataOf(pr))]
    /\ wasHeld' = wasHeld \cup (Elems(m_queue) \cap DataOf(pr))

\* Mutant of ResumeAfter: an event that is already pending is kept.
KeepPendingEvent(pr, t) ==
    IF refillEvent[pr] = Idle THEN [fn |-> "resume", left |-> t] ELSE refillEvent[pr]

\* XOFF cancels whatever m_refillEvent holds and schedules ResumeFromPause.
ResumeAfter(pr, t) == [fn |-> "resume", left |-> t]

\* HandleMacRx, XOFF branch.
HandleXoff(pr, t) ==
    /\ nPfcRx < MaxPfcRx
    /\ nPfcRx' = nPfcRx + 1
    /\ m_paused' = [m_paused EXCEPT ![pr] = TRUE]
    /\ pauseLeft' = [pauseLeft EXCEPT ![pr] = t]
    /\ PurgeMacQueueForPrio(pr)
    /\ refillEvent' = [refillEvent EXCEPT ![pr] = ResumeAfter(pr, t)]
    /\ txEvent' = Woken(txEvent)
    /\ UNCHANGED <<m_currentPkt, txCompleteIn, wire, m_txq, nSent, nPfcTx, accepted>>

\* Mutant of HowManyFit: the result of Enqueue is not looked at.
AllFit(pr) == Len(m_macHold[pr])

\* RefillMacQueueFromHold past its gate: as many held frames as fit go to the
\* MAC queue.  The transmitter is not started.  If some remain the function
\* schedules itself again; otherwise it wakes TryDequeue.
HowManyFit(pr) ==
    LET free == QueueMax - Len(m_queue)
    IN  IF Len(m_macHold[pr]) < free THEN Len(m_macHold[pr]) ELSE free

Refill(pr) ==
    LET hold == m_macHold[pr]
        k == HowManyFit(pr)
    IN  /\ m_queue' = m_queue \o SubSeq(hold, 1, k)
        /\ m_macHold' = [m_macHold EXCEPT ![pr] = SubSeq(hold, k + 1, Len(hold))]
        /\ m_paused' = [m_paused EXCEPT ![pr] = FALSE]
        /\ refillEvent' = [refillEvent EXCEPT ![pr] =
               IF k < Len(hold) THEN [fn |-> "refill", left |-> RefillRetry] ELSE Idle]
        /\ UNCHANGED <<m_currentPkt, txCompleteIn, wire>>

RefillWake(pr) ==
    txEvent' = IF HowManyFit(pr) < Len(m_macHold[pr]) THEN txEvent ELSE Woken(txEvent)

\* Mutant of HandleXon: nothing is resumed when nothing is held.
XonNeedsHold(pr) ==
    /\ nPfcRx < MaxPfcRx
    /\ nPfcRx' = nPfcRx + 1
    /\ pauseLeft' = [pauseLeft EXCEPT ![pr] = 0]
    /\ IF m_macHold[pr] # <<>> THEN Refill(pr)
       ELSE /\ refillEvent' = [refillEvent EXCEPT ![pr] = Idle]
            /\ UNCHANGED <<p2pVars, m_macHold, m_paused>>
    /\ txEvent' = Woken(txEvent)
    /\ UNCHANGED <<m_txq, nSent, nPfcTx, accepted, wasHeld>>

\* HandleMacRx, XON branch: the pending event is cancelled, the hold refilled
\* and TryDequeue woken in any case.
HandleXon(pr) ==
    /\ nPfcRx < MaxPfcRx
    /\ nPfcRx' = nPfcRx + 1
    /\ pauseLeft' = [pauseLeft EXCEPT ![pr] = 0]
    /\ Refill(pr)
    /\ txEvent' = Woken(txEvent)
    /\ UNCHANGED <<m_txq, nSent, nPfcTx, accepted, wasHeld>>

\* The two functions m_refillEvent may run.  Each begins with a check that the
\* pause is over.
RefillEventRuns(pr, fn) ==
    /\ refillEvent[pr] = [fn |-> fn, left |-> 0]
    /\ IF (IF fn = "resume" THEN pauseLeft[pr] > 0 ELSE Gated(pr))
         THEN /\ refillEvent' = [refillEvent EXCEPT ![pr] = Idle]
              /\ UNCHANGED <<p2pVars, m_macHold, m_paused, txEvent>>
         ELSE Refill(pr) /\ RefillWake(pr)
    /\ UNCHANGED <<m_txq, pauseLeft, envVars>>

ResumeFromPause(pr) == RefillEventRuns(pr, "resume")
RefillMacQueueFromHold(pr) == RefillEventRuns(pr, "refill")

\* SendPfcXoff and SendPfcXon go straight to the base class; a frame the MAC
\* queue has no room for is dropped.
SendPfc(pr, t) ==
    /\ nPfcTx < MaxPfcTx
    /\ nPfcTx' = nPfcTx + 1
    /\ SendAccepted([kind |-> "pfc", prio |-> pr, n |-> t]) \/ SendRejected
    /\ UNCHANGED <<qbbVars, nSent, nPfcRx, accepted, wasHeld>>

TransmitCompletes ==
    /\ TransmitComplete
    /\ UNCHANGED <<qbbVars, envVars>>

------------------------------------------------------------------------------
\* The simulator: time passes only when no event is due.
SomethingDue ==
    \/ ~READY /\ txCompleteIn = 0
    \/ txEvent = 0
    \/ \E pr \in Prio : refillEvent[pr].fn # "none" /\ refillEvent[pr].left = 0

Down(x) == IF x > 0 THEN x - 1 ELSE x

Tick ==
    /\ ~SomethingDue
    /\ txCompleteIn' = Down(txCompleteIn)
    /\ txEvent' = Down(txEvent)
    /\ refillEvent' = [pr \in Prio |->
           [fn |-> refillEvent[pr].fn, left |-> Down(refillEvent[pr].left)]]
    /\ pauseLeft' = [pr \in Prio |-> Down(pauseLeft[pr])]
    /\ UNCHANGED <<m_queue, m_currentPkt, wire, m_txq, m_macHold, m_paused, envVars>>

\* What comes from outside the device, and what the simulator does by itself.
Environment ==
    \E pr \in Prio :
        \/ Send(pr)
        \/ HandleXon(pr)
        \/ \E t \in PauseTimes : HandleXoff(pr, t)
        \/ \E t \in {0} \cup PauseTimes : SendPfc(pr, t)

Simulator ==
    \/ TryDequeueIdle
    \/ TransmitCompletes
    \/ \E pr \in Prio :
        \/ TryDequeueSent(pr)
        \/ TryDequeueRefused(pr)
        \/ ResumeFromPause(pr)
        \/ RefillMacQueueFromHold(pr)
    \/ Tick

Next == Environment \/ Simulator

Spec == Init /\ [][Next]_vars

\* The event loop keeps running.
FairSpec == Spec /\ WF_vars(Simulator)

------------------------------------------------------------------------------
\* Types of the device's fields; the MAC queue keeps within its capacity.
TypeOK ==
    /\ P2PTypeOK
    /\ m_txq \in [Prio -> Seq(DataFrame)]
    /\ m_macHold \in [Prio -> Seq(DataFrame)]
    /\ m_paused \in [Prio -> BOOLEAN]
    /\ pauseLeft \in [Prio -> Nat]
    /\ txEvent \in Nat \cup {Expired}
    /\ refillEvent \in [Prio -> EventRecord]
    /\ nSent \in Nat /\ nPfcRx \in Nat /\ nPfcTx \in Nat
    /\ accepted \subseteq DataFrame /\ wasHeld \subseteq DataFrame

\* The pause gate: while a class is paused (HandleMacRx took an XOFF and its
\* time is not over) the MAC queue, which TransmitComplete empties without
\* asking anyone, holds no data frame of that class.
PauseGate ==
    \A pr \in Prio : Gated(pr) => Elems(m_queue) \cap DataOf(pr) = {}

\* No data frame of a paused class is put on the line: not by TryDequeue, not
\* by TransmitComplete, not by a PFC frame that flushes the head of the queue.
NeverStartsPaused ==
    [][\A pr \in Prio : Gated(pr) /\ wire' # wire =>
          wire'[Len(wire')] \notin DataOf(pr)]_vars

\* A paused class always has its ResumeFromPause pending for exactly the end of
\* the latest XOFF, whatever order XOFF, XON and refill retries came in.
ResumeArmed ==
    \A pr \in Prio : m_paused[pr] =>
        refillEvent[pr] = [fn |-> "resume", left |-> pauseLeft[pr]]

\* No lost wake-up: a held frame has an event of its class pending, and a packet
\* in a software queue has TryDequeue pending or an event that will wake it.
NoLostWakeup ==
    \A pr \in Prio :
        /\ m_macHold[pr] # <<>> => refillEvent[pr].fn # "none"
        /\ m_txq[pr] # <<>> => txEvent # Expired \/ refillEvent[pr].fn # "none"

\* A packet that Send took is queued, held, or has been put on the line: purge,
\* partial refill and retries on a full MAC queue lose none and invent none.
Everywhere ==
    Elems(m_queue) \cup Elems(wire)
        \cup UNION {Elems(m_txq[pr]) \cup Elems(m_macHold[pr]) : pr \in Prio}
NoLoss == Everywhere \cap DataFrame = accepted

\* Packets of one class leave in the order Send took them, except that a frame
\* which was taken back out of the MAC queue may be overtaken.
OvertakenOnlyIfHeld ==
    \A i, j \in 1 .. Len(wire) :
        /\ i < j
        /\ wire[i] \in DataFrame /\ wire[j] \in DataFrame
        /\ wire[i].prio = wire[j].prio
        /\ wire[i].n > wire[j].n
        => wire[j] \in wasHeld

\* A pause ends: a class does not stay paused for ever after the last XOFF.
PauseEnds == \A pr \in Prio : m_paused[pr] ~> ~m_paused[pr]

\* Held frames get back into the MAC queue, or there is no room for them: nothing
\* empties that queue while the transmitter is idle.
HeldReturned ==
    \A pr \in Prio : m_macHold[pr] # <<>> ~>
        m_macHold[pr] = <<>> \/ Len(m_queue) = QueueMax

\* Every packet that Send took is eventually put on the line.
EventuallyTransmitted ==
    \A pr \in Prio, i \in 0 .. MaxSends - 1 :
        LET f == [kind |-> "data", prio |-> pr, n |-> i]
        IN  f \in accepted ~> f \in Elems(wire)

\* ... if the peer does not send a PFC frame before, a full MAC queue and its
\* retries notwithstanding.
TransmittedUnlessPaused ==
    \A pr \in Prio, i \in 0 .. MaxSends - 1 :
        LET f == [kind |-> "data", prio |-> pr, n |-> i]
        IN  f \in accepted ~> f \in Elems(wire) \/ nPfcRx > 0

\* The device keeps the promise of LosslessClasses: what waits is what it has
\* taken and not put on the line, wherever it is queued or held, and a class is
\* stopped while its pause lasts.  A frame of which purge or refill left a copy
\* behind would still wait when it is put on the line, which no step of the
\* promise allows.
Waiting ==
    (Elems(m_queue) \cap DataFrame)
        \cup UNION {Elems(m_txq[pr]) \cup Elems(m_macHold[pr]) : pr \in Prio}

Promise == INSTANCE LosslessClasses WITH
    Class <- Prio, Packet <- [kind : {"data"}, prio : Prio, n : 0 .. MaxSends - 1],
    taken <- accepted, pending <- Waiting,
    stopped <- {pr \in Prio : Gated(pr)}, sent <- Filter(wire, DataFrame)

PromiseKept == Promise!Spec
==============================================================================
