-------------------------- MODULE QbbTransmitProofs --------------------------
(***************************************************************************)
(* The safety of the transmit half, for every number of classes, queue     *)
(* size, transmission time, pause time and number of packets and PFC       *)
(* frames.  The argument goes through what each operation does to the set  *)
(* of frames in each place; the inductive invariant is IInv.               *)
(***************************************************************************)
EXTENDS QbbTransmit, SeqSetsProofs

\* A class's queues hold frames of that class only.
ClassPure ==
    \A pr \in Prio : Elems(m_txq[pr]) \cup Elems(m_macHold[pr]) \subseteq DataOf(pr)

\* ResumeFromPause is pending only for a paused class: an XON cancels it.
ResumeOnlyIfPaused ==
    \A pr \in Prio : refillEvent[pr].fn = "resume" => m_paused[pr]

IInv ==
    /\ TypeOK
    /\ ClassPure
    /\ ResumeOnlyIfPaused
    /\ PauseGate
    /\ ResumeArmed
    /\ NoLostWakeup
    /\ NoLoss

------------------------------------------------------------------------------
\* What the operations do to the places frames can be in.

\* Data and PFC frames differ, and the classes' data frames are apart.
LEMMA FrameSets ==
    /\ DataFrame \subseteq Frame
    /\ \A f \in PfcFrame : f \notin DataFrame
    /\ \A pr \in Prio : DataOf(pr) \subseteq DataFrame
    /\ \A pr, p \in Prio : pr # p => DataOf(pr) \cap DataOf(p) = {}
<1>1. DataFrame \subseteq Frame
  BY DEF Frame
<1>2. \A f \in PfcFrame : f.kind = "pfc"
  BY DEF PfcFrame
<1>3. \A f \in DataFrame : f.kind = "data"
  BY DEF DataFrame
<1>4. \A pr \in Prio : DataOf(pr) \subseteq DataFrame
  BY DEF DataOf, DataFrame
<1>5. \A pr \in Prio : \A f \in DataOf(pr) : f.prio = pr
  BY DEF DataOf
<1>6. QED
  BY <1>1, <1>2, <1>3, <1>4, <1>5

\* Putting the head of a non-empty queue on the line.
LEMMA StartEffect ==
    ASSUME P2PTypeOK, NEW q \in Seq(Frame), q # <<>>,
           m_queue' = Tail(q), TransmitStart(Head(q)), Len(q) <= QueueMax + 1
    PROVE  /\ P2PTypeOK'
           /\ Elems(m_queue') \cup Elems(wire') = Elems(q) \cup Elems(wire)
           /\ Elems(m_queue') \subseteq Elems(q)
           /\ wire'[Len(wire')] \in Elems(q)
<1>1. /\ Head(q) \in Frame /\ Tail(q) \in Seq(Frame)
      /\ Len(Tail(q)) = Len(q) - 1 /\ Len(q) \in Nat \ {0}
      /\ Elems(q) = {Head(q)} \cup Elems(Tail(q))
  BY ElemsHeadTail
<1>2. /\ wire' \in Seq(Frame)
      /\ Len(wire') = Len(wire) + 1
      /\ wire'[Len(wire) + 1] = Head(q)
      /\ Elems(wire') = Elems(wire) \cup {Head(q)}
  BY <1>1, ElemsAppend DEF TransmitStart, P2PTypeOK
<1>3. Len(m_queue') <= QueueMax
  BY <1>1, QueueMaxAssumption, SMT
<1>4. txCompleteIn' \in Nat /\ m_currentPkt' \in Frame
  BY <1>1, TxTimesAssumption DEF TransmitStart
<1>5. P2PTypeOK'
  BY <1>1, <1>2, <1>3, <1>4 DEF P2PTypeOK
<1>6. QED
  BY <1>1, <1>2, <1>5

\* PointToPointNetDevice::Send, when it takes the frame.
LEMMA AcceptEffect ==
    ASSUME P2PTypeOK, NEW f \in Frame, SendAccepted(f)
    PROVE  /\ P2PTypeOK'
           /\ Elems(m_queue') \cup Elems(wire')
                = Elems(m_queue) \cup Elems(wire) \cup {f}
           /\ Elems(m_queue') \subseteq Elems(m_queue) \cup {f}
           /\ wire' # wire => wire'[Len(wire')] \in Elems(m_queue) \cup {f}
<1> DEFINE q == Append(m_queue, f)
<1>1. /\ q \in Seq(Frame) /\ Len(q) = Len(m_queue) + 1
      /\ Elems(q) = Elems(m_queue) \cup {f}
      /\ Len(m_queue) \in Nat
  BY ElemsAppend, LenProperties DEF P2PTypeOK
<1>2. Len(q) <= QueueMax
  BY <1>1, QueueMaxAssumption, SMT DEF SendAccepted, QueueFull
<1>3. CASE READY
  <2>1. m_queue' = Tail(q) /\ TransmitStart(Head(q))
    BY <1>3 DEF SendAccepted
  <2>2. q # <<>> /\ Len(q) <= QueueMax + 1
    <3>1. Len(<<>>) = 0
      BY SMT
    <3>2. QED
      BY <1>1, <1>2, <3>1, QueueMaxAssumption, SMT
  <2>3. QED
    <3> HIDE DEF q
    <3>1. QED
      BY <1>1, <2>1, <2>2, StartEffect
<1>4. CASE ~READY
  <2>1. m_queue' = q /\ UNCHANGED <<m_currentPkt, txCompleteIn, wire>>
    BY <1>4 DEF SendAccepted
  <2>2. QED
    <3> HIDE DEF q
    <3>1. P2PTypeOK'
      BY <1>1, <1>2, <2>1 DEF P2PTypeOK
    <3>2. QED
      BY <1>1, <2>1, <3>1
<1>5. QED
  BY <1>3, <1>4

\* TransmitComplete.
LEMMA CompleteEffect ==
    ASSUME P2PTypeOK, TransmitComplete
    PROVE  /\ P2PTypeOK'
           /\ Elems(m_queue') \cup Elems(wire') = Elems(m_queue) \cup Elems(wire)
           /\ Elems(m_queue') \subseteq Elems(m_queue)
           /\ wire' # wire => wire'[Len(wire')] \in Elems(m_queue)
<1>1. CASE m_queue = <<>>
  BY <1>1 DEF TransmitComplete, P2PTypeOK
<1>2. CASE m_queue # <<>>
  <2>1. m_queue' = Tail(m_queue) /\ TransmitStart(Head(m_queue))
    BY <1>2 DEF TransmitComplete
  <2>2. m_queue \in Seq(Frame) /\ Len(m_queue) <= QueueMax + 1
    <3>1. m_queue \in Seq(Frame) /\ Len(m_queue) <= QueueMax /\ Len(m_queue) \in Nat
      BY LenProperties DEF P2PTypeOK
    <3>2. QED
      BY <3>1, QueueMaxAssumption, SMT
  <2>3. QED
    BY <1>2, <2>1, <2>2, StartEffect
<1>3. QED
  BY <1>1, <1>2

\* PurgeMacQueueForPrio moves exactly the frames of the class.
LEMMA PurgeEffect ==
    ASSUME TypeOK, NEW pr \in Prio, PurgeMacQueueForPrio(pr),
           UNCHANGED <<m_currentPkt, txCompleteIn, wire>>
    PROVE  /\ P2PTypeOK'
           /\ m_macHold' \in [Prio -> Seq(DataFrame)]
           /\ wasHeld' \subseteq DataFrame
           /\ Elems(m_queue') = Elems(m_queue) \ DataOf(pr)
           /\ Elems(m_macHold'[pr])
                = Elems(m_macHold[pr]) \cup (Elems(m_queue) \cap DataOf(pr))
           /\ \A p \in Prio : p # pr => m_macHold'[p] = m_macHold[p]
<1>1. /\ m_queue \in Seq(Frame) /\ Len(m_queue) <= QueueMax
      /\ m_macHold \in [Prio -> Seq(DataFrame)] /\ wasHeld \subseteq DataFrame
      /\ Elems(m_queue) \subseteq Frame /\ Len(m_queue) \in Nat
  BY ElemsInSet DEF TypeOK, P2PTypeOK
<1>2. /\ m_queue' \in Seq(Frame) /\ Len(m_queue') <= Len(m_queue)
      /\ Elems(m_queue') = Elems(m_queue) \cap (Frame \ DataOf(pr))
      /\ Len(m_queue') \in Nat
  BY <1>1, FilterProperties, LenProperties DEF PurgeMacQueueForPrio
<1>3. Len(m_queue') <= QueueMax
  BY <1>1, <1>2, QueueMaxAssumption, SMT
<1>4. P2PTypeOK'
  BY <1>2, <1>3 DEF TypeOK, P2PTypeOK
<1> DEFINE moved == Filter(m_queue, DataOf(pr))
<1>5. moved \in Seq(Frame) /\ Elems(moved) = Elems(m_queue) \cap DataOf(pr)
  BY <1>1, FilterProperties
<1>6. moved \in Seq(DataFrame)
  <2> HIDE DEF moved
  <2>1. QED
    BY <1>5, FrameSets, SeqOverElems
<1>7. /\ m_macHold[pr] \o moved \in Seq(DataFrame)
      /\ Elems(m_macHold[pr] \o moved) = Elems(m_macHold[pr]) \cup Elems(moved)
  <2> HIDE DEF moved
  <2>1. QED
    BY <1>1, <1>6, ElemsConcat
<1>8. m_macHold' = [m_macHold EXCEPT ![pr] = @ \o moved]
  BY DEF PurgeMacQueueForPrio
<1>9. m_macHold'[pr] = m_macHold[pr] \o moved
  BY <1>1, <1>8
<1>10. m_macHold' \in [Prio -> Seq(DataFrame)]
  BY <1>1, <1>7, <1>8
<1>11. wasHeld' \subseteq DataFrame
  BY <1>1, FrameSets DEF PurgeMacQueueForPrio
<1>12. QED
  BY <1>1, <1>2, <1>4, <1>5, <1>7, <1>8, <1>9, <1>10, <1>11

\* RefillMacQueueFromHold moves frames of the class from hold to MAC queue.
LEMMA RefillEffect ==
    ASSUME TypeOK, NEW pr \in Prio, Refill(pr)
    PROVE  /\ P2PTypeOK'
           /\ m_macHold' \in [Prio -> Seq(DataFrame)]
           /\ Elems(m_queue') \cup Elems(m_macHold'[pr])
                = Elems(m_queue) \cup Elems(m_macHold[pr])
           /\ Elems(m_macHold'[pr]) \subseteq Elems(m_macHold[pr])
           /\ \A p \in Prio : p # pr => m_macHold'[p] = m_macHold[p]
           /\ HowManyFit(pr) \in 0 .. Len(m_macHold[pr])
           /\ HowManyFit(pr) = Len(m_macHold[pr]) => m_macHold'[pr] = <<>>
<1> DEFINE hold == m_macHold[pr]
           k == HowManyFit(pr)
<1>1. /\ m_queue \in Seq(Frame) /\ Len(m_queue) <= QueueMax /\ Len(m_queue) \in Nat
      /\ m_macHold \in [Prio -> Seq(DataFrame)]
      /\ hold \in Seq(DataFrame) /\ Len(hold) \in Nat
  BY LenProperties DEF TypeOK, P2PTypeOK
<1>2. k \in 0 .. Len(hold) /\ Len(m_queue) + k <= QueueMax
  BY <1>1, QueueMaxAssumption, SMT DEF HowManyFit
<1>3. /\ SubSeq(hold, 1, k) \in Seq(DataFrame) /\ Len(SubSeq(hold, 1, k)) = k
      /\ SubSeq(hold, k + 1, Len(hold)) \in Seq(DataFrame)
      /\ Len(SubSeq(hold, k + 1, Len(hold))) = Len(hold) - k
      /\ Elems(SubSeq(hold, 1, k)) \cup Elems(SubSeq(hold, k + 1, Len(hold)))
           = Elems(hold)
  <2> HIDE DEF hold, k
  <2>1. QED
    BY <1>1, <1>2, ElemsSplit
<1>4. SubSeq(hold, 1, k) \in Seq(Frame)
  BY <1>3, FrameSets, SeqMonotonic
<1>5. /\ m_queue' = m_queue \o SubSeq(hold, 1, k)
      /\ m_macHold' = [m_macHold EXCEPT ![pr] = SubSeq(hold, k + 1, Len(hold))]
      /\ UNCHANGED <<m_currentPkt, txCompleteIn, wire>>
  BY DEF Refill
<1>6. m_macHold'[pr] = SubSeq(hold, k + 1, Len(hold))
  BY <1>1, <1>5
<1>7. /\ m_queue' \in Seq(Frame)
      /\ Len(m_queue') = Len(m_queue) + k
      /\ Elems(m_queue') = Elems(m_queue) \cup Elems(SubSeq(hold, 1, k))
  <2> DEFINE back == SubSeq(hold, 1, k)
  <2>1. back \in Seq(Frame) /\ Len(back) = k
    BY <1>3, <1>4
  <2>2. /\ m_queue \o back \in Seq(Frame)
        /\ Len(m_queue \o back) = Len(m_queue) + Len(back)
        /\ Elems(m_queue \o back) = Elems(m_queue) \cup Elems(back)
    <3> HIDE DEF back
    <3>1. QED
      BY <1>1, <2>1, ElemsConcat
  <2>3. QED
    BY <1>5, <2>1, <2>2
<1>8. P2PTypeOK'
  BY <1>2, <1>5, <1>7 DEF TypeOK, P2PTypeOK
<1>9. m_macHold' \in [Prio -> Seq(DataFrame)]
  BY <1>1, <1>3, <1>5
<1>10. k = Len(hold) => m_macHold'[pr] = <<>>
  <2>1. SUFFICES ASSUME k = Len(hold) PROVE m_macHold'[pr] = <<>>
    OBVIOUS
  <2>2. Len(hold) < k + 1
    BY <1>1, <2>1, SMT
  <2>3. k + 1 \in Int /\ Len(hold) \in Int
    BY <1>1, <2>1, SMT
  <2>4. QED
    <3> HIDE DEF hold, k
    <3>1. QED
      BY <1>6, <2>2, <2>3, SubSeqEmpty
<1>11. QED
  BY <1>2, <1>3, <1>5, <1>6, <1>7, <1>8, <1>9, <1>10

------------------------------------------------------------------------------
\* One lemma per operation: it preserves the inductive invariant.

\* Everywhere, element by element, before and after a step.
LEMMA EverywhereUnfolds ==
    /\ \A f : f \in Everywhere <=>
         \/ f \in Elems(m_queue) \cup Elems(wire)
         \/ \E pr \in Prio : f \in Elems(m_txq[pr]) \cup Elems(m_macHold[pr])
    /\ \A f : f \in Everywhere' <=>
         \/ f \in Elems(m_queue') \cup Elems(wire')
         \/ \E pr \in Prio : f \in Elems(m_txq'[pr]) \cup Elems(m_macHold'[pr])
BY DEF Everywhere

\* A woken TryDequeue is pending, and waking changes nothing else.
LEMMA WokenFacts ==
    ASSUME TypeOK
    PROVE  Woken(txEvent) \in Nat /\ Woken(txEvent) # Expired
BY SMT DEF TypeOK, Woken, Expired

\* The two fields of a paused class's event.
LEMMA ArmedFields ==
    ASSUME ResumeArmed, NEW pr \in Prio, m_paused[pr]
    PROVE  refillEvent[pr].fn = "resume" /\ refillEvent[pr].left = pauseLeft[pr]
<1>1. refillEvent[pr] = [fn |-> "resume", left |-> pauseLeft[pr]]
  BY Zenon DEF ResumeArmed
<1>2. QED
  BY <1>1

\* IInv survives Send.
LEMMA SendStep ==
    ASSUME IInv, NEW pr \in Prio, Send(pr)
    PROVE  IInv'
<1> DEFINE f == [kind |-> "data", prio |-> pr, n |-> nSent]
<1> USE DEF IInv
<1>1. f \in DataFrame /\ f \in DataOf(pr)
  BY DEF TypeOK, DataFrame, DataOf
<1>2. /\ m_txq' = [m_txq EXCEPT ![pr] = Append(@, f)]
      /\ accepted' = accepted \cup {f}
      /\ txEvent' = Woken(txEvent) /\ nSent' = nSent + 1
      /\ UNCHANGED <<m_queue, m_currentPkt, txCompleteIn, wire>>
      /\ UNCHANGED <<m_macHold, m_paused, pauseLeft, refillEvent, nPfcRx, nPfcTx, wasHeld>>
  BY DEF Send, p2pVars
<1> HIDE DEF f
<1>3. /\ Append(m_txq[pr], f) \in Seq(DataFrame)
      /\ Elems(Append(m_txq[pr], f)) = Elems(m_txq[pr]) \cup {f}
  BY <1>1, ElemsAppend DEF TypeOK
<1>4. /\ m_txq' \in [Prio -> Seq(DataFrame)]
      /\ m_txq'[pr] = Append(m_txq[pr], f)
      /\ \A p \in Prio : p # pr => m_txq'[p] = m_txq[p]
  BY <1>2, <1>3 DEF TypeOK
<1>5. txEvent' \in Nat /\ txEvent' # Expired
  BY <1>2, WokenFacts
<1>6. TypeOK'
  BY <1>1, <1>2, <1>4, <1>5 DEF TypeOK, P2PTypeOK
<1>7. ClassPure'
  BY <1>1, <1>2, <1>3, <1>4 DEF ClassPure
<1>8. PauseGate' /\ ResumeArmed' /\ ResumeOnlyIfPaused'
  BY <1>2 DEF PauseGate, ResumeArmed, ResumeOnlyIfPaused, Gated
<1>9. NoLostWakeup'
  BY <1>2, <1>5 DEF NoLostWakeup
<1>10. NoLoss'
  <2>1. \A g : g \in Everywhere' <=> g \in Everywhere \cup {f}
    BY <1>2, <1>3, <1>4, EverywhereUnfolds
  <2>2. QED
    BY <1>1, <1>2, <2>1 DEF NoLoss
<1>11. QED
  BY <1>6, <1>7, <1>8, <1>9, <1>10

\* IInv survives a TryDequeue that finds nothing: what still waits is paused,
\* and a paused class has its ResumeFromPause pending.
LEMMA TryDequeueIdleStep ==
    ASSUME IInv, TryDequeueIdle
    PROVE  IInv'
<1> USE DEF IInv
<1>1. /\ \A pr \in Prio : m_txq[pr] # <<>> => Gated(pr)
      /\ txEvent' = Expired
      /\ UNCHANGED <<m_queue, m_currentPkt, txCompleteIn, wire>>
      /\ UNCHANGED <<m_txq, m_macHold, m_paused, pauseLeft, refillEvent>>
      /\ UNCHANGED <<nSent, nPfcRx, nPfcTx, accepted, wasHeld>>
  BY DEF TryDequeueIdle, Eligible, p2pVars, envVars
<1>2. TypeOK'
  BY <1>1 DEF TypeOK, P2PTypeOK
<1>3. ClassPure' /\ PauseGate' /\ ResumeArmed' /\ ResumeOnlyIfPaused'
  BY <1>1 DEF ClassPure, PauseGate, ResumeArmed, ResumeOnlyIfPaused, Gated
<1>4. NoLostWakeup'
  <2>1. \A pr \in Prio : m_txq[pr] # <<>> => refillEvent[pr].fn = "resume"
    <3>1. \A pr \in Prio : m_txq[pr] # <<>> => m_paused[pr]
      BY <1>1, Zenon DEF Gated
    <3>2. \A pr \in Prio : m_paused[pr] => refillEvent[pr].fn = "resume"
      BY ArmedFields, Zenon
    <3>3. QED
      BY <3>1, <3>2, Zenon
  <2>2. QED
    BY <1>1, <2>1 DEF NoLostWakeup
<1>5. NoLoss'
  BY <1>1 DEF NoLoss, Everywhere
<1>6. QED
  BY <1>2, <1>3, <1>4, <1>5

\* IInv survives a TryDequeue whose frame the base class takes: it is of a class
\* that is not paused.
LEMMA TryDequeueSentStep ==
    ASSUME IInv, NEW pr \in Prio, TryDequeueSent(pr)
    PROVE  IInv'
<1> DEFINE f == Head(m_txq[pr])
<1> USE DEF IInv
<1>1. /\ m_txq[pr] # <<>> /\ ~Gated(pr)
      /\ SendAccepted(f)
      /\ m_txq' = [m_txq EXCEPT ![pr] = Tail(@)]
      /\ txEvent' = 0
      /\ UNCHANGED <<m_macHold, m_paused, pauseLeft, refillEvent>>
      /\ UNCHANGED <<nSent, nPfcRx, nPfcTx, accepted, wasHeld>>
  BY DEF TryDequeueSent, PickNextPrio, Eligible, envVars
<1>2. /\ f \in DataFrame /\ Tail(m_txq[pr]) \in Seq(DataFrame)
      /\ Elems(m_txq[pr]) = {f} \cup Elems(Tail(m_txq[pr]))
  BY <1>1, ElemsHeadTail DEF TypeOK
<1>3. f \in DataOf(pr) /\ f \in Frame
  BY <1>2, FrameSets DEF ClassPure
<1> HIDE DEF f
<1>4. /\ P2PTypeOK'
      /\ Elems(m_queue') \cup Elems(wire')
           = Elems(m_queue) \cup Elems(wire) \cup {f}
      /\ Elems(m_queue') \subseteq Elems(m_queue) \cup {f}
  BY <1>1, <1>3, AcceptEffect DEF TypeOK
<1>5. /\ m_txq' \in [Prio -> Seq(DataFrame)]
      /\ m_txq'[pr] = Tail(m_txq[pr])
      /\ \A p \in Prio : p # pr => m_txq'[p] = m_txq[p]
  BY <1>1, <1>2 DEF TypeOK
<1>6. TypeOK'
  BY <1>1, <1>4, <1>5, SMT DEF TypeOK, Expired
<1>7. ClassPure'
  BY <1>1, <1>2, <1>5 DEF ClassPure
<1>8. PauseGate'
  <2>1. \A p \in Prio : Gated(p) => p # pr
    BY <1>1
  <2>2. \A p \in Prio : Gated(p) => f \notin DataOf(p)
    BY <1>3, <2>1, FrameSets
  <2>3. QED
    BY <1>1, <1>4, <2>2 DEF PauseGate, Gated
<1>9. ResumeArmed' /\ ResumeOnlyIfPaused'
  BY <1>1 DEF ResumeArmed, ResumeOnlyIfPaused
<1>10. NoLostWakeup'
  <2>1. txEvent' # Expired
    BY <1>1, SMT DEF Expired
  <2>2. QED
    BY <1>1, <2>1 DEF NoLostWakeup
<1>11. NoLoss'
  <2>1. \A g : g \in Everywhere' <=> g \in Everywhere
    BY <1>1, <1>2, <1>4, <1>5, EverywhereUnfolds
  <2>2. QED
    BY <1>1, <2>1 DEF NoLoss
<1>12. QED
  BY <1>6, <1>7, <1>8, <1>9, <1>10, <1>11

\* IInv survives a TryDequeue whose frame the base class refuses.
LEMMA TryDequeueRefusedStep ==
    ASSUME IInv, NEW pr \in Prio, TryDequeueRefused(pr)
    PROVE  IInv'
<1> USE DEF IInv
<1>1. /\ txEvent' = TxRetry
      /\ UNCHANGED <<m_queue, m_currentPkt, txCompleteIn, wire>>
      /\ UNCHANGED <<m_txq, m_macHold, m_paused, pauseLeft, refillEvent>>
      /\ UNCHANGED <<nSent, nPfcRx, nPfcTx, accepted, wasHeld>>
  BY DEF TryDequeueRefused, SendRejected, p2pVars, envVars
<1>2. txEvent' \in Nat /\ txEvent' # Expired
  BY <1>1, RetryAssumption, SMT DEF Expired
<1>3. TypeOK'
  BY <1>1, <1>2 DEF TypeOK, P2PTypeOK
<1>4. ClassPure' /\ PauseGate' /\ ResumeArmed' /\ ResumeOnlyIfPaused'
  BY <1>1 DEF ClassPure, PauseGate, ResumeArmed, ResumeOnlyIfPaused, Gated
<1>5. NoLostWakeup'
  BY <1>1, <1>2 DEF NoLostWakeup
<1>6. NoLoss'
  BY <1>1 DEF NoLoss, Everywhere
<1>7. QED
  BY <1>3, <1>4, <1>5, <1>6

\* IInv survives an XOFF: the purge re-establishes the gate of the class it
\* pauses, and the cancelled event is replaced by the one for the new end.
LEMMA HandleXoffStep ==
    ASSUME IInv, NEW pr \in Prio, NEW t \in PauseTimes, HandleXoff(pr, t)
    PROVE  IInv'
<1> USE DEF IInv
<1>1. /\ m_paused' = [m_paused EXCEPT ![pr] = TRUE]
      /\ pauseLeft' = [pauseLeft EXCEPT ![pr] = t]
      /\ refillEvent' = [refillEvent EXCEPT ![pr] = [fn |-> "resume", left |-> t]]
      /\ txEvent' = Woken(txEvent) /\ nPfcRx' = nPfcRx + 1
      /\ PurgeMacQueueForPrio(pr)
      /\ UNCHANGED <<m_currentPkt, txCompleteIn, wire>>
      /\ UNCHANGED <<m_txq, nSent, nPfcTx, accepted>>
  BY DEF HandleXoff, ResumeAfter
<1>2. t \in Nat /\ [fn |-> "resume", left |-> t] \in EventRecord
  BY PauseTimesAssumption DEF EventRecord
<1>3. /\ P2PTypeOK'
      /\ m_macHold' \in [Prio -> Seq(DataFrame)]
      /\ wasHeld' \subseteq DataFrame
      /\ Elems(m_queue') = Elems(m_queue) \ DataOf(pr)
      /\ Elems(m_macHold'[pr])
           = Elems(m_macHold[pr]) \cup (Elems(m_queue) \cap DataOf(pr))
      /\ \A p \in Prio : p # pr => m_macHold'[p] = m_macHold[p]
  BY <1>1, PurgeEffect
<1>4. txEvent' \in Nat /\ txEvent' # Expired
  BY <1>1, WokenFacts
<1>5. /\ m_paused' \in [Prio -> BOOLEAN] /\ m_paused'[pr] = TRUE
      /\ pauseLeft' \in [Prio -> Nat] /\ pauseLeft'[pr] = t
      /\ refillEvent' \in [Prio -> EventRecord]
      /\ refillEvent'[pr] = [fn |-> "resume", left |-> t]
      /\ \A p \in Prio : p # pr =>
           /\ m_paused'[p] = m_paused[p]
           /\ pauseLeft'[p] = pauseLeft[p]
           /\ refillEvent'[p] = refillEvent[p]
  BY <1>1, <1>2 DEF TypeOK
<1>6. TypeOK'
  BY <1>1, <1>3, <1>4, <1>5 DEF TypeOK
<1>7. ClassPure'
  BY <1>1, <1>3 DEF ClassPure
<1>8. PauseGate'
  <2>1. \A p \in Prio : p # pr => (Gated(p)' => Gated(p))
    BY <1>5, Zenon DEF Gated
  <2>2. QED
    BY <1>3, <2>1 DEF PauseGate
<1>9. ResumeArmed' /\ ResumeOnlyIfPaused'
  BY <1>5 DEF ResumeArmed, ResumeOnlyIfPaused
<1>10. NoLostWakeup'
  BY <1>1, <1>3, <1>4, <1>5 DEF NoLostWakeup
<1>11. NoLoss'
  <2>1. \A g : g \in Everywhere' <=> g \in Everywhere
    BY <1>1, <1>3, EverywhereUnfolds
  <2>2. QED
    BY <1>1, <2>1 DEF NoLoss
<1>12. QED
  BY <1>6, <1>7, <1>8, <1>9, <1>10, <1>11

\* The part that HandleXon, ResumeFromPause and RefillMacQueueFromHold share.
LEMMA RefillStep ==
    ASSUME IInv, NEW pr \in Prio, Refill(pr),
           pauseLeft' \in [Prio -> Nat],
           \A p \in Prio : p # pr => pauseLeft'[p] = pauseLeft[p],
           txEvent' \in Nat \/ txEvent' = txEvent,
           txEvent' \in Nat \/ HowManyFit(pr) < Len(m_macHold[pr]),
           UNCHANGED m_txq,
           nSent' \in Nat /\ nPfcRx' \in Nat /\ nPfcTx' \in Nat,
           UNCHANGED <<accepted, wasHeld>>
    PROVE  IInv'
<1> USE DEF IInv
<1>1. /\ P2PTypeOK'
      /\ m_macHold' \in [Prio -> Seq(DataFrame)]
      /\ Elems(m_queue') \cup Elems(m_macHold'[pr])
           = Elems(m_queue) \cup Elems(m_macHold[pr])
      /\ Elems(m_macHold'[pr]) \subseteq Elems(m_macHold[pr])
      /\ \A p \in Prio : p # pr => m_macHold'[p] = m_macHold[p]
      /\ HowManyFit(pr) \in 0 .. Len(m_macHold[pr])
      /\ HowManyFit(pr) = Len(m_macHold[pr]) => m_macHold'[pr] = <<>>
  BY RefillEffect
<1> DEFINE all == ~(HowManyFit(pr) < Len(m_macHold[pr]))
           ev == IF HowManyFit(pr) < Len(m_macHold[pr])
                   THEN [fn |-> "refill", left |-> RefillRetry] ELSE Idle
<1>2. ev \in EventRecord /\ ev.fn # "resume" /\ (~all => ev.fn # "none")
  BY RetryAssumption DEF EventRecord, Idle
<1>3. all => m_macHold'[pr] = <<>>
  <2>1. Len(m_macHold[pr]) \in Nat
    BY LenProperties DEF TypeOK
  <2>2. all => HowManyFit(pr) = Len(m_macHold[pr])
    BY <1>1, <2>1, SMT
  <2>3. QED
    BY <1>1, <2>2
<1>4. m_paused' = [m_paused EXCEPT ![pr] = FALSE]
      /\ refillEvent' = [refillEvent EXCEPT ![pr] = ev]
      /\ UNCHANGED wire
  BY DEF Refill
<1>5. all => txEvent' \in Nat
  OBVIOUS
<1> HIDE DEF all, ev
<1>6. /\ m_paused' \in [Prio -> BOOLEAN] /\ m_paused'[pr] = FALSE
      /\ refillEvent' \in [Prio -> EventRecord] /\ refillEvent'[pr] = ev
      /\ \A p \in Prio : p # pr =>
           m_paused'[p] = m_paused[p] /\ refillEvent'[p] = refillEvent[p]
  BY <1>2, <1>4 DEF TypeOK
<1>7. TypeOK'
  BY <1>1, <1>6 DEF TypeOK
<1>8. ClassPure'
  BY <1>1 DEF ClassPure
<1>9. PauseGate'
  <2>1. \A p \in Prio : Gated(p)' => p # pr /\ Gated(p)
    BY <1>6, Zenon DEF Gated
  <2>2. \A p \in Prio : p # pr => Elems(m_macHold[pr]) \cap DataOf(p) = {}
    BY FrameSets DEF ClassPure
  <2>3. QED
    BY <1>1, <2>1, <2>2 DEF PauseGate
<1>10. ResumeArmed' /\ ResumeOnlyIfPaused'
  BY <1>2, <1>6 DEF ResumeArmed, ResumeOnlyIfPaused
<1>11. NoLostWakeup'
  <2>1. ASSUME NEW p \in Prio, p # pr
        PROVE  /\ m_macHold'[p] # <<>> => refillEvent'[p].fn # "none"
               /\ m_txq'[p] # <<>> => txEvent' # Expired \/ refillEvent'[p].fn # "none"
    <3>1. txEvent' # Expired \/ txEvent' = txEvent
      BY SMT DEF Expired
    <3>2. QED
      BY <1>1, <1>6, <2>1, <3>1 DEF NoLostWakeup
  <2>2. /\ m_macHold'[pr] # <<>> => refillEvent'[pr].fn # "none"
        /\ m_txq'[pr] # <<>> => txEvent' # Expired \/ refillEvent'[pr].fn # "none"
    <3>1. all => txEvent' # Expired
      BY <1>5, SMT DEF Expired
    <3>2. QED
      BY <1>2, <1>3, <1>6, <3>1
  <2>3. QED
    BY <2>1, <2>2 DEF NoLostWakeup
<1>12. NoLoss'
  <2>1. \A g : g \in Everywhere' <=> g \in Everywhere
    BY <1>1, <1>4, EverywhereUnfolds
  <2>2. QED
    BY <2>1 DEF NoLoss
<1>13. QED
  BY <1>7, <1>8, <1>9, <1>10, <1>11, <1>12

\* IInv survives an XON.
LEMMA HandleXonStep ==
    ASSUME IInv, NEW pr \in Prio, HandleXon(pr)
    PROVE  IInv'
<1>1. /\ Refill(pr)
      /\ pauseLeft' = [pauseLeft EXCEPT ![pr] = 0]
      /\ txEvent' = Woken(txEvent) /\ nPfcRx' = nPfcRx + 1
      /\ UNCHANGED <<m_txq, nSent, nPfcTx, accepted, wasHeld>>
  BY DEF HandleXon
<1>2. /\ pauseLeft' \in [Prio -> Nat]
      /\ \A p \in Prio : p # pr => pauseLeft'[p] = pauseLeft[p]
      /\ nSent' \in Nat /\ nPfcRx' \in Nat /\ nPfcTx' \in Nat
  BY <1>1 DEF IInv, TypeOK
<1>3. txEvent' \in Nat
  BY <1>1, WokenFacts DEF IInv
<1>4. QED
  BY <1>1, <1>2, <1>3, RefillStep

\* Neither function finds the pause still running: the event of a paused class
\* is ResumeFromPause, due exactly when the pause ends.
LEMMA PauseIsOver ==
    ASSUME IInv, NEW pr \in Prio, NEW fn \in {"resume", "refill"},
           refillEvent[pr] = [fn |-> fn, left |-> 0]
    PROVE  ~(IF fn = "resume" THEN pauseLeft[pr] > 0 ELSE Gated(pr))
<1>1. refillEvent[pr].fn = fn /\ refillEvent[pr].left = 0
  OBVIOUS
<1>2. m_paused[pr] => refillEvent[pr].fn = "resume" /\ refillEvent[pr].left = pauseLeft[pr]
  BY ArmedFields, Zenon DEF IInv
<1>3. CASE fn = "resume"
  <2>1. m_paused[pr]
    BY <1>1, <1>3 DEF IInv, ResumeOnlyIfPaused
  <2>2. pauseLeft[pr] = 0
    BY <1>1, <1>2, <2>1
  <2>3. QED
    BY <1>3, <2>2, SMT
<1>4. CASE fn # "resume"
  <2>1. ~m_paused[pr]
    BY <1>1, <1>2, <1>4
  <2>2. QED
    BY <1>4, <2>1 DEF Gated
<1>5. QED
  BY <1>3, <1>4

\* IInv survives ResumeFromPause and RefillMacQueueFromHold.
LEMMA RefillEventStep ==
    ASSUME IInv, NEW pr \in Prio, NEW fn \in {"resume", "refill"},
           RefillEventRuns(pr, fn)
    PROVE  IInv'
<1>1. refillEvent[pr] = [fn |-> fn, left |-> 0]
  BY DEF RefillEventRuns
<1>2. /\ Refill(pr)
      /\ RefillWake(pr)
      /\ UNCHANGED <<m_txq, pauseLeft, nSent, nPfcRx, nPfcTx, accepted, wasHeld>>
  BY <1>1, PauseIsOver DEF RefillEventRuns, envVars
<1>3. /\ pauseLeft' \in [Prio -> Nat]
      /\ \A p \in Prio : p # pr => pauseLeft'[p] = pauseLeft[p]
      /\ nSent' \in Nat /\ nPfcRx' \in Nat /\ nPfcTx' \in Nat
  BY <1>2 DEF IInv, TypeOK
<1>4. Woken(txEvent) \in Nat
  BY WokenFacts DEF IInv
<1>5. /\ txEvent' \in Nat \/ txEvent' = txEvent
      /\ txEvent' \in Nat \/ HowManyFit(pr) < Len(m_macHold[pr])
  BY <1>2, <1>4 DEF RefillWake
<1>6. QED
  BY <1>2, <1>3, <1>5, RefillStep

\* IInv survives a PFC frame sent by the receive half, which may flush the head
\* of the MAC queue onto an idle line.
LEMMA SendPfcStep ==
    ASSUME IInv, NEW pr \in Prio, NEW t \in {0} \cup PauseTimes, SendPfc(pr, t)
    PROVE  IInv'
<1> DEFINE f == [kind |-> "pfc", prio |-> pr, n |-> t]
<1> USE DEF IInv
<1>1. f \in PfcFrame /\ f \in Frame
  BY PauseTimesAssumption DEF PfcFrame, Frame
<1>2. /\ SendAccepted(f) \/ SendRejected
      /\ nPfcTx' = nPfcTx + 1
      /\ UNCHANGED <<m_txq, m_macHold, m_paused, pauseLeft, txEvent, refillEvent>>
      /\ UNCHANGED <<nSent, nPfcRx, accepted, wasHeld>>
  BY DEF SendPfc, qbbVars
<1> HIDE DEF f
<1>3. /\ P2PTypeOK'
      /\ Elems(m_queue') \cup Elems(wire') \subseteq Elems(m_queue) \cup Elems(wire) \cup {f}
      /\ Elems(m_queue) \cup Elems(wire) \subseteq Elems(m_queue') \cup Elems(wire')
      /\ Elems(m_queue') \subseteq Elems(m_queue) \cup {f}
  <2>1. CASE SendAccepted(f)
    BY <1>1, <2>1, AcceptEffect DEF TypeOK
  <2>2. CASE SendRejected
    BY <2>2 DEF TypeOK, P2PTypeOK, SendRejected, p2pVars
  <2>3. QED
    BY <1>2, <2>1, <2>2
<1>4. f \notin DataFrame
  BY <1>1, FrameSets
<1>5. TypeOK'
  BY <1>2, <1>3 DEF TypeOK
<1>6. ClassPure' /\ ResumeArmed' /\ ResumeOnlyIfPaused' /\ NoLostWakeup'
  BY <1>2 DEF ClassPure, ResumeArmed, ResumeOnlyIfPaused, NoLostWakeup
<1>7. PauseGate'
  BY <1>2, <1>3, <1>4, FrameSets DEF PauseGate, Gated
<1>8. NoLoss'
  <2>1. \A g \in DataFrame : g \in Everywhere' <=> g \in Everywhere
    BY <1>2, <1>3, <1>4, EverywhereUnfolds
  <2>2. QED
    BY <1>2, <2>1 DEF NoLoss
<1>9. QED
  BY <1>5, <1>6, <1>7, <1>8

\* IInv survives TransmitComplete.
LEMMA TransmitCompletesStep ==
    ASSUME IInv, TransmitCompletes
    PROVE  IInv'
<1> USE DEF IInv
<1>1. /\ TransmitComplete
      /\ UNCHANGED <<m_txq, m_macHold, m_paused, pauseLeft, txEvent, refillEvent>>
      /\ UNCHANGED <<nSent, nPfcRx, nPfcTx, accepted, wasHeld>>
  BY DEF TransmitCompletes, qbbVars, envVars
<1>2. /\ P2PTypeOK'
      /\ Elems(m_queue') \cup Elems(wire') = Elems(m_queue) \cup Elems(wire)
      /\ Elems(m_queue') \subseteq Elems(m_queue)
  BY <1>1, CompleteEffect DEF TypeOK
<1>3. TypeOK'
  BY <1>1, <1>2 DEF TypeOK
<1>4. ClassPure' /\ ResumeArmed' /\ ResumeOnlyIfPaused' /\ NoLostWakeup'
  BY <1>1 DEF ClassPure, ResumeArmed, ResumeOnlyIfPaused, NoLostWakeup
<1>5. PauseGate'
  BY <1>1, <1>2 DEF PauseGate, Gated
<1>6. NoLoss'
  <2>1. \A g : g \in Everywhere' <=> g \in Everywhere
    BY <1>1, <1>2, EverywhereUnfolds
  <2>2. QED
    BY <1>1, <2>1 DEF NoLoss
<1>7. QED
  BY <1>3, <1>4, <1>5, <1>6

\* IInv survives the passing of time: the event of a paused class counts down
\* together with its pause.
LEMMA TickStep ==
    ASSUME IInv, Tick
    PROVE  IInv'
<1> USE DEF IInv
<1>1. /\ txCompleteIn' = Down(txCompleteIn)
      /\ txEvent' = Down(txEvent)
      /\ refillEvent' = [pr \in Prio |->
           [fn |-> refillEvent[pr].fn, left |-> Down(refillEvent[pr].left)]]
      /\ pauseLeft' = [pr \in Prio |-> Down(pauseLeft[pr])]
      /\ UNCHANGED <<m_queue, m_currentPkt, wire, m_txq, m_macHold, m_paused>>
      /\ UNCHANGED <<nSent, nPfcRx, nPfcTx, accepted, wasHeld>>
  BY DEF Tick, envVars
<1>2. \A x \in Nat : Down(x) \in Nat /\ (x = 0 => Down(x) = 0)
  BY SMT DEF Down
<1>3. /\ \A pr \in Prio : refillEvent[pr] \in EventRecord
      /\ \A pr \in Prio : refillEvent[pr].left \in Nat /\ pauseLeft[pr] \in Nat
  BY DEF TypeOK, EventRecord
<1>4. /\ refillEvent' \in [Prio -> EventRecord]
      /\ pauseLeft' \in [Prio -> Nat]
      /\ txCompleteIn' \in Nat
  BY <1>1, <1>2, <1>3 DEF TypeOK, P2PTypeOK, EventRecord
<1>5. txEvent' \in Nat \cup {Expired} /\ (txEvent # Expired => txEvent' # Expired)
  BY <1>1, SMT DEF TypeOK, Down, Expired
<1>6. TypeOK'
  BY <1>1, <1>4, <1>5 DEF TypeOK, P2PTypeOK
<1>7. \A pr \in Prio : refillEvent'[pr].fn = refillEvent[pr].fn
  BY <1>1
<1>8. ClassPure' /\ ResumeOnlyIfPaused' /\ NoLostWakeup'
  BY <1>1, <1>5, <1>7 DEF ClassPure, ResumeOnlyIfPaused, NoLostWakeup
<1>9. PauseGate'
  <2>1. \A pr \in Prio : pauseLeft'[pr] > 0 => pauseLeft[pr] > 0
    BY <1>1, <1>3, SMT DEF Down
  <2>2. \A pr \in Prio : Gated(pr)' => Gated(pr)
    BY <1>1, <2>1, Zenon DEF Gated
  <2>3. QED
    BY <1>1, <2>2 DEF PauseGate
<1>10. ResumeArmed'
  <2>1. SUFFICES ASSUME NEW pr \in Prio, m_paused[pr]
                 PROVE  refillEvent'[pr] = [fn |-> "resume", left |-> pauseLeft'[pr]]
    BY <1>1, Zenon DEF ResumeArmed
  <2>2. refillEvent[pr].fn = "resume" /\ refillEvent[pr].left = pauseLeft[pr]
    BY <2>1, ArmedFields
  <2>3. QED
    BY <1>1, <2>2
<1>11. NoLoss'
  BY <1>1 DEF NoLoss, Everywhere
<1>12. QED
  BY <1>6, <1>8, <1>9, <1>10, <1>11

------------------------------------------------------------------------------
\* A device as constructed satisfies IInv.
LEMMA InitSafe == Init => IInv
<1>1. SUFFICES ASSUME Init PROVE IInv
  OBVIOUS
<1> USE <1>1
<1>2. <<>> \in Seq(Frame) /\ <<>> \in Seq(DataFrame) /\ Len(<<>>) = 0
  BY EmptySeq
<1>3. Elems(<<>>) = {}
  BY <1>2, ElemsEmpty
<1>4. P2PTypeOK
  BY <1>2, QueueMaxAssumption, SMT DEF Init, P2PInit, P2PTypeOK
<1>5. TypeOK
  BY <1>2, <1>4 DEF Init, TypeOK, EventRecord, Idle
<1>6. ClassPure /\ PauseGate
  BY <1>3 DEF Init, P2PInit, ClassPure, PauseGate
<1>7. ResumeArmed /\ ResumeOnlyIfPaused /\ NoLostWakeup
  BY DEF Init, Idle, ResumeArmed, ResumeOnlyIfPaused, NoLostWakeup
<1>8. NoLoss
  BY <1>3 DEF Init, P2PInit, NoLoss, Everywhere
<1>9. QED
  BY <1>5, <1>6, <1>7, <1>8 DEF IInv

\* IInv is inductive.
LEMMA NextSafe == IInv /\ [Next]_vars => IInv'
<1>1. SUFFICES ASSUME IInv, [Next]_vars PROVE IInv'
  OBVIOUS
<1>2. CASE Environment
  BY <1>1, <1>2, SendStep, HandleXonStep, HandleXoffStep, SendPfcStep DEF Environment
<1>3. CASE Simulator
  <2>1. \A pr \in Prio : ResumeFromPause(pr) => IInv'
    BY <1>1, RefillEventStep DEF ResumeFromPause
  <2>2. \A pr \in Prio : RefillMacQueueFromHold(pr) => IInv'
    BY <1>1, RefillEventStep DEF RefillMacQueueFromHold
  <2>3. QED
    BY <1>1, <1>3, <2>1, <2>2, TryDequeueIdleStep, TryDequeueSentStep,
       TryDequeueRefusedStep, TransmitCompletesStep, TickStep DEF Simulator
<1>4. CASE UNCHANGED vars
  BY <1>1, <1>4 DEF vars, p2pVars, qbbVars, envVars, IInv, TypeOK, P2PTypeOK,
     ClassPure, PauseGate, Gated, ResumeArmed, ResumeOnlyIfPaused, NoLostWakeup,
     NoLoss, Everywhere
<1>5. QED
  BY <1>1, <1>2, <1>3, <1>4 DEF Next

\* IInv holds in every reachable state of the transmit half.
THEOREM Safety == Spec => []IInv
BY InitSafe, NextSafe, PTL DEF Spec

\* Every variable keeps its type: in particular the MAC queue never exceeds its
\* capacity, whatever refill, purge and PFC frames do to it.
THEOREM TypeCorrect == Spec => []TypeOK
<1>1. IInv => TypeOK
  BY DEF IInv
<1>2. QED
  BY <1>1, Safety, PTL

\* While a class is paused the MAC queue holds none of its data frames.
THEOREM PauseGateHolds == Spec => []PauseGate
<1>1. IInv => PauseGate
  BY DEF IInv
<1>2. QED
  BY <1>1, Safety, PTL

\* A paused class has its ResumeFromPause pending, for the end of the pause.
THEOREM ResumeArmedHolds == Spec => []ResumeArmed
<1>1. IInv => ResumeArmed
  BY DEF IInv
<1>2. QED
  BY <1>1, Safety, PTL

\* No queue of the device waits without an event that will look at it.
THEOREM NoLostWakeupHolds == Spec => []NoLostWakeup
<1>1. IInv => NoLostWakeup
  BY DEF IInv
<1>2. QED
  BY <1>1, Safety, PTL

\* No packet that Send took is lost, and no other data frame appears.
THEOREM NothingIsLost == Spec => []NoLoss
<1>1. IInv => NoLoss
  BY DEF IInv
<1>2. QED
  BY <1>1, Safety, PTL

\* What a step puts on the line is not of a paused class.
LEMMA SilentStep ==
    ASSUME IInv, [Next]_vars, NEW pr \in Prio, Gated(pr), wire' # wire
    PROVE  wire'[Len(wire')] \notin DataOf(pr)
<1>1. IInv /\ [Next]_vars /\ Gated(pr) /\ wire' # wire
  OBVIOUS
<1>2. Elems(m_queue) \cap DataOf(pr) = {} /\ P2PTypeOK
  BY <1>1 DEF IInv, PauseGate, TypeOK
<1>3. CASE TransmitCompletes
  BY <1>1, <1>2, <1>3, CompleteEffect DEF TransmitCompletes
<1>4. ASSUME NEW p \in Prio, TryDequeueSent(p)
      PROVE  wire'[Len(wire')] \notin DataOf(pr)
  <2>1. p # pr /\ m_txq[p] # <<>> /\ SendAccepted(Head(m_txq[p]))
    BY <1>1, <1>4 DEF TryDequeueSent, PickNextPrio, Eligible
  <2>2. Head(m_txq[p]) \in Elems(m_txq[p]) /\ Head(m_txq[p]) \in DataFrame
    BY <1>1, <2>1, ElemsHeadTail DEF IInv, TypeOK
  <2>3. Head(m_txq[p]) \in DataOf(p) /\ Head(m_txq[p]) \in Frame
    BY <1>1, <2>2, FrameSets DEF IInv, ClassPure
  <2>4. Head(m_txq[p]) \notin DataOf(pr)
    BY <2>1, <2>3, FrameSets
  <2>5. QED
    BY <1>1, <1>2, <2>1, <2>3, <2>4, AcceptEffect
<1>5. ASSUME NEW p \in Prio, NEW t \in {0} \cup PauseTimes, SendPfc(p, t)
      PROVE  wire'[Len(wire')] \notin DataOf(pr)
  <2> DEFINE f == [kind |-> "pfc", prio |-> p, n |-> t]
  <2>1. f \in PfcFrame /\ f \in Frame
    BY PauseTimesAssumption DEF PfcFrame, Frame
  <2>2. SendAccepted(f)
    BY <1>1, <1>5 DEF SendPfc, SendRejected, p2pVars
  <2> HIDE DEF f
  <2>3. f \notin DataOf(pr)
    BY <2>1, FrameSets
  <2>4. QED
    BY <1>1, <1>2, <2>1, <2>2, <2>3, AcceptEffect
<1>6. CASE Environment
  <2>1. ~(\E p \in Prio : Send(p) \/ HandleXon(p) \/ \E t \in PauseTimes : HandleXoff(p, t))
    BY <1>1 DEF Send, HandleXon, HandleXoff, Refill, p2pVars
  <2>2. QED
    BY <1>5, <1>6, <2>1 DEF Environment
<1>7. CASE Simulator
  <2>1. ~(TryDequeueIdle \/ Tick)
    BY <1>1 DEF TryDequeueIdle, Tick, p2pVars
  <2>2. ~(\E p \in Prio : TryDequeueRefused(p))
    BY <1>1 DEF TryDequeueRefused, SendRejected, p2pVars
  <2>3. ~(\E p \in Prio : ResumeFromPause(p) \/ RefillMacQueueFromHold(p))
    BY <1>1 DEF ResumeFromPause, RefillMacQueueFromHold, RefillEventRuns, Refill, p2pVars
  <2>4. QED
    BY <1>3, <1>4, <1>7, <2>1, <2>2, <2>3 DEF Simulator
<1>8. QED
  BY <1>1, <1>6, <1>7 DEF Next, vars, p2pVars

\* No operation puts a data frame of a paused class on the line.
THEOREM PausedClassIsSilent == Spec => NeverStartsPaused
<1> DEFINE Silent == \A pr \in Prio : Gated(pr) /\ wire' # wire =>
                        wire'[Len(wire')] \notin DataOf(pr)
<1>1. IInv /\ [Next]_vars => Silent
  BY SilentStep
<1>2. QED
  BY <1>1, Safety, PTL DEF Spec, NeverStartsPaused

------------------------------------------------------------------------------
(***************************************************************************)
(* The transmit half implements LosslessClasses, for every number of       *)
(* classes, queue size and time: each packet Send takes waits once and is  *)
(* put on the line once, at a moment its class is not paused.              *)
(*                                                                         *)
(* PInv strengthens IInv by what that needs: a frame is in one place only, *)
(* and the number the next packet gets is new.                             *)
(***************************************************************************)

\* The MAC queue q, a software queue t and a hold queue h repeat no data frame
\* and have none in common.
Apart(q, t, h) ==
    /\ Once(q, DataFrame) /\ Once(t, DataFrame) /\ Once(h, DataFrame)
    /\ \A f \in DataFrame :
         /\ ~(f \in Elems(q) /\ f \in Elems(t))
         /\ ~(f \in Elems(q) /\ f \in Elems(h))
         /\ ~(f \in Elems(t) /\ f \in Elems(h))

OnePlaceOnly == \A pr \in Prio : Apart(m_queue, m_txq[pr], m_macHold[pr])

Numbered == \A f \in accepted : f.n < nSent

PInv == IInv /\ OnePlaceOnly /\ Numbered

------------------------------------------------------------------------------
\* Steps of LosslessClasses.

\* What waits outside the MAC queue.
Queued == UNION {Elems(m_txq[pr]) \cup Elems(m_macHold[pr]) : pr \in Prio}

LEMMA WaitingUnfolds ==
    /\ Waiting = (Elems(m_queue) \cap DataFrame) \cup Queued
    /\ Waiting' = (Elems(m_queue') \cap DataFrame) \cup Queued'
    /\ \A f : f \in Queued <=>
         \E pr \in Prio : f \in Elems(m_txq[pr]) \cup Elems(m_macHold[pr])
    /\ \A f : f \in Queued' <=>
         \E pr \in Prio : f \in Elems(m_txq'[pr]) \cup Elems(m_macHold'[pr])
BY DEF Waiting, Queued

Stopped == {pr \in Prio : Gated(pr)}

\* Nothing but the end of some pauses is a step or a stutter.
LEMMA StartsOrStutters ==
    ASSUME accepted' = accepted, Waiting' = Waiting,
           Filter(wire', DataFrame) = Filter(wire, DataFrame),
           \A pr \in Prio : Gated(pr)' => Gated(pr)
    PROVE  [Promise!Next]_(Promise!vars)
<1>1. Stopped' = Stopped \ (Stopped \ Stopped')
  BY DEF Stopped
<1>2. Stopped \ Stopped' \in SUBSET Prio
  BY DEF Stopped
<1>3. Promise!Start(Stopped \ Stopped')
  BY <1>1 DEF Promise!Start, Stopped
<1>4. QED
  BY <1>2, <1>3 DEF Promise!Next

\* A new pause is a step.
LEMMA Stops ==
    ASSUME accepted' = accepted, Waiting' = Waiting, wire' = wire, NEW pr \in Prio,
           Stopped' = Stopped \cup {pr}
    PROVE  [Promise!Next]_(Promise!vars)
<1>1. Promise!Stop(pr)
  BY DEF Promise!Stop, Stopped
<1>2. QED
  BY <1>1 DEF Promise!Next

\* A frame that leaves the waiting for the line is a step.
LEMMA Emits ==
    ASSUME accepted' = accepted, NEW g \in Waiting, Waiting' = Waiting \ {g},
           Filter(wire', DataFrame) = Append(Filter(wire, DataFrame), g),
           g.prio \notin Stopped, Stopped' = Stopped
    PROVE  [Promise!Next]_(Promise!vars)
<1>1. Promise!Emit(g)
  BY DEF Promise!Emit, Stopped
<1>2. QED
  BY <1>1 DEF Promise!Next

------------------------------------------------------------------------------
\* The line.  A step may take a frame off those of the MAC queue, and is given
\* the set B of what the MAC queue holds before it does.
LineStep(B) ==
    \/ wire' = wire /\ Elems(m_queue') = B
    \/ \E g \in B :
         /\ wire' = Append(wire, g)
         /\ Elems(m_queue') \subseteq B /\ B \subseteq Elems(m_queue') \cup {g}
         /\ g \in DataFrame => g \notin Elems(m_queue')

LEMMA StartOnce ==
    ASSUME NEW q \in Seq(Frame), q # <<>>, Once(q, DataFrame),
           m_queue' = Tail(q), TransmitStart(Head(q))
    PROVE  Once(m_queue', DataFrame) /\ LineStep(Elems(q))
<1>1. /\ Elems(q) = {Head(q)} \cup Elems(Tail(q))
      /\ Once(Tail(q), DataFrame)
      /\ Head(q) \in DataFrame => Head(q) \notin Elems(Tail(q))
  BY ElemsHeadTail, OnceHeadTail
<1>2. wire' = Append(wire, Head(q))
  BY DEF TransmitStart
<1>3. QED
  BY <1>1, <1>2 DEF LineStep

LEMMA AcceptOnce ==
    ASSUME P2PTypeOK, NEW f \in Frame, Once(m_queue, DataFrame),
           f \in DataFrame => f \notin Elems(m_queue), SendAccepted(f)
    PROVE  Once(m_queue', DataFrame) /\ LineStep(Elems(m_queue) \cup {f})
<1> DEFINE q == Append(m_queue, f)
<1>1. /\ q \in Seq(Frame) /\ Len(q) = Len(m_queue) + 1 /\ Len(m_queue) \in Nat
      /\ Elems(q) = Elems(m_queue) \cup {f}
      /\ Once(q, DataFrame)
  BY ElemsAppend, OnceAppend, LenProperties DEF P2PTypeOK
<1>2. q # <<>>
  <2>1. Len(<<>>) = 0
    BY SMT
  <2>2. QED
    <3> HIDE DEF q
    <3>1. QED
      BY <1>1, <2>1, SMT
<1>3. CASE READY
  <2>1. m_queue' = Tail(q) /\ TransmitStart(Head(q))
    BY <1>3 DEF SendAccepted
  <2>2. QED
    <3> HIDE DEF q
    <3>1. QED
      BY <1>1, <1>2, <2>1, StartOnce
<1>4. CASE ~READY
  <2>1. m_queue' = q /\ wire' = wire
    BY <1>4 DEF SendAccepted
  <2>2. QED
    <3> HIDE DEF q
    <3>1. QED
      BY <1>1, <2>1 DEF LineStep
<1>5. QED
  BY <1>3, <1>4

LEMMA CompleteOnce ==
    ASSUME P2PTypeOK, Once(m_queue, DataFrame), TransmitComplete
    PROVE  Once(m_queue', DataFrame) /\ LineStep(Elems(m_queue))
<1>1. CASE m_queue = <<>>
  <2>1. m_queue' = m_queue /\ wire' = wire
    BY <1>1 DEF TransmitComplete
  <2>2. QED
    BY <2>1 DEF LineStep
<1>2. CASE m_queue # <<>>
  <2>1. m_queue' = Tail(m_queue) /\ TransmitStart(Head(m_queue))
    BY <1>2 DEF TransmitComplete
  <2>2. QED
    BY <1>2, <2>1, StartOnce DEF P2PTypeOK
<1>3. QED
  BY <1>1, <1>2

\* What the line takes is a packet that waited and whose class is not paused.
LEMMA LineRefines ==
    ASSUME IInv, NEW F \in SUBSET Frame, LineStep(Elems(m_queue) \cup F),
           accepted' = accepted, UNCHANGED <<m_paused, pauseLeft>>,
           Waiting = ((Elems(m_queue) \cup F) \cap DataFrame) \cup Queued',
           \A f \in DataFrame : ~(f \in Elems(m_queue) \cup F /\ f \in Queued'),
           \A f \in F : f \in DataFrame => ~Gated(f.prio)
    PROVE  [Promise!Next]_(Promise!vars)
<1> DEFINE B == Elems(m_queue) \cup F
<1>1. Waiting' = (Elems(m_queue') \cap DataFrame) \cup Queued'
  BY WaitingUnfolds
<1>2. \A pr \in Prio : Gated(pr)' <=> Gated(pr)
  BY Zenon DEF Gated
<1>3. CASE wire' = wire /\ Elems(m_queue') = B
  BY <1>1, <1>2, <1>3, StartsOrStutters
<1>4. ASSUME NEW g \in B, wire' = Append(wire, g),
             Elems(m_queue') \subseteq B, B \subseteq Elems(m_queue') \cup {g},
             g \in DataFrame => g \notin Elems(m_queue')
      PROVE  [Promise!Next]_(Promise!vars)
  <2>1. wire \in Seq(Frame) /\ g \in Frame
    BY <1>4, ElemsInSet DEF IInv, TypeOK, P2PTypeOK
  <2>2. Filter(wire', DataFrame) = IF g \in DataFrame
                                     THEN Append(Filter(wire, DataFrame), g)
                                     ELSE Filter(wire, DataFrame)
    BY <1>4, <2>1, FilterAppend
  <2>3. CASE g \notin DataFrame
    <3>1. Waiting' = Waiting
      BY <1>1, <1>4, <2>3
    <3>2. QED
      BY <1>2, <2>2, <2>3, <3>1, StartsOrStutters
  <2>4. CASE g \in DataFrame
    <3>1. g \in Waiting /\ Waiting' = Waiting \ {g}
      BY <1>1, <1>4, <2>4
    <3>2. g.prio \in Prio /\ g \in DataOf(g.prio)
      BY <2>4 DEF DataFrame, DataOf
    <3>3. ~Gated(g.prio)
      BY <1>4, <2>4, <3>2 DEF IInv, PauseGate
    <3>4. Stopped' = Stopped /\ g.prio \notin Stopped
      BY <1>2, <3>3 DEF Stopped
    <3>5. QED
      BY <2>2, <2>4, <3>1, <3>4, Emits
  <2>5. QED
    BY <2>3, <2>4
<1>5. QED
  BY <1>3, <1>4 DEF LineStep

------------------------------------------------------------------------------
\* One lemma per operation: what PInv adds to IInv is preserved, and the step is
\* one of LosslessClasses or a stutter.

\* Whatever waits anywhere has been accepted, and a class's queues are its own.
LEMMA WaitingIsAccepted ==
    ASSUME IInv
    PROVE  /\ \A f \in DataFrame : f \in Elems(m_queue) => f \in accepted
           /\ \A pr \in Prio : \A f \in Elems(m_txq[pr]) \cup Elems(m_macHold[pr]) :
                f \in accepted /\ f \in DataOf(pr) /\ f \in DataFrame
           /\ \A pr, p \in Prio : \A f \in DataOf(pr) : pr # p =>
                f \notin Elems(m_txq[p]) \cup Elems(m_macHold[p])
<1>1. \A pr \in Prio : Elems(m_txq[pr]) \cup Elems(m_macHold[pr]) \subseteq DataOf(pr)
  BY DEF IInv, ClassPure
<1>2. QED
  BY <1>1, EverywhereUnfolds, FrameSets DEF IInv, NoLoss

LEMMA SendPromise ==
    ASSUME PInv, NEW pr \in Prio, Send(pr)
    PROVE  OnePlaceOnly' /\ Numbered' /\ [Promise!Next]_(Promise!vars)
<1> DEFINE f == [kind |-> "data", prio |-> pr, n |-> nSent]
<1> USE DEF PInv
<1>1. /\ nSent \in Nat /\ m_txq \in [Prio -> Seq(DataFrame)]
      /\ nSent < MaxSends
  BY DEF IInv, TypeOK, Send
<1>2. f \in DataFrame /\ f \in DataOf(pr) /\ f.n = nSent
  BY <1>1 DEF DataFrame, DataOf
<1>3. f \in [kind : {"data"}, prio : Prio, n : 0 .. MaxSends - 1]
  <2>1. nSent \in 0 .. MaxSends - 1
    BY <1>1, BoundAssumption, SMT
  <2>2. QED
    BY <2>1
<1>4. /\ m_txq' = [m_txq EXCEPT ![pr] = Append(@, f)]
      /\ accepted' = accepted \cup {f}
      /\ nSent' = nSent + 1
      /\ UNCHANGED <<m_queue, wire, m_macHold, m_paused, pauseLeft>>
  BY DEF Send, p2pVars
<1> HIDE DEF f
<1>5. f \notin accepted
  BY <1>1, <1>2, SMT DEF Numbered
<1>6. /\ Elems(Append(m_txq[pr], f)) = Elems(m_txq[pr]) \cup {f}
      /\ m_txq'[pr] = Append(m_txq[pr], f)
      /\ \A p \in Prio : p # pr => m_txq'[p] = m_txq[p]
  BY <1>1, <1>2, <1>4, ElemsAppend
<1>7. OnePlaceOnly'
  <2>1. SUFFICES ASSUME NEW p \in Prio PROVE Apart(m_queue', m_txq'[p], m_macHold'[p])
    BY DEF OnePlaceOnly
  <2>2. Apart(m_queue, m_txq[p], m_macHold[p])
    BY DEF OnePlaceOnly
  <2>3. CASE p # pr
    BY <1>4, <1>6, <2>2, <2>3
  <2>4. CASE p = pr
    <3>1. f \notin Elems(m_queue) \cup Elems(m_txq[pr]) \cup Elems(m_macHold[pr])
      BY <1>2, <1>5, WaitingIsAccepted
    <3>2. Once(Append(m_txq[pr], f), DataFrame)
      BY <1>1, <1>2, <2>2, <2>4, <3>1, OnceAppend DEF Apart
    <3>3. QED
      BY <1>4, <1>6, <2>2, <2>4, <3>1, <3>2 DEF Apart
  <2>5. QED
    BY <2>3, <2>4
<1>8. Numbered'
  <2>1. SUFFICES ASSUME NEW g \in accepted \cup {f} PROVE g.n < nSent + 1
    BY <1>4 DEF Numbered
  <2>2. g \in accepted => g \in DataFrame /\ g.n < nSent
    BY DEF Numbered, IInv, TypeOK
  <2>3. g \in DataFrame => g.n \in Nat
    BY DEF DataFrame
  <2>4. QED
    BY <1>1, <1>2, <2>1, <2>2, <2>3, SMT
<1>9. Waiting' = Waiting \cup {f}
  <2>1. \A g : g \in Queued' <=> g \in Queued \cup {f}
    BY <1>4, <1>6, WaitingUnfolds
  <2>2. QED
    BY <1>4, <2>1, WaitingUnfolds
<1>10. Promise!Take(f)
  <2>1. Stopped' = Stopped /\ Filter(wire', DataFrame) = Filter(wire, DataFrame)
    BY <1>4 DEF Stopped, Gated
  <2>2. QED
    BY <1>4, <1>5, <1>9, <2>1 DEF Promise!Take, Stopped
<1>11. QED
  BY <1>3, <1>7, <1>8, <1>10 DEF Promise!Next

LEMMA TryDequeueSentPromise ==
    ASSUME PInv, NEW pr \in Prio, TryDequeueSent(pr)
    PROVE  OnePlaceOnly' /\ Numbered' /\ [Promise!Next]_(Promise!vars)
<1> DEFINE f == Head(m_txq[pr])
<1> USE DEF PInv
<1>1. /\ m_txq[pr] # <<>> /\ ~Gated(pr)
      /\ SendAccepted(f)
      /\ m_txq' = [m_txq EXCEPT ![pr] = Tail(@)]
      /\ UNCHANGED <<m_macHold, m_paused, pauseLeft, accepted, nSent>>
  BY DEF TryDequeueSent, PickNextPrio, Eligible, envVars
<1>2. /\ P2PTypeOK /\ m_txq \in [Prio -> Seq(DataFrame)]
      /\ Apart(m_queue, m_txq[pr], m_macHold[pr])
  BY DEF IInv, TypeOK, OnePlaceOnly
<1>3. /\ f \in DataFrame
      /\ Elems(m_txq[pr]) = {f} \cup Elems(Tail(m_txq[pr]))
      /\ Once(Tail(m_txq[pr]), DataFrame)
      /\ f \notin Elems(Tail(m_txq[pr]))
  BY <1>1, <1>2, ElemsHeadTail, OnceHeadTail DEF Apart
<1>4. f \in DataOf(pr) /\ f \in Frame /\ f.prio = pr
  <2>1. f \in DataOf(pr)
    BY <1>3, WaitingIsAccepted
  <2>2. QED
    BY <1>3, <2>1, FrameSets DEF DataOf
<1> HIDE DEF f
<1>5. f \notin Elems(m_queue) /\ f \notin Elems(m_macHold[pr])
  BY <1>2, <1>3 DEF Apart
<1>6. Once(m_queue', DataFrame) /\ LineStep(Elems(m_queue) \cup {f})
  BY <1>1, <1>2, <1>4, <1>5, AcceptOnce DEF Apart
<1>7. /\ m_txq'[pr] = Tail(m_txq[pr])
      /\ \A p \in Prio : p # pr => m_txq'[p] = m_txq[p]
      /\ m_macHold' = m_macHold
  BY <1>1, <1>2
<1>8. Elems(m_queue') \subseteq Elems(m_queue) \cup {f}
  BY <1>6 DEF LineStep
<1>9. OnePlaceOnly'
  <2>1. SUFFICES ASSUME NEW p \in Prio PROVE Apart(m_queue', m_txq'[p], m_macHold'[p])
    BY DEF OnePlaceOnly
  <2>2. Apart(m_queue, m_txq[p], m_macHold[p])
    BY DEF OnePlaceOnly
  <2>3. CASE p # pr
    <3>1. f \notin Elems(m_txq[p]) \cup Elems(m_macHold[p])
      BY <1>4, <2>3, WaitingIsAccepted
    <3>2. QED
      BY <1>6, <1>7, <1>8, <2>2, <2>3, <3>1 DEF Apart
  <2>4. CASE p = pr
    BY <1>3, <1>5, <1>6, <1>7, <1>8, <2>2, <2>4 DEF Apart
  <2>5. QED
    BY <2>3, <2>4
<1>10. Numbered'
  BY <1>1 DEF Numbered
<1>11. [Promise!Next]_(Promise!vars)
  <2>1. \A g : g \in Queued <=> g \in Queued' \cup {f}
    BY <1>3, <1>7, WaitingUnfolds
  <2>2. \A g \in Queued' : g \in Queued /\ g # f
    <3>1. SUFFICES ASSUME NEW p \in Prio,
                          NEW g \in Elems(m_txq'[p]) \cup Elems(m_macHold'[p])
                   PROVE  g # f
      BY <2>1, WaitingUnfolds
    <3>2. QED
      BY <1>3, <1>4, <1>5, <1>7, WaitingIsAccepted
  <2>3. \A g \in Queued : g \notin Elems(m_queue) /\ g \in DataFrame
    BY WaitingUnfolds, WaitingIsAccepted DEF OnePlaceOnly, Apart
  <2>4. Waiting = ((Elems(m_queue) \cup {f}) \cap DataFrame) \cup Queued'
    BY <1>3, <2>1, WaitingUnfolds
  <2>5. PICK F \in SUBSET Frame : F = {f}
    BY <1>4
  <2>6. LineStep(Elems(m_queue) \cup F)
    BY <1>6, <2>5
  <2>7. Waiting = ((Elems(m_queue) \cup F) \cap DataFrame) \cup Queued'
    BY <2>4, <2>5
  <2>8. \A g \in DataFrame : ~(g \in Elems(m_queue) \cup F /\ g \in Queued')
    BY <2>2, <2>3, <2>5
  <2>9. \A g \in F : g \in DataFrame => ~Gated(g.prio)
    BY <1>1, <1>4, <2>5
  <2>10. IInv /\ accepted' = accepted /\ UNCHANGED <<m_paused, pauseLeft>>
    BY <1>1
  <2>11. QED
    BY <2>6, <2>7, <2>8, <2>9, <2>10, LineRefines
<1>12. QED
  BY <1>9, <1>10, <1>11

LEMMA TransmitCompletesPromise ==
    ASSUME PInv, TransmitCompletes
    PROVE  OnePlaceOnly' /\ Numbered' /\ [Promise!Next]_(Promise!vars)
<1> USE DEF PInv
<1>1. /\ TransmitComplete
      /\ UNCHANGED <<m_txq, m_macHold, m_paused, pauseLeft, accepted, nSent>>
  BY DEF TransmitCompletes, qbbVars, envVars
<1>2. P2PTypeOK /\ Once(m_queue, DataFrame)
  <2>1. 0 \in Prio
    BY NPrioAssumption, SMT DEF Prio
  <2>2. QED
    BY <2>1 DEF IInv, TypeOK, OnePlaceOnly, Apart
<1>3. Once(m_queue', DataFrame) /\ LineStep(Elems(m_queue))
  BY <1>1, <1>2, CompleteOnce
<1>4. Elems(m_queue') \subseteq Elems(m_queue)
  BY <1>3 DEF LineStep
<1>5. OnePlaceOnly' /\ Numbered'
  BY <1>1, <1>3, <1>4 DEF OnePlaceOnly, Apart, Numbered
<1>6. [Promise!Next]_(Promise!vars)
  <2>1. Queued' = Queued
    BY <1>1 DEF Queued
  <2>2. \A g \in Queued : g \notin Elems(m_queue)
    BY WaitingUnfolds, WaitingIsAccepted DEF OnePlaceOnly, Apart
  <2>3. PICK F \in SUBSET Frame : F = {}
    OBVIOUS
  <2>4. LineStep(Elems(m_queue) \cup F)
    <3>1. Elems(m_queue) \cup F = Elems(m_queue)
      BY <2>3
    <3>2. QED
      BY <1>3, <3>1
  <2>5. Waiting = ((Elems(m_queue) \cup F) \cap DataFrame) \cup Queued'
    BY <2>1, <2>3, WaitingUnfolds
  <2>6. /\ \A f \in DataFrame : ~(f \in Elems(m_queue) \cup F /\ f \in Queued')
        /\ \A f \in F : f \in DataFrame => ~Gated(f.prio)
    BY <2>1, <2>2, <2>3
  <2>7. IInv /\ accepted' = accepted /\ UNCHANGED <<m_paused, pauseLeft>>
    BY <1>1
  <2>8. QED
    BY <2>4, <2>5, <2>6, <2>7, LineRefines
<1>7. QED
  BY <1>5, <1>6

LEMMA SendPfcPromise ==
    ASSUME PInv, NEW pr \in Prio, NEW t \in {0} \cup PauseTimes, SendPfc(pr, t)
    PROVE  OnePlaceOnly' /\ Numbered' /\ [Promise!Next]_(Promise!vars)
<1> DEFINE f == [kind |-> "pfc", prio |-> pr, n |-> t]
<1> USE DEF PInv
<1>1. f \in PfcFrame /\ f \in Frame
  BY PauseTimesAssumption DEF PfcFrame, Frame
<1>2. f \notin DataFrame
  BY <1>1, FrameSets
<1>3. /\ SendAccepted(f) \/ SendRejected
      /\ UNCHANGED <<m_txq, m_macHold, m_paused, pauseLeft, accepted, nSent>>
  BY DEF SendPfc, qbbVars
<1> HIDE DEF f
<1>4. P2PTypeOK /\ Once(m_queue, DataFrame)
  <2>1. 0 \in Prio
    BY NPrioAssumption, SMT DEF Prio
  <2>2. QED
    BY <2>1 DEF IInv, TypeOK, OnePlaceOnly, Apart
<1>5. Queued' = Queued
  BY <1>3 DEF Queued
<1>6. \A g \in Queued : g \notin Elems(m_queue) /\ g \in DataFrame
  BY WaitingUnfolds, WaitingIsAccepted DEF OnePlaceOnly, Apart
<1>7. CASE SendRejected
  <2>1. m_queue' = m_queue /\ wire' = wire
    BY <1>7 DEF SendRejected, p2pVars
  <2>2. OnePlaceOnly' /\ Numbered'
    BY <1>3, <2>1 DEF OnePlaceOnly, Apart, Numbered
  <2>3. Waiting' = Waiting /\ \A p \in Prio : Gated(p)' => Gated(p)
    BY <1>3, <1>5, <2>1, WaitingUnfolds DEF Gated
  <2>4. accepted' = accepted /\ Filter(wire', DataFrame) = Filter(wire, DataFrame)
    BY <1>3, <2>1
  <2>5. [Promise!Next]_(Promise!vars)
    BY <2>3, <2>4, StartsOrStutters
  <2>6. QED
    BY <2>2, <2>5
<1>8. CASE SendAccepted(f)
  <2>1. Once(m_queue', DataFrame) /\ LineStep(Elems(m_queue) \cup {f})
    BY <1>1, <1>2, <1>4, <1>8, AcceptOnce
  <2>2. Elems(m_queue') \subseteq Elems(m_queue) \cup {f}
    BY <2>1 DEF LineStep
  <2>3. OnePlaceOnly' /\ Numbered'
    BY <1>2, <1>3, <2>1, <2>2 DEF OnePlaceOnly, Apart, Numbered
  <2>4. Waiting = ((Elems(m_queue) \cup {f}) \cap DataFrame) \cup Queued'
    BY <1>2, <1>5, WaitingUnfolds
  <2>5. \A g \in DataFrame : ~(g \in Elems(m_queue) \cup {f} /\ g \in Queued')
    BY <1>2, <1>5, <1>6
  <2>6. QED
    BY <1>1, <1>2, <1>3, <2>1, <2>3, <2>4, <2>5, LineRefines
<1>9. QED
  BY <1>3, <1>7, <1>8

\* An XOFF moves the class's frames from the MAC queue to its hold queue: they
\* keep waiting, and the class is stopped unless its pause is over at once.
LEMMA HandleXoffPromise ==
    ASSUME PInv, NEW pr \in Prio, NEW t \in PauseTimes, HandleXoff(pr, t)
    PROVE  OnePlaceOnly' /\ Numbered' /\ [Promise!Next]_(Promise!vars)
<1> DEFINE moved == Filter(m_queue, DataOf(pr))
<1> USE DEF PInv
<1>1. /\ m_paused' = [m_paused EXCEPT ![pr] = TRUE]
      /\ pauseLeft' = [pauseLeft EXCEPT ![pr] = t]
      /\ PurgeMacQueueForPrio(pr)
      /\ UNCHANGED <<m_currentPkt, txCompleteIn, wire, m_txq, nSent, accepted>>
  BY DEF HandleXoff
<1>2. /\ m_queue \in Seq(Frame) /\ m_macHold \in [Prio -> Seq(DataFrame)]
      /\ m_paused \in [Prio -> BOOLEAN] /\ pauseLeft \in [Prio -> Nat]
      /\ t \in Nat
      /\ TypeOK
  BY PauseTimesAssumption DEF IInv, TypeOK, P2PTypeOK
<1>3. /\ Elems(m_queue') = Elems(m_queue) \ DataOf(pr)
      /\ Elems(m_macHold'[pr])
           = Elems(m_macHold[pr]) \cup (Elems(m_queue) \cap DataOf(pr))
      /\ \A p \in Prio : p # pr => m_macHold'[p] = m_macHold[p]
  BY <1>1, <1>2, PurgeEffect
<1>4. moved \in Seq(Frame) /\ Elems(moved) = Elems(m_queue) \cap DataOf(pr)
  BY <1>2, FilterProperties
<1>5. /\ m_queue' = Filter(m_queue, Frame \ DataOf(pr))
      /\ m_macHold'[pr] = m_macHold[pr] \o moved
  BY <1>1, <1>2 DEF PurgeMacQueueForPrio
<1>6. Apart(m_queue, m_txq[pr], m_macHold[pr])
  BY DEF OnePlaceOnly
<1>7. Once(m_queue', DataFrame) /\ Once(moved, DataFrame)
  BY <1>2, <1>5, <1>6, OnceFilter DEF Apart
<1>8. moved \in Seq(DataFrame)
  <2> HIDE DEF moved
  <2>1. QED
    BY <1>4, FrameSets, SeqOverElems
<1> HIDE DEF moved
<1>9. Once(m_macHold'[pr], DataFrame)
  <2>1. \A e \in DataFrame : ~(e \in Elems(m_macHold[pr]) /\ e \in Elems(moved))
    BY <1>4, <1>6 DEF Apart
  <2>2. m_macHold[pr] \in Seq(DataFrame) /\ Once(m_macHold[pr], DataFrame)
    BY <1>2, <1>6 DEF Apart
  <2>3. QED
    BY <1>5, <1>7, <1>8, <2>1, <2>2, OnceConcat
<1>10. OnePlaceOnly'
  <2>1. SUFFICES ASSUME NEW p \in Prio PROVE Apart(m_queue', m_txq'[p], m_macHold'[p])
    BY DEF OnePlaceOnly
  <2>2. Apart(m_queue, m_txq[p], m_macHold[p])
    BY DEF OnePlaceOnly
  <2>3. CASE p # pr
    BY <1>1, <1>3, <1>7, <2>2, <2>3 DEF Apart
  <2>4. CASE p = pr
    BY <1>1, <1>3, <1>7, <1>9, <2>2, <2>4 DEF Apart
  <2>5. QED
    BY <2>3, <2>4
<1>11. Numbered'
  BY <1>1 DEF Numbered
<1>12. Waiting' = Waiting
  <2>1. \A g : g \in Queued' <=> g \in Queued \cup (Elems(m_queue) \cap DataOf(pr))
    BY <1>1, <1>3, WaitingUnfolds
  <2>2. QED
    BY <1>3, <2>1, FrameSets, WaitingUnfolds
<1>13. \A p \in Prio : p # pr => (Gated(p)' <=> Gated(p))
  <2>1. \A p \in Prio : p # pr => m_paused'[p] = m_paused[p] /\ pauseLeft'[p] = pauseLeft[p]
    BY <1>1, <1>2
  <2>2. QED
    BY <2>1, Zenon DEF Gated
<1>14. Gated(pr)' <=> t > 0
  <2>1. m_paused'[pr] = TRUE /\ pauseLeft'[pr] = t
    BY <1>1, <1>2
  <2>2. QED
    BY <2>1 DEF Gated
<1>15. CASE t > 0
  <2>1. Stopped' = Stopped \cup {pr}
    BY <1>13, <1>14, <1>15 DEF Stopped
  <2>2. accepted' = accepted /\ wire' = wire
    BY <1>1
  <2>3. QED
    BY <1>10, <1>11, <1>12, <2>1, <2>2, Stops
<1>16. CASE ~(t > 0)
  <2>1. \A p \in Prio : Gated(p)' => Gated(p)
    BY <1>13, <1>14, <1>16
  <2>2. accepted' = accepted /\ Filter(wire', DataFrame) = Filter(wire, DataFrame)
    BY <1>1
  <2>3. QED
    BY <1>10, <1>11, <1>12, <2>1, <2>2, StartsOrStutters
<1>17. QED
  BY <1>15, <1>16

\* A refill moves held frames back: they keep waiting, and no class is stopped.
LEMMA RefillPromise ==
    ASSUME PInv, NEW pr \in Prio, Refill(pr),
           \A p \in Prio : p # pr => pauseLeft'[p] = pauseLeft[p],
           UNCHANGED <<m_txq, nSent, accepted>>
    PROVE  OnePlaceOnly' /\ Numbered' /\ [Promise!Next]_(Promise!vars)
<1> DEFINE hold == m_macHold[pr]
           k == HowManyFit(pr)
           back == SubSeq(hold, 1, k)
           rest == SubSeq(hold, k + 1, Len(hold))
<1> USE DEF PInv
<1>1. /\ m_queue \in Seq(Frame) /\ m_macHold \in [Prio -> Seq(DataFrame)]
      /\ m_paused \in [Prio -> BOOLEAN]
      /\ hold \in Seq(DataFrame)
      /\ TypeOK
  BY DEF IInv, TypeOK, P2PTypeOK
<1>2. k \in 0 .. Len(hold)
  BY <1>1, RefillEffect
<1>3. /\ m_queue' = m_queue \o back
      /\ m_macHold'[pr] = rest
      /\ \A p \in Prio : p # pr => m_macHold'[p] = m_macHold[p]
      /\ m_paused' = [m_paused EXCEPT ![pr] = FALSE]
      /\ wire' = wire
  BY <1>1 DEF Refill
<1>4. Apart(m_queue, m_txq[pr], hold)
  BY DEF OnePlaceOnly
<1> HIDE DEF hold, k
<1>5. /\ back \in Seq(DataFrame) /\ rest \in Seq(DataFrame)
      /\ Elems(back) \cup Elems(rest) = Elems(hold)
      /\ Once(back, DataFrame) /\ Once(rest, DataFrame)
      /\ \A e \in DataFrame : ~(e \in Elems(back) /\ e \in Elems(rest))
  BY <1>1, <1>2, <1>4, ElemsSplit, OnceSplit DEF Apart
<1>6. back \in Seq(Frame)
  BY <1>5, FrameSets, SeqMonotonic
<1> HIDE DEF back, rest
<1>7. Elems(m_queue') = Elems(m_queue) \cup Elems(back)
  BY <1>1, <1>3, <1>6, ElemsConcat
<1>8. Once(m_queue', DataFrame)
  <2>1. \A e \in DataFrame : ~(e \in Elems(m_queue) /\ e \in Elems(back))
    BY <1>4, <1>5 DEF Apart
  <2>2. Once(m_queue, DataFrame)
    BY <1>4 DEF Apart
  <2>3. QED
    BY <1>1, <1>3, <1>5, <1>6, <2>1, <2>2, OnceConcat
<1>9. \A f \in Elems(back) : f \in DataFrame /\ f \in Elems(m_macHold[pr])
  BY <1>5, WaitingIsAccepted DEF hold
<1>10. OnePlaceOnly'
  <2>1. SUFFICES ASSUME NEW p \in Prio PROVE Apart(m_queue', m_txq'[p], m_macHold'[p])
    BY DEF OnePlaceOnly
  <2>2. Apart(m_queue, m_txq[p], m_macHold[p])
    BY DEF OnePlaceOnly
  <2>3. CASE p # pr
    <3>1. \A f \in Elems(back) : f \notin Elems(m_txq[p]) \cup Elems(m_macHold[p])
      BY <1>9, <2>3, WaitingIsAccepted
    <3>2. QED
      BY <1>3, <1>7, <1>8, <2>2, <2>3, <3>1 DEF Apart
  <2>4. CASE p = pr
    BY <1>3, <1>4, <1>5, <1>7, <1>8, <2>4 DEF Apart
  <2>5. QED
    BY <2>3, <2>4
<1>11. Numbered'
  BY DEF Numbered
<1>12. Waiting' = Waiting
  <2>1. \A g : g \in Queued' \/ g \in Elems(back) <=> g \in Queued
    BY <1>3, <1>5, WaitingUnfolds DEF hold
  <2>2. QED
    BY <1>7, <1>9, <2>1, WaitingUnfolds
<1>13. \A p \in Prio : Gated(p)' => Gated(p)
  <2>1. m_paused'[pr] = FALSE /\ \A p \in Prio : p # pr => m_paused'[p] = m_paused[p]
    BY <1>1, <1>3
  <2>2. QED
    BY <2>1, Zenon DEF Gated
<1>14. accepted' = accepted /\ Filter(wire', DataFrame) = Filter(wire, DataFrame)
  BY <1>3
<1>15. QED
  BY <1>10, <1>11, <1>12, <1>13, <1>14, StartsOrStutters

LEMMA HandleXonPromise ==
    ASSUME PInv, NEW pr \in Prio, HandleXon(pr)
    PROVE  OnePlaceOnly' /\ Numbered' /\ [Promise!Next]_(Promise!vars)
<1>1. /\ Refill(pr)
      /\ pauseLeft' = [pauseLeft EXCEPT ![pr] = 0]
      /\ UNCHANGED <<m_txq, nSent, accepted>>
  BY DEF HandleXon
<1>2. \A p \in Prio : p # pr => pauseLeft'[p] = pauseLeft[p]
  BY <1>1 DEF PInv, IInv, TypeOK
<1>3. QED
  BY <1>1, <1>2, RefillPromise

LEMMA RefillEventPromise ==
    ASSUME PInv, NEW pr \in Prio, NEW fn \in {"resume", "refill"},
           RefillEventRuns(pr, fn)
    PROVE  OnePlaceOnly' /\ Numbered' /\ [Promise!Next]_(Promise!vars)
<1>1. refillEvent[pr] = [fn |-> fn, left |-> 0]
  BY DEF RefillEventRuns
<1>2. Refill(pr) /\ UNCHANGED <<m_txq, pauseLeft, nSent, accepted>>
  BY <1>1, PauseIsOver DEF RefillEventRuns, envVars, PInv
<1>3. QED
  BY <1>2, RefillPromise

\* A step that moves no frame and starts no pause.
LEMMA QuietPromise ==
    ASSUME PInv, UNCHANGED <<m_queue, wire, m_txq, m_macHold, m_paused, accepted, nSent>>,
           \A pr \in Prio : pauseLeft'[pr] > 0 => pauseLeft[pr] > 0
    PROVE  OnePlaceOnly' /\ Numbered' /\ [Promise!Next]_(Promise!vars)
<1>1. OnePlaceOnly' /\ Numbered'
  BY DEF PInv, OnePlaceOnly, Apart, Numbered
<1>2. Waiting' = Waiting
  BY DEF Waiting
<1>3. \A pr \in Prio : Gated(pr)' => Gated(pr)
  BY Zenon DEF Gated
<1>4. Filter(wire', DataFrame) = Filter(wire, DataFrame)
  OBVIOUS
<1>5. QED
  BY <1>1, <1>2, <1>3, <1>4, StartsOrStutters

LEMMA TickPromise ==
    ASSUME PInv, Tick
    PROVE  OnePlaceOnly' /\ Numbered' /\ [Promise!Next]_(Promise!vars)
<1>1. /\ UNCHANGED <<m_queue, wire, m_txq, m_macHold, m_paused, accepted, nSent>>
      /\ pauseLeft' = [pr \in Prio |-> Down(pauseLeft[pr])]
  BY DEF Tick, envVars
<1>2. \A pr \in Prio : pauseLeft[pr] \in Nat
  BY DEF PInv, IInv, TypeOK
<1>3. \A pr \in Prio : pauseLeft'[pr] > 0 => pauseLeft[pr] > 0
  BY <1>1, <1>2, SMT DEF Down
<1>4. QED
  BY <1>1, <1>3, QuietPromise

\* What PInv adds to IInv is preserved by every step, and every step is one of
\* LosslessClasses or a stutter.
LEMMA EveryStepPromised ==
    ASSUME PInv, [Next]_vars
    PROVE  OnePlaceOnly' /\ Numbered' /\ [Promise!Next]_(Promise!vars)
<1>1. CASE Environment
  BY <1>1, SendPromise, HandleXonPromise, HandleXoffPromise, SendPfcPromise DEF Environment
<1>2. CASE Simulator
  <2> DEFINE Goal == OnePlaceOnly' /\ Numbered' /\ [Promise!Next]_(Promise!vars)
  <2>1. \A pr \in Prio : ResumeFromPause(pr) => Goal
    BY RefillEventPromise DEF ResumeFromPause
  <2>2. \A pr \in Prio : RefillMacQueueFromHold(pr) => Goal
    BY RefillEventPromise DEF RefillMacQueueFromHold
  <2>3. TryDequeueIdle => Goal
    BY QuietPromise DEF TryDequeueIdle, p2pVars, envVars
  <2>4. \A pr \in Prio : TryDequeueRefused(pr) => Goal
    BY QuietPromise DEF TryDequeueRefused, SendRejected, p2pVars, envVars
  <2>5. \A pr \in Prio : TryDequeueSent(pr) => Goal
    BY TryDequeueSentPromise
  <2>6. TransmitCompletes => Goal
    BY TransmitCompletesPromise
  <2>7. Tick => Goal
    BY TickPromise
  <2> HIDE DEF Goal
  <2>8. Goal
    BY <1>2, <2>1, <2>2, <2>3, <2>4, <2>5, <2>6, <2>7 DEF Simulator
  <2>9. QED
    BY <2>8 DEF Goal
<1>3. CASE UNCHANGED vars
  BY <1>3, QuietPromise DEF vars, p2pVars, qbbVars, envVars
<1>4. QED
  BY <1>1, <1>2, <1>3 DEF Next

\* A device as constructed has taken nothing and stops nothing.
LEMMA InitPromise == Init => PInv /\ Promise!Init
<1>1. SUFFICES ASSUME Init PROVE PInv /\ Promise!Init
  OBVIOUS
<1>2. /\ m_queue = <<>> /\ wire = <<>> /\ accepted = {}
      /\ \A pr \in Prio : m_txq[pr] = <<>> /\ m_macHold[pr] = <<>> /\ ~Gated(pr)
  BY <1>1 DEF Init, P2PInit, Gated
<1>3. <<>> \in Seq(Frame) /\ Elems(<<>>) = {} /\ Len(<<>>) = 0
  BY EmptySeq, ElemsEmpty
<1>4. Once(<<>>, DataFrame)
  BY <1>3, SMT DEF Once
<1>5. OnePlaceOnly /\ Numbered
  BY <1>2, <1>3, <1>4 DEF OnePlaceOnly, Apart, Numbered
<1>6. Waiting = {} /\ Stopped = {}
  BY <1>2, <1>3 DEF Waiting, Stopped
<1>7. Filter(wire, DataFrame) = <<>>
  <2>1. KeptUpTo(<<>>, DataFrame)[0] = <<>>
    BY <1>3, KeptUpToUnfolds
  <2>2. QED
    BY <1>2, <1>3, <2>1 DEF Filter
<1>8. IInv
  BY <1>1, InitSafe
<1>9. QED
  BY <1>2, <1>5, <1>6, <1>7, <1>8 DEF PInv, Promise!Init, Stopped

LEMMA NextPromised == PInv /\ [Next]_vars => PInv' /\ [Promise!Next]_(Promise!vars)
BY EveryStepPromised, NextSafe DEF PInv

\* Every behaviour of the transmit half is one of LosslessClasses: packets are
\* taken once, sent once, and never while their class is paused.
THEOREM KeepsPromise == Spec => PromiseKept
BY InitPromise, NextPromised, PTL DEF Spec, PromiseKept, Promise!Spec

------------------------------------------------------------------------------
(***************************************************************************)
(* Packets of a class leave in the order Send took them, unless a purge    *)
(* held them back.  What the line and the MAC queue hold is in that order  *)
(* already, a software queue is, and whatever has left a software queue is *)
(* earlier than what is still in it (OrderKept).                           *)
(***************************************************************************)

\* The frames that may come first and later on the line.
MayPrecede ==
    {p \in Frame \X Frame :
        /\ p[1] \in DataFrame /\ p[2] \in DataFrame
        /\ p[1].prio = p[2].prio
        /\ p[1].n > p[2].n
        => p[2] \in wasHeld}

Earlier == {p \in DataFrame \X DataFrame : p[1].n < p[2].n}

\* The line w and the queue q in front of it.
InOrder(w, q, R) ==
    /\ Pairwise(w, R) /\ Pairwise(q, R)
    /\ \A f \in Elems(w), g \in Elems(q) : <<f, g>> \in R

\* The frames of a class that have left its software queue.
Started(pr) ==
    (Elems(wire) \cup Elems(m_queue) \cup Elems(m_macHold[pr])) \cap DataOf(pr)

OrderKept ==
    /\ InOrder(wire, m_queue, MayPrecede)
    /\ \A pr \in Prio :
         /\ Elems(m_macHold[pr]) \subseteq wasHeld
         /\ Pairwise(m_txq[pr], Earlier)
         /\ \A f \in Started(pr), g \in Elems(m_txq[pr]) : <<f, g>> \in Earlier

OInv == PInv /\ OrderKept

LEMMA MayPrecedeUnfolds ==
    /\ \A f, g \in Frame : <<f, g>> \in MayPrecede <=>
         (/\ f \in DataFrame /\ g \in DataFrame
          /\ f.prio = g.prio
          /\ f.n > g.n
          => g \in wasHeld)
    /\ \A f, g \in Frame : <<f, g>> \in MayPrecede' <=>
         (/\ f \in DataFrame /\ g \in DataFrame
          /\ f.prio = g.prio
          /\ f.n > g.n
          => g \in wasHeld')
BY DEF MayPrecede

LEMMA EarlierUnfolds ==
    \A f, g \in DataFrame : <<f, g>> \in Earlier <=> f.n < g.n
BY DEF Earlier

\* A frame held before may still be overtaken when more have been held.
LEMMA OrderAfterMoreHeld ==
    ASSUME NEW w \in Seq(Frame), NEW q \in Seq(Frame),
           InOrder(w, q, MayPrecede), wasHeld \subseteq wasHeld'
    PROVE  InOrder(w, q, MayPrecede')
<1>1. \A f, g \in Frame : <<f, g>> \in MayPrecede => <<f, g>> \in MayPrecede'
  BY MayPrecedeUnfolds
<1>2. /\ Elems(w) \subseteq Frame /\ Elems(q) \subseteq Frame
      /\ \A i \in 1 .. Len(w) : w[i] \in Frame
      /\ \A i \in 1 .. Len(q) : q[i] \in Frame
  BY ElemsInSet, ElementOfSeq
<1>3. QED
  BY <1>1, <1>2 DEF InOrder, Pairwise

\* One more frame at the end of the MAC queue.
LEMMA OrderAppend ==
    ASSUME NEW w \in Seq(Frame), NEW q \in Seq(Frame), NEW R, InOrder(w, q, R),
           NEW x \in Frame, \A f \in Elems(w) \cup Elems(q) : <<f, x>> \in R
    PROVE  InOrder(w, Append(q, x), R)
<1>1. Pairwise(Append(q, x), R)
  BY PairwiseAppend DEF InOrder
<1>2. Elems(Append(q, x)) = Elems(q) \cup {x}
  BY ElemsAppend
<1>3. QED
  BY <1>1, <1>2 DEF InOrder

\* The head of the MAC queue goes on the line.
LEMMA OrderStart ==
    ASSUME NEW w \in Seq(Frame), NEW q \in Seq(Frame), q # <<>>, NEW R,
           InOrder(w, q, R)
    PROVE  InOrder(Append(w, Head(q)), Tail(q), R)
<1>1. /\ Head(q) \in Frame /\ Tail(q) \in Seq(Frame)
      /\ Elems(q) = {Head(q)} \cup Elems(Tail(q))
  BY ElemsHeadTail
<1>2. Pairwise(Tail(q), R) /\ \A g \in Elems(Tail(q)) : <<Head(q), g>> \in R
  BY PairwiseHeadTail DEF InOrder
<1>3. Pairwise(Append(w, Head(q)), R)
  BY <1>1, PairwiseAppend DEF InOrder
<1>4. Elems(Append(w, Head(q))) = Elems(w) \cup {Head(q)}
  BY <1>1, ElemsAppend
<1>5. QED
  BY <1>1, <1>2, <1>3, <1>4 DEF InOrder

\* PointToPointNetDevice::Send.
LEMMA OrderAccept ==
    ASSUME P2PTypeOK, NEW f \in Frame, SendAccepted(f), NEW R,
           InOrder(wire, m_queue, R),
           \A g \in Elems(wire) \cup Elems(m_queue) : <<g, f>> \in R
    PROVE  InOrder(wire', m_queue', R)
<1> DEFINE q == Append(m_queue, f)
<1>1. /\ q \in Seq(Frame) /\ Len(q) = Len(m_queue) + 1 /\ Len(m_queue) \in Nat
      /\ wire \in Seq(Frame)
      /\ InOrder(wire, q, R)
  BY ElemsAppend, OrderAppend, LenProperties DEF P2PTypeOK
<1>2. CASE READY
  <2>1. m_queue' = Tail(q) /\ wire' = Append(wire, Head(q))
    BY <1>2 DEF SendAccepted, TransmitStart
  <2> HIDE DEF q
  <2>2. q # <<>>
    <3>1. Len(<<>>) = 0
      BY SMT
    <3>2. QED
      BY <1>1, <3>1, SMT
  <2>3. QED
    BY <1>1, <2>1, <2>2, OrderStart
<1>3. CASE ~READY
  <2>1. m_queue' = q /\ wire' = wire
    BY <1>3 DEF SendAccepted
  <2> HIDE DEF q
  <2>2. QED
    BY <1>1, <2>1
<1>4. QED
  BY <1>2, <1>3

\* TransmitComplete.
LEMMA OrderComplete ==
    ASSUME P2PTypeOK, TransmitComplete, NEW R, InOrder(wire, m_queue, R)
    PROVE  InOrder(wire', m_queue', R)
<1>1. CASE m_queue = <<>>
  <2>1. m_queue' = m_queue /\ wire' = wire
    BY <1>1 DEF TransmitComplete
  <2>2. QED
    BY <2>1
<1>2. CASE m_queue # <<>>
  <2>1. m_queue' = Tail(m_queue) /\ wire' = Append(wire, Head(m_queue))
    BY <1>2 DEF TransmitComplete, TransmitStart
  <2>2. QED
    BY <1>2, <2>1, OrderStart DEF P2PTypeOK
<1>3. QED
  BY <1>1, <1>2

------------------------------------------------------------------------------
\* One lemma per operation: OrderKept is preserved.

LEMMA OrderTypes ==
    ASSUME OInv
    PROVE  /\ IInv /\ P2PTypeOK /\ wire \in Seq(Frame) /\ m_queue \in Seq(Frame)
           /\ m_txq \in [Prio -> Seq(DataFrame)] /\ m_macHold \in [Prio -> Seq(DataFrame)]
           /\ wasHeld \subseteq DataFrame /\ nSent \in Nat
           /\ Elems(wire) \subseteq Frame /\ Elems(m_queue) \subseteq Frame
           /\ \A pr \in Prio : Elems(m_txq[pr]) \subseteq DataOf(pr)
           /\ \A pr \in Prio : Elems(m_macHold[pr]) \subseteq DataOf(pr)
           /\ \A f \in DataFrame :
                f \in Elems(wire) \cup Elems(m_queue) => f.n < nSent
<1>1. IInv /\ Numbered
  BY DEF OInv, PInv
<1>2. TypeOK /\ ClassPure
  BY <1>1 DEF IInv
<1>3. wire \in Seq(Frame) /\ m_queue \in Seq(Frame) /\ P2PTypeOK
  BY <1>2 DEF TypeOK, P2PTypeOK
<1>4. \A f \in DataFrame : f \in Elems(wire) \cup Elems(m_queue) => f \in accepted
  BY <1>1, EverywhereUnfolds DEF IInv, NoLoss
<1>5. QED
  BY <1>1, <1>2, <1>3, <1>4, ElemsInSet DEF TypeOK, ClassPure, Numbered

\* A step that starts no frame of a class that was not started already, and
\* takes none of its software queue.
LEMMA OrderOfQueued ==
    ASSUME OInv, NEW pr \in Prio, m_txq'[pr] = m_txq[pr],
           Started(pr)' \subseteq Started(pr)
    PROVE  /\ Pairwise(m_txq'[pr], Earlier)
           /\ \A f \in Started(pr)', g \in Elems(m_txq'[pr]) : <<f, g>> \in Earlier
BY DEF OInv, OrderKept

LEMMA SendOrder ==
    ASSUME OInv, NEW pr \in Prio, Send(pr)
    PROVE  OrderKept'
<1> DEFINE f == [kind |-> "data", prio |-> pr, n |-> nSent]
<1>1. /\ m_txq' = [m_txq EXCEPT ![pr] = Append(@, f)]
      /\ UNCHANGED <<m_queue, wire, m_macHold, wasHeld>>
  BY DEF Send, p2pVars
<1>2. f \in DataFrame /\ f \in DataOf(pr) /\ f.n = nSent
  BY OrderTypes DEF DataFrame, DataOf
<1> HIDE DEF f
<1>3. \A p \in Prio : Started(p)' = Started(p) /\ Elems(m_macHold'[p]) = Elems(m_macHold[p])
  BY <1>1 DEF Started
<1>4. InOrder(wire', m_queue', MayPrecede')
  <2>1. MayPrecede' = MayPrecede
    BY <1>1 DEF MayPrecede
  <2>2. QED
    BY <1>1, <2>1 DEF OInv, OrderKept
<1>5. ASSUME NEW p \in Prio
      PROVE  /\ Pairwise(m_txq'[p], Earlier)
             /\ \A g \in Started(p)', h \in Elems(m_txq'[p]) : <<g, h>> \in Earlier
  <2>1. CASE p # pr
    <3>1. m_txq'[p] = m_txq[p]
      BY <1>1, <2>1, OrderTypes
    <3>2. QED
      BY <1>3, <3>1, OrderOfQueued
  <2>2. CASE p = pr
    <3>1. /\ m_txq'[pr] = Append(m_txq[pr], f)
          /\ m_txq[pr] \in Seq(DataFrame)
          /\ Elems(m_txq'[pr]) = Elems(m_txq[pr]) \cup {f}
      BY <1>1, <1>2, OrderTypes, ElemsAppend
    <3>2. \A g \in Started(pr) \cup Elems(m_txq[pr]) : g \in DataFrame /\ g.n < nSent
      <4>1. \A g \in Started(pr) \cup Elems(m_txq[pr]) : g \in DataFrame /\ g \in accepted
        BY OrderTypes, WaitingIsAccepted, EverywhereUnfolds, FrameSets
           DEF Started, IInv, NoLoss
      <4>2. QED
        BY <4>1 DEF OInv, PInv, Numbered
    <3>3. \A g \in Started(pr) \cup Elems(m_txq[pr]) : <<g, f>> \in Earlier
      BY <1>2, <3>2, EarlierUnfolds
    <3>4. Pairwise(m_txq[pr], Earlier)
          /\ \A g \in Started(pr), h \in Elems(m_txq[pr]) : <<g, h>> \in Earlier
      BY DEF OInv, OrderKept
    <3>5. Pairwise(m_txq'[pr], Earlier)
      BY <1>2, <3>1, <3>3, <3>4, PairwiseAppend
    <3>6. QED
      BY <1>3, <2>2, <3>1, <3>3, <3>4, <3>5
  <2>3. QED
    BY <2>1, <2>2
<1>6. \A p \in Prio : Elems(m_macHold'[p]) \subseteq wasHeld'
  BY <1>1 DEF OInv, OrderKept
<1>7. QED
  BY <1>4, <1>5, <1>6 DEF OrderKept, Earlier

LEMMA TryDequeueSentOrder ==
    ASSUME OInv, NEW pr \in Prio, TryDequeueSent(pr)
    PROVE  OrderKept'
<1> DEFINE f == Head(m_txq[pr])
<1>1. /\ m_txq[pr] # <<>> /\ SendAccepted(f)
      /\ m_txq' = [m_txq EXCEPT ![pr] = Tail(@)]
      /\ UNCHANGED <<m_macHold, wasHeld>>
  BY DEF TryDequeueSent, PickNextPrio, Eligible, envVars
<1>2. m_txq[pr] \in Seq(DataFrame) /\ P2PTypeOK
  BY OrderTypes
<1>3. /\ f \in DataFrame /\ f \in Frame /\ f \in DataOf(pr)
      /\ Tail(m_txq[pr]) \in Seq(DataFrame)
      /\ Elems(m_txq[pr]) = {f} \cup Elems(Tail(m_txq[pr]))
  BY <1>1, <1>2, ElemsHeadTail, OrderTypes, FrameSets
<1>4. Pairwise(m_txq[pr], Earlier)
      /\ \A g \in Started(pr), h \in Elems(m_txq[pr]) : <<g, h>> \in Earlier
  BY DEF OInv, OrderKept
<1>5. /\ Pairwise(Tail(m_txq[pr]), Earlier)
      /\ \A h \in Elems(Tail(m_txq[pr])) : <<f, h>> \in Earlier
  BY <1>1, <1>2, <1>4, PairwiseHeadTail
<1> HIDE DEF f
<1>6. InOrder(wire', m_queue', MayPrecede')
  <2>1. \A g \in Elems(wire) \cup Elems(m_queue) : <<g, f>> \in MayPrecede
    <3>1. SUFFICES ASSUME NEW g \in Elems(wire) \cup Elems(m_queue),
                          g \in DataFrame, g.prio = f.prio, g.n > f.n
                   PROVE  FALSE
      BY <1>3, OrderTypes, MayPrecedeUnfolds
    <3>2. g \in DataOf(pr) /\ g.n \in Nat /\ f.n \in Nat
      BY <1>3, <3>1 DEF DataOf, DataFrame
    <3>3. g \in Started(pr)
      BY <3>1, <3>2 DEF Started
    <3>4. g.n < f.n
      BY <1>3, <1>4, <3>1, <3>3, EarlierUnfolds
    <3>5. QED
      BY <3>1, <3>2, <3>4, SMT
  <2>2. MayPrecede' = MayPrecede
    BY <1>1 DEF MayPrecede
  <2>3. InOrder(wire, m_queue, MayPrecede)
    BY DEF OInv, OrderKept
  <2>4. QED
    BY <1>1, <1>2, <1>3, <2>1, <2>2, <2>3, OrderAccept
<1>7. Elems(m_queue') \cup Elems(wire') = Elems(m_queue) \cup Elems(wire) \cup {f}
  BY <1>1, <1>2, <1>3, AcceptEffect
<1>8. ASSUME NEW p \in Prio
      PROVE  /\ Pairwise(m_txq'[p], Earlier)
             /\ \A g \in Started(p)', h \in Elems(m_txq'[p]) : <<g, h>> \in Earlier
  <2>1. CASE p # pr
    <3>1. m_txq'[p] = m_txq[p]
      BY <1>1, <2>1, OrderTypes
    <3>2. f \notin DataOf(p)
      BY <1>3, <2>1, FrameSets
    <3>3. Started(p)' \subseteq Started(p)
      BY <1>1, <1>7, <3>2 DEF Started
    <3>4. QED
      BY <3>1, <3>3, OrderOfQueued
  <2>2. CASE p = pr
    <3>1. m_txq'[pr] = Tail(m_txq[pr])
      BY <1>1, OrderTypes
    <3>2. Started(pr)' \subseteq Started(pr) \cup {f}
      BY <1>1, <1>7 DEF Started
    <3>3. QED
      BY <1>3, <1>4, <1>5, <2>2, <3>1, <3>2
  <2>3. QED
    BY <2>1, <2>2
<1>9. \A p \in Prio : Elems(m_macHold'[p]) \subseteq wasHeld'
  BY <1>1 DEF OInv, OrderKept
<1>10. QED
  BY <1>6, <1>8, <1>9 DEF OrderKept, Earlier

\* PFC frames are not in the order of any class.
LEMMA OrderOfOthers ==
    ASSUME OInv, InOrder(wire', m_queue', MayPrecede),
           \A f \in DataFrame : f \in Elems(wire') \cup Elems(m_queue') =>
              f \in Elems(wire) \cup Elems(m_queue),
           UNCHANGED <<m_txq, m_macHold, wasHeld>>
    PROVE  OrderKept'
<1>1. MayPrecede' = MayPrecede
  BY DEF MayPrecede
<1>2. \A p \in Prio : Started(p)' \subseteq Started(p)
  BY FrameSets DEF Started
<1>3. \A p \in Prio : Elems(m_macHold'[p]) \subseteq wasHeld'
  BY DEF OInv, OrderKept
<1>4. \A p \in Prio :
         /\ Pairwise(m_txq'[p], Earlier)
         /\ \A f \in Started(p)', g \in Elems(m_txq'[p]) : <<f, g>> \in Earlier
  BY <1>2, OrderOfQueued
<1>5. QED
  BY <1>1, <1>3, <1>4 DEF OrderKept, Earlier

LEMMA TransmitCompletesOrder ==
    ASSUME OInv, TransmitCompletes
    PROVE  OrderKept'
<1>1. TransmitComplete /\ UNCHANGED <<m_txq, m_macHold, wasHeld>>
  BY DEF TransmitCompletes, qbbVars, envVars
<1>2. P2PTypeOK /\ InOrder(wire, m_queue, MayPrecede)
  BY OrderTypes DEF OInv, OrderKept
<1>3. InOrder(wire', m_queue', MayPrecede)
  BY <1>1, <1>2, OrderComplete
<1>4. Elems(m_queue') \cup Elems(wire') = Elems(m_queue) \cup Elems(wire)
  BY <1>1, <1>2, CompleteEffect
<1>5. QED
  BY <1>1, <1>3, <1>4, OrderOfOthers

LEMMA SendPfcOrder ==
    ASSUME OInv, NEW pr \in Prio, NEW t \in {0} \cup PauseTimes, SendPfc(pr, t)
    PROVE  OrderKept'
<1> DEFINE f == [kind |-> "pfc", prio |-> pr, n |-> t]
<1>1. f \in Frame /\ f \notin DataFrame
  <2>1. f \in PfcFrame
    BY PauseTimesAssumption DEF PfcFrame
  <2>2. QED
    BY <2>1, FrameSets DEF Frame
<1>2. SendAccepted(f) \/ SendRejected
  BY DEF SendPfc
<1>3. UNCHANGED <<m_txq, m_macHold, wasHeld>>
  BY DEF SendPfc, qbbVars
<1> HIDE DEF f
<1>4. P2PTypeOK /\ InOrder(wire, m_queue, MayPrecede)
  BY OrderTypes DEF OInv, OrderKept
<1>5. CASE SendRejected
  <2>1. m_queue' = m_queue /\ wire' = wire
    BY <1>5 DEF SendRejected, p2pVars
  <2>2. QED
    BY <1>3, <1>4, <2>1, OrderOfOthers
<1>6. CASE SendAccepted(f)
  <2>1. \A g \in Elems(wire) \cup Elems(m_queue) : <<g, f>> \in MayPrecede
    BY <1>1, OrderTypes, MayPrecedeUnfolds
  <2>2. InOrder(wire', m_queue', MayPrecede)
    BY <1>1, <1>4, <1>6, <2>1, OrderAccept
  <2>3. Elems(m_queue') \cup Elems(wire') = Elems(m_queue) \cup Elems(wire) \cup {f}
    BY <1>1, <1>4, <1>6, AcceptEffect
  <2>4. QED
    BY <1>1, <1>3, <2>2, <2>3, OrderOfOthers
<1>7. QED
  BY <1>2, <1>5, <1>6

\* A purge leaves the other frames in order, and whatever it takes out of the
\* MAC queue is from then on among the frames that were held.
LEMMA HandleXoffOrder ==
    ASSUME OInv, NEW pr \in Prio, NEW t \in PauseTimes, HandleXoff(pr, t)
    PROVE  OrderKept'
<1>1. /\ PurgeMacQueueForPrio(pr)
      /\ UNCHANGED <<m_currentPkt, txCompleteIn, wire, m_txq>>
  BY DEF HandleXoff
<1>2. /\ m_queue \in Seq(Frame) /\ wire \in Seq(Frame) /\ TypeOK
      /\ InOrder(wire, m_queue, MayPrecede)
  BY OrderTypes DEF OInv, OrderKept, IInv
<1>3. /\ Elems(m_queue') = Elems(m_queue) \ DataOf(pr)
      /\ Elems(m_macHold'[pr])
           = Elems(m_macHold[pr]) \cup (Elems(m_queue) \cap DataOf(pr))
      /\ \A p \in Prio : p # pr => m_macHold'[p] = m_macHold[p]
  BY <1>1, <1>2, PurgeEffect
<1>4. /\ m_queue' = Filter(m_queue, Frame \ DataOf(pr))
      /\ wasHeld' = wasHeld \cup (Elems(m_queue) \cap DataOf(pr))
  BY <1>1 DEF PurgeMacQueueForPrio
<1>5. InOrder(wire, m_queue, MayPrecede')
  BY <1>2, <1>4, OrderAfterMoreHeld
<1>6. InOrder(wire', m_queue', MayPrecede')
  <2>1. Pairwise(m_queue', MayPrecede')
    BY <1>2, <1>4, <1>5, PairwiseFilter DEF InOrder
  <2>2. QED
    BY <1>1, <1>3, <1>5, <2>1 DEF InOrder
<1>7. \A p \in Prio : Elems(m_macHold'[p]) \subseteq wasHeld'
  BY <1>3, <1>4 DEF OInv, OrderKept
<1>8. ASSUME NEW p \in Prio
      PROVE  /\ Pairwise(m_txq'[p], Earlier)
             /\ \A g \in Started(p)', h \in Elems(m_txq'[p]) : <<g, h>> \in Earlier
  <2>1. Started(p)' \subseteq Started(p)
    <3>1. CASE p = pr
      BY <1>1, <1>3, <3>1 DEF Started
    <3>2. CASE p # pr
      BY <1>1, <1>3, <3>2 DEF Started
    <3>3. QED
      BY <3>1, <3>2
  <2>2. QED
    BY <1>1, <2>1, OrderOfQueued
<1>9. QED
  BY <1>6, <1>7, <1>8 DEF OrderKept, Earlier

\* Held frames may be overtaken, so they may follow any others.
LEMMA RefillOrder ==
    ASSUME OInv, NEW pr \in Prio, Refill(pr), UNCHANGED <<m_txq, wasHeld>>
    PROVE  OrderKept'
<1> DEFINE hold == m_macHold[pr]
           k == HowManyFit(pr)
           back == SubSeq(hold, 1, k)
           rest == SubSeq(hold, k + 1, Len(hold))
<1>1. /\ m_queue \in Seq(Frame) /\ wire \in Seq(Frame) /\ TypeOK
      /\ m_macHold \in [Prio -> Seq(DataFrame)] /\ hold \in Seq(DataFrame)
      /\ InOrder(wire, m_queue, MayPrecede)
      /\ Elems(hold) \subseteq wasHeld
  BY OrderTypes DEF OInv, OrderKept, IInv
<1>2. k \in 0 .. Len(hold)
  BY <1>1, RefillEffect
<1>3. /\ m_queue' = m_queue \o back
      /\ m_macHold'[pr] = rest
      /\ \A p \in Prio : p # pr => m_macHold'[p] = m_macHold[p]
      /\ wire' = wire
  BY <1>1 DEF Refill
<1> HIDE DEF k, hold
<1>4. /\ back \in Seq(DataFrame) /\ rest \in Seq(DataFrame)
      /\ Elems(back) \cup Elems(rest) = Elems(hold)
  BY <1>1, <1>2, ElemsSplit
<1>5. back \in Seq(Frame)
  BY <1>4, FrameSets, SeqMonotonic
<1> HIDE DEF back, rest
<1>6. Elems(m_queue') = Elems(m_queue) \cup Elems(back)
  BY <1>1, <1>3, <1>5, ElemsConcat
<1>7. \A f \in Frame, g \in Elems(back) : <<f, g>> \in MayPrecede
  BY <1>1, <1>4, <1>5, ElemsInSet, MayPrecedeUnfolds
<1>8. Pairwise(back, MayPrecede)
  <2>1. \A i \in 1 .. Len(back) : back[i] \in Frame /\ back[i] \in Elems(back)
    BY <1>5, ElementOfSeq DEF Elems
  <2>2. QED
    BY <1>7, <2>1 DEF Pairwise
<1>9. InOrder(wire', m_queue', MayPrecede')
  <2>1. Elems(wire) \subseteq Frame /\ Elems(m_queue) \subseteq Frame
    BY OrderTypes
  <2>2. Pairwise(m_queue \o back, MayPrecede)
    BY <1>1, <1>5, <1>7, <1>8, <2>1, PairwiseConcat DEF InOrder
  <2>3. MayPrecede' = MayPrecede
    BY DEF MayPrecede
  <2>4. QED
    BY <1>1, <1>3, <1>6, <1>7, <2>1, <2>2, <2>3 DEF InOrder
<1>10. \A p \in Prio : Elems(m_macHold'[p]) \subseteq wasHeld'
  <2>1. Elems(m_macHold'[pr]) \subseteq wasHeld
    BY <1>1, <1>3, <1>4
  <2>2. QED
    BY <1>3, <2>1 DEF OInv, OrderKept
<1>11. ASSUME NEW p \in Prio
       PROVE  /\ Pairwise(m_txq'[p], Earlier)
              /\ \A g \in Started(p)', h \in Elems(m_txq'[p]) : <<g, h>> \in Earlier
  <2>1. Started(p)' \subseteq Started(p)
    <3>1. CASE p = pr
      BY <1>3, <1>4, <1>6, <3>1 DEF Started, hold
    <3>2. CASE p # pr
      <4>1. \A f \in Elems(back) : f \notin DataOf(p)
        BY <1>4, <3>2, OrderTypes, FrameSets DEF hold
      <4>2. QED
        BY <1>3, <1>6, <3>2, <4>1 DEF Started
    <3>3. QED
      BY <3>1, <3>2
  <2>2. QED
    BY <2>1, OrderOfQueued
<1>12. QED
  BY <1>9, <1>10, <1>11 DEF OrderKept, Earlier

LEMMA RefillEventOrder ==
    ASSUME OInv, NEW pr \in Prio, NEW fn \in {"resume", "refill"},
           RefillEventRuns(pr, fn)
    PROVE  OrderKept'
<1>1. refillEvent[pr] = [fn |-> fn, left |-> 0]
  BY DEF RefillEventRuns
<1>2. Refill(pr) /\ UNCHANGED <<m_txq, wasHeld>>
  BY <1>1, PauseIsOver DEF RefillEventRuns, envVars, OInv, PInv
<1>3. QED
  BY <1>2, RefillOrder

LEMMA QuietOrder ==
    ASSUME OInv, UNCHANGED <<m_queue, wire, m_txq, m_macHold, wasHeld>>
    PROVE  OrderKept'
BY OrderOfOthers DEF OInv, OrderKept

LEMMA EveryStepOrdered ==
    ASSUME OInv, [Next]_vars
    PROVE  OrderKept'
<1>1. CASE Environment
  <2>1. \A pr \in Prio : HandleXon(pr) => OrderKept'
    BY RefillOrder DEF HandleXon
  <2>2. QED
    BY <1>1, <2>1, SendOrder, HandleXoffOrder, SendPfcOrder DEF Environment
<1>2. CASE Simulator
  <2>1. \A pr \in Prio : ResumeFromPause(pr) => OrderKept'
    BY RefillEventOrder DEF ResumeFromPause
  <2>2. \A pr \in Prio : RefillMacQueueFromHold(pr) => OrderKept'
    BY RefillEventOrder DEF RefillMacQueueFromHold
  <2>3. TryDequeueIdle => OrderKept'
    BY QuietOrder DEF TryDequeueIdle, p2pVars, envVars
  <2>4. \A pr \in Prio : TryDequeueRefused(pr) => OrderKept'
    BY QuietOrder DEF TryDequeueRefused, SendRejected, p2pVars, envVars
  <2>5. Tick => OrderKept'
    BY QuietOrder DEF Tick, envVars
  <2>6. QED
    BY <1>2, <2>1, <2>2, <2>3, <2>4, <2>5, TryDequeueSentOrder, TransmitCompletesOrder
       DEF Simulator
<1>3. CASE UNCHANGED vars
  BY <1>3, QuietOrder DEF vars, p2pVars, qbbVars, envVars
<1>4. QED
  BY <1>1, <1>2, <1>3 DEF Next

LEMMA InitOrder == Init => OInv
<1>1. SUFFICES ASSUME Init PROVE OInv
  OBVIOUS
<1>2. /\ m_queue = <<>> /\ wire = <<>>
      /\ \A pr \in Prio : m_txq[pr] = <<>> /\ m_macHold[pr] = <<>>
  BY <1>1 DEF Init, P2PInit
<1>3. Elems(<<>>) = {} /\ \A R : Pairwise(<<>>, R)
  <2>1. <<>> \in Seq(Frame) /\ 1 .. Len(<<>>) = {}
    BY EmptySeq, SMT
  <2>2. QED
    BY <2>1, ElemsEmpty DEF Pairwise
<1>4. OrderKept
  BY <1>2, <1>3 DEF OrderKept, InOrder
<1>5. QED
  BY <1>1, <1>4, InitPromise DEF OInv

LEMMA NextOrdered == OInv /\ [Next]_vars => OInv'
BY EveryStepOrdered, NextPromised DEF OInv

\* Packets of one class leave in the order Send took them, but for those that an
\* XOFF took back out of the MAC queue.
THEOREM OrderIsKept == Spec => []OvertakenOnlyIfHeld
<1>1. OInv => OvertakenOnlyIfHeld
  <2>1. SUFFICES ASSUME OInv,
                        NEW i \in 1 .. Len(wire), NEW j \in 1 .. Len(wire), i < j,
                        wire[i] \in DataFrame, wire[j] \in DataFrame,
                        wire[i].prio = wire[j].prio, wire[i].n > wire[j].n
                 PROVE  wire[j] \in wasHeld
    BY DEF OvertakenOnlyIfHeld
  <2>2. <<wire[i], wire[j]>> \in MayPrecede
    BY <2>1 DEF OInv, OrderKept, InOrder, Pairwise
  <2>3. QED
    BY <2>1, <2>2, FrameSets, MayPrecedeUnfolds
<1>2. QED
  BY <1>1, InitOrder, NextOrdered, PTL DEF Spec
==============================================================================
