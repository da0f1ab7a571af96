---------------------------- MODULE SwitchProofs ----------------------------
(***************************************************************************)
(* The token bucket keeps the egress device short of work, for any number  *)
(* of ingress devices and classes, any rate the line can carry and any     *)
(* size of bucket.                                                         *)
(*                                                                         *)
(* The argument is an account (Paced): what the bucket holds, what the     *)
(* frames not yet started cost, and what the bucket will gain while the    *)
(* line is busy, never exceed what was granted: the capacity, and the cost *)
(* of a packet for each PFC frame that the device itself has sent without  *)
(* a token.  Time that passes with the line idle would break it; the line  *)
(* is idle only when nothing waits, because a refused frame is tried again *)
(* before the MAC queue is empty.                                          *)
(***************************************************************************)
EXTENDS Switch, QbbTransmitProofs, FiniteSetTheorems

\* The line carries what the bucket grants, and the MAC queue outlasts the retry.
Slow == \A t \in TxTimes : t * Rate <= Cost /\ t * QueueMax >= TxRetry

Quickest == CHOOSE m \in TxTimes : \A t \in TxTimes : m <= t

NotStarted == Len(m_queue) + Cardinality(QueuedFrames)

TokensOK == m_tokens \in [{OutPort} -> 0 .. Capacity]

\* Until a PFC frame comes nothing is held, and an idle line has nothing to send.
Undisturbed ==
    /\ \A pr \in Prio : refillEvent[pr].fn = "none"
    /\ READY => m_queue = <<>> /\ txCompleteIn = 0

\* A full bucket, and a packet's cost for each XOFF or XON of its own.
Budget == Capacity + nPfcTx * Cost

Paced ==
    /\ txEvent > 0 => txEvent <= txCompleteIn + Len(m_queue) * Quickest
    /\ m_tokens[OutPort] + NotStarted * Cost + txCompleteIn * Rate <= Budget

NodeInv ==
    /\ PInv
    /\ TokensOK
    /\ IsFiniteSet(QueuedFrames)
    /\ nPfcRx = 0 => Undisturbed /\ (Slow => Paced)

------------------------------------------------------------------------------
LEMMA QuickestTime ==
    Quickest \in TxTimes /\ Quickest \in Nat /\ \A t \in TxTimes : Quickest <= t
<1>1. \E m \in TxTimes : \A t \in TxTimes : m <= t
  BY TxTimesAssumption, SwitchAssumption, NatMinimum
<1>2. QED
  BY <1>1, TxTimesAssumption DEF Quickest

LEMMA NodeTypes ==
    ASSUME NodeInv
    PROVE  /\ IInv /\ P2PTypeOK
           /\ m_queue \in Seq(Frame) /\ Len(m_queue) \in Nat /\ Len(m_queue) <= QueueMax
           /\ Cardinality(QueuedFrames) \in Nat /\ NotStarted \in Nat
           /\ m_tokens[OutPort] \in Nat /\ m_tokens[OutPort] <= Capacity
           /\ txCompleteIn \in Nat /\ txEvent \in Nat \cup {Expired}
           /\ m_txq \in [Prio -> Seq(DataFrame)] /\ nPfcRx \in Nat /\ nPfcTx \in Nat
           /\ Capacity \in Nat /\ Cost \in Nat \ {0} /\ Rate \in Nat
           /\ TxRetry \in Nat \ {0} /\ QueueMax \in Nat \ {0}
           /\ TxTimes \subseteq Nat
<1>1. IInv
  BY DEF NodeInv, PInv
<1>2. TypeOK /\ P2PTypeOK
  BY <1>1 DEF IInv, TypeOK
<1>3. m_queue \in Seq(Frame) /\ Len(m_queue) \in Nat
  BY <1>2, LenProperties DEF P2PTypeOK
<1>4. Cardinality(QueuedFrames) \in Nat
  BY FS_CardinalityType DEF NodeInv
<1>5. NotStarted \in Nat
  BY <1>3, <1>4, SMT DEF NotStarted
<1>6. m_tokens[OutPort] \in Nat /\ m_tokens[OutPort] <= Capacity
  BY SwitchAssumption DEF NodeInv, TokensOK
<1>7. QED
  BY <1>1, <1>2, <1>3, <1>4, <1>5, <1>6, SwitchAssumption, RetryAssumption,
     QueueMaxAssumption, TxTimesAssumption DEF TypeOK, P2PTypeOK

\* The account as a sum of numbers.
LEMMA Account ==
    ASSUME NodeInv
    PROVE  /\ NotStarted * Cost \in Int /\ txCompleteIn * Rate \in Int
           /\ (NotStarted + 1) * Cost = NotStarted * Cost + Cost
           /\ (NotStarted - 1) * Cost = NotStarted * Cost - Cost
           /\ (txCompleteIn - 1) * Rate = txCompleteIn * Rate - Rate
           /\ \A t \in TxTimes : t * Rate \in Int
           /\ \A x \in Int : 0 * x = 0
           /\ Budget \in Nat /\ Budget >= Capacity
           /\ Capacity + (nPfcTx + 1) * Cost = Budget + Cost
<1>1. /\ NotStarted \in Int /\ 1 \in Int /\ Cost \in Int /\ Rate \in Int
      /\ txCompleteIn \in Int /\ \A t \in TxTimes : t \in Int
      /\ nPfcTx \in Int
  BY NodeTypes, SMT
<1>2. nPfcTx * Cost \in Nat
  <2>1. \A n, k \in Nat : n * k \in Nat
    BY SMT
  <2>2. nPfcTx \in Nat /\ Cost \in Nat
    BY NodeTypes
  <2>3. QED
    BY <2>1, <2>2
<1>3. Budget \in Nat /\ Budget >= Capacity
  <2>1. \A c, n \in Nat : c + n \in Nat /\ c + n >= c
    BY SMT
  <2>2. QED
    BY <1>2, <2>1, NodeTypes DEF Budget
<1>4. Capacity + (nPfcTx + 1) * Cost = Budget + Cost
  <2>1. (nPfcTx + 1) * Cost = nPfcTx * Cost + Cost
    BY <1>1, TimesDistributes
  <2>2. \A c, n, k \in Nat : c + (n + k) = c + n + k
    BY SMT
  <2>3. QED
    BY <1>2, <2>1, <2>2, NodeTypes DEF Budget
<1>5. QED
  BY <1>1, <1>3, <1>4, TimesDistributes

\* Send adds one to the frames in the software queues.
LEMMA QueuedAfterSend ==
    ASSUME NodeInv, NEW pr \in Prio, Send(pr)
    PROVE  /\ IsFiniteSet(QueuedFrames')
           /\ Cardinality(QueuedFrames') = Cardinality(QueuedFrames) + 1
<1> DEFINE f == [kind |-> "data", prio |-> pr, n |-> nSent]
<1>1. /\ m_txq' = [m_txq EXCEPT ![pr] = Append(@, f)]
      /\ accepted' = accepted \cup {f}
  BY DEF Send
<1>2. f \in DataFrame /\ f.n = nSent /\ nSent \in Nat
  BY NodeTypes DEF DataFrame, IInv, TypeOK
<1> HIDE DEF f
<1>3. f \notin accepted
  BY <1>2, SMT DEF NodeInv, PInv, Numbered
<1>4. /\ m_txq \in [Prio -> Seq(DataFrame)]
      /\ m_txq'[pr] = Append(m_txq[pr], f)
      /\ Elems(m_txq'[pr]) = Elems(m_txq[pr]) \cup {f}
      /\ \A p \in Prio : p # pr => m_txq'[p] = m_txq[p]
  BY <1>1, <1>2, NodeTypes, ElemsAppend
<1>5. \A p \in Prio : \A g \in Elems(m_txq[p]) : g \in accepted
  BY NodeTypes, WaitingIsAccepted
<1>6. QueuedFrames' = QueuedFrames \cup {f}
  <2>1. \A g : g \in QueuedFrames' <=>
          g \in accepted \cup {f} /\ \E p \in Prio : g \in Elems(m_txq'[p])
    BY <1>1 DEF QueuedFrames
  <2>2. \A g : g \in QueuedFrames <=>
          g \in accepted /\ \E p \in Prio : g \in Elems(m_txq[p])
    BY DEF QueuedFrames
  <2>3. \A g : (\E p \in Prio : g \in Elems(m_txq'[p])) <=>
          g = f \/ \E p \in Prio : g \in Elems(m_txq[p])
    BY <1>4
  <2>4. QED
    BY <1>5, <2>1, <2>2, <2>3
<1>7. f \notin QueuedFrames /\ IsFiniteSet(QueuedFrames)
  BY <1>3 DEF QueuedFrames, NodeInv
<1>8. QED
  BY <1>6, <1>7, FS_AddElement

\* A frame that TryDequeue passes on is no longer among them.
LEMMA QueuedAfterDequeue ==
    ASSUME NodeInv, NEW pr \in Prio, TryDequeueSent(pr)
    PROVE  /\ IsFiniteSet(QueuedFrames')
           /\ Cardinality(QueuedFrames') = Cardinality(QueuedFrames) - 1
           /\ Head(m_txq[pr]) \in Frame
<1> DEFINE f == Head(m_txq[pr])
<1>1. /\ m_txq[pr] # <<>> /\ m_txq' = [m_txq EXCEPT ![pr] = Tail(@)]
      /\ accepted' = accepted
  BY DEF TryDequeueSent, PickNextPrio, Eligible, envVars
<1>2. /\ m_txq \in [Prio -> Seq(DataFrame)] /\ m_txq[pr] \in Seq(DataFrame)
      /\ Once(m_txq[pr], DataFrame)
  BY NodeTypes DEF NodeInv, PInv, OnePlaceOnly, Apart
<1>3. /\ f \in DataFrame
      /\ Elems(m_txq[pr]) = {f} \cup Elems(Tail(m_txq[pr]))
      /\ f \notin Elems(Tail(m_txq[pr]))
  BY <1>1, <1>2, ElemsHeadTail, OnceHeadTail
<1> HIDE DEF f
<1>4. m_txq'[pr] = Tail(m_txq[pr]) /\ \A p \in Prio : p # pr => m_txq'[p] = m_txq[p]
  BY <1>1, <1>2
<1>5. f \in accepted /\ f \in DataOf(pr) /\ \A p \in Prio : p # pr => f \notin Elems(m_txq[p])
  BY <1>3, NodeTypes, WaitingIsAccepted
<1>6. QueuedFrames' = QueuedFrames \ {f}
  <2>1. \A g : g \in QueuedFrames' <=>
          g \in accepted /\ \E p \in Prio : g \in Elems(m_txq'[p])
    BY <1>1 DEF QueuedFrames
  <2>2. \A g : g \in QueuedFrames <=>
          g \in accepted /\ \E p \in Prio : g \in Elems(m_txq[p])
    BY DEF QueuedFrames
  <2>3. \A g : (\E p \in Prio : g \in Elems(m_txq'[p])) <=>
          g # f /\ \E p \in Prio : g \in Elems(m_txq[p])
    BY <1>3, <1>4, <1>5
  <2>4. QED
    BY <2>1, <2>2, <2>3
<1>7. f \in QueuedFrames /\ IsFiniteSet(QueuedFrames)
  BY <1>3, <1>5 DEF QueuedFrames, NodeInv
<1>8. QED
  BY <1>3, <1>6, <1>7, FrameSets, FS_RemoveElement DEF f

------------------------------------------------------------------------------
\* The account, and what changes it.

Balanced == m_tokens[OutPort] + NotStarted * Cost + txCompleteIn * Rate <= Budget

\* Nothing is granted and nothing starts.
LEMMA BalancedStays ==
    ASSUME Balanced, NotStarted' = NotStarted,
           UNCHANGED <<m_tokens, txCompleteIn, nPfcTx>>
    PROVE  Balanced'
BY DEF Balanced, Budget

\* A token is spent and a frame more waits.
LEMMA BalancedGrant ==
    ASSUME NodeInv, Balanced, NotStarted' = NotStarted + 1,
           UNCHANGED <<txCompleteIn, nPfcTx>>, m_tokens'[OutPort] = m_tokens[OutPort] - Cost
    PROVE  Balanced'
<1> DEFINE a == NotStarted * Cost
           b == txCompleteIn * Rate
<1>1. NotStarted' * Cost = a + Cost /\ a \in Int /\ b \in Int
  BY Account
<1>2. /\ m_tokens[OutPort] \in Nat /\ Cost \in Nat /\ Budget \in Nat
      /\ m_tokens[OutPort] + a + b <= Budget
  BY NodeTypes, Account DEF Balanced
<1>3. Balanced' <=> m_tokens[OutPort] - Cost + (a + Cost) + b <= Budget
  BY <1>1 DEF Balanced, Budget
<1> HIDE DEF a, b
<1>4. QED
  BY <1>1, <1>2, <1>3, SMT

\* A frame that waited starts: what the bucket gains meanwhile pays for one.
LEMMA BalancedStart ==
    ASSUME NodeInv, Balanced, Slow, NotStarted' = NotStarted - 1,
           UNCHANGED <<m_tokens, nPfcTx>>, txCompleteIn = 0, txCompleteIn' \in TxTimes
    PROVE  Balanced'
<1> DEFINE a == NotStarted * Cost
           c == txCompleteIn' * Rate
<1>1. /\ NotStarted' * Cost = a - Cost /\ a \in Int
      /\ txCompleteIn * Rate = 0 /\ c \in Int
  <2>1. Rate \in Int
    BY NodeTypes, SMT
  <2>2. QED
    BY <2>1, Account
<1>2. c <= Cost
  BY DEF Slow
<1>3. /\ m_tokens[OutPort] \in Nat /\ Cost \in Nat /\ Budget \in Nat
      /\ m_tokens[OutPort] + a + 0 <= Budget
  BY <1>1, NodeTypes, Account DEF Balanced
<1>4. Balanced' <=> m_tokens[OutPort] + (a - Cost) + c <= Budget
  BY <1>1 DEF Balanced, Budget
<1> HIDE DEF a, c
<1>5. QED
  BY <1>1, <1>2, <1>3, <1>4, SMT

\* A PFC frame of the device's own takes the idle line, or a place in the queue, or
\* is dropped: its share of the budget pays for the one and the other.
LEMMA BalancedOwnPfc ==
    ASSUME NodeInv, Balanced, Slow, UNCHANGED m_tokens, nPfcTx' = nPfcTx + 1,
           \/ NotStarted' = NotStarted /\ UNCHANGED txCompleteIn
           \/ NotStarted' = NotStarted + 1 /\ UNCHANGED txCompleteIn
           \/ NotStarted' = NotStarted /\ txCompleteIn = 0 /\ txCompleteIn' \in TxTimes
    PROVE  Balanced'
<1> DEFINE a == NotStarted * Cost
           b == txCompleteIn * Rate
           c == txCompleteIn' * Rate
<1>1. /\ (NotStarted + 1) * Cost = a + Cost /\ a \in Int /\ b \in Int
      /\ Budget' = Budget + Cost /\ Budget \in Nat
  BY Account DEF Budget
<1>2. /\ m_tokens[OutPort] \in Nat /\ Cost \in Nat
      /\ m_tokens[OutPort] + a + b <= Budget
  BY NodeTypes DEF Balanced
<1>3. Balanced' <=> m_tokens[OutPort] + NotStarted' * Cost + c <= Budget + Cost
  BY <1>1 DEF Balanced
<1>4. CASE NotStarted' = NotStarted /\ UNCHANGED txCompleteIn
  <2>1. NotStarted' * Cost = a /\ c = b
    BY <1>4
  <2> HIDE DEF a, b, c
  <2>2. QED
    BY <1>1, <1>2, <1>3, <2>1, SMT
<1>5. CASE NotStarted' = NotStarted + 1 /\ UNCHANGED txCompleteIn
  <2>1. NotStarted' * Cost = a + Cost /\ c = b
    BY <1>1, <1>5
  <2> HIDE DEF a, b, c
  <2>2. QED
    BY <1>1, <1>2, <1>3, <2>1, SMT
<1>6. CASE NotStarted' = NotStarted /\ txCompleteIn = 0 /\ txCompleteIn' \in TxTimes
  <2>1. NotStarted' * Cost = a /\ c <= Cost /\ c \in Int
    BY <1>6, Account DEF Slow
  <2>2. b = 0
    <3>1. Rate \in Int
      BY NodeTypes, SMT
    <3>2. QED
      BY <1>6, <3>1, Account
  <2> HIDE DEF a, b, c
  <2>3. QED
    BY <1>1, <1>2, <1>3, <2>1, <2>2, SMT
<1>7. QED
  BY <1>4, <1>5, <1>6

\* Time passes with the line busy, or with nothing to send.
LEMMA BalancedTick ==
    ASSUME NodeInv, NotStarted' = NotStarted, UNCHANGED nPfcTx,
           m_tokens'[OutPort] \in Nat, m_tokens'[OutPort] <= m_tokens[OutPort] + Rate,
           m_tokens'[OutPort] <= Capacity,
           \/ Balanced /\ txCompleteIn > 0 /\ txCompleteIn' = txCompleteIn - 1
           \/ NotStarted = 0 /\ txCompleteIn' = 0
    PROVE  Balanced'
<1> DEFINE a == NotStarted * Cost
           b == txCompleteIn * Rate
<1>1. /\ a \in Int /\ b \in Int
      /\ Budget' = Budget /\ Budget \in Nat /\ Budget >= Capacity
  BY Account DEF Budget
<1>2. /\ m_tokens[OutPort] \in Nat /\ Cost \in Nat /\ Rate \in Nat /\ Capacity \in Nat
  BY NodeTypes
<1>3. CASE Balanced /\ txCompleteIn' = txCompleteIn - 1
  <2>1. txCompleteIn' * Rate = b - Rate
    BY <1>3, Account
  <2>2. m_tokens[OutPort] + a + b <= Budget
    BY <1>3 DEF Balanced
  <2>3. Balanced' <=> m_tokens'[OutPort] + a + (b - Rate) <= Budget
    BY <1>1, <2>1 DEF Balanced
  <2> HIDE DEF a, b
  <2>4. QED
    BY <1>1, <1>2, <2>2, <2>3, SMT
<1>4. CASE NotStarted = 0 /\ txCompleteIn' = 0
  <2>1. NotStarted' * Cost = 0 /\ txCompleteIn' * Rate = 0
    <3>1. Cost \in Int /\ Rate \in Int
      BY <1>2, SMT
    <3>2. QED
      BY <1>4, <3>1, Account
  <2>2. Balanced' <=> m_tokens'[OutPort] + 0 + 0 <= Budget
    BY <1>1, <2>1 DEF Balanced
  <2>3. QED
    BY <1>1, <1>2, <2>2, SMT
<1>5. QED
  BY <1>3, <1>4

------------------------------------------------------------------------------
\* One lemma per step: it preserves NodeInv.

\* Steps that only the ingress side takes, and grant nothing.
LEMMA NodeKeeps ==
    ASSUME NodeInv, UNCHANGED vars, TokensOK', m_tokens' = m_tokens
    PROVE  NodeInv'
<1>1. PInv'
  BY NextPromised DEF NodeInv
<1>2. /\ UNCHANGED <<m_queue, m_currentPkt, txCompleteIn, m_txq, txEvent, refillEvent>>
      /\ UNCHANGED <<nPfcRx, nPfcTx, accepted>>
  BY DEF vars, p2pVars, qbbVars, envVars
<1>3. QueuedFrames' = QueuedFrames /\ NotStarted' = NotStarted
  BY <1>2 DEF QueuedFrames, NotStarted
<1>4. READY' <=> READY
  BY <1>2 DEF READY
<1>5. Undisturbed => Undisturbed'
  BY <1>2, <1>4 DEF Undisturbed
<1>6. Paced => Paced'
  BY <1>2, <1>3 DEF Paced, Budget
<1>7. QED
  BY <1>1, <1>2, <1>3, <1>4, <1>5, <1>6 DEF NodeInv, Slow

LEMMA NodeArrives ==
    ASSUME NodeInv, NEW d \in Ingress, NEW pr \in Prio, NEW route \in Routes,
           Arrives(d, pr, route)
    PROVE  NodeInv'
<1>1. m_tokens' = m_tokens
  BY DEF Arrives, In!HandleMacRx, In!managerVars
<1>2. QED
  BY <1>1, NodeKeeps DEF Arrives, NodeInv, TokensOK

\* A token that is taken and given back leaves the bucket as it was.
LEMMA NodeRefuses ==
    ASSUME NodeInv, NEW d \in Ingress, Keeps(d)
    PROVE  NodeInv'
<1>1. CASE In!DrainIdle(d)
  <2>1. m_tokens' = m_tokens
    BY <1>1 DEF In!DrainIdle, In!managerVars
  <2>2. QED
    BY <2>1, NodeKeeps DEF Keeps, NodeInv, TokensOK
<1>2. CASE \E pr \in Prio : In!DrainRefused(d, pr, OutPort)
  <2>1. PICK pr \in Prio : In!DrainRefused(d, pr, OutPort)
    BY <1>2
  <2>2. \/ m_tokens' = m_tokens
        \/ m_tokens' = [m_tokens EXCEPT ![OutPort] = In!Refund(@ - Cost)]
    BY <2>1 DEF In!DrainRefused
  <2>3. In!Refund(m_tokens[OutPort] - Cost) = m_tokens[OutPort]
    BY NodeTypes, SMT DEF In!Refund, In!AtMost
  <2>4. m_tokens' = m_tokens
    BY <2>2, <2>3 DEF NodeInv, TokensOK
  <2>5. QED
    BY <2>4, NodeKeeps DEF Keeps, NodeInv, TokensOK
<1>3. QED
  BY <1>1, <1>2 DEF Keeps

LEMMA NodeForwards ==
    ASSUME NodeInv, NEW d \in Ingress, NEW pr \in Prio, Forwards(d, pr)
    PROVE  NodeInv'
<1>1. In!DrainGranted(d, pr, OutPort) /\ Send(pr)
  BY DEF Forwards
<1>2. /\ m_tokens[OutPort] >= Cost
      /\ m_tokens' = [m_tokens EXCEPT ![OutPort] = @ - Cost]
  BY <1>1, SwitchAssumption DEF In!DrainGranted, In!HasToken
<1>3. m_tokens'[OutPort] = m_tokens[OutPort] - Cost
  BY <1>2 DEF NodeInv, TokensOK
<1>4. TokensOK'
  <2>1. m_tokens[OutPort] - Cost \in 0 .. Capacity
    BY <1>2, NodeTypes, SMT
  <2>2. QED
    BY <1>2, <2>1 DEF NodeInv, TokensOK
<1>5. /\ UNCHANGED <<m_queue, m_currentPkt, txCompleteIn, refillEvent>>
      /\ UNCHANGED <<nPfcRx, nPfcTx>>
      /\ txEvent' = Woken(txEvent)
  BY <1>1 DEF Send, p2pVars
<1>6. PInv'
  BY <1>1, NextPromised DEF NodeInv, Next, Environment
<1>7. /\ IsFiniteSet(QueuedFrames')
      /\ Cardinality(QueuedFrames') = Cardinality(QueuedFrames) + 1
  BY <1>1, QueuedAfterSend
<1>8. NotStarted' = NotStarted + 1
  BY <1>5, <1>7, NodeTypes, SMT DEF NotStarted
<1>9. READY' <=> READY
  BY <1>5 DEF READY
<1>10. Undisturbed => Undisturbed'
  BY <1>5, <1>9 DEF Undisturbed
<1>11. Paced => Paced'
  <2>1. Balanced => Balanced'
    BY <1>3, <1>5, <1>8, BalancedGrant
  <2>2. txEvent' > 0 => txEvent' = txEvent
    BY <1>5, SMT DEF Woken
  <2>3. QED
    BY <1>5, <2>1, <2>2 DEF Paced, Balanced
<1>12. QED
  BY <1>4, <1>5, <1>6, <1>7, <1>9, <1>10, <1>11 DEF NodeInv, Slow

\* Nothing is said of a device that has been paused.
LEMMA NodeDisturbed ==
    ASSUME NodeInv, NEW pr \in Prio, PeerSpeaks(pr)
    PROVE  NodeInv'
<1>1. HandleXon(pr) \/ \E t \in PauseTimes : HandleXoff(pr, t)
  BY DEF PeerSpeaks
<1>2. PInv'
  BY <1>1, NextPromised DEF NodeInv, Next, Environment
<1>3. nPfcRx' = nPfcRx + 1 /\ UNCHANGED <<m_txq, accepted>>
  BY <1>1 DEF HandleXon, HandleXoff
<1>4. nPfcRx' # 0
  BY <1>3, NodeTypes, SMT
<1>5. QueuedFrames' = QueuedFrames
  BY <1>3 DEF QueuedFrames
<1>6. TokensOK'
  BY DEF PeerSpeaks, inVars, NodeInv, TokensOK
<1>7. QED
  BY <1>2, <1>4, <1>5, <1>6 DEF NodeInv

------------------------------------------------------------------------------
\* The egress device's own steps.

\* A frame that leaves the MAC queue is on the line.
LEMMA LineStarts ==
    ASSUME NEW q \in Seq(Frame), q # <<>>, m_queue' = Tail(q), TransmitStart(Head(q))
    PROVE  /\ ~READY' /\ txCompleteIn' \in TxTimes
           /\ m_queue' \in Seq(Frame) /\ Len(m_queue') = Len(q) - 1
<1>1. Head(q) \in Frame /\ Tail(q) \in Seq(Frame) /\ Len(Tail(q)) = Len(q) - 1
  BY ElemsHeadTail
<1>2. QED
  BY <1>1, NoPktAssumption DEF READY, TransmitStart

\* The steps that leave the ingress side and the software queues alone.
LEMMA NothingDequeued ==
    ASSUME NodeInv, [Next]_vars, UNCHANGED inVars, UNCHANGED <<m_txq, accepted>>,
           nPfcRx' = 0 => Undisturbed' /\ (Slow => Paced')
    PROVE  NodeInv'
<1>1. PInv'
  BY NextPromised DEF NodeInv
<1>2. QueuedFrames' = QueuedFrames
  BY DEF QueuedFrames
<1>3. TokensOK'
  BY DEF inVars, NodeInv, TokensOK
<1>4. QED
  BY <1>1, <1>2, <1>3 DEF NodeInv, Slow

LEMMA NodeIdles ==
    ASSUME NodeInv, TryDequeueIdle, UNCHANGED inVars
    PROVE  NodeInv'
<1>1. /\ UNCHANGED <<m_queue, m_currentPkt, txCompleteIn, m_txq, refillEvent>>
      /\ UNCHANGED <<nPfcRx, nPfcTx, accepted>> /\ txEvent' = Expired
  BY DEF TryDequeueIdle, p2pVars, envVars
<1>2. QueuedFrames' = QueuedFrames /\ (READY' <=> READY) /\ m_tokens' = m_tokens
  BY <1>1 DEF QueuedFrames, READY, inVars
<1>3. ~ (txEvent' > 0)
  BY <1>1, SMT DEF Expired
<1>4. Undisturbed => Undisturbed'
  BY <1>1, <1>2 DEF Undisturbed
<1>5. Paced => Paced'
  BY <1>1, <1>2, <1>3 DEF Paced, NotStarted, Budget
<1>6. [Next]_vars
  BY DEF Next, Simulator
<1>7. QED
  BY <1>1, <1>2, <1>4, <1>5, <1>6, NothingDequeued DEF NodeInv

\* The line is free again: the next frame of the MAC queue takes it, if any.
LEMMA NodeCompletes ==
    ASSUME NodeInv, TransmitCompletes, UNCHANGED inVars
    PROVE  NodeInv'
<1>1. /\ ~READY /\ txCompleteIn = 0
      /\ UNCHANGED <<m_txq, refillEvent, txEvent, nPfcRx, nPfcTx, accepted>>
  BY DEF TransmitCompletes, TransmitComplete, qbbVars, envVars
<1>2. QueuedFrames' = QueuedFrames /\ m_tokens' = m_tokens
  BY <1>1 DEF QueuedFrames, inVars
<1> DEFINE Kept == Undisturbed /\ (Slow => Paced) => Undisturbed' /\ (Slow => Paced')
<1>4. ASSUME m_queue = <<>> PROVE Kept
  <2>1. READY' /\ UNCHANGED <<m_queue, txCompleteIn>>
    BY <1>4 DEF TransmitCompletes, TransmitComplete, READY
  <2>2. Undisturbed => Undisturbed'
    BY <1>1, <1>4, <2>1 DEF Undisturbed
  <2>3. Paced => Paced'
    BY <1>1, <1>2, <2>1 DEF Paced, NotStarted, Budget
  <2>4. QED
    BY <2>2, <2>3
<1>5. ASSUME m_queue # <<>> PROVE Kept
  <2>1. m_queue' = Tail(m_queue) /\ TransmitStart(Head(m_queue))
    BY <1>5 DEF TransmitCompletes, TransmitComplete
  <2>2. /\ ~READY' /\ txCompleteIn' \in TxTimes
        /\ Len(m_queue') = Len(m_queue) - 1
    BY <1>5, <2>1, NodeTypes, LineStarts
  <2>3. Undisturbed => Undisturbed'
    BY <1>1, <2>2 DEF Undisturbed
  <2>4. NotStarted' = NotStarted - 1
    BY <1>2, <2>2, NodeTypes, SMT DEF NotStarted
  <2>5. ASSUME Slow, Paced
        PROVE  Paced'
    <3>1. Balanced'
      BY <1>1, <1>2, <2>2, <2>4, <2>5, BalancedStart DEF Paced, Balanced
    <3>2. txEvent > 0 => txEvent <= txCompleteIn' + Len(m_queue') * Quickest
      <4>1. /\ Quickest \in Nat /\ Quickest <= txCompleteIn'
        BY <2>2, QuickestTime
      <4>2. /\ Len(m_queue) \in Int /\ 1 \in Int /\ Quickest \in Int
            /\ txCompleteIn' \in Nat /\ txEvent \in Int
        BY <2>2, <4>1, NodeTypes, SMT DEF Expired
      <4>3. (Len(m_queue) - 1) * Quickest = Len(m_queue) * Quickest - 1 * Quickest
        BY <4>2, TimesDistributes
      <4>4. 1 * Quickest = Quickest
        BY <4>2, SMT
      <4> DEFINE c == Len(m_queue) * Quickest
      <4>5. c \in Int
        BY <4>2, TimesDistributes
      <4>6. txEvent > 0 => txEvent <= 0 + c
        BY <1>1, <2>5 DEF Paced
      <4>7. Len(m_queue') * Quickest = c - Quickest
        BY <2>2, <4>3, <4>4
      <4> HIDE DEF c
      <4>8. \A e, x, t, m \in Int : e <= 0 + x /\ m <= t => e <= t + (x - m)
        BY SMT
      <4>9. QED
        BY <4>1, <4>2, <4>5, <4>6, <4>7, <4>8
    <3>3. QED
      BY <1>1, <3>1, <3>2 DEF Paced, Balanced
  <2>6. QED
    BY <2>3, <2>5
<1>6. [Next]_vars
  BY DEF Next, Simulator
<1>7. QED
  BY <1>1, <1>4, <1>5, <1>6, NothingDequeued DEF NodeInv

\* TryDequeue hands a frame to the base class, which queues it or starts it.
LEMMA NodeDequeues ==
    ASSUME NodeInv, NEW pr \in Prio, TryDequeueSent(pr), UNCHANGED inVars
    PROVE  NodeInv'
<1> DEFINE f == Head(m_txq[pr])
           q == Append(m_queue, f)
<1>1. /\ SendAccepted(f) /\ txEvent' = 0
      /\ UNCHANGED <<refillEvent, nPfcRx, nPfcTx>>
  BY DEF TryDequeueSent, envVars
<1>2. /\ IsFiniteSet(QueuedFrames') /\ f \in Frame
      /\ Cardinality(QueuedFrames') = Cardinality(QueuedFrames) - 1
  BY QueuedAfterDequeue
<1> HIDE DEF f
<1>3. /\ q \in Seq(Frame) /\ q # <<>> /\ Len(q) = Len(m_queue) + 1
      /\ m_queue = <<>> => Len(q) = 1
  BY <1>2, NodeTypes, LenProperties, AppendProperties, EmptySeq
<1>4. PInv'
  BY NextPromised DEF NodeInv, Next, Simulator
<1>5. TokensOK' /\ m_tokens' = m_tokens
  BY DEF inVars, NodeInv, TokensOK
<1>6. ~ (txEvent' > 0)
  BY <1>1, SMT
<1> DEFINE Kept == Undisturbed /\ (Slow => Paced) => Undisturbed' /\ (Slow => Paced')
<1>7. ASSUME READY PROVE Kept
  <2>1. m_queue' = Tail(q) /\ TransmitStart(Head(q))
    BY <1>1, <1>7 DEF SendAccepted
  <2>2. /\ ~READY' /\ txCompleteIn' \in TxTimes
        /\ Len(m_queue') = Len(m_queue)
    <3> HIDE DEF q
    <3>1. /\ ~READY' /\ txCompleteIn' \in TxTimes
          /\ Len(m_queue') = Len(q) - 1
      BY <1>3, <2>1, LineStarts
    <3>2. QED
      BY <1>3, <3>1, NodeTypes, SMT
  <2>3. NotStarted' = NotStarted - 1
    BY <1>2, <2>2, NodeTypes, SMT DEF NotStarted
  <2>4. ASSUME Undisturbed, Slow, Paced PROVE Paced'
    <3>1. txCompleteIn = 0
      BY <1>7, <2>4 DEF Undisturbed
    <3>2. Balanced'
      BY <1>1, <1>5, <2>2, <2>3, <2>4, <3>1, BalancedStart DEF Paced, Balanced
    <3>3. QED
      BY <1>6, <3>2 DEF Paced, Balanced
  <2>5. Undisturbed => Undisturbed'
    BY <1>1, <2>2 DEF Undisturbed
  <2>6. QED
    BY <2>4, <2>5
<1>8. ASSUME ~READY PROVE Kept
  <2>1. m_queue' = q /\ UNCHANGED <<m_currentPkt, txCompleteIn>>
    BY <1>1, <1>8 DEF SendAccepted
  <2>2. ~READY'
    BY <1>8, <2>1 DEF READY
  <2>3. Len(m_queue') = Len(m_queue) + 1
    BY <1>3, <2>1
  <2>4. NotStarted' = NotStarted
    BY <1>2, <2>3, NodeTypes, SMT DEF NotStarted
  <2>5. Paced => Paced'
    <3>1. Balanced => Balanced'
      BY <1>1, <1>5, <2>1, <2>4, BalancedStays
    <3>2. QED
      BY <1>6, <3>1 DEF Paced, Balanced
  <2>6. Undisturbed => Undisturbed'
    BY <1>1, <2>2 DEF Undisturbed
  <2>7. QED
    BY <2>5, <2>6
<1>9. QED
  BY <1>1, <1>2, <1>4, <1>5, <1>7, <1>8 DEF NodeInv, Slow

\* An XOFF or XON of the device's own: on an idle line it starts, as nothing waits
\* in the MAC queue; otherwise it waits there, or is dropped.
LEMMA NodeOwnPfc ==
    ASSUME NodeInv, NEW pr \in Prio, OwnPfc(pr)
    PROVE  NodeInv'
<1> DEFINE f == [kind |-> "pfc", prio |-> pr, n |-> 0]
           q == Append(m_queue, f)
<1>1. /\ SendAccepted(f) \/ SendRejected
      /\ nPfcTx' = nPfcTx + 1
      /\ UNCHANGED <<m_txq, txEvent, refillEvent, nPfcRx, accepted>>
      /\ UNCHANGED inVars
  BY DEF OwnPfc, SendPfc, qbbVars
<1>2. f \in Frame
  BY DEF Frame, PfcFrame
<1> HIDE DEF f
<1>3. /\ q \in Seq(Frame) /\ q # <<>> /\ Len(q) = Len(m_queue) + 1
      /\ m_queue = <<>> => Len(m_queue) = 0
  BY <1>2, NodeTypes, LenProperties, AppendProperties, EmptySeq
<1>4. QueuedFrames' = QueuedFrames /\ m_tokens' = m_tokens
  BY <1>1 DEF QueuedFrames, inVars
<1> DEFINE Kept == Undisturbed /\ (Slow => Paced) => Undisturbed' /\ (Slow => Paced')
<1>5. ASSUME SendAccepted(f), READY PROVE Kept
  <2>1. m_queue' = Tail(q) /\ TransmitStart(Head(q))
    BY <1>5 DEF SendAccepted
  <2>2. /\ ~READY' /\ txCompleteIn' \in TxTimes
        /\ Len(m_queue') = Len(m_queue)
    <3> HIDE DEF q
    <3>1. /\ ~READY' /\ txCompleteIn' \in TxTimes
          /\ Len(m_queue') = Len(q) - 1
      BY <1>3, <2>1, LineStarts
    <3>2. QED
      BY <1>3, <3>1, NodeTypes, SMT
  <2>3. NotStarted' = NotStarted
    BY <1>4, <2>2 DEF NotStarted
  <2>4. ASSUME Undisturbed, Slow, Paced PROVE Paced'
    <3>1. txCompleteIn = 0 /\ Len(m_queue) = 0
      BY <1>3, <1>5, <2>4 DEF Undisturbed
    <3>2. Balanced'
      BY <1>1, <1>4, <2>2, <2>3, <2>4, <3>1, BalancedOwnPfc DEF Paced, Balanced
    <3>3. ~ (txEvent > 0)
      <4>1. 0 * Quickest = 0
        BY QuickestTime, TimesDistributes, SMT
      <4>2. txEvent > 0 => txEvent <= 0 + 0
        BY <2>4, <3>1, <4>1 DEF Paced
      <4>3. QED
        BY <4>2, NodeTypes, SMT DEF Expired
    <3>4. QED
      BY <1>1, <3>2, <3>3 DEF Paced, Balanced
  <2>5. Undisturbed => Undisturbed'
    BY <1>1, <2>2 DEF Undisturbed
  <2>6. QED
    BY <2>4, <2>5
<1>6. ASSUME SendAccepted(f), ~READY PROVE Kept
  <2>1. m_queue' = q /\ UNCHANGED <<m_currentPkt, txCompleteIn>>
    BY <1>6 DEF SendAccepted
  <2>2. ~READY'
    BY <1>6, <2>1 DEF READY
  <2>3. Len(m_queue') = Len(m_queue) + 1
    BY <1>3, <2>1
  <2>4. NotStarted' = NotStarted + 1
    BY <1>4, <2>3, NodeTypes, SMT DEF NotStarted
  <2>5. ASSUME Slow, Paced PROVE Paced'
    <3>1. Balanced'
      BY <1>1, <1>4, <2>1, <2>4, <2>5, BalancedOwnPfc DEF Paced, Balanced
    <3>2. txEvent > 0 => txEvent <= txCompleteIn + Len(m_queue') * Quickest
      <4>1. /\ Quickest \in Nat /\ Quickest \in Int /\ 1 \in Int
            /\ Len(m_queue) \in Int /\ txCompleteIn \in Int /\ txEvent \in Int
        BY QuickestTime, NodeTypes, SMT DEF Expired
      <4> DEFINE c == Len(m_queue) * Quickest
      <4>2. c \in Int /\ Len(m_queue') * Quickest = c + Quickest
        <5>1. (Len(m_queue) + 1) * Quickest = Len(m_queue) * Quickest + 1 * Quickest
          BY <4>1, TimesDistributes
        <5>2. 1 * Quickest = Quickest
          BY <4>1, SMT
        <5>3. c \in Int
          BY <4>1, TimesDistributes
        <5>4. QED
          BY <2>3, <5>1, <5>2, <5>3
      <4>3. txEvent > 0 => txEvent <= txCompleteIn + c
        BY <2>5 DEF Paced
      <4> HIDE DEF c
      <4>4. \A e, t, x \in Int, m \in Nat : e <= t + x => e <= t + (x + m)
        BY SMT
      <4>5. QED
        BY <4>1, <4>2, <4>3, <4>4
    <3>3. QED
      BY <1>1, <2>1, <3>1, <3>2 DEF Paced, Balanced
  <2>6. Undisturbed => Undisturbed'
    BY <1>1, <2>2 DEF Undisturbed
  <2>7. QED
    BY <2>5, <2>6
<1>7. ASSUME SendRejected PROVE Kept
  <2>1. UNCHANGED <<m_queue, m_currentPkt, txCompleteIn>>
    BY <1>7 DEF SendRejected, p2pVars
  <2>2. NotStarted' = NotStarted /\ (READY' <=> READY)
    BY <1>4, <2>1 DEF NotStarted, READY
  <2>3. ASSUME Slow, Paced PROVE Paced'
    <3>1. Balanced'
      BY <1>1, <1>4, <2>1, <2>2, <2>3, BalancedOwnPfc DEF Paced, Balanced
    <3>2. QED
      BY <1>1, <2>1, <2>3, <3>1 DEF Paced, Balanced
  <2>4. Undisturbed => Undisturbed'
    BY <1>1, <2>1, <2>2 DEF Undisturbed
  <2>5. QED
    BY <2>3, <2>4
<1>8. [Next]_vars
  BY DEF OwnPfc, Next, Environment
<1>9. QED
  BY <1>1, <1>5, <1>6, <1>7, <1>8, NothingDequeued DEF NodeInv

\* A full MAC queue takes longer to empty than the retry of a refused frame.
LEMMA NodeRetries ==
    ASSUME NodeInv, NEW pr \in Prio, TryDequeueRefused(pr), UNCHANGED inVars
    PROVE  NodeInv'
<1>1. /\ QueueFull /\ txEvent' = TxRetry
      /\ UNCHANGED <<m_queue, m_currentPkt, txCompleteIn, m_txq, refillEvent>>
      /\ UNCHANGED <<nPfcRx, nPfcTx, accepted>>
  BY DEF TryDequeueRefused, SendRejected, p2pVars, envVars
<1>2. QueuedFrames' = QueuedFrames /\ (READY' <=> READY) /\ m_tokens' = m_tokens
  BY <1>1 DEF QueuedFrames, READY, inVars
<1>3. Len(m_queue) = QueueMax
  BY <1>1, NodeTypes, SMT DEF QueueFull
<1>4. Undisturbed => Undisturbed'
  BY <1>1, <1>2 DEF Undisturbed
<1>5. ASSUME Undisturbed, Slow, Paced PROVE Paced'
  <2>1. Quickest \in TxTimes /\ Quickest \in Nat
    BY QuickestTime
  <2>2. Quickest * QueueMax >= TxRetry
    BY <1>5, <2>1 DEF Slow
  <2>3. TxRetry <= txCompleteIn + QueueMax * Quickest
    BY <2>1, <2>2, NodeTypes, SMT
  <2>4. QED
    BY <1>1, <1>2, <1>3, <1>5, <2>3 DEF Paced, NotStarted, Budget
<1>6. [Next]_vars
  BY DEF Next, Simulator
<1>7. QED
  BY <1>1, <1>2, <1>4, <1>5, <1>6, NothingDequeued DEF NodeInv

\* Without a PFC frame no refill is ever pending.
LEMMA NodeRefills ==
    ASSUME NodeInv, NEW pr \in Prio, UNCHANGED inVars,
           ResumeFromPause(pr) \/ RefillMacQueueFromHold(pr)
    PROVE  NodeInv'
<1>1. PICK fn \in {"resume", "refill"} : RefillEventRuns(pr, fn)
  BY DEF ResumeFromPause, RefillMacQueueFromHold
<1>2. /\ refillEvent[pr].fn # "none"
      /\ UNCHANGED <<m_txq, nPfcRx, accepted>>
  BY <1>1 DEF RefillEventRuns, Refill, envVars
<1>3. nPfcRx' # 0
  BY <1>2 DEF NodeInv, Undisturbed
<1>4. [Next]_vars
  BY DEF Next, Simulator
<1>5. QED
  BY <1>2, <1>3, <1>4, NothingDequeued

\* An idle line has nothing to send: a frame that waits has TryDequeue pending,
\* and that is due before the line becomes idle.
LEMMA IdleMeansEmpty ==
    ASSUME NodeInv, Undisturbed, Paced, READY, txEvent # 0
    PROVE  NotStarted = 0 /\ txEvent = Expired
<1>1. m_queue = <<>> /\ txCompleteIn = 0 /\ Len(m_queue) = 0
  BY EmptySeq DEF Undisturbed
<1>2. ~ (txEvent > 0)
  <2>1. 0 * Quickest = 0
    BY QuickestTime, TimesDistributes, SMT
  <2>2. txEvent > 0 => txEvent <= 0 + 0
    BY <1>1, <2>1 DEF Paced
  <2>3. QED
    BY <2>2, NodeTypes, SMT DEF Expired
<1>3. txEvent = Expired
  BY <1>2, NodeTypes, SMT DEF Expired
<1>4. \A pr \in Prio : m_txq[pr] = <<>>
  BY <1>3, NodeTypes DEF Undisturbed, IInv, NoLostWakeup
<1>5. QueuedFrames = {}
  BY <1>4, EmptySeq, ElemsEmpty DEF QueuedFrames
<1>6. Cardinality(QueuedFrames) = 0
  BY <1>5, FS_EmptySet
<1>7. QED
  BY <1>1, <1>3, <1>6, SMT DEF NotStarted

\* Time passes: the bucket fills and the line's work shrinks, both by one unit.
LEMMA NodeTimePasses ==
    ASSUME NodeInv, TimePasses
    PROVE  NodeInv'
<1>1. /\ ~SomethingDue /\ txEvent' = Down(txEvent) /\ txCompleteIn' = Down(txCompleteIn)
      /\ refillEvent' = [pr \in Prio |->
           [fn |-> refillEvent[pr].fn, left |-> Down(refillEvent[pr].left)]]
      /\ UNCHANGED <<m_queue, m_currentPkt, m_txq, nPfcRx, nPfcTx, accepted>>
  BY DEF TimePasses, Tick, envVars
<1>2. txEvent # 0 /\ (~READY => txCompleteIn # 0)
  BY <1>1 DEF SomethingDue
<1>3. PInv'
  BY NextPromised DEF NodeInv, TimePasses, Next, Simulator
<1>4. /\ m_tokens' = [e \in {OutPort} |-> In!AtMost(m_tokens[e] + Rate, Capacity)]
      /\ m_tokens'[OutPort] = In!AtMost(m_tokens[OutPort] + Rate, Capacity)
  BY SwitchAssumption DEF TimePasses, In!Tick
<1>5. /\ m_tokens'[OutPort] \in 0 .. Capacity
      /\ m_tokens'[OutPort] \in Nat /\ m_tokens'[OutPort] <= m_tokens[OutPort] + Rate
      /\ m_tokens'[OutPort] <= Capacity
  BY <1>4, NodeTypes, SMT DEF In!AtMost
<1>6. TokensOK'
  BY <1>4, <1>5 DEF TokensOK
<1>7. QueuedFrames' = QueuedFrames /\ (READY' <=> READY) /\ NotStarted' = NotStarted
  BY <1>1 DEF QueuedFrames, READY, NotStarted
<1>8. txCompleteIn = 0 => txCompleteIn' = 0
  BY <1>1 DEF Down
<1>9. Undisturbed => Undisturbed'
  BY <1>1, <1>7, <1>8 DEF Undisturbed
<1>10. ASSUME Undisturbed, Slow, Paced PROVE Paced'
  <2>1. CASE READY
    <3>1. NotStarted = 0 /\ txEvent = Expired
      BY <1>2, <1>10, <2>1, IdleMeansEmpty
    <3>2. txCompleteIn' = 0
      BY <1>8, <1>10, <2>1 DEF Undisturbed
    <3>3. Balanced'
      BY <1>1, <1>5, <1>7, <3>1, <3>2, BalancedTick
    <3>4. ~ (txEvent' > 0)
      BY <1>1, <3>1, SMT DEF Down, Expired
    <3>5. QED
      BY <3>3, <3>4 DEF Paced, Balanced
  <2>2. CASE ~READY
    <3>1. txCompleteIn > 0 /\ txCompleteIn' = txCompleteIn - 1
      BY <1>1, <1>2, <2>2, NodeTypes, SMT DEF Down
    <3>2. Balanced'
      BY <1>1, <1>5, <1>7, <1>10, <3>1, BalancedTick DEF Paced, Balanced
    <3>3. txEvent' > 0 => txEvent > 0 /\ txEvent' = txEvent - 1 /\ txEvent \in Int
      BY <1>1, NodeTypes, SMT DEF Down, Expired
    <3> DEFINE c == Len(m_queue) * Quickest
    <3>4. c \in Int /\ txCompleteIn \in Int
      BY QuickestTime, NodeTypes, TimesDistributes, SMT
    <3>5. txEvent > 0 => txEvent <= txCompleteIn + c
      BY <1>10 DEF Paced
    <3>6. Len(m_queue') * Quickest = c
      BY <1>1
    <3> HIDE DEF c
    <3>7. \A e, t, x \in Int : e <= t + x => e - 1 <= t - 1 + x
      BY SMT
    <3>8. txEvent' > 0 => txEvent' <= txCompleteIn' + Len(m_queue') * Quickest
      BY <3>1, <3>3, <3>4, <3>5, <3>6, <3>7
    <3>9. QED
      BY <3>2, <3>8 DEF Paced, Balanced
  <2>3. QED
    BY <2>1, <2>2
<1>11. QED
  BY <1>1, <1>3, <1>6, <1>7, <1>9, <1>10 DEF NodeInv, Slow

------------------------------------------------------------------------------
LEMMA NodeInitSafe == NodeInit => NodeInv
<1> SUFFICES ASSUME NodeInit PROVE NodeInv
  OBVIOUS
<1>1. PInv
  BY InitPromise DEF NodeInit
<1>2. /\ m_queue = <<>> /\ m_currentPkt = NoPkt /\ txCompleteIn = 0 /\ txEvent = Expired
      /\ \A pr \in Prio : refillEvent[pr] = Idle
      /\ QueuedFrames = {} /\ nPfcTx = 0
  BY DEF NodeInit, Init, P2PInit, QueuedFrames
<1>3. m_tokens = [e \in {OutPort} |-> Capacity]
  BY SwitchAssumption DEF NodeInit, In!Init, In!ManagerInit
<1>4. TokensOK
  <2>1. Capacity \in 0 .. Capacity
    BY SwitchAssumption, SMT
  <2>2. QED
    BY <1>3, <2>1 DEF TokensOK
<1>5. IsFiniteSet(QueuedFrames) /\ Cardinality(QueuedFrames) = 0
  BY <1>2, FS_EmptySet
<1>6. NotStarted = 0
  BY <1>2, <1>5, EmptySeq, SMT DEF NotStarted
<1>7. Undisturbed
  BY <1>2 DEF Undisturbed, Idle
<1>8. Paced
  <2>1. /\ NotStarted * Cost = 0 /\ txCompleteIn * Rate = 0 /\ m_tokens[OutPort] = Capacity
    BY <1>2, <1>3, <1>6, SwitchAssumption, TimesDistributes, SMT
  <2>2. ~ (txEvent > 0)
    BY <1>2, SMT DEF Expired
  <2>3. Capacity + 0 + 0 <= Capacity + 0
    BY SwitchAssumption, SMT
  <2>4. nPfcTx * Cost = 0
    <3>1. \A k \in Nat : 0 * k = 0
      BY SMT
    <3>2. QED
      BY <1>2, <3>1, SwitchAssumption
  <2>5. QED
    BY <2>1, <2>2, <2>3, <2>4 DEF Paced, Budget
<1>9. QED
  BY <1>1, <1>4, <1>5, <1>7, <1>8 DEF NodeInv

LEMMA NodeNextSafe == NodeInv /\ [NodeNext]_nodeVars => NodeInv'
<1> SUFFICES ASSUME NodeInv, [NodeNext]_nodeVars PROVE NodeInv'
  OBVIOUS
<1>1. CASE UNCHANGED nodeVars
  BY <1>1, NodeKeeps DEF nodeVars, inVars, NodeInv, TokensOK
<1>2. CASE \E d \in Ingress, pr \in Prio, route \in Routes : Arrives(d, pr, route)
  BY <1>2, NodeArrives
<1>3. CASE \E pr \in Prio : PeerSpeaks(pr) \/ OwnPfc(pr)
  BY <1>3, NodeDisturbed, NodeOwnPfc
<1>4. CASE \E d \in Ingress : Keeps(d) \/ \E pr \in Prio : Forwards(d, pr)
  BY <1>4, NodeRefuses, NodeForwards
<1>5. CASE Transmits
  BY <1>5, NodeIdles, NodeCompletes, NodeDequeues, NodeRetries, NodeRefills DEF Transmits
<1>6. CASE TimePasses
  BY <1>6, NodeTimePasses
<1>7. QED
  BY <1>1, <1>2, <1>3, <1>4, <1>5, <1>6 DEF NodeNext, EventLoop

\* The whole invariant: what QbbTransmit guarantees of its device holds in the
\* node too, the tokens stay within the bucket, and the account balances.
THEOREM NodeSafety == NodeSpec => []NodeInv
<1>1. NodeInit => NodeInv
  BY NodeInitSafe
<1>2. NodeInv /\ [NodeNext]_nodeVars => NodeInv'
  BY NodeNextSafe
<1>3. QED
  BY <1>1, <1>2, PTL DEF NodeSpec

\* The egress device never holds more than a full bucket of packets, the one on the
\* line and its own XOFF and XON frames (see BacklogBounded for when).
THEOREM BacklogIsBounded == NodeSpec => []BacklogBounded
<1>1. ASSUME NodeInv PROVE BacklogBounded
  <2>1. SUFFICES ASSUME nPfcRx = 0, Slow
                  PROVE  Backlog <= Capacity \div Cost + 1 + nPfcTx
    BY DEF BacklogBounded, Slow
  <2>2. Paced
    BY <1>1, <2>1 DEF NodeInv
  <2> DEFINE a == NotStarted * Cost
             b == txCompleteIn * Rate
  <2>3. a \in Int /\ b \in Int /\ b >= 0
    BY <1>1, Account, NodeTypes, SMT
  <2>4. m_tokens[OutPort] \in Nat /\ m_tokens[OutPort] + a + b <= Budget
    BY <1>1, <2>2, NodeTypes DEF Paced
  <2>5. NotStarted * Cost <= Budget
    <3> HIDE DEF b
    <3>1. a <= Budget
      <4>1. Budget \in Nat
        BY <1>1, Account
      <4> HIDE DEF a
      <4>2. QED
        BY <2>3, <2>4, <4>1, SMT
    <3>2. QED
      BY <3>1
  <2>6. NotStarted \in Nat /\ Capacity \div Cost \in Nat
    <3>1. \A c \in Nat, k \in Nat \ {0} : c \div k \in Nat
      BY SMT
    <3>2. QED
      BY <1>1, <3>1, NodeTypes
  <2>7. NotStarted <= Capacity \div Cost + nPfcTx
    <3>1. CASE NotStarted <= nPfcTx
      BY <1>1, <2>6, <3>1, NodeTypes, SMT
    <3>2. CASE NotStarted > nPfcTx
      <4> DEFINE n == NotStarted - nPfcTx
      <4>1. n \in Nat /\ NotStarted = n + nPfcTx
        BY <1>1, <3>2, NodeTypes, SMT
      <4>2. n * Cost <= Capacity
        <5>1. /\ NotStarted * Cost = n * Cost + nPfcTx * Cost
              /\ n * Cost \in Int /\ nPfcTx * Cost \in Int
          <6>1. n \in Int /\ nPfcTx \in Int /\ Cost \in Int
            BY <1>1, <4>1, NodeTypes, SMT
          <6> HIDE DEF n
          <6>2. QED
            BY <4>1, <6>1, TimesDistributes
        <5>2. \A x, y \in Int, c \in Nat : x + y <= c + y => x <= c
          BY SMT
        <5>3. QED
          BY <1>1, <2>5, <5>1, <5>2, NodeTypes DEF Budget
      <4>3. n <= Capacity \div Cost
        <5>1. \A m, c \in Nat, k \in Nat \ {0} : m * k <= c => m <= c \div k
          BY SMT
        <5> HIDE DEF n
        <5>2. QED
          BY <1>1, <4>1, <4>2, <5>1, NodeTypes
      <4> HIDE DEF n
      <4>4. QED
        BY <1>1, <2>6, <4>1, <4>3, NodeTypes, SMT
    <3>3. QED
      BY <1>1, <3>1, <3>2, NodeTypes, SMT
  <2>8. Backlog <= NotStarted + 1
    BY <1>1, NodeTypes, SMT DEF Backlog, NotStarted
  <2>9. Backlog \in Nat
    BY <1>1, NodeTypes, SMT DEF Backlog
  <2>10. QED
    BY <1>1, <2>6, <2>7, <2>8, <2>9, NodeTypes, SMT
<1>2. QED
  BY <1>1, NodeSafety, PTL

------------------------------------------------------------------------------
\* The node behaves towards each of its halves as that half's own module says, so
\* what is proved of QbbTransmit and of IngressDrain holds in the node.

\* The egress device is a QbbTransmit whose Send the ingress side calls and whose
\* peer sends the PFC frames.
THEOREM EgressDeviceInNode == NodeSpec => Spec
<1>1. NodeInit => Init
  BY DEF NodeInit
<1>2. [NodeNext]_nodeVars => [Next]_vars
  <2> SUFFICES ASSUME [NodeNext]_nodeVars PROVE [Next]_vars
    OBVIOUS
  <2>1. CASE UNCHANGED nodeVars
    BY <2>1 DEF nodeVars
  <2>2. CASE \E d \in Ingress, pr \in Prio, route \in Routes : Arrives(d, pr, route)
    BY <2>2 DEF Arrives
  <2>3. CASE \E pr \in Prio : PeerSpeaks(pr) \/ OwnPfc(pr)
    BY <2>3 DEF PeerSpeaks, OwnPfc, Next, Environment
  <2>4. CASE \E d \in Ingress : Keeps(d) \/ \E pr \in Prio : Forwards(d, pr)
    BY <2>4 DEF Keeps, Forwards, Next, Environment
  <2>5. CASE Transmits
    BY <2>5 DEF Transmits, Next, Simulator
  <2>6. CASE TimePasses
    BY <2>6 DEF TimePasses, Next, Simulator
  <2>7. QED
    BY <2>1, <2>2, <2>3, <2>4, <2>5, <2>6 DEF NodeNext, EventLoop
<1>3. QED
  BY <1>1, <1>2, PTL DEF NodeSpec, Spec

\* The receive halves and the token manager are an IngressDrain: Send and the
\* transmitter never touch their state.
THEOREM IngressSideInNode == NodeSpec => In!Spec
<1>1. NodeInit => In!Init
  BY DEF NodeInit
<1>2. [NodeNext]_nodeVars => [In!Next]_(In!vars)
  <2> SUFFICES ASSUME [NodeNext]_nodeVars PROVE [In!Next]_(In!vars)
    OBVIOUS
  <2>1. inVars' = inVars => UNCHANGED In!vars
    BY DEF inVars, In!vars, In!deviceVars, In!managerVars
  <2>2. In!Prio = Prio /\ OutPort \in Egress
    BY SwitchAssumption, IngressAssumption DEF In!Prio, Prio
  <2>3. CASE UNCHANGED nodeVars
    BY <2>1, <2>3 DEF nodeVars
  <2>4. CASE \E d \in Ingress, pr \in Prio, route \in Routes : Arrives(d, pr, route)
    BY <2>2, <2>4 DEF Arrives, In!Next
  <2>5. CASE \E pr \in Prio : PeerSpeaks(pr) \/ OwnPfc(pr)
    BY <2>1, <2>5 DEF PeerSpeaks, OwnPfc
  <2>6. CASE \E d \in Ingress : Keeps(d) \/ \E pr \in Prio : Forwards(d, pr)
    BY <2>2, <2>6 DEF Keeps, Forwards, In!Next, In!Simulator, In!DoIngressDrain
  <2>7. CASE Transmits
    BY <2>1, <2>7 DEF Transmits
  <2>8. CASE TimePasses
    BY <2>8 DEF TimePasses, In!Next, In!Simulator
  <2>9. QED
    BY <2>3, <2>4, <2>5, <2>6, <2>7, <2>8 DEF NodeNext, EventLoop
<1>3. QED
  BY <1>1, <1>2, PTL DEF NodeSpec, In!Spec

InP == INSTANCE IngressDrainProofs WITH MaxRx <- MaxSends

\* The two instances are of the same module.
LEMMA SameModule ==
    /\ In!Init <=> InP!Init
    /\ In!Next <=> InP!Next
    /\ In!vars = InP!vars
    /\ In!BoundedBypass <=> InP!BoundedBypass
<1>1. In!Prio = InP!Prio
  BY DEF In!Prio, InP!Prio
<1>2. In!Init <=> InP!Init
  BY DEF In!Init, In!ManagerInit, In!PerClass, In!Prio, In!Expired, InP!Init,
         InP!ManagerInit, InP!PerClass, InP!Prio, InP!Expired
<1>3. In!vars = InP!vars
  BY DEF In!vars, In!deviceVars, In!managerVars, InP!vars, InP!deviceVars,
         InP!managerVars
<1>4. In!BoundedBypass <=> InP!BoundedBypass
  BY DEF In!BoundedBypass, In!Cardinality, InP!BoundedBypass, InP!Cardinality
<1>5. ASSUME NEW d, NEW pr, NEW route
      PROVE  In!HandleMacRx(d, pr, route) <=> InP!HandleMacRx(d, pr, route)
  BY DEF In!HandleMacRx, In!OnDataRx, In!SendsXoff, In!OneIf, In!Woken, In!Expired,
         In!managerVars, InP!HandleMacRx, InP!OnDataRx, InP!SendsXoff, InP!OneIf,
         InP!Woken, InP!Expired, InP!managerVars
<1>6. ASSUME NEW d PROVE In!DrainIdle(d) <=> InP!DrainIdle(d)
  BY DEF In!DrainIdle, In!Prio, In!Expired, In!managerVars, InP!DrainIdle, InP!Prio,
         InP!Expired, InP!managerVars
<1>7. ASSUME NEW d, NEW pr
      PROVE  In!PopFront(d, pr) <=> InP!PopFront(d, pr)
  BY DEF In!PopFront, In!OccupancyAfterPop, In!OneIf, InP!PopFront,
         InP!OccupancyAfterPop, InP!OneIf
<1>8. ASSUME NEW d, NEW pr
      PROVE  In!Picks(d, pr) <=> InP!Picks(d, pr)
  BY DEF In!Picks, In!Prio, InP!Picks, InP!Prio
<1>9. ASSUME NEW e, NEW d
      PROVE  In!MyTurn(e, d) <=> InP!MyTurn(e, d)
  BY DEF In!MyTurn, In!Contended, In!WithDemand, In!SelectNextIngress, In!Least,
         In!Cardinality, InP!MyTurn, InP!Contended, InP!WithDemand,
         InP!SelectNextIngress, InP!Least, InP!Cardinality
<1>10. ASSUME NEW e, NEW d
       PROVE  In!Contended(e, d) <=> InP!Contended(e, d)
  BY DEF In!Contended, In!WithDemand, In!Cardinality, InP!Contended, InP!WithDemand,
         InP!Cardinality
<1>11. ASSUME NEW d, NEW pr
       PROVE  In!DrainLocal(d, pr) <=> InP!DrainLocal(d, pr)
  BY <1>7, <1>8 DEF In!DrainLocal, In!NoEgressPort, In!managerVars, InP!DrainLocal,
         InP!NoEgressPort, InP!managerVars
<1>12. ASSUME NEW d, NEW pr, NEW e
       PROVE  In!DrainGranted(d, pr, e) <=> InP!DrainGranted(d, pr, e)
  BY <1>7, <1>8, <1>9, <1>10 DEF In!DrainGranted, In!EgressPort, In!HasToken,
         In!Remaining, In!WithDemand, In!CountPassedOver, InP!DrainGranted,
         InP!EgressPort, InP!HasToken, InP!Remaining, InP!WithDemand,
         InP!CountPassedOver
<1>13. ASSUME NEW d, NEW pr, NEW e
       PROVE  In!DrainRefused(d, pr, e) <=> InP!DrainRefused(d, pr, e)
  BY <1>8, <1>9 DEF In!DrainRefused, In!EgressPort, In!HasToken, In!WithDemand,
         In!Refund, In!AtMost, InP!DrainRefused, InP!EgressPort, InP!HasToken,
         InP!WithDemand, InP!Refund, InP!AtMost
<1>14. ASSUME NEW d PROVE In!DoIngressDrain(d) <=> InP!DoIngressDrain(d)
  BY <1>1, <1>6, <1>11, <1>12, <1>13 DEF In!DoIngressDrain, InP!DoIngressDrain
<1>15. In!Tick <=> InP!Tick
  BY DEF In!Tick, In!Down, In!AtMost, InP!Tick, InP!Down, InP!AtMost
<1>16. In!Next <=> InP!Next
  BY <1>1, <1>5, <1>14, <1>15 DEF In!Next, InP!Next, In!Simulator, InP!Simulator
<1>17. QED
  BY <1>2, <1>3, <1>4, <1>16

\* The round robin of IngressDrain, in the node.
THEOREM RoundRobinInNode == NodeSpec => []BoundedBypass
<1>1. InP!Spec => []InP!BoundedBypass
  BY InP!BypassIsBounded, SwitchAssumption, IngressAssumption, BoundAssumption,
     NPrioAssumption DEF IsFiniteSet, InP!IsFiniteSet
<1>2. In!Init => InP!Init
  BY SameModule
<1>3. [In!Next]_(In!vars) => [InP!Next]_(InP!vars)
  BY SameModule DEF In!vars, In!deviceVars, In!managerVars, InP!vars, InP!deviceVars,
                    InP!managerVars
<1>4. InP!BoundedBypass => BoundedBypass
  BY SameModule DEF BoundedBypass
<1>5. QED
  BY <1>1, <1>2, <1>3, <1>4, IngressSideInNode, PTL DEF In!Spec, InP!Spec
==============================================================================
