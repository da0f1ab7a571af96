---------------------------- MODULE PfcLinkProofs ----------------------------
(***************************************************************************)
(* The headroom and the agreement of the two ends of a link, for any       *)
(* number of classes and any delays, transmission times and watermarks.    *)
(*                                                                         *)
(* The argument is about time.  The line carries one frame at a time, so   *)
(* frames arrive at least a shortest transmission time apart (Spaced); the *)
(* last XOFF is taken at most Late after it was sent (BackOK).  Hence, from *)
(* the moment the high watermark is reached, a number of frames that the   *)
(* two delays determine can arrive: those under way and those the line can *)
(* still start (BudgetOf).                                                 *)
(***************************************************************************)
EXTENDS PfcLink, QbbTransmitProofs, FiniteSetTheorems

Late == Max(ReverseTimes)
Shortest == Min(TxTimes)
Bound == PfcHighPkts + Headroom

Occupancy(pr) == Len(m_ingressQ[Port][pr])
Congested(pr) == m_localCongested[Port][pr]

\* The receive half: a queue per class, its counter and the two watermarks.
PeerOK ==
    /\ m_ingressQ \in [{Port} -> [Prio -> Seq({{2}})]]
    /\ m_rxOccPkts \in [{Port} -> [Prio -> Nat]]
    /\ m_localCongested \in [{Port} -> [Prio -> BOOLEAN]]
    /\ m_pfcTxXoff \in [{Port} -> [Prio -> Nat]]
    /\ m_pfcTxXon \in [{Port} -> [Prio -> Nat]]
    /\ \A pr \in Prio :
         /\ m_rxOccPkts[Port][pr] = Occupancy(pr)
         /\ Occupancy(pr) >= PfcHighPkts => Congested(pr)
         /\ Occupancy(pr) <= PfcLowPkts => ~Congested(pr)

\* Frames under way arrive one after the other.
Leg == [frame : DataFrame, left : Nat]
Spaced ==
    \A i, j \in 1 .. Len(toPeer) : i < j =>
        toPeer[i].left + (j - i) * Shortest <= toPeer[j].left

\* All of them but the last have left the line, and so perhaps has the last.
OffTheLine ==
    \A i \in 1 .. Len(toPeer) :
        toPeer[i].left <= Delay + (IF i = Len(toPeer) THEN txCompleteIn ELSE 0)

\* The line carries data frames only and is idle when nothing is on it.
LineKept == Elems(m_queue) \subseteq DataFrame /\ (READY => txCompleteIn = 0)

LineOK ==
    /\ LineKept
    /\ toPeer \in Seq(Leg) /\ Spaced /\ OffTheLine

\* PFC frames arrive in the order they were sent, and none later than Late.
Word == [prio : Prio, n : {0, Pause}, left : 0 .. Late]
BackOK ==
    /\ fromPeer \in Seq(Word)
    /\ \A i, j \in 1 .. Len(fromPeer) : i < j => fromPeer[i].left <= fromPeer[j].left

\* The last PFC frame of a class on its way, as a set of at most one.
LastPlace(pr) ==
    {i \in 1 .. Len(fromPeer) :
        /\ fromPeer[i].prio = pr
        /\ \A j \in 1 .. Len(fromPeer) : j > i => fromPeer[j].prio # pr}
LastWord(pr) == {fromPeer[i] : i \in LastPlace(pr)}

\* It says what the peer means; when there is none, so does m_paused.
AgreedOn(pr) ==
    /\ \A x \in LastWord(pr) : x.n # 0 <=> Congested(pr)
    /\ LastWord(pr) = {} => (m_paused[pr] <=> Congested(pr))

\* Frames of a class on their way, those due now, and how many more there may be.
Coming(pr) == {i \in 1 .. Len(toPeer) : toPeer[i].frame.prio = pr}
DueNow(pr) == {i \in Coming(pr) : toPeer[i].left = 0}
Room(pr) == Bound - Occupancy(pr) - Cardinality(Coming(pr))

\* Once a class is congested: until its XOFF is taken there is room for every
\* frame the line can still start; then for those on their way.  When a pause
\* has run out, ResumeFromPause is due before any frame started now arrives.
BudgetOf(pr) ==
    /\ \A x \in LastWord(pr) :
         /\ Room(pr) >= 0
         /\ x.left >= txCompleteIn =>
              x.left - txCompleteIn < Room(pr) * Shortest
    /\ LastWord(pr) = {} =>
         IF pauseLeft[pr] > 0 THEN Room(pr) >= 0
         ELSE Occupancy(pr) + Cardinality(DueNow(pr)) <= Bound

ClassOK(pr) == AgreedOn(pr) /\ (Congested(pr) => BudgetOf(pr))
ClassesOK == ~unprotected => \A pr \in Prio : ClassOK(pr)

LinkInv == IInv /\ PeerOK /\ LineOK /\ BackOK /\ ClassesOK

------------------------------------------------------------------------------
\* Numbers.

\* A finite set of natural numbers that is not empty has a largest element.
LEMMA LargestOf ==
    ASSUME NEW S, S \subseteq Nat, S # {}, IsFiniteSet(S)
    PROVE  Max(S) \in S /\ \A y \in S : y <= Max(S)
<1>1. PICK n \in Nat : ExistsBijection(1 .. n, S)
  BY FS_NatBijection
<1>2. PICK f \in Bijection(1 .. n, S) : TRUE
  BY <1>1 DEF ExistsBijection
<1>3. /\ \A i \in 1 .. n : f[i] \in S
      /\ \A y \in S : \E i \in 1 .. n : f[i] = y
  BY <1>2 DEF Bijection, Injection, Surjection
<1> DEFINE G == {k \in 0 .. n : k = 0 \/ \E x \in S : \A i \in 1 .. k : f[i] <= x}
<1>4. 0 \in G
  BY SMT
<1>5. ASSUME NEW k \in 0 .. n, k + 1 <= n, k \in G PROVE k + 1 \in G
  <2>1. /\ k + 1 \in 0 .. n /\ k + 1 \in 1 .. n /\ k \in Nat
        /\ \A i \in 1 .. k : i \in 1 .. n
    BY <1>5, SMT
  <2>2. f[k + 1] \in S
    BY <1>3, <2>1
  <2>3. CASE k = 0
    <3>1. \A i \in 1 .. k + 1 : f[i] <= f[k + 1]
      <4>1. \A i \in 1 .. k + 1 : i = k + 1
        BY <2>3, SMT
      <4>2. \A y \in Nat : y <= y
        BY SMT
      <4>3. QED
        BY <2>2, <4>1, <4>2
    <3>2. QED
      BY <2>1, <2>2, <3>1
  <2>4. CASE k # 0
    <3>1. PICK x \in S : \A i \in 1 .. k : f[i] <= x
      BY <1>5, <2>4
    <3>2. x \in Nat /\ f[k + 1] \in Nat
      BY <2>2
    <3>3. \A i \in 1 .. k + 1 : i \in 1 .. k \/ i = k + 1
      BY <2>1, SMT
    <3>4. \A i \in 1 .. k : f[i] \in Nat
      BY <1>3, <2>1
    <3>5. CASE f[k + 1] <= x
      <4>1. \A i \in 1 .. k + 1 : f[i] <= x
        BY <3>1, <3>3, <3>5
      <4>2. QED
        BY <2>1, <4>1
    <3>6. CASE ~(f[k + 1] <= x)
      <4>1. \A i \in 1 .. k + 1 : f[i] <= f[k + 1]
        BY <3>1, <3>2, <3>3, <3>4, <3>6, SMT
      <4>2. QED
        BY <2>1, <2>2, <4>1
    <3>7. QED
      BY <3>5, <3>6
  <2>5. QED
    BY <2>3, <2>4
<1>6. n \in G
  <2>1. \A i \in 0 .. n : i \in G
    <3> HIDE DEF G
    <3>1. QED
      BY <1>4, <1>5, InductionUpTo
  <2>2. n \in 0 .. n
    BY SMT
  <2>3. QED
    BY <2>1, <2>2
<1>7. n # 0
  <2>1. \E i \in 1 .. n : TRUE
    BY <1>3
  <2>2. QED
    BY <2>1, SMT
<1>8. PICK x \in S : \A i \in 1 .. n : f[i] <= x
  BY <1>6, <1>7
<1>9. \A y \in S : x >= y
  BY <1>3, <1>8, SMT
<1>10. Max(S) \in S /\ \A y \in S : Max(S) >= y
  BY <1>9 DEF Max
<1>11. QED
  BY <1>10, SMT

LEMMA SmallestOf ==
    ASSUME NEW S, S \subseteq Nat, S # {}
    PROVE  Min(S) \in S /\ \A y \in S : Min(S) <= y
<1>1. \E x \in S : \A y \in S : x <= y
  BY NatMinimum
<1>2. QED
  BY <1>1 DEF Min

\* The delays, and what the headroom is: the time from an XOFF to the last frame
\* it does not stop, in shortest transmission times, and one more.
LEMMA Delays ==
    /\ Late \in Nat /\ \A r \in ReverseTimes : r \in 0 .. Late
    /\ Shortest \in Nat \ {0} /\ \A t \in TxTimes : t \in Nat /\ Shortest <= t
    /\ Delay \in Nat
    /\ Headroom \in Nat \ {0}
    /\ Late + Delay < Headroom * Shortest
    /\ Pause \in Nat \ {0} /\ Pause \in PauseTimes
    /\ PfcHighPkts \in Nat /\ PfcLowPkts \in Nat /\ PfcLowPkts < PfcHighPkts
    /\ Bound \in Nat
<1>1. Late \in ReverseTimes /\ \A r \in ReverseTimes : r <= Late
  BY LinkAssumption, LargestOf DEF Late
<1>2. Shortest \in TxTimes /\ \A t \in TxTimes : Shortest <= t
  BY LinkAssumption, TxTimesAssumption, SmallestOf DEF Shortest
<1>3. /\ Late \in Nat /\ \A r \in ReverseTimes : r \in 0 .. Late
      /\ Shortest \in Nat \ {0} /\ \A t \in TxTimes : t \in Nat /\ Shortest <= t
      /\ Delay \in Nat
  BY <1>1, <1>2, LinkAssumption, TxTimesAssumption, SMT
<1> DEFINE q == (Late + Delay) \div Shortest
<1>4. q \in Nat /\ Late + Delay < (q + 1) * Shortest
  BY <1>3, SMT
<1>5. Headroom = 1 + q
  BY DEF Headroom, Late, Shortest
<1>6. Headroom \in Nat \ {0} /\ Late + Delay < Headroom * Shortest
  <2> HIDE DEF q
  <2>1. QED
    BY <1>4, <1>5, SMT
<1>7. /\ Pause \in Nat \ {0} /\ Pause \in PauseTimes
      /\ PfcHighPkts \in Nat /\ PfcLowPkts \in Nat /\ PfcLowPkts < PfcHighPkts
  BY LinkAssumption, PauseTimesAssumption
<1>8. Bound \in Nat
  BY <1>6, <1>7, SMT DEF Bound
<1>9. QED
  BY <1>3, <1>6, <1>7, <1>8

------------------------------------------------------------------------------
\* What a step of the receive half does to a class, and what it answers.

\* Peer's view of the classes is the device's.
LEMMA SamePrio == Peer!Prio = Prio
BY DEF Peer!Prio, Prio

\* A frame is queued.  An XOFF is sent at the high watermark, once.
LEMMA PeerTakes ==
    ASSUME PeerOK, NEW pr \in Prio, Peer!HandleMacRx(Port, pr, {2})
    PROVE  /\ PeerOK'
           /\ Occupancy(pr) \in Nat /\ Occupancy(pr)' = Occupancy(pr) + 1
           /\ \A p \in Prio : p # pr =>
                Occupancy(p)' = Occupancy(p) /\ (Congested(p)' <=> Congested(p))
           /\ \/ Answers(pr) = <<>> /\ (Congested(pr)' <=> Congested(pr))
              \/ /\ Answers(pr) = <<Pause>>
                 /\ ~Congested(pr) /\ Congested(pr)'
                 /\ Occupancy(pr)' = PfcHighPkts
<1> DEFINE occ == m_rxOccPkts[Port][pr] + 1
           xoff == ~m_localCongested[Port][pr] /\ occ >= PfcHighPkts
           cong == m_localCongested[Port][pr] \/ xoff
           xon == cong /\ occ <= PfcLowPkts
<1>1. /\ m_ingressQ' = [m_ingressQ EXCEPT ![Port][pr] = Append(@, {2})]
      /\ m_rxOccPkts' = [m_rxOccPkts EXCEPT ![Port][pr] = occ]
      /\ m_localCongested' = [m_localCongested EXCEPT ![Port][pr] = cong /\ ~xon]
      /\ m_pfcTxXoff' = [m_pfcTxXoff EXCEPT ![Port][pr] = @ + (IF xoff THEN 1 ELSE 0)]
      /\ m_pfcTxXon' = [m_pfcTxXon EXCEPT ![Port][pr] = @ + (IF xon THEN 1 ELSE 0)]
  BY DEF Peer!HandleMacRx, Peer!OnDataRx, Peer!SendsXoff, Peer!OneIf
<1>2. /\ m_ingressQ \in [{Port} -> [Prio -> Seq({{2}})]]
      /\ m_rxOccPkts[Port][pr] \in Nat
      /\ m_pfcTxXoff[Port][pr] \in Nat /\ m_pfcTxXon[Port][pr] \in Nat
      /\ m_rxOccPkts[Port][pr] = Len(m_ingressQ[Port][pr])
      /\ Len(m_ingressQ[Port][pr]) >= PfcHighPkts => m_localCongested[Port][pr]
      /\ Len(m_ingressQ[Port][pr]) <= PfcLowPkts => ~m_localCongested[Port][pr]
      /\ m_localCongested[Port][pr] \in BOOLEAN
  BY DEF PeerOK, Occupancy, Congested
<1>3. /\ Append(m_ingressQ[Port][pr], {2}) \in Seq({{2}})
      /\ Len(Append(m_ingressQ[Port][pr], {2})) = Len(m_ingressQ[Port][pr]) + 1
      /\ Len(m_ingressQ[Port][pr]) \in Nat
  <2>1. m_ingressQ[Port][pr] \in Seq({{2}})
    BY <1>2
  <2>2. QED
    BY <2>1, ElemsAppend, ElemsInSet
<1>4. PfcHighPkts \in Nat /\ PfcLowPkts \in Nat /\ PfcLowPkts < PfcHighPkts
  BY Delays
<1>5. /\ occ \in Nat /\ occ = Len(m_ingressQ[Port][pr]) + 1
      /\ ~xon
      /\ xoff => occ = PfcHighPkts
      /\ occ >= PfcHighPkts => cong
      /\ occ <= PfcLowPkts => ~cong
      /\ xoff \in BOOLEAN /\ cong \in BOOLEAN
      /\ cong <=> xoff \/ m_localCongested[Port][pr]
      /\ xoff => ~m_localCongested[Port][pr]
  BY <1>2, <1>3, <1>4, SMT
<1> HIDE DEF occ, xoff, cong, xon
<1>6. /\ m_localCongested' = [m_localCongested EXCEPT ![Port][pr] = cong]
      /\ m_pfcTxXoff' = [m_pfcTxXoff EXCEPT ![Port][pr] = @ + (IF xoff THEN 1 ELSE 0)]
      /\ m_pfcTxXon' = [m_pfcTxXon EXCEPT ![Port][pr] = @ + 0]
  BY <1>1, <1>5
<1>7. /\ m_ingressQ'[Port][pr] = Append(m_ingressQ[Port][pr], {2})
      /\ m_rxOccPkts'[Port][pr] = occ
      /\ m_localCongested'[Port][pr] = cong
      /\ m_pfcTxXoff'[Port][pr] = m_pfcTxXoff[Port][pr] + (IF xoff THEN 1 ELSE 0)
      /\ m_pfcTxXon'[Port][pr] = m_pfcTxXon[Port][pr] + 0
      /\ \A p \in Prio : p # pr =>
           /\ m_ingressQ'[Port][p] = m_ingressQ[Port][p]
           /\ m_rxOccPkts'[Port][p] = m_rxOccPkts[Port][p]
           /\ m_localCongested'[Port][p] = m_localCongested[Port][p]
  BY <1>1, <1>6 DEF PeerOK
<1>8. /\ m_ingressQ' \in [{Port} -> [Prio -> Seq({{2}})]]
      /\ m_rxOccPkts' \in [{Port} -> [Prio -> Nat]]
      /\ m_localCongested' \in [{Port} -> [Prio -> BOOLEAN]]
      /\ m_pfcTxXoff' \in [{Port} -> [Prio -> Nat]]
      /\ m_pfcTxXon' \in [{Port} -> [Prio -> Nat]]
  BY <1>1, <1>2, <1>3, <1>5, <1>6 DEF PeerOK
<1>9. PeerOK'
  BY <1>3, <1>5, <1>7, <1>8 DEF PeerOK, Occupancy, Congested
<1>10. \/ Answers(pr) = <<>> /\ (Congested(pr)' <=> Congested(pr))
       \/ /\ Answers(pr) = <<Pause>>
          /\ ~Congested(pr) /\ Congested(pr)'
          /\ Occupancy(pr)' = PfcHighPkts
  <2>1. ~(m_pfcTxXon'[Port][pr] > m_pfcTxXon[Port][pr])
    BY <1>2, <1>7, SMT
  <2>2. m_pfcTxXoff'[Port][pr] > m_pfcTxXoff[Port][pr] <=> xoff
    BY <1>2, <1>5, <1>7, SMT
  <2>3. Answers(pr) = (IF xoff THEN <<Pause>> ELSE <<>>) \o <<>>
    BY <2>1, <2>2 DEF Answers
  <2>4. <<Pause>> \o <<>> = <<Pause>> /\ <<>> \o <<>> = <<>>
    OBVIOUS
  <2>5. CASE xoff
    BY <1>3, <1>5, <1>7, <2>3, <2>4, <2>5 DEF Congested, Occupancy
  <2>6. CASE ~xoff
    BY <1>5, <1>7, <2>3, <2>4, <2>6 DEF Congested
  <2>7. QED
    BY <2>5, <2>6
<1>11. QED
  BY <1>3, <1>7, <1>9, <1>10 DEF Occupancy, Congested

\* A frame is handed on.  An XON is sent at the low watermark.
LEMMA PeerGives ==
    ASSUME PeerOK, NEW pr \in Prio, Peer!Picks(Port, pr),
           Peer!DrainGranted(Port, pr, 2)
    PROVE  /\ PeerOK'
           /\ Occupancy(pr) \in Nat /\ Occupancy(pr)' = Occupancy(pr) - 1
           /\ \A p \in Prio : p # pr =>
                Occupancy(p)' = Occupancy(p) /\ (Congested(p)' <=> Congested(p))
           /\ \/ Answers(pr) = <<>> /\ (Congested(pr)' <=> Congested(pr))
              \/ Answers(pr) = <<0>> /\ ~Congested(pr)'
<1> DEFINE occ == m_rxOccPkts[Port][pr] - 1
           xon == m_localCongested[Port][pr] /\ occ <= PfcLowPkts
           cong == m_localCongested[Port][pr] /\ ~xon
<1>1. /\ m_ingressQ \in [{Port} -> [Prio -> Seq({{2}})]]
      /\ m_rxOccPkts[Port][pr] \in Nat
      /\ m_pfcTxXoff[Port][pr] \in Nat /\ m_pfcTxXon[Port][pr] \in Nat
      /\ m_rxOccPkts[Port][pr] = Len(m_ingressQ[Port][pr])
      /\ Len(m_ingressQ[Port][pr]) >= PfcHighPkts => m_localCongested[Port][pr]
      /\ Len(m_ingressQ[Port][pr]) <= PfcLowPkts => ~m_localCongested[Port][pr]
      /\ m_localCongested[Port][pr] \in BOOLEAN
  BY DEF PeerOK, Occupancy, Congested
<1>2. m_ingressQ[Port][pr] \in Seq({{2}}) /\ m_ingressQ[Port][pr] # <<>>
  BY <1>1 DEF Peer!Picks
<1>3. /\ Tail(m_ingressQ[Port][pr]) \in Seq({{2}})
      /\ Len(Tail(m_ingressQ[Port][pr])) = Len(m_ingressQ[Port][pr]) - 1
      /\ Len(m_ingressQ[Port][pr]) \in Nat \ {0}
  BY <1>2, ElemsHeadTail
<1>4. Peer!OccupancyAfterPop(Port, pr) = occ
  BY <1>1, <1>3, SMT DEF Peer!OccupancyAfterPop
<1>5. /\ m_ingressQ' = [m_ingressQ EXCEPT ![Port][pr] = Tail(@)]
      /\ m_rxOccPkts' = [m_rxOccPkts EXCEPT ![Port][pr] = occ]
      /\ m_localCongested' = [m_localCongested EXCEPT ![Port][pr] = @ /\ ~xon]
      /\ m_pfcTxXon' = [m_pfcTxXon EXCEPT ![Port][pr] = @ + (IF xon THEN 1 ELSE 0)]
      /\ m_pfcTxXoff' = m_pfcTxXoff
  BY <1>4 DEF Peer!DrainGranted, Peer!PopFront, Peer!OneIf
<1>6. PfcHighPkts \in Nat /\ PfcLowPkts \in Nat /\ PfcLowPkts < PfcHighPkts
  BY Delays
<1>7. /\ occ \in Nat /\ occ = Len(m_ingressQ[Port][pr]) - 1
      /\ occ >= PfcHighPkts => cong
      /\ occ <= PfcLowPkts => ~cong
      /\ xon \in BOOLEAN /\ cong \in BOOLEAN
      /\ xon => ~cong
      /\ ~xon => (cong <=> m_localCongested[Port][pr])
  BY <1>1, <1>3, <1>6, SMT
<1>8. /\ m_ingressQ'[Port][pr] = Tail(m_ingressQ[Port][pr])
      /\ m_rxOccPkts'[Port][pr] = occ
      /\ m_localCongested'[Port][pr] = cong
      /\ m_pfcTxXon'[Port][pr] = m_pfcTxXon[Port][pr] + (IF xon THEN 1 ELSE 0)
      /\ m_pfcTxXoff'[Port][pr] = m_pfcTxXoff[Port][pr]
      /\ \A p \in Prio : p # pr =>
           /\ m_ingressQ'[Port][p] = m_ingressQ[Port][p]
           /\ m_rxOccPkts'[Port][p] = m_rxOccPkts[Port][p]
           /\ m_localCongested'[Port][p] = m_localCongested[Port][p]
  <2> HIDE DEF occ, xon
  <2>1. QED
    BY <1>5 DEF PeerOK
<1> HIDE DEF occ, xon, cong
<1>9. /\ m_ingressQ' \in [{Port} -> [Prio -> Seq({{2}})]]
      /\ m_rxOccPkts' \in [{Port} -> [Prio -> Nat]]
      /\ m_localCongested' \in [{Port} -> [Prio -> BOOLEAN]]
      /\ m_pfcTxXoff' \in [{Port} -> [Prio -> Nat]]
      /\ m_pfcTxXon' \in [{Port} -> [Prio -> Nat]]
  BY <1>1, <1>3, <1>5, <1>7 DEF PeerOK
<1>10. PeerOK'
  <2>1. ASSUME NEW p \in Prio
        PROVE  /\ m_rxOccPkts'[Port][p] = Len(m_ingressQ'[Port][p])
               /\ Len(m_ingressQ'[Port][p]) >= PfcHighPkts => m_localCongested'[Port][p]
               /\ Len(m_ingressQ'[Port][p]) <= PfcLowPkts => ~m_localCongested'[Port][p]
    <3>1. CASE p = pr
      BY <1>3, <1>7, <1>8, <3>1
    <3>2. CASE p # pr
      BY <1>8, <3>2 DEF PeerOK, Occupancy, Congested
    <3>3. QED
      BY <3>1, <3>2
  <2>2. QED
    BY <1>9, <2>1 DEF PeerOK, Occupancy, Congested
<1>11. \/ Answers(pr) = <<>> /\ (Congested(pr)' <=> Congested(pr))
       \/ Answers(pr) = <<0>> /\ ~Congested(pr)'
  <2>1. ~(m_pfcTxXoff'[Port][pr] > m_pfcTxXoff[Port][pr])
    BY <1>1, <1>8, SMT
  <2>2. m_pfcTxXon'[Port][pr] > m_pfcTxXon[Port][pr] <=> xon
    BY <1>1, <1>7, <1>8, SMT
  <2>3. Answers(pr) = <<>> \o (IF xon THEN <<0>> ELSE <<>>)
    BY <2>1, <2>2 DEF Answers
  <2>4. <<>> \o <<0>> = <<0>> /\ <<>> \o <<>> = <<>>
    OBVIOUS
  <2>5. CASE xon
    BY <1>7, <1>8, <2>3, <2>4, <2>5 DEF Congested
  <2>6. CASE ~xon
    BY <1>7, <1>8, <2>3, <2>4, <2>6 DEF Congested
  <2>7. QED
    BY <2>5, <2>6
<1>12. QED
  BY <1>3, <1>7, <1>8, <1>10, <1>11 DEF Occupancy, Congested

\* A refusal, an idle run and the passing of time leave the queues alone.
LEMMA PeerWaits ==
    ASSUME PeerOK,
           UNCHANGED <<m_ingressQ, m_rxOccPkts, m_localCongested,
                       m_pfcTxXoff, m_pfcTxXon>>
    PROVE  /\ PeerOK'
           /\ \A p \in Prio :
                /\ Occupancy(p)' = Occupancy(p) /\ (Congested(p)' <=> Congested(p))
                /\ Answers(p) = <<>>
<1>1. PeerOK' /\ \A p \in Prio : Occupancy(p)' = Occupancy(p) /\ (Congested(p)' <=> Congested(p))
  BY DEF PeerOK, Occupancy, Congested
<1>2. ASSUME NEW p \in Prio PROVE Answers(p) = <<>>
  <2>1. m_pfcTxXoff[Port][p] \in Nat /\ m_pfcTxXon[Port][p] \in Nat
    BY DEF PeerOK
  <2>2. /\ ~(m_pfcTxXoff'[Port][p] > m_pfcTxXoff[Port][p])
        /\ ~(m_pfcTxXon'[Port][p] > m_pfcTxXon[Port][p])
    BY <2>1, SMT
  <2>3. <<>> \o <<>> = <<>>
    OBVIOUS
  <2>4. QED
    BY <2>2, <2>3 DEF Answers
<1>3. QED
  BY <1>1, <1>2

------------------------------------------------------------------------------
\* Counting the frames of a class on their way.

\* A set of positions, and what is left of it when the first one goes.
LEMMA ShiftCount ==
    ASSUME NEW n \in Nat \ {0}, NEW A, A \subseteq 1 .. n,
           NEW B, B = {i \in 1 .. n - 1 : i + 1 \in A}
    PROVE  /\ Cardinality(A) = Cardinality(B) + (IF 1 \in A THEN 1 ELSE 0)
           /\ Cardinality(A) \in Nat /\ Cardinality(B) \in Nat
<1>1. IsFiniteSet(1 .. n) /\ IsFiniteSet(1 .. n - 1)
  BY FS_Interval, SMT
<1>2. IsFiniteSet(A) /\ IsFiniteSet(B)
  BY <1>1, FS_Subset
<1>3. Cardinality(A) \in Nat /\ Cardinality(B) \in Nat
  BY <1>2, FS_CardinalityType
<1> DEFINE f == [i \in B |-> i + 1]
<1>4. f \in Bijection(B, A \ {1})
  <2>1. \A i \in B : i \in 1 .. n - 1 /\ i + 1 \in A \ {1}
    BY SMT
  <2>2. \A i, j \in B : i + 1 = j + 1 => i = j
    BY <2>1, SMT
  <2>3. \A a \in A \ {1} : a - 1 \in B /\ (a - 1) + 1 = a
    BY SMT
  <2>4. f \in [B -> A \ {1}]
    BY <2>1
  <2>5. f \in Injection(B, A \ {1})
    <3>1. \A i, j \in B : f[i] = f[j] => i = j
      BY <2>2
    <3>2. QED
      BY <2>4, <3>1, Zenon DEF Injection, IsInjective
  <2>6. f \in Surjection(B, A \ {1})
    <3>1. \A a \in A \ {1} : \E i \in B : f[i] = a
      BY <2>3
    <3>2. QED
      BY <2>4, <3>1, Zenon DEF Surjection
  <2>7. QED
    BY <2>5, <2>6 DEF Bijection
<1>5. Cardinality(A \ {1}) = Cardinality(B)
  BY <1>2, <1>4, FS_Bijection DEF ExistsBijection
<1>6. Cardinality(A \ {1}) = IF 1 \in A THEN Cardinality(A) - 1 ELSE Cardinality(A)
  BY <1>2, FS_RemoveElement
<1>7. QED
  BY <1>3, <1>5, <1>6, SMT

\* The counts are numbers, and no more than the frames there are.
LEMMA Counts ==
    ASSUME toPeer \in Seq(Leg), NEW p \in Prio
    PROVE  /\ IsFiniteSet(Coming(p)) /\ IsFiniteSet(DueNow(p))
           /\ Cardinality(Coming(p)) \in 0 .. Len(toPeer)
           /\ Cardinality(DueNow(p)) \in 0 .. Cardinality(Coming(p))
           /\ Len(toPeer) \in Nat
<1>1. Len(toPeer) \in Nat
  BY ElemsInSet
<1>2. IsFiniteSet(1 .. Len(toPeer)) /\ Cardinality(1 .. Len(toPeer)) = Len(toPeer)
  BY <1>1, FS_Interval, SMT
<1>3. Coming(p) \in SUBSET (1 .. Len(toPeer)) /\ DueNow(p) \in SUBSET Coming(p)
  BY DEF Coming, DueNow
<1>4. IsFiniteSet(Coming(p)) /\ Cardinality(Coming(p)) <= Len(toPeer)
  BY <1>2, <1>3, FS_Subset
<1>5. IsFiniteSet(DueNow(p)) /\ Cardinality(DueNow(p)) <= Cardinality(Coming(p))
  BY <1>3, <1>4, FS_Subset
<1>6. Cardinality(Coming(p)) \in Nat /\ Cardinality(DueNow(p)) \in Nat
  BY <1>4, <1>5, FS_CardinalityType
<1>7. QED
  BY <1>1, <1>4, <1>5, <1>6, SMT

\* A frame is put on the line.
LEMMA OneMoreComing ==
    ASSUME toPeer \in Seq(Leg), NEW p \in Prio,
           NEW x \in Leg, x.left # 0,
           toPeer' = Append(toPeer, x)
    PROVE  /\ Cardinality(Coming(p)') =
                Cardinality(Coming(p)) + (IF x.frame.prio = p THEN 1 ELSE 0)
           /\ DueNow(p)' = DueNow(p)
<1> DEFINE n == Len(toPeer)
<1>1. x \in Leg /\ x.left # 0
  OBVIOUS
<1>2. /\ n \in Nat /\ Len(toPeer') = n + 1
      /\ \A i \in 1 .. n : toPeer'[i] = toPeer[i]
      /\ toPeer'[n + 1] = x
  BY <1>1, AppendProperties, LenProperties
<1> HIDE DEF n
<1>3. /\ 1 .. n + 1 = (1 .. n) \cup {n + 1}
      /\ n + 1 \notin 1 .. n
  BY <1>2, SMT
<1>4. /\ Coming(p) = {i \in 1 .. n : toPeer[i].frame.prio = p}
      /\ Coming(p)' = {i \in 1 .. n + 1 : toPeer'[i].frame.prio = p}
  BY <1>2 DEF Coming, n
<1>5. Coming(p)' = IF x.frame.prio = p THEN Coming(p) \cup {n + 1} ELSE Coming(p)
  BY <1>2, <1>3, <1>4
<1>6. n + 1 \notin Coming(p)
  BY <1>3, <1>4
<1>7. IsFiniteSet(Coming(p)) /\ Cardinality(Coming(p)) \in Nat
  BY Counts, SMT
<1>8. Cardinality(Coming(p) \cup {n + 1}) = Cardinality(Coming(p)) + 1
  BY <1>6, <1>7, FS_AddElement
<1>9. DueNow(p)' = {i \in Coming(p)' : toPeer'[i].left = 0}
  BY DEF DueNow
<1>10. DueNow(p)' = DueNow(p)
  BY <1>1, <1>2, <1>4, <1>5, <1>9 DEF DueNow
<1>11. QED
  BY <1>5, <1>7, <1>8, <1>10, SMT

\* The first frame arrives.
LEMMA OneLessComing ==
    ASSUME toPeer \in Seq(Leg), toPeer # <<>>,
           Head(toPeer).left = 0, toPeer' = Tail(toPeer), NEW p \in Prio
    PROVE  LET one == IF Head(toPeer).frame.prio = p THEN 1 ELSE 0
           IN  /\ Cardinality(Coming(p)) = Cardinality(Coming(p)') + one
               /\ Cardinality(DueNow(p)) = Cardinality(DueNow(p)') + one
               /\ Cardinality(Coming(p)') \in Nat /\ Cardinality(DueNow(p)') \in Nat
<1> DEFINE n == Len(toPeer)
<1>1. /\ n \in Nat \ {0} /\ Len(toPeer') = n - 1
      /\ \A i \in 1 .. n - 1 : toPeer'[i] = toPeer[i + 1]
      /\ Head(toPeer) = toPeer[1]
  BY HeadTailProperties, EmptySeq
<1> HIDE DEF n
<1>2. 1 \in 1 .. n /\ \A i \in 1 .. n - 1 : i + 1 \in 1 .. n
  BY <1>1, SMT
<1>3. /\ Coming(p) \subseteq 1 .. n
      /\ Coming(p)' = {i \in 1 .. n - 1 : i + 1 \in Coming(p)}
      /\ 1 \in Coming(p) <=> Head(toPeer).frame.prio = p
  BY <1>1, <1>2 DEF Coming, n
<1>4. /\ DueNow(p) \subseteq 1 .. n
      /\ DueNow(p)' = {i \in 1 .. n - 1 : i + 1 \in DueNow(p)}
      /\ 1 \in DueNow(p) <=> Head(toPeer).frame.prio = p
  BY <1>1, <1>2, <1>3 DEF DueNow
<1>5. /\ Cardinality(Coming(p)) = Cardinality(Coming(p)') + (IF 1 \in Coming(p) THEN 1 ELSE 0)
      /\ Cardinality(Coming(p)') \in Nat
  BY <1>1, <1>3, ShiftCount
<1>6. /\ Cardinality(DueNow(p)) = Cardinality(DueNow(p)') + (IF 1 \in DueNow(p) THEN 1 ELSE 0)
      /\ Cardinality(DueNow(p)') \in Nat
  BY <1>1, <1>4, ShiftCount
<1>7. QED
  BY <1>3, <1>4, <1>5, <1>6

------------------------------------------------------------------------------
\* The frames on their way, when one starts, when one arrives, when time passes.

\* A frame starts when the line is free: the ones before it have left the line,
\* and it is a transmission time behind them.
LEMMA LineStarts ==
    ASSUME toPeer \in Seq(Leg), Spaced, OffTheLine, txCompleteIn = 0,
           txCompleteIn' \in TxTimes, NEW f \in DataFrame,
           toPeer' = Append(toPeer, [frame |-> f, left |-> txCompleteIn' + Delay])
    PROVE  toPeer' \in Seq(Leg) /\ Spaced' /\ OffTheLine'
<1> DEFINE n == Len(toPeer)
           x == [frame |-> f, left |-> txCompleteIn' + Delay]
<1>1. /\ txCompleteIn' \in Nat /\ Shortest <= txCompleteIn'
      /\ Shortest \in Nat /\ Delay \in Nat
  BY Delays
<1>2. x \in Leg /\ x.left = txCompleteIn' + Delay
  <2>1. \A t, d \in Nat : t + d \in Nat
    BY SMT
  <2>2. txCompleteIn' + Delay \in Nat
    BY <1>1, <2>1, Zenon
  <2>3. QED
    BY <2>2, Zenon DEF Leg
<1> HIDE DEF x
<1>3. /\ n \in Nat /\ Len(toPeer') = n + 1 /\ toPeer' \in Seq(Leg)
      /\ \A i \in 1 .. n : toPeer'[i] = toPeer[i]
      /\ toPeer'[n + 1] = x
  <2>1. toPeer' = Append(toPeer, x)
    BY DEF x
  <2>2. QED
    BY <1>2, <2>1, AppendProperties, LenProperties
<1>4. \A i \in 1 .. n : toPeer[i].left \in Nat
  <2>1. \A i \in 1 .. n : toPeer[i] \in Leg
    BY ElementOfSeq
  <2>2. QED
    BY <2>1 DEF Leg
<1>5. \A i \in 1 .. n : toPeer[i].left <= Delay
  <2>1. SUFFICES ASSUME NEW i \in 1 .. n PROVE toPeer[i].left <= Delay
    OBVIOUS
  <2>2. toPeer[i].left <= Delay + 0
    BY <2>1 DEF OffTheLine
  <2>3. QED
    BY <1>1, <1>4, <2>2, SMT
<1>6. \A i \in 1 .. n : i < n =>
         toPeer[i].left + (n - i) * Shortest <= toPeer[n].left
  <2>1. n > 0 => n \in 1 .. n
    BY <1>3, SMT
  <2>2. QED
    BY <1>3, <2>1, SMT DEF Spaced
<1>7. \A i \in 1 .. n : toPeer[i].left + (n - i) * Shortest <= Delay
  <2>1. SUFFICES ASSUME NEW i \in 1 .. n
                 PROVE  toPeer[i].left + (n - i) * Shortest <= Delay
    OBVIOUS
  <2>2. n \in 1 .. n /\ i \in Nat /\ i <= n
    BY <1>3, SMT
  <2>3. CASE i = n
    <3>1. (n - n) * Shortest = 0
      BY <1>1, <1>3, TimesDistributes, SMT
    <3>2. QED
      BY <1>4, <1>5, <2>2, <2>3, <3>1, SMT
  <2>4. CASE i # n
    <3>1. toPeer[i].left + (n - i) * Shortest <= toPeer[n].left
      BY <1>3, <1>6, <2>2, <2>4, SMT
    <3>2. (n - i) * Shortest \in Int
      BY <1>1, <1>3, <2>2, TimesDistributes, SMT
    <3>3. QED
      BY <1>1, <1>4, <1>5, <2>2, <3>1, <3>2, SMT
  <2>5. QED
    BY <2>3, <2>4
<1> HIDE DEF n
<1>8. Spaced'
  <2>1. SUFFICES ASSUME NEW i \in 1 .. n + 1, NEW j \in 1 .. n + 1, i < j
                 PROVE  toPeer'[i].left + (j - i) * Shortest <= toPeer'[j].left
    BY <1>3 DEF Spaced
  <2>2. i \in 1 .. n /\ (j \in 1 .. n \/ j = n + 1)
    BY <1>3, <2>1, SMT
  <2>3. CASE j \in 1 .. n
    BY <1>3, <2>1, <2>2, <2>3 DEF Spaced, n
  <2>4. CASE j = n + 1
    <3>1. (n + 1 - i) * Shortest = (n - i) * Shortest + Shortest
      <4>1. n - i \in Int /\ n + 1 - i = (n - i) + 1
        BY <1>3, <2>2, SMT
      <4>2. ((n - i) + 1) * Shortest = (n - i) * Shortest + 1 * Shortest
        BY <1>1, <4>1, TimesDistributes, SMT
      <4>3. QED
        BY <1>1, <4>1, <4>2, TimesDistributes, SMT
    <3>2. (n - i) * Shortest \in Int
      BY <1>1, <1>3, <2>2, TimesDistributes, SMT
    <3>3. toPeer[i].left + (n - i) * Shortest <= Delay /\ toPeer[i].left \in Nat
      BY <1>4, <1>7, <2>2 DEF n
    <3>4. toPeer[i].left + (n + 1 - i) * Shortest <= txCompleteIn' + Delay
      BY <1>1, <3>1, <3>2, <3>3, SMT
    <3>5. QED
      BY <1>2, <1>3, <2>2, <2>4, <3>4
  <2>5. QED
    BY <2>2, <2>3, <2>4
<1>9. OffTheLine'
  <2>1. SUFFICES ASSUME NEW i \in 1 .. n + 1
                 PROVE  toPeer'[i].left <= Delay + (IF i = n + 1 THEN txCompleteIn' ELSE 0)
    BY <1>3, Delays DEF OffTheLine
  <2>2. CASE i = n + 1
    BY <1>1, <1>2, <1>3, <2>2, SMT
  <2>3. CASE i # n + 1
    <3>1. i \in 1 .. n
      BY <1>3, <2>3, SMT
    <3>2. toPeer'[i].left <= Delay + 0
      BY <1>1, <1>3, <1>4, <1>5, <3>1, SMT DEF n
    <3>3. QED
      BY <2>3, <3>2
  <2>4. QED
    BY <2>2, <2>3
<1>10. QED
  BY <1>3, <1>8, <1>9

\* The first frame arrives.
LEMMA LineDelivers ==
    ASSUME toPeer \in Seq(Leg), Spaced, OffTheLine, txCompleteIn \in Nat,
           toPeer # <<>>, toPeer' = Tail(toPeer), UNCHANGED txCompleteIn
    PROVE  toPeer' \in Seq(Leg) /\ Spaced' /\ OffTheLine'
<1> DEFINE n == Len(toPeer)
<1>1. /\ n \in Nat \ {0} /\ Len(toPeer') = n - 1 /\ toPeer' \in Seq(Leg)
      /\ \A i \in 1 .. n - 1 : toPeer'[i] = toPeer[i + 1]
  BY HeadTailProperties, EmptySeq
<1> HIDE DEF n
<1>2. \A i \in 1 .. n - 1 : i + 1 \in 1 .. n /\ (i = n - 1 <=> i + 1 = n)
  BY <1>1, SMT
<1>3. Spaced'
  <2>1. SUFFICES ASSUME NEW i \in 1 .. n - 1, NEW j \in 1 .. n - 1, i < j
                 PROVE  toPeer'[i].left + (j - i) * Shortest <= toPeer'[j].left
    BY <1>1 DEF Spaced
  <2>2. i + 1 < j + 1 /\ (j + 1) - (i + 1) = j - i
    BY <2>1, SMT
  <2>3. toPeer[i + 1].left + ((j + 1) - (i + 1)) * Shortest <= toPeer[j + 1].left
    BY <1>2, <2>1, <2>2 DEF Spaced, n
  <2>4. QED
    BY <1>1, <2>1, <2>2, <2>3
<1>4. OffTheLine'
  BY <1>1, <1>2 DEF OffTheLine, n
<1>5. QED
  BY <1>1, <1>3, <1>4

\* What time does to the frames on their way.
LEMMA OneLessProperties ==
    ASSUME NEW S, NEW s \in Seq(S)
    PROVE  /\ Len(OneLess(s)) = Len(s) /\ Len(s) \in Nat
           /\ \A i \in 1 .. Len(s) : OneLess(s)[i] = [s[i] EXCEPT !.left = Down(@)]
           /\ \A R : (\A i \in 1 .. Len(s) : [s[i] EXCEPT !.left = Down(@)] \in R)
                       => OneLess(s) \in Seq(R)
<1>1. Len(s) \in Nat /\ DOMAIN s = 1 .. Len(s)
  BY LenProperties
<1>2. OneLess(s) = [i \in 1 .. Len(s) |-> [s[i] EXCEPT !.left = Down(@)]]
  BY <1>1 DEF OneLess
<1> DEFINE t == [i \in 1 .. Len(s) |-> [s[i] EXCEPT !.left = Down(@)]]
<1>3. Len(t) = Len(s)
  <2>1. t \in Seq({[s[i] EXCEPT !.left = Down(@)] : i \in 1 .. Len(s)})
    BY <1>1, SeqDef
  <2>2. DOMAIN t = 1 .. Len(s) /\ DOMAIN t = 1 .. Len(t) /\ Len(t) \in Nat
    BY <2>1, LenProperties
  <2>3. QED
    BY <1>1, <2>2, SMT
<1>4. ASSUME NEW R, \A i \in 1 .. Len(s) : [s[i] EXCEPT !.left = Down(@)] \in R
      PROVE  OneLess(s) \in Seq(R)
  <2>1. t \in [1 .. Len(s) -> R]
    BY <1>4
  <2>2. QED
    BY <1>1, <1>2, <2>1, SeqDef
<1>5. QED
  BY <1>1, <1>2, <1>3, <1>4

LEMMA LegsAge ==
    ASSUME toPeer \in Seq(Leg), toPeer' = OneLess(toPeer)
    PROVE  /\ toPeer' \in Seq(Leg) /\ Len(toPeer') = Len(toPeer) /\ Len(toPeer) \in Nat
           /\ \A i \in 1 .. Len(toPeer) :
                /\ toPeer'[i].frame = toPeer[i].frame
                /\ toPeer[i].left \in Nat
                /\ toPeer'[i].left = Down(toPeer[i].left)
<1>1. \A i \in 1 .. Len(toPeer) : toPeer[i] \in Leg
  BY ElementOfSeq
<1>2. \A x \in Nat : Down(x) \in Nat
  BY SMT DEF Down
<1>3. \A i \in 1 .. Len(toPeer) : [toPeer[i] EXCEPT !.left = Down(@)] \in Leg
  BY <1>1, <1>2 DEF Leg
<1>4. \A i \in 1 .. Len(toPeer) : toPeer'[i] = [toPeer[i] EXCEPT !.left = Down(@)]
  BY OneLessProperties
<1>5. \A i \in 1 .. Len(toPeer) :
        /\ toPeer'[i].frame = toPeer[i].frame
        /\ toPeer[i].left \in Nat
        /\ toPeer'[i].left = Down(toPeer[i].left)
  BY <1>1, <1>4 DEF Leg
<1>6. QED
  BY <1>3, <1>5, OneLessProperties

\* Time passes: all of them come nearer, for none of them is due.
LEMMA LineAges ==
    ASSUME toPeer \in Seq(Leg), Spaced, OffTheLine, txCompleteIn \in Nat,
           toPeer # <<>> => Head(toPeer).left > 0,
           toPeer' = OneLess(toPeer), txCompleteIn' = Down(txCompleteIn)
    PROVE  /\ toPeer' \in Seq(Leg) /\ Spaced' /\ OffTheLine'
           /\ \A p \in Prio : Coming(p)' = Coming(p) /\ DueNow(p)' \subseteq Coming(p)
<1>1. /\ toPeer' \in Seq(Leg) /\ Len(toPeer') = Len(toPeer) /\ Len(toPeer) \in Nat
      /\ \A i \in 1 .. Len(toPeer) :
           /\ toPeer'[i].frame = toPeer[i].frame
           /\ toPeer[i].left \in Nat
           /\ toPeer'[i].left = Down(toPeer[i].left)
  BY LegsAge
<1>2. Shortest \in Nat /\ Delay \in Nat
  BY Delays
<1>3. \A i \in 1 .. Len(toPeer) : toPeer[i].left > 0
  <2>1. SUFFICES ASSUME NEW i \in 1 .. Len(toPeer) PROVE toPeer[i].left > 0
    OBVIOUS
  <2>2. 1 \in 1 .. Len(toPeer) /\ i \in Nat
    BY <1>1, SMT
  <2>3. toPeer # <<>>
    BY <2>1, EmptySeq, SMT
  <2>4. toPeer[1].left > 0 /\ toPeer[1].left \in Nat /\ toPeer[i].left \in Nat
    BY <1>1, <2>2, <2>3
  <2>5. CASE i = 1
    BY <2>4, <2>5
  <2>6. CASE i # 1
    <3>1. 1 < i /\ i - 1 \in Nat
      BY <2>2, <2>6, SMT
    <3>2. toPeer[1].left + (i - 1) * Shortest <= toPeer[i].left
      BY <2>2, <3>1 DEF Spaced
    <3>3. (i - 1) * Shortest \in Nat
      BY <1>2, <3>1, SMT
    <3>4. QED
      BY <2>4, <3>2, <3>3, SMT
  <2>7. QED
    BY <2>5, <2>6
<1>4. \A i \in 1 .. Len(toPeer) : toPeer'[i].left = toPeer[i].left - 1
  BY <1>1, <1>3, SMT DEF Down
<1>5. Spaced'
  <2>1. SUFFICES ASSUME NEW i \in 1 .. Len(toPeer), NEW j \in 1 .. Len(toPeer), i < j
                 PROVE  toPeer'[i].left + (j - i) * Shortest <= toPeer'[j].left
    BY <1>1, Delays DEF Spaced
  <2>2. toPeer[i].left + (j - i) * Shortest <= toPeer[j].left
    BY <2>1 DEF Spaced
  <2>3. (j - i) * Shortest \in Int
    BY <1>2, <2>1, TimesDistributes, SMT
  <2>4. /\ toPeer'[i].left = toPeer[i].left - 1 /\ toPeer[i].left \in Nat
        /\ toPeer'[j].left = toPeer[j].left - 1 /\ toPeer[j].left \in Nat
    BY <1>1, <1>4
  <2>5. \A a, b \in Nat, c \in Int : a + c <= b => (a - 1) + c <= b - 1
    BY SMT
  <2>6. QED
    BY <2>2, <2>3, <2>4, <2>5
<1>6. OffTheLine'
  <2>1. SUFFICES ASSUME NEW i \in 1 .. Len(toPeer)
                 PROVE  toPeer'[i].left <= Delay + (IF i = Len(toPeer) THEN txCompleteIn' ELSE 0)
    BY <1>1, Delays DEF OffTheLine
  <2>2. toPeer[i].left <= Delay + (IF i = Len(toPeer) THEN txCompleteIn ELSE 0)
    BY <2>1 DEF OffTheLine
  <2>3. toPeer'[i].left = toPeer[i].left - 1 /\ toPeer[i].left \in Nat
    BY <1>1, <1>4
  <2>4. QED
    BY <1>2, <2>2, <2>3, SMT DEF Down
<1>7. \A p \in Prio : Coming(p)' = Coming(p) /\ DueNow(p)' \subseteq Coming(p)'
  BY <1>1 DEF Coming, DueNow
<1>8. QED
  BY <1>1, <1>5, <1>6, <1>7

------------------------------------------------------------------------------
\* The headroom is enough.

\* When a frame arrives, those behind it reach back over the line and, but for
\* the last of them, over no more than its delay.
LEMMA BehindAnArrival ==
    ASSUME toPeer \in Seq(Leg), Spaced, OffTheLine, txCompleteIn \in Nat,
           toPeer # <<>>, Head(toPeer).left = 0, toPeer' = Tail(toPeer)
    PROVE  /\ Len(toPeer') \in Nat
           /\ Len(toPeer') * Shortest <= Delay + txCompleteIn
           /\ Len(toPeer') >= 1 => (Len(toPeer') - 1) * Shortest <= Delay
<1> DEFINE n == Len(toPeer)
<1>1. /\ n \in Nat \ {0} /\ Len(toPeer') = n - 1
      /\ Head(toPeer) = toPeer[1]
  BY HeadTailProperties, EmptySeq
<1>2. Shortest \in Nat /\ Delay \in Nat
  BY Delays
<1>3. toPeer[1].left = 0
  BY <1>1
<1>4. \A i \in 1 .. n : toPeer[i].left \in Nat
  <2>1. \A i \in 1 .. n : toPeer[i] \in Leg
    BY ElementOfSeq
  <2>2. QED
    BY <2>1 DEF Leg
<1>5. ASSUME NEW j \in 1 .. n, 1 < j
      PROVE  /\ (j - 1) * Shortest <= toPeer[j].left
             /\ (j - 1) * Shortest \in Nat
  <2>1. 1 \in 1 .. n
    BY <1>1, SMT
  <2>2. 0 + (j - 1) * Shortest <= toPeer[j].left
    BY <1>3, <1>5, <2>1 DEF Spaced
  <2>3. (j - 1) * Shortest \in Nat
    <3>1. j - 1 \in Nat
      BY <1>5, SMT
    <3>2. \A a, b \in Nat : a * b \in Nat
      BY SMT
    <3>3. QED
      BY <1>2, <3>1, <3>2
  <2>4. QED
    BY <2>2, <2>3, SMT
<1>6. ASSUME NEW j \in 1 .. n
      PROVE  /\ j # n => toPeer[j].left <= Delay
             /\ toPeer[j].left <= Delay + txCompleteIn
  <2>1. toPeer[j].left <= Delay + (IF j = n THEN txCompleteIn ELSE 0)
    BY DEF OffTheLine
  <2>2. toPeer[j].left \in Nat
    BY <1>4
  <2>3. QED
    BY <1>2, <2>1, <2>2, SMT
<1> HIDE DEF n
<1>7. 0 * Shortest = 0
  BY <1>2, SMT
<1>8. (n - 1) * Shortest <= Delay + txCompleteIn
  <2>1. CASE n = 1
    BY <1>2, <1>7, <2>1, SMT
  <2>2. CASE n # 1
    <3>1. n \in 1 .. n /\ 1 < n
      BY <1>1, <2>2, SMT
    <3>2. /\ (n - 1) * Shortest <= toPeer[n].left /\ (n - 1) * Shortest \in Nat
          /\ toPeer[n].left <= Delay + txCompleteIn /\ toPeer[n].left \in Nat
      BY <1>4, <1>5, <1>6, <3>1
    <3>3. \A a, b, c, d \in Nat : a <= b /\ b <= c + d => a <= c + d
      BY SMT
    <3>4. QED
      BY <1>2, <3>2, <3>3
  <2>3. QED
    BY <2>1, <2>2
<1>9. n - 1 >= 1 => ((n - 1) - 1) * Shortest <= Delay
  <2>1. CASE n <= 2
    <3>1. n - 1 >= 1 => (n - 1) - 1 = 0
      BY <1>1, <2>1, SMT
    <3>2. 0 <= Delay
      BY <1>2, SMT
    <3>3. QED
      BY <1>7, <3>1, <3>2
  <2>2. CASE ~(n <= 2)
    <3>1. n - 1 \in 1 .. n /\ 1 < n - 1 /\ n - 1 # n
      BY <1>1, <2>2, SMT
    <3>2. /\ ((n - 1) - 1) * Shortest <= toPeer[n - 1].left
          /\ ((n - 1) - 1) * Shortest \in Nat
          /\ toPeer[n - 1].left <= Delay /\ toPeer[n - 1].left \in Nat
      BY <1>4, <1>5, <1>6, <3>1
    <3>3. \A a, b, c \in Nat : a <= b /\ b <= c => a <= c
      BY SMT
    <3>4. QED
      BY <1>2, <3>2, <3>3
  <2>3. QED
    BY <2>1, <2>2
<1>10. QED
  BY <1>1, <1>8, <1>9, SMT

\* An XOFF that leaves now has room for the frames on their way, and for those
\* the line can start until it is taken.
LEMMA RoomForTheRest ==
    ASSUME NEW n \in Nat, NEW m \in 0 .. n, NEW w \in 0 .. Late, NEW c \in Nat,
           n * Shortest <= Delay + c,
           n >= 1 => (n - 1) * Shortest <= Delay
    PROVE  /\ Headroom - m >= 0
           /\ w >= c => w - c < (Headroom - m) * Shortest
<1>1. /\ Late \in Nat /\ Delay \in Nat /\ Shortest \in Nat \ {0}
      /\ Headroom \in Nat \ {0} /\ Late + Delay < Headroom * Shortest
      /\ w \in Nat /\ w <= Late /\ m \in Nat /\ m <= n
  BY Delays, SMT
<1>2. Headroom * Shortest \in Int /\ n * Shortest \in Int /\ (n - 1) * Shortest \in Int
  BY <1>1, TimesDistributes, SMT
<1>3. n <= Headroom
  <2>1. CASE n = 0
    BY <1>1, <2>1, SMT
  <2>2. CASE n # 0
    <3>1. (n - 1) * Shortest < Headroom * Shortest
      <4>1. (n - 1) * Shortest <= Delay
        BY <2>2, SMT
      <4>2. \A a, b \in Int, l, d \in Nat : a <= d /\ l + d < b => a < b
        BY SMT
      <4>3. QED
        BY <1>1, <1>2, <4>1, <4>2
    <3>2. n - 1 < Headroom
      BY <1>1, <3>1, TimesCancels, SMT
    <3>3. QED
      BY <1>1, <3>2, SMT
  <2>3. QED
    BY <2>1, <2>2
<1>4. ASSUME w >= c PROVE w - c < (Headroom - m) * Shortest
  <2>1. w - c < Headroom * Shortest - n * Shortest
    <3>1. \A h, k \in Int, l, d \in Nat :
            w <= l /\ l + d < h /\ k <= d + c => w - c < h - k
      BY <1>1, SMT
    <3>2. QED
      BY <1>1, <1>2, <3>1
  <2>2. (Headroom - n) * Shortest = Headroom * Shortest - n * Shortest
    BY <1>1, TimesDistributes, SMT
  <2>3. (Headroom - n) * Shortest <= (Headroom - m) * Shortest
    <3>1. Headroom - n <= Headroom - m /\ Headroom - n \in Int /\ Headroom - m \in Int
      BY <1>1, SMT
    <3>2. QED
      BY <1>1, <3>1, TimesCancels
  <2>4. (Headroom - m) * Shortest \in Int
    <3>1. Headroom - m \in Int
      BY <1>1, SMT
    <3>2. QED
      BY <1>1, <3>1, TimesDistributes, SMT
  <2>5. \A a, b, d \in Int : w - c < a /\ a <= d => w - c < d
    BY <1>1, SMT
  <2>6. Headroom * Shortest - n * Shortest \in Int
    BY <1>2, SMT
  <2>7. QED
    BY <2>1, <2>2, <2>3, <2>4, <2>5, <2>6
<1>5. QED
  BY <1>1, <1>3, <1>4, SMT

------------------------------------------------------------------------------
\* The PFC frames on their way: one is sent, one is taken, time passes.

\* A PFC frame that is sent is the last word for its class, due within Late.
LEMMA WordSent ==
    ASSUME BackOK, NEW pr \in Prio, NEW k \in {0, Pause}, NEW r \in ReverseTimes,
           fromPeer' = Append(fromPeer, [prio |-> pr, n |-> k, left |-> Arrival(r)])
    PROVE  /\ BackOK'
           /\ \E w \in 0 .. Late : LastWord(pr)' = {[prio |-> pr, n |-> k, left |-> w]}
           /\ \A p \in Prio : p # pr => LastWord(p)' = LastWord(p)
<1> DEFINE n == Len(fromPeer)
           w == Arrival(r)
           x == [prio |-> pr, n |-> k, left |-> w]
<1>1. /\ fromPeer \in Seq(Word) /\ n \in Nat
      /\ \A i \in 1 .. n : fromPeer[i] \in Word
  BY LenProperties, ElementOfSeq DEF BackOK
<1>2. \A i \in 1 .. n : fromPeer[i].left \in 0 .. Late
  BY <1>1 DEF Word
<1>3. r \in 0 .. Late /\ Late \in Nat
  BY Delays
<1>4. /\ w \in 0 .. Late
      /\ \A i \in 1 .. n : fromPeer[i].left <= w
  <2>1. CASE fromPeer = <<>>
    <3>1. w = r /\ n = 0
      BY <2>1, EmptySeq DEF Arrival
    <3>2. QED
      BY <1>3, <3>1, SMT
  <2>2. CASE fromPeer # <<>>
    <3>1. n \in 1 .. n
      <4>1. n # 0
        BY <1>1, <2>2, EmptySeq
      <4>2. QED
        BY <1>1, <4>1, SMT
    <3>2. w = IF r > fromPeer[n].left THEN r ELSE fromPeer[n].left
      BY <2>2, Zenon DEF Arrival
    <3>3. fromPeer[n].left \in 0 .. Late
      BY <1>2, <3>1
    <3>4. w \in 0 .. Late /\ fromPeer[n].left <= w
      BY <1>3, <3>2, <3>3, SMT
    <3>5. \A i \in 1 .. n : fromPeer[i].left <= fromPeer[n].left
      <4>1. \A i \in 1 .. n : i < n \/ i = n
        BY <1>1, SMT
      <4>2. fromPeer[n].left <= fromPeer[n].left
        BY <3>3, SMT
      <4>3. QED
        BY <3>1, <4>1, <4>2 DEF BackOK
    <3>6. \A i \in 1 .. n : fromPeer[i].left <= w
      <4>1. \A a, b, c \in 0 .. Late : a <= b /\ b <= c => a <= c
        BY <1>3, SMT
      <4>2. QED
        BY <1>2, <3>3, <3>4, <3>5, <4>1
    <3>7. QED
      BY <3>4, <3>6
  <2>3. QED
    BY <2>1, <2>2
<1> HIDE DEF w
<1>5. x \in Word /\ x.left = w /\ x.prio = pr
  BY <1>4 DEF Word
<1>6. /\ Append(fromPeer, x) \in Seq(Word) /\ Len(Append(fromPeer, x)) = n + 1
      /\ \A i \in 1 .. n : Append(fromPeer, x)[i] = fromPeer[i]
      /\ Append(fromPeer, x)[n + 1] = x
  <2> HIDE DEF x
  <2>1. QED
    BY <1>1, <1>5, AppendProperties
<1>7. fromPeer' = Append(fromPeer, x)
  BY DEF w
<1> HIDE DEF n, x
<1>8. /\ fromPeer' \in Seq(Word) /\ Len(fromPeer') = n + 1
      /\ \A i \in 1 .. n : fromPeer'[i] = fromPeer[i]
      /\ fromPeer'[n + 1] = x
  BY <1>6, <1>7
<1>9. /\ \A i \in 1 .. n + 1 : i \in 1 .. n \/ i = n + 1
      /\ \A i \in 1 .. n : i \in 1 .. n + 1 /\ i < n + 1
      /\ n + 1 \in 1 .. n + 1
      /\ \A i \in 1 .. n + 1 : ~(i > n + 1)
  BY <1>1, SMT
<1>10. BackOK'
  <2>1. SUFFICES ASSUME NEW i \in 1 .. n + 1, NEW j \in 1 .. n + 1, i < j
                 PROVE  fromPeer'[i].left <= fromPeer'[j].left
    BY <1>8, Delays DEF BackOK
  <2>2. i \in 1 .. n
    BY <1>1, <2>1, SMT
  <2>3. CASE j \in 1 .. n
    BY <1>8, <2>1, <2>2, <2>3 DEF BackOK, n
  <2>4. CASE j = n + 1
    BY <1>4, <1>5, <1>8, <2>2, <2>4
  <2>5. QED
    BY <1>9, <2>3, <2>4
<1>11. LastPlace(pr)' = {n + 1}
  BY <1>5, <1>8, <1>9 DEF LastPlace
<1>12. \A p \in Prio : p # pr => LastPlace(p)' = LastPlace(p)
  BY <1>5, <1>8, <1>9 DEF LastPlace, n
<1>13. LastWord(pr)' = {x}
  BY <1>8, <1>11 DEF LastWord
<1>14. \A p \in Prio : p # pr => LastWord(p)' = LastWord(p)
  <2>1. \A p \in Prio : LastPlace(p) \subseteq 1 .. n
    BY DEF LastPlace, n
  <2>2. QED
    BY <1>8, <1>12, <2>1 DEF LastWord
<1>15. QED
  BY <1>4, <1>10, <1>13, <1>14 DEF x

\* Of the PFC frames of a class on their way, if any, one is the last.
LEMMA SomeWordIsLast ==
    ASSUME BackOK, NEW p \in Prio, NEW i \in 1 .. Len(fromPeer), fromPeer[i].prio = p
    PROVE  LastWord(p) # {}
<1> DEFINE S == {j \in 1 .. Len(fromPeer) : fromPeer[j].prio = p}
<1>1. Len(fromPeer) \in Nat
  BY LenProperties DEF BackOK
<1>2. IsFiniteSet(1 .. Len(fromPeer)) /\ 1 .. Len(fromPeer) \subseteq Nat
  BY <1>1, FS_Interval, SMT
<1>3. S \subseteq Nat /\ S # {} /\ IsFiniteSet(S)
  BY <1>2, FS_Subset
<1>4. Max(S) \in S /\ \A j \in S : j <= Max(S)
  <2> HIDE DEF S
  <2>1. QED
    BY <1>3, LargestOf
<1>5. \A j \in 1 .. Len(fromPeer) : j > Max(S) => j \notin S
  <2>1. \A j, k \in Nat : j > k => ~(j <= k)
    BY SMT
  <2>2. QED
    <3> HIDE DEF S
    <3>1. QED
      BY <1>2, <1>3, <1>4, <2>1
<1>6. Max(S) \in LastPlace(p)
  BY <1>4, <1>5 DEF LastPlace
<1>7. QED
  BY <1>6 DEF LastWord

\* The first PFC frame is taken: it may have been the last word for its class.
LEMMA WordTaken ==
    ASSUME BackOK, fromPeer # <<>>, fromPeer' = Tail(fromPeer)
    PROVE  /\ BackOK'
           /\ Head(fromPeer) \in Word
           /\ \A p \in Prio :
                \/ LastWord(p)' = LastWord(p)
                \/ /\ p = Head(fromPeer).prio
                   /\ LastWord(p) = {Head(fromPeer)} /\ LastWord(p)' = {}
<1> DEFINE n == Len(fromPeer)
<1>1. /\ fromPeer \in Seq(Word) /\ n \in Nat \ {0} /\ Len(fromPeer') = n - 1
      /\ fromPeer' \in Seq(Word) /\ Head(fromPeer) \in Word
      /\ \A i \in 1 .. n - 1 : fromPeer'[i] = fromPeer[i + 1]
      /\ Head(fromPeer) = fromPeer[1]
  BY HeadTailProperties, EmptySeq DEF BackOK
<1>2. /\ \A i \in 1 .. n - 1 : i + 1 \in 1 .. n /\ i + 1 # 1
      /\ \A i, j \in 1 .. n - 1 : j > i <=> j + 1 > i + 1
      /\ \A j \in 1 .. n : j # 1 => j - 1 \in 1 .. n - 1 /\ (j - 1) + 1 = j
      /\ \A j \in 1 .. n : j > 1 <=> j # 1
      /\ 1 \in 1 .. n
      /\ \A i \in 1 .. n - 1 : ~(1 > i + 1)
  BY <1>1, SMT
<1>3. BackOK'
  <2>1. SUFFICES ASSUME NEW i \in 1 .. n - 1, NEW j \in 1 .. n - 1, i < j
                 PROVE  fromPeer'[i].left <= fromPeer'[j].left
    BY <1>1 DEF BackOK
  <2>2. i + 1 < j + 1
    BY <2>1, SMT
  <2>3. fromPeer[i + 1].left <= fromPeer[j + 1].left
    BY <1>2, <2>2 DEF BackOK
  <2>4. QED
    BY <1>1, <2>3
<1>4. ASSUME NEW p \in Prio
      PROVE  LastPlace(p)' = {i \in 1 .. n - 1 : i + 1 \in LastPlace(p)}
  <2> HIDE DEF n
  <2>1. ASSUME NEW i \in 1 .. n - 1
        PROVE  (\A j \in 1 .. n - 1 : j > i => fromPeer'[j].prio # p)
                 <=> (\A j \in 1 .. n : j > i + 1 => fromPeer[j].prio # p)
    <3>1. ASSUME \A j \in 1 .. n - 1 : j > i => fromPeer'[j].prio # p,
                 NEW j \in 1 .. n, j > i + 1
          PROVE  fromPeer[j].prio # p
      <4>1. j # 1 /\ j - 1 \in 1 .. n - 1 /\ (j - 1) + 1 = j /\ j - 1 > i
        BY <1>1, <2>1, <3>1, SMT
      <4>2. fromPeer'[j - 1] = fromPeer[j]
        BY <1>1, <4>1
      <4>3. QED
        BY <3>1, <4>1, <4>2
    <3>2. ASSUME \A j \in 1 .. n : j > i + 1 => fromPeer[j].prio # p,
                 NEW j \in 1 .. n - 1, j > i
          PROVE  fromPeer'[j].prio # p
      <4>1. j + 1 \in 1 .. n /\ j + 1 > i + 1
        BY <1>1, <2>1, <3>2, SMT
      <4>2. QED
        BY <1>1, <3>2, <4>1
    <3>3. QED
      BY <3>1, <3>2
  <2>2. \A i \in 1 .. n - 1 : fromPeer'[i].prio = fromPeer[i + 1].prio /\ i + 1 \in 1 .. n
    BY <1>1, <1>2
  <2>3. LastPlace(p)' = {i \in 1 .. n - 1 :
            /\ fromPeer'[i].prio = p
            /\ \A j \in 1 .. n - 1 : j > i => fromPeer'[j].prio # p}
    BY <1>1 DEF LastPlace
  <2>4. LastPlace(p) = {i \in 1 .. n :
            /\ fromPeer[i].prio = p
            /\ \A j \in 1 .. n : j > i => fromPeer[j].prio # p}
    BY DEF LastPlace, n
  <2>5. QED
    BY <2>1, <2>2, <2>3, <2>4
<1>5. ASSUME NEW p \in Prio
      PROVE  LastWord(p)' = {fromPeer[i] : i \in LastPlace(p) \ {1}}
  <2>1. \A i \in LastPlace(p)' : fromPeer'[i] = fromPeer[i + 1]
    BY <1>1, <1>4
  <2>2. \A i \in LastPlace(p)' : i + 1 \in LastPlace(p) \ {1}
    BY <1>2, <1>4
  <2>3. \A j \in LastPlace(p) \ {1} : j - 1 \in LastPlace(p)' /\ (j - 1) + 1 = j
    <3>1. LastPlace(p) \subseteq 1 .. n
      BY DEF LastPlace
    <3>2. QED
      <4> HIDE DEF n
      <4>1. QED
        BY <1>2, <1>4, <3>1
  <2>4. LastWord(p)' = {fromPeer'[i] : i \in LastPlace(p)'}
    BY DEF LastWord
  <2>5. \A i \in LastPlace(p)' : fromPeer'[i] \in {fromPeer[j] : j \in LastPlace(p) \ {1}}
    BY <2>1, <2>2
  <2>6. ASSUME NEW j \in LastPlace(p) \ {1} PROVE fromPeer[j] \in LastWord(p)'
    <3>1. j - 1 \in LastPlace(p)' /\ fromPeer'[j - 1] = fromPeer[j]
      BY <2>1, <2>3
    <3>2. QED
      BY <2>4, <3>1
  <2>7. QED
    BY <2>4, <2>5, <2>6
<1>6. ASSUME NEW p \in Prio
      PROVE  \/ LastWord(p)' = LastWord(p)
             \/ /\ p = Head(fromPeer).prio
                /\ LastWord(p) = {Head(fromPeer)} /\ LastWord(p)' = {}
  <2>1. CASE 1 \notin LastPlace(p)
    BY <1>5, <2>1 DEF LastWord
  <2>2. CASE 1 \in LastPlace(p)
    <3>1. LastPlace(p) = {1}
      <4>1. \A j \in 1 .. n : j > 1 => fromPeer[j].prio # p
        BY <2>2 DEF LastPlace
      <4>2. \A j \in LastPlace(p) : j \in 1 .. n /\ fromPeer[j].prio = p
        BY DEF LastPlace
      <4>3. QED
        BY <1>2, <2>2, <4>1, <4>2
    <3>2. fromPeer[1].prio = p
      BY <2>2 DEF LastPlace
    <3>3. LastWord(p) = {fromPeer[1]}
      BY <3>1 DEF LastWord
    <3>4. LastPlace(p) \ {1} = {}
      BY <3>1
    <3>5. LastWord(p)' = {}
      BY <1>5, <3>4
    <3>6. QED
      BY <1>1, <3>2, <3>3, <3>5
  <2>3. QED
    BY <2>1, <2>2
<1>7. QED
  BY <1>1, <1>3, <1>6

\* Time passes: every PFC frame comes nearer, for none of them is due.
LEMMA WordsAge ==
    ASSUME BackOK, fromPeer # <<>> => Head(fromPeer).left > 0,
           fromPeer' = OneLess(fromPeer)
    PROVE  /\ BackOK'
           /\ \A p \in Prio : LastWord(p)' =
                {[x EXCEPT !.left = x.left - 1] : x \in LastWord(p)}
           /\ \A p \in Prio : \A x \in LastWord(p) : x \in Word /\ x.left > 0
<1>1. /\ fromPeer \in Seq(Word) /\ Len(fromPeer) \in Nat
      /\ \A i \in 1 .. Len(fromPeer) : fromPeer[i] \in Word
  BY LenProperties, ElementOfSeq DEF BackOK
<1>2. Late \in Nat
  BY Delays
<1>3. \A i \in 1 .. Len(fromPeer) : fromPeer[i].left \in 0 .. Late
  BY <1>1 DEF Word
<1>4. \A i \in 1 .. Len(fromPeer) : fromPeer[i].left > 0
  <2>1. SUFFICES ASSUME NEW i \in 1 .. Len(fromPeer) PROVE fromPeer[i].left > 0
    OBVIOUS
  <2>2. 1 \in 1 .. Len(fromPeer) /\ (i = 1 \/ 1 < i)
    BY <1>1, SMT
  <2>3. fromPeer # <<>>
    BY <2>1, EmptySeq, SMT
  <2>4. fromPeer[1].left > 0 /\ fromPeer[1].left \in 0 .. Late /\ fromPeer[i].left \in 0 .. Late
    BY <1>3, <2>2, <2>3
  <2>5. i # 1 => fromPeer[1].left <= fromPeer[i].left
    BY <2>2 DEF BackOK
  <2>6. QED
    BY <1>2, <2>4, <2>5, SMT
<1>5. ASSUME NEW i \in 1 .. Len(fromPeer)
      PROVE  /\ Down(fromPeer[i].left) = fromPeer[i].left - 1
             /\ fromPeer[i].left - 1 \in 0 .. Late
  BY <1>2, <1>3, <1>4, SMT DEF Down
<1>6. \A i \in 1 .. Len(fromPeer) :
        [fromPeer[i] EXCEPT !.left = Down(@)] = [fromPeer[i] EXCEPT !.left = fromPeer[i].left - 1]
  BY <1>1, <1>5 DEF Word
<1>7. \A i \in 1 .. Len(fromPeer) : [fromPeer[i] EXCEPT !.left = Down(@)] \in Word
  BY <1>1, <1>5 DEF Word
<1>8. /\ fromPeer' \in Seq(Word) /\ Len(fromPeer') = Len(fromPeer)
      /\ \A i \in 1 .. Len(fromPeer) :
            fromPeer'[i] = [fromPeer[i] EXCEPT !.left = fromPeer[i].left - 1]
  BY <1>1, <1>6, <1>7, OneLessProperties
<1>9. \A i \in 1 .. Len(fromPeer) :
        /\ fromPeer'[i].prio = fromPeer[i].prio
        /\ fromPeer'[i].left = fromPeer[i].left - 1
  BY <1>1, <1>8 DEF Word
<1>10. BackOK'
  <2>1. SUFFICES ASSUME NEW i \in 1 .. Len(fromPeer), NEW j \in 1 .. Len(fromPeer), i < j
                 PROVE  fromPeer'[i].left <= fromPeer'[j].left
    BY <1>8, Delays DEF BackOK
  <2>2. fromPeer[i].left <= fromPeer[j].left
    BY <2>1 DEF BackOK
  <2>3. \A a, b \in 0 .. Late : a <= b => a - 1 <= b - 1
    BY <1>2, SMT
  <2>4. QED
    BY <1>3, <1>9, <2>2, <2>3
<1>11. \A p \in Prio : LastPlace(p)' = LastPlace(p) /\ LastPlace(p) \subseteq 1 .. Len(fromPeer)
  BY <1>8, <1>9 DEF LastPlace
<1>12. \A p \in Prio : LastWord(p)' =
          {[fromPeer[i] EXCEPT !.left = fromPeer[i].left - 1] : i \in LastPlace(p)}
  <2>1. SUFFICES ASSUME NEW p \in Prio
                 PROVE  LastWord(p)' =
                   {[fromPeer[i] EXCEPT !.left = fromPeer[i].left - 1] : i \in LastPlace(p)}
    OBVIOUS
  <2>2. LastWord(p)' = {fromPeer'[i] : i \in LastPlace(p)}
    BY <1>11 DEF LastWord
  <2>3. \A i \in LastPlace(p) :
          fromPeer'[i] = [fromPeer[i] EXCEPT !.left = fromPeer[i].left - 1]
    BY <1>8, <1>11
  <2>4. QED
    BY <2>2, <2>3
<1>13. QED
  BY <1>1, <1>4, <1>10, <1>11, <1>12 DEF LastWord

------------------------------------------------------------------------------
\* What a step of the transmit half does to the line and to the pauses.

\* A step starts nothing on the line, or a data frame.
LineSame == UNCHANGED <<txCompleteIn, wire>>
FrameStarts ==
    /\ txCompleteIn = 0 /\ txCompleteIn' \in TxTimes
    /\ m_currentPkt' \in DataFrame /\ wire' # wire
    /\ wire'[Len(wire')] \in DataFrame


\* The base class starts the head of a queue of data frames.
LEMMA StartsHead ==
    ASSUME TypeOK, NEW q \in Seq(Frame), q # <<>>, Elems(q) \subseteq DataFrame,
           txCompleteIn = 0, m_queue' = Tail(q), TransmitStart(Head(q))
    PROVE  FrameStarts /\ LineKept'
<1>1. /\ Head(q) \in Elems(q) /\ Elems(m_queue') \subseteq Elems(q)
      /\ Head(q) \in Frame
  BY ElemsHeadTail
<1>2. Head(q) \in DataFrame
  BY <1>1
<1>3. wire \in Seq(Frame)
  BY DEF TypeOK, P2PTypeOK
<1>4. /\ Len(wire') = Len(wire) + 1 /\ wire'[Len(wire) + 1] = Head(q)
      /\ Len(wire) \in Nat
  BY <1>1, <1>3, ElemsAppend, LenProperties DEF TransmitStart
<1>5. wire' # wire
  <2>1. Len(wire) + 1 # Len(wire)
    BY <1>4, SMT
  <2>2. QED
    BY <1>4, <2>1
<1>6. m_currentPkt' = Head(q) /\ txCompleteIn' \in TxTimes
  BY DEF TransmitStart
<1>7. ~READY'
  BY <1>1, <1>6, NoPktAssumption DEF READY
<1>8. wire'[Len(wire')] = Head(q)
  BY <1>4
<1>9. QED
  BY <1>1, <1>2, <1>5, <1>6, <1>7, <1>8 DEF FrameStarts, LineKept

\* A step of Transmits starts a data frame or leaves the line alone; it pauses
\* no class and resumes none.
LEMMA TransmitsEffect ==
    ASSUME IInv, LineKept, Transmits
    PROVE  /\ LineKept' /\ UNCHANGED <<m_paused, pauseLeft>>
           /\ FrameStarts \/ LineSame
           /\ [Next]_vars
<1> USE DEF IInv
<1>0. m_queue \in Seq(Frame) /\ Len(m_queue) \in Nat
  BY LenProperties DEF TypeOK, P2PTypeOK
<1>1. [Next]_vars
  BY DEF Transmits, Next, Simulator
<1>2. CASE TryDequeueIdle
  BY <1>1, <1>2 DEF TryDequeueIdle, p2pVars, LineSame, LineKept, READY
<1>3. CASE TransmitCompletes
  <2>1. TransmitComplete /\ UNCHANGED <<m_paused, pauseLeft>>
    BY <1>3 DEF TransmitCompletes, qbbVars
  <2>2. CASE m_queue = <<>>
    <3>1. /\ m_currentPkt' = NoPkt /\ txCompleteIn = 0
          /\ UNCHANGED <<m_queue, txCompleteIn, wire>>
      BY <2>1, <2>2 DEF TransmitComplete
    <3>2. QED
      BY <1>1, <2>1, <3>1 DEF LineKept, READY, LineSame
  <2>3. CASE m_queue # <<>>
    <3>1. /\ txCompleteIn = 0 /\ m_queue' = Tail(m_queue)
          /\ TransmitStart(Head(m_queue))
      BY <2>1, <2>3 DEF TransmitComplete
    <3>2. QED
      BY <1>0, <1>1, <2>1, <2>3, <3>1, StartsHead DEF LineKept
  <2>4. QED
    BY <2>2, <2>3
<1>4. ASSUME NEW pr \in Prio, TryDequeueSent(pr)
      PROVE  /\ LineKept' /\ UNCHANGED <<m_paused, pauseLeft>>
             /\ FrameStarts \/ LineSame
  <2> DEFINE f == Head(m_txq[pr])
             q == Append(m_queue, f)
  <2>1. /\ m_txq[pr] # <<>> /\ SendAccepted(f) /\ UNCHANGED <<m_paused, pauseLeft>>
    BY <1>4 DEF TryDequeueSent, PickNextPrio, Eligible
  <2>2. f \in DataFrame /\ f \in Frame
    BY <2>1, ElemsHeadTail, FrameSets DEF TypeOK
  <2> HIDE DEF f
  <2>3. /\ q \in Seq(Frame) /\ Elems(q) = Elems(m_queue) \cup {f}
        /\ Len(q) = Len(m_queue) + 1
    BY <1>0, <2>2, ElemsAppend
  <2>4. q # <<>>
    BY <1>0, <2>3, EmptySeq, SMT
  <2>5. Elems(q) \subseteq DataFrame
    BY <2>2, <2>3 DEF LineKept
  <2>6. CASE READY
    <3>1. m_queue' = Tail(q) /\ TransmitStart(Head(q)) /\ txCompleteIn = 0
      BY <2>1, <2>6 DEF SendAccepted, LineKept
    <3> HIDE DEF q
    <3>2. QED
      BY <2>1, <2>3, <2>4, <2>5, <3>1, StartsHead
  <2>7. CASE ~READY
    <3>1. m_queue' = q /\ UNCHANGED <<m_currentPkt, txCompleteIn, wire>>
      BY <2>1, <2>7 DEF SendAccepted
    <3> HIDE DEF q
    <3>2. QED
      BY <2>1, <2>5, <2>7, <3>1 DEF LineKept, LineSame, READY
  <2>8. QED
    BY <2>6, <2>7
<1>5. ASSUME NEW pr \in Prio, TryDequeueRefused(pr)
      PROVE  LineKept' /\ UNCHANGED <<m_paused, pauseLeft>> /\ LineSame
  BY <1>5 DEF TryDequeueRefused, SendRejected, p2pVars, LineKept, READY, LineSame
<1>6. ASSUME NEW pr \in Prio, RefillMacQueueFromHold(pr)
      PROVE  LineKept' /\ UNCHANGED <<m_paused, pauseLeft>> /\ LineSame
  <2>1. refillEvent[pr] = [fn |-> "refill", left |-> 0]
    BY <1>6 DEF RefillMacQueueFromHold, RefillEventRuns
  <2>2. Refill(pr) /\ UNCHANGED pauseLeft
    BY <1>6, <2>1, PauseIsOver DEF RefillMacQueueFromHold, RefillEventRuns
  <2>3. ~m_paused[pr]
    <3>1. refillEvent[pr].fn = "refill"
      BY <2>1
    <3>2. QED
      BY <3>1, ArmedFields
  <2>4. m_paused' = m_paused
    <3>1. m_paused' = [m_paused EXCEPT ![pr] = FALSE] /\ m_paused \in [Prio -> BOOLEAN]
      BY <2>2 DEF Refill, TypeOK
    <3>2. QED
      BY <2>3, <3>1
  <2>5. LineSame
    BY <2>2 DEF Refill, LineSame
  <2>6. Elems(m_queue') \subseteq DataFrame
    <3>1. Elems(m_queue') \subseteq Elems(m_queue) \cup Elems(m_macHold[pr])
      BY <2>2, RefillEffect
    <3>2. Elems(m_macHold[pr]) \subseteq DataFrame
      BY FrameSets DEF ClassPure
    <3>3. QED
      BY <3>1, <3>2 DEF LineKept
  <2>7. QED
    BY <2>2, <2>4, <2>5, <2>6 DEF LineKept, READY, LineSame, Refill
<1>7. QED
  BY <1>1, <1>2, <1>3, <1>4, <1>5, <1>6 DEF Transmits

------------------------------------------------------------------------------
\* A class that a step does not concern.

LEMMA LinkTypes ==
    ASSUME LinkInv, NEW p \in Prio
    PROVE  /\ Occupancy(p) \in Nat /\ txCompleteIn \in Nat /\ Bound \in Nat
           /\ pauseLeft[p] \in Nat /\ m_paused[p] \in BOOLEAN
           /\ Cardinality(Coming(p)) \in Nat
           /\ Cardinality(DueNow(p)) \in 0 .. Cardinality(Coming(p))
           /\ Room(p) \in Int /\ LastWord(p) \subseteq Word
           /\ \A x \in Word : x.left \in 0 .. Late /\ x.left \in Nat
<1>1. m_ingressQ[Port][p] \in Seq({{2}})
  BY DEF LinkInv, PeerOK
<1>2. Occupancy(p) \in Nat
  BY <1>1, ElemsInSet DEF Occupancy
<1>3. txCompleteIn \in Nat /\ pauseLeft[p] \in Nat /\ m_paused[p] \in BOOLEAN
  BY DEF LinkInv, IInv, TypeOK, P2PTypeOK
<1>4. Bound \in Nat /\ Late \in Nat
  BY Delays
<1>5. toPeer \in Seq(Leg)
  BY DEF LinkInv, LineOK
<1>6. /\ Cardinality(Coming(p)) \in 0 .. Len(toPeer) /\ Len(toPeer) \in Nat
      /\ Cardinality(DueNow(p)) \in 0 .. Cardinality(Coming(p))
  BY <1>5, Counts
<1>7. Room(p) \in Int
  BY <1>2, <1>4, <1>6, SMT DEF Room
<1>8. \A i \in 1 .. Len(fromPeer) : fromPeer[i] \in Word
  BY ElementOfSeq DEF LinkInv, BackOK
<1>9. LastWord(p) \subseteq Word
  BY <1>8 DEF LastWord, LastPlace
<1>10. \A x \in Word : x.left \in 0 .. Late
  BY DEF Word
<1>11. 0 .. Late \subseteq Nat
  BY <1>4, SMT
<1>12. Cardinality(Coming(p)) \in Nat
  BY <1>6, SMT
<1>13. QED
  BY <1>2, <1>3, <1>4, <1>6, <1>7, <1>9, <1>10, <1>11, <1>12

\* It keeps what it had.
LEMMA ClassUntouched ==
    ASSUME NEW p \in Prio, ClassOK(p), LastWord(p)' = LastWord(p),
           UNCHANGED txCompleteIn,
           m_paused'[p] = m_paused[p], pauseLeft'[p] = pauseLeft[p],
           Occupancy(p)' = Occupancy(p), Congested(p)' <=> Congested(p),
           Cardinality(Coming(p)') = Cardinality(Coming(p)),
           Cardinality(DueNow(p)') = Cardinality(DueNow(p))
    PROVE  ClassOK(p)'
<1>1. Room(p)' = Room(p)
  BY DEF Room
<1>2. AgreedOn(p)'
  BY DEF ClassOK, AgreedOn
<1>3. BudgetOf(p) => BudgetOf(p)'
  BY <1>1 DEF BudgetOf
<1>4. QED
  BY <1>2, <1>3 DEF ClassOK

\* A step that leaves the channel, the line, the pauses and the peer's queues
\* as they are.
LEMMA NothingMoves ==
    ASSUME LinkInv, IInv', LineKept', PeerOK', UNCHANGED linkVars,
           UNCHANGED <<txCompleteIn, m_paused, pauseLeft>>,
           \A p \in Prio :
              Occupancy(p)' = Occupancy(p) /\ (Congested(p)' <=> Congested(p))
    PROVE  LinkInv'
<1>1. UNCHANGED <<toPeer, fromPeer, unprotected>>
  BY DEF linkVars
<1>2. BackOK'
  BY <1>1 DEF LinkInv, BackOK
<1>3. LineOK'
  BY <1>1 DEF LinkInv, LineOK, Spaced, OffTheLine
<1>4. \A p \in Prio : Coming(p)' = Coming(p) /\ DueNow(p)' = DueNow(p)
  BY <1>1 DEF Coming, DueNow
<1>5. \A p \in Prio : LastWord(p)' = LastWord(p)
  BY <1>1 DEF LastWord, LastPlace
<1>6. ClassesOK'
  <2>1. SUFFICES ASSUME ~unprotected, NEW p \in Prio PROVE ClassOK(p)'
    BY <1>1 DEF ClassesOK
  <2>2. ClassOK(p)
    BY <2>1 DEF LinkInv, ClassesOK
  <2>3. QED
    BY <1>4, <1>5, <2>2, ClassUntouched
<1>7. QED
  BY <1>2, <1>3, <1>6 DEF LinkInv

------------------------------------------------------------------------------
\* One lemma per step: it preserves LinkInv.

LEMMA PeerSame ==
    ASSUME PeerOK, UNCHANGED peerVars
    PROVE  /\ PeerOK'
           /\ \A p \in Prio :
                Occupancy(p)' = Occupancy(p) /\ (Congested(p)' <=> Congested(p))
<1>1. UNCHANGED <<m_ingressQ, m_rxOccPkts, m_localCongested, m_pfcTxXoff, m_pfcTxXon>>
  BY DEF peerVars
<1>2. QED
  BY <1>1, PeerWaits

LEMMA LinkSends ==
    ASSUME LinkInv, NEW pr \in Prio, Sends(pr)
    PROVE  LinkInv'
<1>1. Send(pr) /\ UNCHANGED peerVars /\ UNCHANGED linkVars
  BY DEF Sends
<1>2. IInv'
  BY <1>1, SendStep DEF LinkInv
<1>3. UNCHANGED <<m_queue, m_currentPkt, txCompleteIn, m_paused, pauseLeft>>
  BY <1>1 DEF Send, p2pVars
<1>4. LineKept'
  BY <1>3 DEF LinkInv, LineOK, LineKept, READY
<1>5. QED
  BY <1>1, <1>2, <1>3, <1>4, PeerSame, NothingMoves DEF LinkInv

LEMMA LinkPeerIdles ==
    ASSUME LinkInv, PeerIdles
    PROVE  LinkInv'
<1>1. /\ Peer!DrainIdle(Port) /\ UNCHANGED vars /\ UNCHANGED linkVars
  BY DEF PeerIdles
<1>2. IInv'
  BY <1>1, NextSafe DEF LinkInv
<1>3. UNCHANGED <<m_queue, m_currentPkt, txCompleteIn, m_paused, pauseLeft>>
  BY <1>1 DEF vars, p2pVars, qbbVars
<1>4. LineKept'
  BY <1>3 DEF LinkInv, LineOK, LineKept, READY
<1>5. UNCHANGED <<m_ingressQ, m_rxOccPkts, m_localCongested, m_pfcTxXoff, m_pfcTxXon>>
  BY <1>1 DEF Peer!DrainIdle
<1>6. QED
  BY <1>1, <1>2, <1>3, <1>4, <1>5, PeerWaits, NothingMoves DEF LinkInv

LEMMA LinkStutters ==
    ASSUME LinkInv, UNCHANGED allVars
    PROVE  LinkInv'
<1>1. UNCHANGED vars /\ UNCHANGED peerVars /\ UNCHANGED linkVars
  BY DEF allVars
<1>2. IInv'
  BY <1>1, NextSafe DEF LinkInv
<1>3. UNCHANGED <<m_queue, m_currentPkt, txCompleteIn, m_paused, pauseLeft>>
  BY <1>1 DEF vars, p2pVars, qbbVars
<1>4. LineKept'
  BY <1>3 DEF LinkInv, LineOK, LineKept, READY
<1>5. QED
  BY <1>1, <1>2, <1>3, <1>4, PeerSame, NothingMoves DEF LinkInv

\* A frame starts, of a class that is not paused.  Until the last XOFF is taken
\* the room for it was there; a class whose XOFF was taken has a pause that has
\* run out, and the frame will not arrive before ResumeFromPause is run.
LEMMA StartKeepsClass ==
    ASSUME LinkInv, NEW p \in Prio, ClassOK(p), NEW f \in DataFrame,
           txCompleteIn = 0, txCompleteIn' \in TxTimes,
           toPeer' = Append(toPeer, [frame |-> f, left |-> txCompleteIn' + Delay]),
           f.prio = p => ~Gated(p),
           UNCHANGED <<m_paused, pauseLeft, fromPeer>>,
           Occupancy(p)' = Occupancy(p), Congested(p)' <=> Congested(p)
    PROVE  ClassOK(p)'
<1> DEFINE one == IF f.prio = p THEN 1 ELSE 0
           x == [frame |-> f, left |-> txCompleteIn' + Delay]
<1>1. /\ txCompleteIn' \in Nat \ {0} /\ Shortest <= txCompleteIn'
      /\ Shortest \in Nat \ {0} /\ Delay \in Nat
  BY Delays, LinkAssumption
<1>2. x \in Leg /\ x.left # 0 /\ x.frame = f
  <2>1. \A t \in Nat \ {0}, d \in Nat : t + d \in Nat /\ t + d # 0
    BY SMT
  <2>2. txCompleteIn' + Delay \in Nat /\ txCompleteIn' + Delay # 0
    BY <1>1, <2>1
  <2>3. QED
    BY <2>2, Zenon DEF Leg
<1>3. toPeer' = Append(toPeer, x)
  OBVIOUS
<1> HIDE DEF x
<1>4. /\ Cardinality(Coming(p)') = Cardinality(Coming(p)) + one
      /\ DueNow(p)' = DueNow(p)
  BY <1>2, <1>3, OneMoreComing DEF LinkInv, LineOK
<1>5. LastWord(p)' = LastWord(p)
  BY DEF LastWord, LastPlace
<1>6. AgreedOn(p)'
  BY <1>5 DEF ClassOK, AgreedOn
<1>7. /\ Occupancy(p) \in Nat /\ Bound \in Nat
      /\ Cardinality(Coming(p)) \in Nat /\ Room(p) \in Int
      /\ LastWord(p) \subseteq Word /\ \A w \in Word : w.left \in Nat
      /\ pauseLeft[p] \in Nat
  BY LinkTypes
<1>8. Room(p)' = Room(p) - one /\ one \in {0, 1}
  BY <1>4, <1>7, SMT DEF Room
<1> HIDE DEF one
<1>9. ASSUME Congested(p)' PROVE BudgetOf(p)'
  <2>1. Congested(p) /\ BudgetOf(p)
    BY <1>9 DEF ClassOK
  <2>2. ASSUME NEW w \in LastWord(p)
        PROVE  /\ Room(p)' >= 0
               /\ w.left >= txCompleteIn' =>
                    w.left - txCompleteIn' < Room(p)' * Shortest
    <3>1. w.left \in Nat /\ w.left >= txCompleteIn
      BY <1>7, <2>2, SMT
    <3>2. w.left - 0 < Room(p) * Shortest
      BY <2>1, <2>2, <3>1 DEF BudgetOf
    <3>3. /\ Room(p) * Shortest \in Int
          /\ (Room(p) - 1) * Shortest = Room(p) * Shortest - 1 * Shortest
          /\ 1 * Shortest = Shortest /\ 0 * Shortest = 0
      BY <1>1, <1>7, TimesDistributes, SMT
    <3>4. 0 * Shortest < Room(p) * Shortest
      BY <3>1, <3>2, <3>3, SMT
    <3>5. Room(p) >= 1
      <4>1. 0 < Room(p)
        BY <1>1, <1>7, <3>4, TimesCancels, SMT
      <4>2. QED
        BY <1>7, <4>1, SMT
    <3>6. w.left - txCompleteIn' < (Room(p) - 1) * Shortest
      <4>1. \A a, t, s \in Nat, b \in Int : a - 0 < b /\ s <= t => a - t < b - s
        BY SMT
      <4>2. QED
        BY <1>1, <3>1, <3>2, <3>3, <4>1
    <3>7. CASE one = 1
      BY <1>7, <1>8, <3>5, <3>6, <3>7, SMT
    <3>8. CASE one = 0
      <4>1. Room(p)' = Room(p)
        BY <1>7, <1>8, <3>8, SMT
      <4>2. \A a, t, s \in Nat, b \in Int : a - 0 < b => a - t < b
        BY SMT
      <4>3. w.left - txCompleteIn' < Room(p) * Shortest
        BY <1>1, <3>1, <3>2, <3>3, <4>2
      <4>4. QED
        BY <1>7, <3>5, <4>1, <4>3, SMT
    <3>9. QED
      BY <1>8, <3>7, <3>8
  <2>3. ASSUME LastWord(p) = {}, pauseLeft[p] > 0
        PROVE  Room(p)' >= 0
    <3>1. m_paused[p]
      BY <2>1, <2>3 DEF ClassOK, AgreedOn
    <3>2. f.prio # p
      BY <2>3, <3>1 DEF Gated
    <3>3. Room(p) >= 0
      BY <2>1, <2>3 DEF BudgetOf
    <3>4. Room(p)' = Room(p)
      BY <1>7, <1>8, <3>2, SMT DEF one
    <3>5. QED
      BY <3>3, <3>4
  <2>4. ASSUME LastWord(p) = {}, ~(pauseLeft[p] > 0)
        PROVE  Occupancy(p)' + Cardinality(DueNow(p)') <= Bound
    BY <1>4, <2>1, <2>4 DEF BudgetOf
  <2>5. QED
    BY <1>5, <2>2, <2>3, <2>4 DEF BudgetOf
<1>10. QED
  BY <1>6, <1>9 DEF ClassOK

LEMMA LinkTransmits ==
    ASSUME LinkInv, Transmits
    PROVE  LinkInv'
<1>1. IInv /\ LineKept
  BY DEF LinkInv, LineOK
<1>2. /\ LineKept' /\ UNCHANGED <<m_paused, pauseLeft>>
      /\ FrameStarts \/ LineSame
      /\ [Next]_vars
  BY <1>1, TransmitsEffect
<1>3. IInv'
  BY <1>1, <1>2, NextSafe
<1>4. /\ Propagates /\ UNCHANGED peerVars
      /\ UNCHANGED <<fromPeer, nDropped, unprotected>>
  BY DEF Transmits
<1>5. PeerOK' /\ \A p \in Prio :
         Occupancy(p)' = Occupancy(p) /\ (Congested(p)' <=> Congested(p))
  BY <1>4, PeerSame DEF LinkInv
<1>6. CASE LineSame
  <2>1. UNCHANGED <<toPeer, txCompleteIn>>
    BY <1>4, <1>6 DEF LineSame, Propagates
  <2>2. UNCHANGED linkVars
    BY <1>4, <2>1 DEF linkVars
  <2>3. QED
    BY <1>2, <1>3, <1>5, <2>1, <2>2, NothingMoves
<1>7. CASE FrameStarts
  <2> DEFINE f == wire'[Len(wire')]
  <2>1. /\ txCompleteIn = 0 /\ txCompleteIn' \in TxTimes
        /\ wire' # wire /\ f \in DataFrame
    BY <1>7 DEF FrameStarts
  <2>2. toPeer' = Append(toPeer, [frame |-> f, left |-> txCompleteIn' + Delay])
    BY <1>4, <2>1 DEF Propagates
  <2>3. \A p \in Prio : f.prio = p => ~Gated(p)
    <3>1. SUFFICES ASSUME NEW p \in Prio, f.prio = p, Gated(p) PROVE FALSE
      OBVIOUS
    <3>2. f \notin DataOf(p)
      BY <1>1, <1>2, <2>1, <3>1, SilentStep
    <3>3. f \in DataOf(p)
      <4> HIDE DEF f
      <4>1. QED
        BY <2>1, <3>1 DEF DataFrame, DataOf
    <3>4. QED
      BY <3>2, <3>3
  <2> HIDE DEF f
  <2>4. toPeer' \in Seq(Leg) /\ Spaced' /\ OffTheLine'
    BY <2>1, <2>2, LineStarts DEF LinkInv, LineOK
  <2>5. LineOK'
    BY <1>2, <2>4 DEF LineOK
  <2>6. BackOK'
    BY <1>4 DEF LinkInv, BackOK
  <2>7. ClassesOK'
    <3>1. SUFFICES ASSUME ~unprotected, NEW p \in Prio PROVE ClassOK(p)'
      BY <1>4 DEF ClassesOK
    <3>2. ClassOK(p)
      BY <3>1 DEF LinkInv, ClassesOK
    <3>3. QED
      BY <1>2, <1>4, <1>5, <2>1, <2>2, <2>3, <3>2, StartKeepsClass
  <2>8. QED
    BY <1>3, <1>5, <2>5, <2>6, <2>7 DEF LinkInv
<1>8. QED
  BY <1>2, <1>6, <1>7

\* A pause runs out.  If the peer is still congested, the history says so.
LEMMA LinkPauseRunsOut ==
    ASSUME LinkInv, NEW pr \in Prio, PauseRunsOut(pr)
    PROVE  LinkInv'
<1> USE DEF LinkInv
<1>1. /\ ResumeFromPause(pr) /\ UNCHANGED peerVars
      /\ unprotected' = (unprotected \/ Congested(pr))
      /\ UNCHANGED <<toPeer, fromPeer>>
  BY DEF PauseRunsOut, Congested
<1>2. Refill(pr) /\ UNCHANGED pauseLeft
  <2>1. refillEvent[pr] = [fn |-> "resume", left |-> 0]
    BY <1>1 DEF ResumeFromPause, RefillEventRuns
  <2>2. QED
    BY <1>1, <2>1, PauseIsOver DEF ResumeFromPause, RefillEventRuns
<1>3. IInv'
  BY <1>1, RefillEventStep DEF ResumeFromPause
<1>4. /\ m_paused' = [m_paused EXCEPT ![pr] = FALSE] /\ m_paused \in [Prio -> BOOLEAN]
      /\ UNCHANGED <<m_currentPkt, txCompleteIn, wire>>
  BY <1>2 DEF Refill, IInv, TypeOK
<1>5. PeerOK' /\ \A p \in Prio :
         Occupancy(p)' = Occupancy(p) /\ (Congested(p)' <=> Congested(p))
  BY <1>1, PeerSame
<1>6. LineKept'
  <2>1. Elems(m_queue') \subseteq Elems(m_queue) \cup Elems(m_macHold[pr])
    BY <1>2, RefillEffect DEF IInv
  <2>2. Elems(m_macHold[pr]) \subseteq DataFrame
    BY FrameSets DEF IInv, ClassPure
  <2>3. QED
    BY <1>4, <2>1, <2>2 DEF LineOK, LineKept, READY
<1>7. LineOK' /\ BackOK'
  BY <1>1, <1>4, <1>6 DEF LineOK, BackOK, Spaced, OffTheLine
<1>8. \A p \in Prio :
         /\ Coming(p)' = Coming(p) /\ DueNow(p)' = DueNow(p)
         /\ LastWord(p)' = LastWord(p)
  BY <1>1 DEF Coming, DueNow, LastWord, LastPlace
<1>9. ClassesOK'
  <2>1. SUFFICES ASSUME ~unprotected', NEW p \in Prio PROVE ClassOK(p)'
    BY DEF ClassesOK
  <2>2. ~unprotected /\ ~Congested(pr)
    BY <1>1, <2>1
  <2>3. ClassOK(p)
    BY <2>2 DEF ClassesOK
  <2>4. CASE p # pr
    BY <1>2, <1>4, <1>5, <1>8, <2>3, <2>4, ClassUntouched
  <2>5. CASE p = pr
    <3>1. ~Congested(p)' /\ ~m_paused'[p]
      BY <1>4, <1>5, <2>2, <2>5
    <3>2. AgreedOn(p)'
      BY <1>8, <2>2, <2>3, <2>5, <3>1 DEF ClassOK, AgreedOn
    <3>3. QED
      BY <3>1, <3>2 DEF ClassOK
  <2>6. QED
    BY <2>4, <2>5
<1>10. QED
  BY <1>3, <1>5, <1>7, <1>9

\* A PFC frame is taken.  If it was the last word for its class, m_paused now
\* says what it said; an XOFF also makes the pause run.
LEMMA LinkPfcArrives ==
    ASSUME LinkInv, NEW pr \in Prio, PfcArrives(pr)
    PROVE  LinkInv'
<1> USE DEF LinkInv
<1> DEFINE x == Head(fromPeer)
<1>1. /\ fromPeer # <<>> /\ pr = x.prio
      /\ IF x.n = 0 THEN HandleXon(pr) ELSE HandleXoff(pr, x.n)
      /\ fromPeer' = Tail(fromPeer)
      /\ UNCHANGED peerVars /\ UNCHANGED <<toPeer, nDropped, unprotected>>
  BY DEF PfcArrives
<1>2. /\ BackOK' /\ x \in Word
      /\ \A p \in Prio :
           \/ LastWord(p)' = LastWord(p)
           \/ p = x.prio /\ LastWord(p) = {x} /\ LastWord(p)' = {}
  BY <1>1, WordTaken
<1>3. x.n \in {0, Pause} /\ Pause \in PauseTimes /\ Pause \in Nat \ {0}
  BY <1>2, Delays DEF Word
<1> HIDE DEF x
<1>4. PeerOK' /\ \A p \in Prio :
         Occupancy(p)' = Occupancy(p) /\ (Congested(p)' <=> Congested(p))
  BY <1>1, PeerSame
<1>5. /\ m_paused \in [Prio -> BOOLEAN] /\ pauseLeft \in [Prio -> Nat]
      /\ Elems(m_macHold[pr]) \subseteq DataFrame
  BY FrameSets DEF IInv, TypeOK, ClassPure
<1>6. /\ IInv' /\ LineKept' /\ UNCHANGED txCompleteIn
      /\ m_paused'[pr] <=> x.n # 0
      /\ x.n # 0 => pauseLeft'[pr] > 0
      /\ \A p \in Prio : p # pr =>
           m_paused'[p] = m_paused[p] /\ pauseLeft'[p] = pauseLeft[p]
  <2>1. CASE x.n = 0
    <3>1. HandleXon(pr)
      BY <1>1, <2>1
    <3>2. /\ Refill(pr) /\ pauseLeft' = [pauseLeft EXCEPT ![pr] = 0]
      BY <3>1 DEF HandleXon
    <3>3. /\ m_paused' = [m_paused EXCEPT ![pr] = FALSE]
          /\ UNCHANGED <<m_currentPkt, txCompleteIn>>
      BY <3>2 DEF Refill
    <3>4. Elems(m_queue') \subseteq Elems(m_queue) \cup Elems(m_macHold[pr])
      BY <3>2, RefillEffect DEF IInv
    <3>5. LineKept'
      BY <1>5, <3>3, <3>4 DEF LineOK, LineKept, READY
    <3>6. IInv'
      BY <3>1, HandleXonStep
    <3>7. QED
      BY <1>5, <2>1, <3>2, <3>3, <3>5, <3>6
  <2>2. CASE x.n # 0
    <3>1. HandleXoff(pr, x.n) /\ x.n \in PauseTimes /\ x.n > 0
      BY <1>1, <1>3, <2>2, SMT
    <3>2. /\ m_paused' = [m_paused EXCEPT ![pr] = TRUE]
          /\ pauseLeft' = [pauseLeft EXCEPT ![pr] = x.n]
          /\ PurgeMacQueueForPrio(pr)
          /\ UNCHANGED <<m_currentPkt, txCompleteIn, wire>>
      BY <3>1 DEF HandleXoff
    <3>3. Elems(m_queue') \subseteq Elems(m_queue)
      BY <3>2, PurgeEffect DEF IInv
    <3>4. LineKept'
      BY <3>2, <3>3 DEF LineOK, LineKept, READY
    <3>5. IInv'
      BY <3>1, HandleXoffStep
    <3>6. QED
      BY <1>5, <2>2, <3>1, <3>2, <3>4, <3>5
  <2>3. QED
    BY <2>1, <2>2
<1>7. LineOK'
  BY <1>1, <1>6 DEF LineOK, Spaced, OffTheLine
<1>8. \A p \in Prio : Coming(p)' = Coming(p) /\ DueNow(p)' = DueNow(p)
  BY <1>1 DEF Coming, DueNow
<1>9. ClassesOK'
  <2>1. SUFFICES ASSUME ~unprotected, NEW p \in Prio PROVE ClassOK(p)'
    BY <1>1 DEF ClassesOK
  <2>2. ClassOK(p)
    BY <2>1 DEF ClassesOK
  <2>3. CASE p # pr
    BY <1>1, <1>2, <1>4, <1>6, <1>8, <2>2, <2>3, ClassUntouched
  <2>4. CASE p = pr /\ LastWord(p) = {x} /\ LastWord(p)' = {}
    <3>1. x.n # 0 <=> Congested(p)
      BY <2>2, <2>4 DEF ClassOK, AgreedOn
    <3>2. AgreedOn(p)'
      BY <1>4, <1>6, <2>4, <3>1 DEF AgreedOn
    <3>3. ASSUME Congested(p)' PROVE BudgetOf(p)'
      <4>1. Congested(p) /\ BudgetOf(p)
        BY <1>4, <2>2, <3>3 DEF ClassOK
      <4>2. Room(p) >= 0
        BY <2>4, <4>1 DEF BudgetOf
      <4>3. Room(p)' >= 0
        BY <1>4, <1>8, <4>2 DEF Room
      <4>4. pauseLeft'[p] > 0
        BY <1>6, <2>4, <3>1, <4>1
      <4>5. QED
        BY <2>4, <4>3, <4>4 DEF BudgetOf
    <3>4. QED
      BY <3>2, <3>3 DEF ClassOK
  <2>5. CASE p = pr /\ LastWord(p)' = LastWord(p)
    <3>1. LastWord(p) # {}
      <4>1. 1 \in 1 .. Len(fromPeer)
        BY <1>1, HeadTailProperties, SMT DEF BackOK
      <4>2. fromPeer[1].prio = p
        BY <1>1, <2>5 DEF x
      <4>3. QED
        BY <4>1, <4>2, SomeWordIsLast
    <3>2. AgreedOn(p)'
      BY <1>4, <2>2, <2>5, <3>1 DEF ClassOK, AgreedOn
    <3>3. Room(p)' = Room(p)
      BY <1>4, <1>8 DEF Room
    <3>4. BudgetOf(p) => BudgetOf(p)'
      BY <1>6, <2>5, <3>1, <3>3 DEF BudgetOf
    <3>5. QED
      BY <1>4, <2>2, <3>2, <3>4 DEF ClassOK
  <2>6. QED
    BY <1>2, <2>3, <2>4, <2>5
<1>10. QED
  BY <1>2, <1>4, <1>6, <1>7, <1>9

\* What the peer's answer, if it is not dropped, adds to the channel back.
LEMMA AnswerEffect ==
    ASSUME fromPeer \in Seq(Word), NEW pr \in Prio, AnswerSent(pr)
    PROVE  /\ unprotected' = unprotected
           /\ Answers(pr) = <<>> => fromPeer' = fromPeer
           /\ \A k \in {0, Pause} : Answers(pr) = <<k>> =>
                \E r \in ReverseTimes : fromPeer' =
                   Append(fromPeer, [prio |-> pr, n |-> k, left |-> Arrival(r)])
<1>1. unprotected' = unprotected
  BY DEF AnswerSent
<1>2. PICK r \in ReverseTimes : fromPeer' = fromPeer \o
         [i \in DOMAIN Answers(pr) |->
             [prio |-> pr, n |-> Answers(pr)[i], left |-> Arrival(r)]]
  BY DEF AnswerSent
<1>3. ASSUME Answers(pr) = <<>> PROVE fromPeer' = fromPeer
  <2>1. [i \in DOMAIN Answers(pr) |->
             [prio |-> pr, n |-> Answers(pr)[i], left |-> Arrival(r)]] = <<>>
    BY <1>3
  <2>2. fromPeer \o <<>> = fromPeer
    OBVIOUS
  <2>3. QED
    BY <1>2, <2>1, <2>2
<1>4. ASSUME NEW k \in {0, Pause}, Answers(pr) = <<k>>
      PROVE  fromPeer' = Append(fromPeer, [prio |-> pr, n |-> k, left |-> Arrival(r)])
  <2> DEFINE x == [prio |-> pr, n |-> k, left |-> Arrival(r)]
  <2>1. DOMAIN <<k>> = 1 .. 1 /\ <<k>>[1] = k
    OBVIOUS
  <2>2. [i \in DOMAIN Answers(pr) |->
             [prio |-> pr, n |-> Answers(pr)[i], left |-> Arrival(r)]]
          = [i \in 1 .. 1 |-> x]
    BY <1>4, <2>1
  <2> HIDE DEF x
  <2>3. [i \in 1 .. 1 |-> x] = <<x>>
    OBVIOUS
  <2>4. fromPeer \o <<x>> = Append(fromPeer, x)
    OBVIOUS
  <2>5. QED
    BY <1>2, <2>2, <2>3, <2>4 DEF x
<1>5. QED
  BY <1>1, <1>3, <1>4

\* What a PFC frame that is the last of its class on the way says.
LEMMA OnlyWord ==
    ASSUME NEW pr \in Prio, NEW k, NEW w,
           LastWord(pr)' = {[prio |-> pr, n |-> k, left |-> w]}
    PROVE  /\ (k # 0 <=> Congested(pr)') => AgreedOn(pr)'
           /\ (/\ Room(pr)' >= 0
               /\ w >= txCompleteIn' =>
                     w - txCompleteIn' < Room(pr)' * Shortest) => BudgetOf(pr)'
<1> DEFINE x == [prio |-> pr, n |-> k, left |-> w]
<1>1. x.n = k /\ x.left = w
  OBVIOUS
<1>2. LastWord(pr)' = {x}
  OBVIOUS
<1> HIDE DEF x
<1>3. LastWord(pr)' # {} /\ \A y \in LastWord(pr)' : y = x
  BY <1>2
<1>4. ASSUME k # 0 <=> Congested(pr)' PROVE AgreedOn(pr)'
  <2>1. \A y \in LastWord(pr)' : y.n # 0 <=> Congested(pr)'
    BY <1>1, <1>3, <1>4
  <2>2. QED
    BY <1>3, <2>1 DEF AgreedOn
<1>5. ASSUME Room(pr)' >= 0,
             w >= txCompleteIn' => w - txCompleteIn' < Room(pr)' * Shortest
      PROVE  BudgetOf(pr)'
  <2>1. \A y \in LastWord(pr)' : y.left = w
    BY <1>1, <1>3
  <2>2. QED
    BY <1>3, <1>5, <2>1, Zenon DEF BudgetOf
<1>6. QED
  BY <1>4, <1>5

\* A frame arrives.  It takes the place of one that was coming; the one that
\* brings the queue to the high watermark is answered by an XOFF, and the
\* headroom covers what that finds under way.
LEMMA LinkDataArrives ==
    ASSUME LinkInv, NEW pr \in Prio, DataArrives(pr)
    PROVE  LinkInv'
<1> USE DEF LinkInv
<1>1. /\ toPeer # <<>> /\ Head(toPeer).left = 0 /\ pr = Head(toPeer).frame.prio
      /\ Peer!HandleMacRx(Port, pr, {2})
      /\ toPeer' = Tail(toPeer)
      /\ AnswerSent(pr) \/ AnswerDropped(pr)
      /\ UNCHANGED vars
  BY DEF DataArrives
<1>2. IInv'
  BY <1>1, NextSafe
<1>3. UNCHANGED <<m_queue, m_currentPkt, txCompleteIn, m_paused, pauseLeft>>
  BY <1>1 DEF vars, p2pVars, qbbVars
<1>4. toPeer \in Seq(Leg) /\ Spaced /\ OffTheLine /\ txCompleteIn \in Nat
  BY DEF LineOK, IInv, TypeOK, P2PTypeOK
<1>5. LineOK'
  <2>1. toPeer' \in Seq(Leg) /\ Spaced' /\ OffTheLine'
    BY <1>1, <1>3, <1>4, LineDelivers
  <2>2. QED
    BY <1>3, <2>1 DEF LineOK, LineKept, READY
<1>6. /\ PeerOK'
      /\ Occupancy(pr) \in Nat /\ Occupancy(pr)' = Occupancy(pr) + 1
      /\ \A p \in Prio : p # pr =>
           Occupancy(p)' = Occupancy(p) /\ (Congested(p)' <=> Congested(p))
      /\ \/ Answers(pr) = <<>> /\ (Congested(pr)' <=> Congested(pr))
         \/ /\ Answers(pr) = <<Pause>>
            /\ ~Congested(pr) /\ Congested(pr)'
            /\ Occupancy(pr)' = PfcHighPkts
  BY <1>1, PeerTakes
<1>7. CASE AnswerDropped(pr)
  <2>1. unprotected' /\ fromPeer' = fromPeer
    BY <1>7 DEF AnswerDropped
  <2>2. QED
    BY <1>2, <1>5, <1>6, <2>1 DEF BackOK, ClassesOK
<1>8. CASE AnswerSent(pr)
  <2>1. /\ unprotected' = unprotected
        /\ Answers(pr) = <<>> => fromPeer' = fromPeer
        /\ \A k \in {0, Pause} : Answers(pr) = <<k>> =>
             \E r \in ReverseTimes : fromPeer' =
                Append(fromPeer, [prio |-> pr, n |-> k, left |-> Arrival(r)])
    BY <1>8, AnswerEffect DEF BackOK
  <2>2. \A p \in Prio : p # pr =>
          /\ Cardinality(Coming(p)') = Cardinality(Coming(p))
          /\ Cardinality(DueNow(p)') = Cardinality(DueNow(p))
    <3>1. SUFFICES ASSUME NEW p \in Prio, p # pr
                   PROVE  /\ Cardinality(Coming(p)') = Cardinality(Coming(p))
                          /\ Cardinality(DueNow(p)') = Cardinality(DueNow(p))
      OBVIOUS
    <3>2. /\ Cardinality(Coming(p)) = Cardinality(Coming(p)') + 0
          /\ Cardinality(DueNow(p)) = Cardinality(DueNow(p)') + 0
          /\ Cardinality(Coming(p)') \in Nat /\ Cardinality(DueNow(p)') \in Nat
      BY <1>1, <1>4, <3>1, OneLessComing
    <3>3. QED
      BY <3>2, SMT
  <2>3. /\ Cardinality(Coming(pr)) = Cardinality(Coming(pr)') + 1
        /\ Cardinality(DueNow(pr)) = Cardinality(DueNow(pr)') + 1
        /\ Cardinality(Coming(pr)') \in Nat /\ Cardinality(DueNow(pr)') \in Nat
    BY <1>1, <1>4, OneLessComing
  <2>4. CASE Answers(pr) = <<>> /\ (Congested(pr)' <=> Congested(pr))
    <3>1. fromPeer' = fromPeer
      BY <2>1, <2>4
    <3>2. BackOK' /\ \A p \in Prio : LastWord(p)' = LastWord(p)
      BY <3>1 DEF BackOK, LastWord, LastPlace
    <3>3. ClassesOK'
      <4>1. SUFFICES ASSUME ~unprotected, NEW p \in Prio PROVE ClassOK(p)'
        BY <2>1 DEF ClassesOK
      <4>2. ClassOK(p)
        BY <4>1 DEF ClassesOK
      <4>3. CASE p # pr
        BY <1>3, <1>6, <2>2, <3>2, <4>2, <4>3, ClassUntouched
      <4>4. CASE p = pr
        <5>1. AgreedOn(p)'
          BY <1>3, <2>4, <3>2, <4>2, <4>4 DEF ClassOK, AgreedOn
        <5>2. Bound \in Nat
          BY Delays
        <5>3. Room(p)' = Room(p)
          BY <1>6, <2>3, <4>4, <5>2, SMT DEF Room
        <5>4. Occupancy(p)' + Cardinality(DueNow(p)') = Occupancy(p) + Cardinality(DueNow(p))
          BY <1>6, <2>3, <4>4, SMT
        <5>5. BudgetOf(p) => BudgetOf(p)'
          BY <1>3, <3>2, <5>3, <5>4 DEF BudgetOf
        <5>6. QED
          BY <2>4, <4>2, <4>4, <5>1, <5>5 DEF ClassOK
      <4>5. QED
        BY <4>3, <4>4
    <3>4. QED
      BY <1>2, <1>5, <1>6, <3>2, <3>3
  <2>5. CASE /\ Answers(pr) = <<Pause>>
             /\ ~Congested(pr) /\ Congested(pr)'
             /\ Occupancy(pr)' = PfcHighPkts
    <3>1. PICK r \in ReverseTimes : fromPeer' =
             Append(fromPeer, [prio |-> pr, n |-> Pause, left |-> Arrival(r)])
      BY <2>1, <2>5
    <3>2. /\ BackOK'
          /\ \E w \in 0 .. Late : LastWord(pr)' = {[prio |-> pr, n |-> Pause, left |-> w]}
          /\ \A p \in Prio : p # pr => LastWord(p)' = LastWord(p)
      BY <3>1, WordSent
    <3>3. PICK w \in 0 .. Late : LastWord(pr)' = {[prio |-> pr, n |-> Pause, left |-> w]}
      BY <3>2
    <3>4. AgreedOn(pr)'
      <4>1. Pause # 0
        BY Delays
      <4>2. QED
        BY <2>5, <3>3, <4>1, OnlyWord
    <3>5. /\ Len(toPeer') \in Nat
          /\ Len(toPeer') * Shortest <= Delay + txCompleteIn
          /\ Len(toPeer') >= 1 => (Len(toPeer') - 1) * Shortest <= Delay
      BY <1>1, <1>4, BehindAnArrival
    <3>6. Cardinality(Coming(pr)') \in 0 .. Len(toPeer')
      <4>1. Cardinality(Coming(pr)) \in 0 .. Len(toPeer) /\ Len(toPeer) \in Nat
        BY <1>4, Counts
      <4>2. Len(toPeer') = Len(toPeer) - 1
        BY <1>1, <1>4, HeadTailProperties
      <4>3. QED
        BY <2>3, <4>1, <4>2, SMT
    <3>7. Room(pr)' = Headroom - Cardinality(Coming(pr)')
      <4>1. PfcHighPkts \in Nat /\ Headroom \in Nat
        BY Delays
      <4>2. QED
        BY <2>3, <2>5, <4>1, SMT DEF Room, Bound
    <3>8. Room(pr)' >= 0 /\ (w >= txCompleteIn => w - txCompleteIn < Room(pr)' * Shortest)
      <4> DEFINE m == Cardinality(Coming(pr)')
                 n == Len(toPeer')
      <4>1. /\ n \in Nat /\ m \in 0 .. n
            /\ n * Shortest <= Delay + txCompleteIn
            /\ n >= 1 => (n - 1) * Shortest <= Delay
        BY <3>5, <3>6
      <4> HIDE DEF m, n
      <4>2. /\ Headroom - m >= 0
            /\ w >= txCompleteIn => w - txCompleteIn < (Headroom - m) * Shortest
        BY <1>4, <4>1, RoomForTheRest
      <4>3. QED
        BY <3>7, <4>2 DEF m
    <3>9. BudgetOf(pr)'
      BY <1>3, <3>3, <3>8, OnlyWord
    <3>10. ClassesOK'
      <4>1. SUFFICES ASSUME ~unprotected, NEW p \in Prio PROVE ClassOK(p)'
        BY <2>1 DEF ClassesOK
      <4>2. ClassOK(p)
        BY <4>1 DEF ClassesOK
      <4>3. CASE p # pr
        BY <1>3, <1>6, <2>2, <3>2, <4>2, <4>3, ClassUntouched
      <4>4. CASE p = pr
        BY <3>4, <3>9, <4>4 DEF ClassOK
      <4>5. QED
        BY <4>3, <4>4
    <3>11. QED
      BY <1>2, <1>5, <1>6, <3>2, <3>10
  <2>6. QED
    BY <1>6, <2>4, <2>5
<1>9. QED
  BY <1>1, <1>7, <1>8

\* The peer hands a packet to IP: a class that stays congested has more room; a
\* class that is no longer congested is told by an XON.
LEMMA LinkPeerDrains ==
    ASSUME LinkInv, NEW pr \in Prio, PeerDrains(pr)
    PROVE  LinkInv'
<1> USE DEF LinkInv
<1>1. /\ Peer!Picks(Port, pr)
      /\ Peer!DrainGranted(Port, pr, 2) \/ Peer!DrainRefused(Port, pr, 2)
      /\ AnswerSent(pr) \/ AnswerDropped(pr)
      /\ UNCHANGED vars /\ UNCHANGED toPeer
  BY DEF PeerDrains
<1>2. IInv'
  BY <1>1, NextSafe
<1>3. UNCHANGED <<m_queue, m_currentPkt, txCompleteIn, m_paused, pauseLeft>>
  BY <1>1 DEF vars, p2pVars, qbbVars
<1>4. LineKept'
  BY <1>3 DEF LineOK, LineKept, READY
<1>5. ASSUME AnswerSent(pr)
      PROVE /\ unprotected' = unprotected /\ nDropped' = nDropped
            /\ Answers(pr) = <<>> => fromPeer' = fromPeer
            /\ \A k \in {0, Pause} : Answers(pr) = <<k>> =>
                 \E r \in ReverseTimes : fromPeer' =
                    Append(fromPeer, [prio |-> pr, n |-> k, left |-> Arrival(r)])
  BY <1>5, AnswerEffect DEF BackOK, AnswerSent
<1>6. CASE Peer!DrainRefused(Port, pr, 2)
  <2>1. UNCHANGED <<m_ingressQ, m_rxOccPkts, m_localCongested, m_pfcTxXoff, m_pfcTxXon>>
    BY <1>6 DEF Peer!DrainRefused
  <2>2. /\ PeerOK' /\ Answers(pr) = <<>>
        /\ \A p \in Prio :
             Occupancy(p)' = Occupancy(p) /\ (Congested(p)' <=> Congested(p))
    BY <2>1, PeerWaits
  <2>3. UNCHANGED linkVars
    BY <1>1, <1>5, <2>2 DEF AnswerDropped, linkVars
  <2>4. QED
    BY <1>2, <1>3, <1>4, <2>2, <2>3, NothingMoves
<1>7. CASE Peer!DrainGranted(Port, pr, 2)
  <2>1. /\ PeerOK'
        /\ Occupancy(pr) \in Nat /\ Occupancy(pr)' = Occupancy(pr) - 1
        /\ \A p \in Prio : p # pr =>
             Occupancy(p)' = Occupancy(p) /\ (Congested(p)' <=> Congested(p))
        /\ \/ Answers(pr) = <<>> /\ (Congested(pr)' <=> Congested(pr))
           \/ Answers(pr) = <<0>> /\ ~Congested(pr)'
    BY <1>1, <1>7, PeerGives
  <2>2. LineOK'
    BY <1>1, <1>3, <1>4 DEF LineOK, Spaced, OffTheLine
  <2>3. \A p \in Prio : Coming(p)' = Coming(p) /\ DueNow(p)' = DueNow(p)
    BY <1>1 DEF Coming, DueNow
  <2>4. CASE AnswerDropped(pr)
    <3>1. unprotected' /\ fromPeer' = fromPeer
      BY <2>4 DEF AnswerDropped
    <3>2. QED
      BY <1>2, <2>1, <2>2, <3>1 DEF BackOK, ClassesOK
  <2>5. CASE AnswerSent(pr) /\ Answers(pr) = <<>> /\ (Congested(pr)' <=> Congested(pr))
    <3>1. fromPeer' = fromPeer /\ unprotected' = unprotected
      BY <1>5, <2>5
    <3>2. BackOK' /\ \A p \in Prio : LastWord(p)' = LastWord(p)
      BY <3>1 DEF BackOK, LastWord, LastPlace
    <3>3. ClassesOK'
      <4>1. SUFFICES ASSUME ~unprotected, NEW p \in Prio PROVE ClassOK(p)'
        BY <3>1 DEF ClassesOK
      <4>2. ClassOK(p)
        BY <4>1 DEF ClassesOK
      <4>3. CASE p # pr
        BY <1>3, <2>1, <2>3, <3>2, <4>2, <4>3, ClassUntouched
      <4>4. CASE p = pr
        <5>1. AgreedOn(p)'
          BY <1>3, <2>5, <3>2, <4>2, <4>4 DEF ClassOK, AgreedOn
        <5>2. /\ Bound \in Nat /\ Cardinality(Coming(p)) \in Nat
              /\ Cardinality(DueNow(p)) \in Nat
              /\ Room(p) \in Int /\ txCompleteIn \in Nat
              /\ \A x \in LastWord(p) : x.left \in Nat
          <6>1. Cardinality(DueNow(p)) \in 0 .. Cardinality(Coming(p))
                /\ Cardinality(Coming(p)) \in Nat
            BY LinkTypes
          <6>2. Cardinality(DueNow(p)) \in Nat
            BY <6>1, SMT
          <6>3. QED
            BY <6>1, <6>2, LinkTypes
        <5>3. Room(p)' = Room(p) + 1
          BY <2>1, <2>3, <4>4, <5>2, SMT DEF Room
        <5>4. /\ Occupancy(p)' + Cardinality(DueNow(p)') <= Occupancy(p) + Cardinality(DueNow(p))
              /\ Occupancy(p)' + Cardinality(DueNow(p)') \in Int
              /\ Occupancy(p) + Cardinality(DueNow(p)) \in Int
          BY <2>1, <2>3, <4>4, <5>2, SMT
        <5>5. Room(p) * Shortest <= Room(p)' * Shortest
              /\ Room(p) * Shortest \in Int /\ Room(p)' * Shortest \in Int
          <6>1. Room(p) <= Room(p)' /\ Room(p)' \in Int
            BY <5>2, <5>3, SMT
          <6>2. QED
            BY <5>2, <6>1, Delays, TimesCancels, TimesDistributes
        <5>6. BudgetOf(p) => BudgetOf(p)'
          <6> DEFINE a == Room(p) * Shortest
                     b == Room(p)' * Shortest
                     o == Occupancy(p) + Cardinality(DueNow(p))
                     q == Occupancy(p)' + Cardinality(DueNow(p)')
          <6>1. /\ a \in Int /\ b \in Int /\ a <= b
                /\ o \in Int /\ q \in Int /\ q <= o
            BY <5>4, <5>5
          <6>2. SUFFICES ASSUME BudgetOf(p) PROVE BudgetOf(p)'
            OBVIOUS
          <6>3. /\ \A x \in LastWord(p) :
                     /\ Room(p) >= 0
                     /\ x.left >= txCompleteIn => x.left - txCompleteIn < a
                /\ LastWord(p) = {} =>
                     IF pauseLeft[p] > 0 THEN Room(p) >= 0 ELSE o <= Bound
            BY <6>2 DEF BudgetOf
          <6> HIDE DEF a, b, o, q
          <6>4. Room(p) >= 0 => Room(p)' >= 0
            BY <5>2, <5>3, SMT
          <6>5. o <= Bound => q <= Bound
            BY <5>2, <6>1, SMT
          <6>6. \A y, t \in Nat : y - t < a => y - t < b
            BY <6>1, SMT
          <6>7. \A x \in LastWord(p) :
                     /\ Room(p)' >= 0
                     /\ x.left >= txCompleteIn => x.left - txCompleteIn < b
            BY <5>2, <6>3, <6>4, <6>6
          <6>8. LastWord(p) = {} =>
                     IF pauseLeft[p] > 0 THEN Room(p)' >= 0 ELSE q <= Bound
            BY <6>3, <6>4, <6>5
          <6>9. QED
            BY <1>3, <3>2, <6>7, <6>8, Zenon DEF BudgetOf, b, q
        <5>7. QED
          BY <2>5, <4>2, <4>4, <5>1, <5>6 DEF ClassOK
      <4>5. QED
        BY <4>3, <4>4
    <3>4. QED
      BY <1>2, <2>1, <2>2, <3>2, <3>3
  <2>6. CASE AnswerSent(pr) /\ Answers(pr) = <<0>> /\ ~Congested(pr)'
    <3>1. PICK r \in ReverseTimes : fromPeer' =
             Append(fromPeer, [prio |-> pr, n |-> 0, left |-> Arrival(r)])
      BY <1>5, <2>6
    <3>2. /\ BackOK'
          /\ \E w \in 0 .. Late : LastWord(pr)' = {[prio |-> pr, n |-> 0, left |-> w]}
          /\ \A p \in Prio : p # pr => LastWord(p)' = LastWord(p)
      BY <3>1, WordSent
    <3>3. AgreedOn(pr)'
      BY <2>6, <3>2, OnlyWord
    <3>4. ClassesOK'
      <4>1. SUFFICES ASSUME ~unprotected, NEW p \in Prio PROVE ClassOK(p)'
        BY <1>5, <2>6 DEF ClassesOK
      <4>2. ClassOK(p)
        BY <4>1 DEF ClassesOK
      <4>3. CASE p # pr
        BY <1>3, <2>1, <2>3, <3>2, <4>2, <4>3, ClassUntouched
      <4>4. CASE p = pr
        BY <2>6, <3>3, <4>4 DEF ClassOK
      <4>5. QED
        BY <4>3, <4>4
    <3>5. QED
      BY <1>2, <2>1, <2>2, <3>2, <3>4
  <2>7. QED
    BY <1>1, <2>1, <2>4, <2>5, <2>6
<1>8. QED
  BY <1>1, <1>6, <1>7

\* Time passes for everything at once: what an XOFF still needs and what the
\* line still needs decrease together, and a pause does not run out with
\* ResumeFromPause still to come.
LEMMA TimeKeepsClass ==
    ASSUME LinkInv, NEW p \in Prio, ClassOK(p), ~SomethingDue,
           LastWord(p)' = {[x EXCEPT !.left = x.left - 1] : x \in LastWord(p)},
           \A x \in LastWord(p) : x \in Word /\ x.left > 0,
           txCompleteIn' = Down(txCompleteIn),
           m_paused'[p] = m_paused[p], pauseLeft'[p] = Down(pauseLeft[p]),
           Occupancy(p)' = Occupancy(p), Congested(p)' <=> Congested(p),
           Coming(p)' = Coming(p), DueNow(p)' \subseteq Coming(p),
           IsFiniteSet(Coming(p))
    PROVE  ClassOK(p)'
<1>1. /\ Occupancy(p) \in Nat /\ txCompleteIn \in Nat /\ Bound \in Nat
      /\ pauseLeft[p] \in Nat /\ Cardinality(Coming(p)) \in Nat /\ Room(p) \in Int
  BY LinkTypes
<1>2. Room(p)' = Room(p)
  BY DEF Room
<1>3. Cardinality(DueNow(p)') \in Nat /\ Cardinality(DueNow(p)') <= Cardinality(Coming(p))
  BY FS_Subset, FS_CardinalityType
<1>4. \A x \in Word : /\ [x EXCEPT !.left = x.left - 1].n = x.n
                      /\ [x EXCEPT !.left = x.left - 1].left = x.left - 1
                      /\ x.left \in Nat
  BY Delays, SMT DEF Word
<1>5. \A y \in LastWord(p)' : \E x \in LastWord(p) :
         y.n = x.n /\ y.left = x.left - 1 /\ x.left \in Nat /\ x.left > 0
  BY <1>4
<1>6. LastWord(p)' = {} <=> LastWord(p) = {}
  OBVIOUS
<1>7. AgreedOn(p)'
  BY <1>5, <1>6 DEF ClassOK, AgreedOn
<1>8. ASSUME Congested(p)' PROVE BudgetOf(p)'
  <2>1. BudgetOf(p) /\ Congested(p)
    BY <1>8 DEF ClassOK
  <2> DEFINE a == Room(p) * Shortest
             o == Occupancy(p)
             c == Cardinality(Coming(p))
             d == Cardinality(DueNow(p)')
  <2>2. a \in Int /\ o \in Nat /\ c \in Nat /\ d \in Nat /\ d <= c
    <3>1. a \in Int
      BY <1>1, Delays, TimesDistributes
    <3>2. QED
      BY <1>1, <1>3, <3>1
  <2>3. \A x \in LastWord(p) :
          /\ Room(p) >= 0
          /\ x.left >= txCompleteIn => x.left - txCompleteIn < a
    BY <2>1 DEF BudgetOf
  <2>4. Room(p) = Bound - o - c
    BY DEF Room
  <2>5. ASSUME LastWord(p) = {} PROVE pauseLeft[p] > 0 /\ Room(p) >= 0
    <3>1. pauseLeft[p] > 0
      <4>1. SUFFICES ASSUME ~(pauseLeft[p] > 0) PROVE FALSE
        OBVIOUS
      <4>2. m_paused[p]
        BY <2>1, <2>5 DEF ClassOK, AgreedOn
      <4>3. refillEvent[p].fn = "resume" /\ refillEvent[p].left = pauseLeft[p]
        BY <4>2, ArmedFields DEF LinkInv, IInv
      <4>4. refillEvent[p].left = 0
        BY <1>1, <4>1, <4>3, SMT
      <4>5. QED
        BY <4>3, <4>4 DEF SomethingDue
    <3>2. QED
      BY <2>1, <2>5, <3>1 DEF BudgetOf
  <2> HIDE DEF a, o, c, d
  <2>6. \A l, t, u \in Nat :
          l > 0 /\ (l >= t => l - t < a) /\ u = (IF t > 0 THEN t - 1 ELSE t)
          => (l - 1 >= u => l - 1 - u < a)
    BY <2>2, SMT
  <2>7. txCompleteIn' \in Nat /\ txCompleteIn' = (IF txCompleteIn > 0 THEN txCompleteIn - 1 ELSE txCompleteIn)
    BY <1>1, SMT DEF Down
  <2>8. \A y \in LastWord(p)' :
          Room(p) >= 0 /\ (y.left >= txCompleteIn' => y.left - txCompleteIn' < a)
    <3>1. TAKE y \in LastWord(p)'
    <3>2. PICK x \in LastWord(p) : y.left = x.left - 1 /\ x.left \in Nat /\ x.left > 0
      BY <1>5
    <3>3. QED
      BY <1>1, <2>3, <2>6, <2>7, <3>2
  <2>9. LastWord(p)' = {} =>
          IF pauseLeft'[p] > 0 THEN Room(p) >= 0 ELSE o + d <= Bound
    <3>1. Room(p) >= 0 => o + d <= Bound
      BY <1>1, <2>2, <2>4, SMT
    <3>2. QED
      BY <1>6, <2>5, <3>1
  <2>10. QED
    BY <1>2, <2>8, <2>9, Zenon DEF BudgetOf, a, o, d
<1>9. QED
  BY <1>7, <1>8 DEF ClassOK

LEMMA LinkTimePasses ==
    ASSUME LinkInv, TimePasses
    PROVE  LinkInv'
<1> USE DEF LinkInv
<1>1. /\ Tick /\ Peer!Tick
      /\ toPeer # <<>> => Head(toPeer).left > 0
      /\ fromPeer # <<>> => Head(fromPeer).left > 0
      /\ toPeer' = OneLess(toPeer) /\ fromPeer' = OneLess(fromPeer)
      /\ unprotected' = unprotected
  BY DEF TimePasses
<1>2. IInv'
  BY <1>1, TickStep
<1>3. /\ ~SomethingDue /\ txCompleteIn' = Down(txCompleteIn)
      /\ pauseLeft' = [p \in Prio |-> Down(pauseLeft[p])]
      /\ UNCHANGED <<m_queue, m_currentPkt, m_paused>>
  BY <1>1 DEF Tick
<1>4. PeerOK' /\ \A p \in Prio :
         Occupancy(p)' = Occupancy(p) /\ (Congested(p)' <=> Congested(p))
  <2>1. UNCHANGED <<m_ingressQ, m_rxOccPkts, m_localCongested, m_pfcTxXoff, m_pfcTxXon>>
    BY <1>1 DEF Peer!Tick
  <2>2. QED
    BY <2>1, PeerWaits
<1>5. txCompleteIn \in Nat /\ toPeer \in Seq(Leg) /\ Spaced /\ OffTheLine
  BY DEF LineOK, IInv, TypeOK, P2PTypeOK
<1>6. /\ toPeer' \in Seq(Leg) /\ Spaced' /\ OffTheLine'
      /\ \A p \in Prio : Coming(p)' = Coming(p) /\ DueNow(p)' \subseteq Coming(p)
  BY <1>1, <1>3, <1>5, LineAges
<1>7. LineOK'
  <2>1. Down(0) = 0
    BY SMT DEF Down
  <2>2. QED
    BY <1>3, <1>6, <2>1 DEF LineOK, LineKept, READY
<1>8. /\ BackOK'
      /\ \A p \in Prio : LastWord(p)' =
           {[x EXCEPT !.left = x.left - 1] : x \in LastWord(p)}
      /\ \A p \in Prio : \A x \in LastWord(p) : x \in Word /\ x.left > 0
  BY <1>1, WordsAge
<1>9. ClassesOK'
  <2>1. SUFFICES ASSUME ~unprotected, NEW p \in Prio PROVE ClassOK(p)'
    BY <1>1 DEF ClassesOK
  <2>2. ClassOK(p)
    BY <2>1 DEF ClassesOK
  <2>3. IsFiniteSet(Coming(p))
    BY <1>5, Counts
  <2>4. m_paused'[p] = m_paused[p] /\ pauseLeft'[p] = Down(pauseLeft[p])
    BY <1>3
  <2>5. QED
    BY <1>3, <1>4, <1>6, <1>8, <2>2, <2>3, <2>4, TimeKeepsClass
<1>10. QED
  BY <1>2, <1>4, <1>7, <1>8, <1>9

------------------------------------------------------------------------------
\* LinkInv is an invariant.

LEMMA LinkInitSafe == LinkInit => LinkInv
<1>1. SUFFICES ASSUME LinkInit PROVE LinkInv
  OBVIOUS
<1>2. /\ Init /\ Peer!Init /\ toPeer = <<>> /\ fromPeer = <<>>
      /\ unprotected = FALSE
  BY <1>1 DEF LinkInit
<1>3. IInv
  BY <1>2, InitSafe
<1>4. Len(<<>>) = 0 /\ (\A S : <<>> \in Seq(S)) /\ 1 .. 0 = {}
  BY SMT
<1>5. /\ m_queue = <<>> /\ READY /\ txCompleteIn = 0
      /\ \A p \in Prio : ~m_paused[p]
  BY <1>2 DEF Init, P2PInit, READY
<1>6. /\ m_ingressQ = [d \in {Port} |-> [p \in Prio |-> <<>>]]
      /\ m_rxOccPkts = [d \in {Port} |-> [p \in Prio |-> 0]]
      /\ m_localCongested = [d \in {Port} |-> [p \in Prio |-> FALSE]]
      /\ m_pfcTxXoff = [d \in {Port} |-> [p \in Prio |-> 0]]
      /\ m_pfcTxXon = [d \in {Port} |-> [p \in Prio |-> 0]]
  BY <1>2, SamePrio DEF Peer!Init, Peer!PerClass
<1>7. \A p \in Prio : ~Congested(p) /\ Occupancy(p) = 0 /\ m_rxOccPkts[Port][p] = 0
  BY <1>4, <1>6 DEF Congested, Occupancy
<1>8. PeerOK
  <2>1. ~(0 >= PfcHighPkts)
    BY Delays, SMT
  <2>2. 0 \in Nat
    BY SMT
  <2>3. QED
    BY <1>4, <1>6, <1>7, <2>1, <2>2 DEF PeerOK
<1>9. LineOK
  <2>1. Elems(<<>>) = {}
    BY <1>4, ElemsEmpty
  <2>2. QED
    BY <1>2, <1>4, <1>5, <2>1 DEF LineOK, LineKept, Spaced, OffTheLine
<1>10. BackOK
  BY <1>2, <1>4 DEF BackOK
<1>11. ClassesOK
  <2>1. \A p \in Prio : LastWord(p) = {}
    BY <1>2, <1>4 DEF LastWord, LastPlace
  <2>2. QED
    BY <1>5, <1>7, <2>1 DEF ClassesOK, ClassOK, AgreedOn
<1>12. QED
  BY <1>3, <1>8, <1>9, <1>10, <1>11 DEF LinkInv

LEMMA LinkNextSafe == LinkInv /\ [LinkNext]_allVars => LinkInv'
<1>1. SUFFICES ASSUME LinkInv, [LinkNext]_allVars PROVE LinkInv'
  OBVIOUS
<1>2. CASE \E pr \in Prio : Sends(pr)
  BY <1>1, <1>2, LinkSends
<1>3. CASE EventLoop
  BY <1>1, <1>3, LinkTransmits, LinkPeerIdles, LinkDataArrives, LinkPeerDrains,
     LinkPfcArrives, LinkPauseRunsOut, LinkTimePasses DEF EventLoop
<1>4. CASE UNCHANGED allVars
  BY <1>1, <1>4, LinkStutters
<1>5. QED
  BY <1>1, <1>2, <1>3, <1>4 DEF LinkNext

\* Every reachable state satisfies the strengthened invariant.
THEOREM LinkSafety == LinkSpec => []LinkInv
<1>1. QED
  BY LinkInitSafe, LinkNextSafe, PTL DEF LinkSpec

\* The headroom suffices: with SendPfcXoff run at the high watermark, no queue
\* ever holds more than the watermark and the frames that the delay of the XOFF
\* and the propagation delay leave time for, unless a PFC frame was dropped at
\* the peer's full MAC queue or the pause ran out during the congestion.
THEOREM HeadroomSuffices == LinkSpec => []QueueBounded
<1>1. LinkInv => QueueBounded
  <2>1. SUFFICES ASSUME LinkInv, ~unprotected, NEW p \in Prio
                 PROVE  Occupancy(p) <= Bound
    BY DEF QueueBounded, Occupancy, Bound
  <2>2. /\ Occupancy(p) \in Nat /\ Bound \in Nat
        /\ Cardinality(Coming(p)) \in Nat /\ Cardinality(DueNow(p)) \in Nat
    <3>1. Cardinality(DueNow(p)) \in 0 .. Cardinality(Coming(p))
          /\ Cardinality(Coming(p)) \in Nat
      BY <2>1, LinkTypes
    <3>2. QED
      BY <2>1, <3>1, LinkTypes, SMT
  <2>3. ClassOK(p)
    BY <2>1 DEF LinkInv, ClassesOK
  <2>4. CASE ~Congested(p)
    <3>1. ~(Occupancy(p) >= PfcHighPkts)
      BY <2>1, <2>4 DEF LinkInv, PeerOK
    <3>2. QED
      BY <2>2, <3>1, Delays, SMT DEF Bound
  <2>5. CASE Congested(p)
    <3>1. Room(p) >= 0 \/ Occupancy(p) + Cardinality(DueNow(p)) <= Bound
      BY <2>3, <2>5 DEF ClassOK, BudgetOf
    <3>2. QED
      BY <2>2, <3>1, SMT DEF Room
  <2>6. QED
    BY <2>4, <2>5
<1>2. QED
  BY <1>1, LinkSafety, PTL

\* The two ends agree: with no PFC frame on its way a class is paused at the
\* transmitter exactly when the receiver counts it as congested.
THEOREM EndsAgree == LinkSpec => []PeersAgree
<1>1. LinkInv => PeersAgree
  <2>1. SUFFICES ASSUME LinkInv, ~unprotected, fromPeer = <<>>, NEW p \in Prio
                 PROVE  m_paused[p] = m_localCongested[Port][p]
    BY DEF PeersAgree
  <2>2. 1 .. Len(fromPeer) = {}
    BY <2>1, SMT
  <2>3. LastWord(p) = {}
    BY <2>2 DEF LastWord, LastPlace
  <2>4. m_paused[p] <=> Congested(p)
    BY <2>1, <2>3 DEF LinkInv, ClassesOK, ClassOK, AgreedOn
  <2>5. m_paused[p] \in BOOLEAN /\ m_localCongested[Port][p] \in BOOLEAN
    BY <2>1 DEF LinkInv, PeerOK, IInv, TypeOK
  <2>6. QED
    BY <2>4, <2>5, Zenon DEF Congested
<1>2. QED
  BY <1>1, LinkSafety, PTL

------------------------------------------------------------------------------
\* Each end behaves on the link as its own module says, so what is proved of
\* QbbTransmit and of IngressDrain holds on the link.

\* The sender is a QbbTransmit whose PFC frames are those of the peer: they carry
\* one of the pauses its environment may ask for.
THEOREM SenderOnLink == LinkSpec => Spec
<1>1. LinkInit => Init
  BY DEF LinkInit
<1>2. LinkInv /\ [LinkNext]_allVars => [Next]_vars
  <2> SUFFICES ASSUME LinkInv, [LinkNext]_allVars PROVE [Next]_vars
    OBVIOUS
  <2>1. CASE UNCHANGED allVars
    BY <2>1 DEF allVars
  <2>2. CASE \E pr \in Prio : Sends(pr)
    BY <2>2 DEF Sends, Next, Environment
  <2>3. CASE Transmits
    BY <2>3 DEF Transmits, Next, Simulator
  <2>4. CASE PeerIdles \/ \E pr \in Prio : DataArrives(pr) \/ PeerDrains(pr)
    BY <2>4 DEF PeerIdles, DataArrives, PeerDrains
  <2>5. ASSUME NEW pr \in Prio, PfcArrives(pr)
        PROVE  Next
    <3>1. fromPeer \in Seq(Word) /\ fromPeer # <<>>
      BY <2>5 DEF LinkInv, BackOK, PfcArrives
    <3>2. Head(fromPeer) \in Word
      BY <3>1, ElemsHeadTail
    <3>3. Head(fromPeer).n \in {0, Pause} /\ Pause \in PauseTimes
      BY <3>2, LinkAssumption DEF Word
    <3>4. HandleXon(pr) \/ HandleXoff(pr, Pause)
      BY <2>5, <3>3 DEF PfcArrives
    <3>5. QED
      BY <3>3, <3>4 DEF Next, Environment
  <2>6. CASE \E pr \in Prio : PauseRunsOut(pr)
    BY <2>6 DEF PauseRunsOut, Next, Simulator
  <2>7. CASE TimePasses
    BY <2>7 DEF TimePasses, Next, Simulator
  <2>8. QED
    BY <2>1, <2>2, <2>3, <2>4, <2>5, <2>6, <2>7 DEF LinkNext, EventLoop
<1>3. QED
  BY <1>1, <1>2, LinkSafety, PTL DEF LinkSpec, Spec

\* The receiver is an IngressDrain of one ingress port that gets what the sender
\* puts on the line.
THEOREM ReceiverOnLink == LinkSpec => Peer!Spec
<1>1. LinkInit => Peer!Init
  BY DEF LinkInit
<1>2. [LinkNext]_allVars => [Peer!Next]_(Peer!vars)
  <2> SUFFICES ASSUME [LinkNext]_allVars PROVE [Peer!Next]_(Peer!vars)
    OBVIOUS
  <2>1. peerVars' = peerVars => UNCHANGED Peer!vars
    BY DEF peerVars, Peer!vars, Peer!deviceVars, Peer!managerVars
  <2>2. Peer!Prio = Prio
    BY DEF Peer!Prio, Prio
  <2>3. CASE UNCHANGED allVars
    BY <2>1, <2>3 DEF allVars
  <2>4. CASE \E pr \in Prio : Sends(pr)
    BY <2>1, <2>4 DEF Sends
  <2>5. CASE Transmits
    BY <2>1, <2>5 DEF Transmits
  <2>6. CASE PeerIdles
    BY <2>6 DEF PeerIdles, Peer!Next, Peer!Simulator, Peer!DoIngressDrain
  <2>7. CASE \E pr \in Prio : DataArrives(pr)
    BY <2>2, <2>7 DEF DataArrives, Peer!Next
  <2>8. CASE \E pr \in Prio : PeerDrains(pr)
    BY <2>2, <2>8 DEF PeerDrains, Peer!Next, Peer!Simulator, Peer!DoIngressDrain
  <2>9. CASE \E pr \in Prio : PfcArrives(pr) \/ PauseRunsOut(pr)
    BY <2>1, <2>9 DEF PfcArrives, PauseRunsOut
  <2>10. CASE TimePasses
    BY <2>10 DEF TimePasses, Peer!Next, Peer!Simulator
  <2>11. QED
    BY <2>3, <2>4, <2>5, <2>6, <2>7, <2>8, <2>9, <2>10 DEF LinkNext, EventLoop
<1>3. QED
  BY <1>1, <1>2, PTL DEF LinkSpec, Peer!Spec
==============================================================================
