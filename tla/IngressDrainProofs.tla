-------------------------- MODULE IngressDrainProofs --------------------------
(***************************************************************************)
(* The safety of the receive half and of the round robin, for every number *)
(* of devices, classes and egress ports, every watermark, bucket and       *)
(* packet.  IInv is the inductive invariant: the properties of each class  *)
(* are inductive together, and RoundsLeft is what bounds the round robin.  *)
(***************************************************************************)
EXTENDS IngressDrain, SeqSetsProofs, FiniteSetTheorems

\* The ingress ports strictly between the one served last and d, in the order
\* in which SelectNextIngress goes round.
Between(last, d) ==
    IF last < d THEN {i \in Ingress : last < i /\ i < d}
    ELSE {i \in Ingress : last < i \/ i < d}

\* The ports that may still be served before d, and those served since d
\* joined, are together fewer than the ports there are.
RoundsLeft ==
    \A e \in Registered, d \in Ingress :
        passedOver[e][d] + Cardinality(Between(lastServedIngress[e], d))
            < Cardinality(Ingress)

\* The three properties of a class, of the length of its queue and the values
\* kept for it.
Coherent(len, occ, cong, xoffs, xons) ==
    /\ PfcEnable => occ = len
    /\ PfcEnable /\ PfcLowPkts < PfcHighPkts =>
         (len >= PfcHighPkts => cong) /\ (len <= PfcLowPkts => ~cong)
    /\ xoffs = xons + OneIf(cong)

CoherentAt(d, pr) ==
    Coherent(Len(m_ingressQ[d][pr]), m_rxOccPkts[d][pr], m_localCongested[d][pr],
             m_pfcTxXoff[d][pr], m_pfcTxXon[d][pr])

PerClassInv == \A d \in Ingress, pr \in Prio : CoherentAt(d, pr)

\* The two parts of TypeOK.
DeviceTypeOK ==
    /\ m_ingressQ \in [Ingress -> [Prio -> Seq(Routes)]]
    /\ m_rxOccPkts \in [Ingress -> [Prio -> Nat]]
    /\ m_localCongested \in [Ingress -> [Prio -> BOOLEAN]]
    /\ m_pfcTxXoff \in [Ingress -> [Prio -> Nat]]
    /\ m_pfcTxXon \in [Ingress -> [Prio -> Nat]]
    /\ drainEvent \in [Ingress -> Nat \cup {Expired}]

ManagerTypeOK ==
    /\ m_tokens \in [Registered -> 0 .. Capacity]
    /\ activeIngressPorts \in [Egress -> SUBSET Ingress]
    /\ lastServedIngress \in [Egress -> Ingress \cup {0}]
    /\ nRx \in Nat
    /\ passedOver \in [Egress -> [Ingress -> Nat]]

DeviceInv == DeviceTypeOK /\ PerClassInv /\ DrainScheduled

ArbiterInv == ManagerTypeOK /\ RoundsLeft

IInv == DeviceInv /\ ArbiterInv

------------------------------------------------------------------------------
\* Numbers.

LEMMA OneIfValues ==
    /\ OneIf(TRUE) = 1 /\ OneIf(FALSE) = 0
    /\ \A b \in BOOLEAN : OneIf(b) \in Nat
BY DEF OneIf

\* Down leaves an event expired or counts it down.
LEMMA DownType ==
    ASSUME NEW x \in Nat \cup {Expired}
    PROVE  /\ Down(x) \in Nat \cup {Expired}
           /\ x # Expired => Down(x) # Expired
BY SMT DEF Down, Expired

------------------------------------------------------------------------------
\* What an arrival and a departure do to the class they concern.

\* A packet arrives: OnDataRx, whatever the watermarks are.
LEMMA OnDataRxEffect ==
    ASSUME DeviceTypeOK, NEW d \in Ingress, NEW pr \in Prio, OnDataRx(d, pr)
    PROVE  /\ m_rxOccPkts' \in [Ingress -> [Prio -> Nat]]
           /\ m_localCongested' \in [Ingress -> [Prio -> BOOLEAN]]
           /\ m_pfcTxXoff' \in [Ingress -> [Prio -> Nat]]
           /\ m_pfcTxXon' \in [Ingress -> [Prio -> Nat]]
<1>1. CASE ~PfcEnable
  BY <1>1 DEF OnDataRx, DeviceTypeOK
<1>2. CASE PfcEnable
  <2> DEFINE occ == m_rxOccPkts[d][pr] + 1
             xoff == SendsXoff(d, pr, occ)
             cong == m_localCongested[d][pr] \/ xoff
             xon == cong /\ occ <= PfcLowPkts
  <2>1. /\ m_rxOccPkts' = [m_rxOccPkts EXCEPT ![d][pr] = occ]
        /\ m_localCongested' = [m_localCongested EXCEPT ![d][pr] = cong /\ ~xon]
        /\ m_pfcTxXoff' = [m_pfcTxXoff EXCEPT ![d][pr] = @ + OneIf(xoff)]
        /\ m_pfcTxXon' = [m_pfcTxXon EXCEPT ![d][pr] = @ + OneIf(xon)]
    BY <1>2 DEF OnDataRx
  <2>2. xoff \in BOOLEAN /\ xon \in BOOLEAN /\ (cong /\ ~xon) \in BOOLEAN
    BY DEF SendsXoff
  <2>3. OneIf(xoff) \in Nat /\ OneIf(xon) \in Nat
    BY <2>2, OneIfValues
  <2>4. occ \in Nat
    BY DEF DeviceTypeOK
  <2> HIDE DEF occ, xoff, cong, xon
  <2>5. QED
    BY <2>1, <2>2, <2>3, <2>4 DEF DeviceTypeOK
<1>3. QED
  BY <1>1, <1>2

\* PerClassInv is what the three properties say.
LEMMA PerClassInvSplits ==
    PerClassInv <=> OccupancyIsLength /\ PfcHysteresis /\ XoffXonAlternate
BY DEF PerClassInv, CoherentAt, Coherent, OccupancyIsLength, PfcHysteresis,
       XoffXonAlternate

\* A longer queue: XOFF at the high watermark, XON if that is also the low one.
LEMMA ArrivalKeepsCoherent ==
    ASSUME NEW len \in Nat, NEW occ \in Nat, NEW cong \in BOOLEAN,
           NEW xoffs \in Nat, NEW xons \in Nat, Coherent(len, occ, cong, xoffs, xons)
    PROVE  /\ ~PfcEnable => Coherent(len + 1, occ, cong, xoffs, xons)
           /\ PfcEnable =>
                LET xoff == ~cong /\ occ + 1 >= PfcHighPkts
                    held == cong \/ xoff
                    xon == held /\ occ + 1 <= PfcLowPkts
                IN  Coherent(len + 1, occ + 1, held /\ ~xon,
                             xoffs + OneIf(xoff), xons + OneIf(xon))
BY WatermarkAssumption, SMT DEF Coherent, OneIf

\* A shorter queue: XON at the low watermark.
LEMMA DepartureKeepsCoherent ==
    ASSUME NEW len \in Nat \ {0}, NEW occ \in Nat, NEW cong \in BOOLEAN,
           NEW xoffs \in Nat, NEW xons \in Nat, Coherent(len, occ, cong, xoffs, xons)
    PROVE  LET left == IF occ > 0 THEN occ - 1 ELSE 0
               xon == PfcEnable /\ cong /\ left <= PfcLowPkts
           IN  Coherent(len - 1, left, cong /\ ~xon, xoffs, xons + OneIf(xon))
BY WatermarkAssumption, SMT DEF Coherent, OneIf

LEMMA TypeOKSplits == TypeOK <=> DeviceTypeOK /\ ManagerTypeOK
BY DEF TypeOK, DeviceTypeOK, ManagerTypeOK

\* An arrival keeps the class it concerns coherent and leaves the others alone.
LEMMA ArrivalCoherent ==
    ASSUME DeviceInv, NEW d \in Ingress, NEW pr \in Prio, NEW route \in Routes,
           m_ingressQ' = [m_ingressQ EXCEPT ![d][pr] = Append(@, route)],
           OnDataRx(d, pr)
    PROVE  PerClassInv'
<1> USE DEF DeviceInv
<1>1. SUFFICES ASSUME NEW c \in Ingress, NEW p \in Prio PROVE CoherentAt(c, p)'
  BY DEF PerClassInv
<1>2. CoherentAt(c, p)
  BY DEF PerClassInv
<1>3. CASE c # d \/ p # pr
  <2>1. m_ingressQ'[c][p] = m_ingressQ[c][p]
    BY <1>3 DEF DeviceTypeOK
  <2>2. /\ m_rxOccPkts'[c][p] = m_rxOccPkts[c][p]
        /\ m_localCongested'[c][p] = m_localCongested[c][p]
        /\ m_pfcTxXoff'[c][p] = m_pfcTxXoff[c][p]
        /\ m_pfcTxXon'[c][p] = m_pfcTxXon[c][p]
    <3>1. CASE ~PfcEnable
      BY <3>1 DEF OnDataRx
    <3>2. CASE PfcEnable
      <4> DEFINE occ == m_rxOccPkts[d][pr] + 1
                 xoff == SendsXoff(d, pr, occ)
                 cong == m_localCongested[d][pr] \/ xoff
                 xon == cong /\ occ <= PfcLowPkts
      <4>1. /\ m_rxOccPkts' = [m_rxOccPkts EXCEPT ![d][pr] = occ]
            /\ m_localCongested' = [m_localCongested EXCEPT ![d][pr] = cong /\ ~xon]
            /\ m_pfcTxXoff' = [m_pfcTxXoff EXCEPT ![d][pr] = @ + OneIf(xoff)]
            /\ m_pfcTxXon' = [m_pfcTxXon EXCEPT ![d][pr] = @ + OneIf(xon)]
        BY <3>2 DEF OnDataRx
      <4> HIDE DEF occ, xoff, cong, xon
      <4>2. QED
        BY <1>3, <4>1 DEF DeviceTypeOK
    <3>3. QED
      BY <3>1, <3>2
  <2>3. QED
    BY <1>2, <2>1, <2>2 DEF CoherentAt
<1>4. CASE c = d /\ p = pr
  <2>1. m_ingressQ[d][pr] \in Seq(Routes)
    BY DEF DeviceTypeOK
  <2>2. m_ingressQ'[d][pr] = Append(m_ingressQ[d][pr], route)
    BY DEF DeviceTypeOK
  <2>3. /\ Len(m_ingressQ'[d][pr]) = Len(m_ingressQ[d][pr]) + 1
        /\ Len(m_ingressQ[d][pr]) \in Nat
    BY <2>1, <2>2, ElemsAppend, LenProperties
  <2>4. /\ m_rxOccPkts[d][pr] \in Nat /\ m_localCongested[d][pr] \in BOOLEAN
        /\ m_pfcTxXoff[d][pr] \in Nat /\ m_pfcTxXon[d][pr] \in Nat
    BY DEF DeviceTypeOK
  <2>5. Coherent(Len(m_ingressQ[d][pr]), m_rxOccPkts[d][pr], m_localCongested[d][pr],
                 m_pfcTxXoff[d][pr], m_pfcTxXon[d][pr])
    BY <1>2, <1>4 DEF CoherentAt
  <2>6. CASE ~PfcEnable
    <3>1. UNCHANGED <<m_rxOccPkts, m_localCongested, m_pfcTxXoff, m_pfcTxXon>>
      BY <2>6 DEF OnDataRx
    <3>2. QED
      BY <1>4, <2>3, <2>4, <2>5, <2>6, <3>1, ArrivalKeepsCoherent DEF CoherentAt
  <2>7. CASE PfcEnable
    <3> DEFINE occ == m_rxOccPkts[d][pr] + 1
               xoff == ~m_localCongested[d][pr] /\ occ >= PfcHighPkts
               cong == m_localCongested[d][pr] \/ xoff
               xon == cong /\ occ <= PfcLowPkts
    <3>1. /\ m_rxOccPkts' = [m_rxOccPkts EXCEPT ![d][pr] = occ]
          /\ m_localCongested' = [m_localCongested EXCEPT ![d][pr] = cong /\ ~xon]
          /\ m_pfcTxXoff' = [m_pfcTxXoff EXCEPT ![d][pr] = @ + OneIf(xoff)]
          /\ m_pfcTxXon' = [m_pfcTxXon EXCEPT ![d][pr] = @ + OneIf(xon)]
      BY <2>7 DEF OnDataRx, SendsXoff
    <3>2. Coherent(Len(m_ingressQ[d][pr]) + 1, occ, cong /\ ~xon,
                   m_pfcTxXoff[d][pr] + OneIf(xoff), m_pfcTxXon[d][pr] + OneIf(xon))
      BY <2>3, <2>4, <2>5, <2>7, ArrivalKeepsCoherent
    <3> HIDE DEF occ, xoff, cong, xon
    <3>3. /\ m_rxOccPkts'[d][pr] = occ
          /\ m_localCongested'[d][pr] = (cong /\ ~xon)
          /\ m_pfcTxXoff'[d][pr] = m_pfcTxXoff[d][pr] + OneIf(xoff)
          /\ m_pfcTxXon'[d][pr] = m_pfcTxXon[d][pr] + OneIf(xon)
      BY <3>1 DEF DeviceTypeOK
    <3>4. QED
      BY <1>4, <2>3, <3>2, <3>3 DEF CoherentAt
  <2>8. QED
    BY <2>6, <2>7
<1>5. QED
  BY <1>3, <1>4

\* A departure does the same, and leaves the drain event due.
LEMMA PopFrontEffect ==
    ASSUME DeviceInv, NEW d \in Ingress, NEW pr \in Prio,
           m_ingressQ[d][pr] # <<>>, PopFront(d, pr)
    PROVE  DeviceInv'
<1> DEFINE q == m_ingressQ[d][pr]
           left == OccupancyAfterPop(d, pr)
           xon == PfcEnable /\ m_localCongested[d][pr] /\ left <= PfcLowPkts
<1>1. DeviceTypeOK /\ PerClassInv /\ DrainScheduled
  BY DEF DeviceInv
<1>2. q \in Seq(Routes) /\ q # <<>>
  BY <1>1 DEF DeviceTypeOK
<1>3. Tail(q) \in Seq(Routes) /\ Len(Tail(q)) = Len(q) - 1 /\ Len(q) \in Nat \ {0}
  BY <1>2, ElemsHeadTail
<1>4. /\ m_rxOccPkts[d][pr] \in Nat /\ m_localCongested[d][pr] \in BOOLEAN
      /\ m_pfcTxXoff[d][pr] \in Nat /\ m_pfcTxXon[d][pr] \in Nat
  BY <1>1 DEF DeviceTypeOK
<1>5. left \in Nat /\ xon \in BOOLEAN
  BY <1>4, WatermarkAssumption, SMT DEF OccupancyAfterPop
<1>6. OneIf(xon) \in Nat
  BY <1>5, OneIfValues
<1>7. /\ m_ingressQ' = [m_ingressQ EXCEPT ![d][pr] = Tail(@)]
      /\ m_rxOccPkts' = [m_rxOccPkts EXCEPT ![d][pr] = left]
      /\ m_localCongested' = [m_localCongested EXCEPT ![d][pr] = @ /\ ~xon]
      /\ m_pfcTxXon' = [m_pfcTxXon EXCEPT ![d][pr] = @ + OneIf(xon)]
      /\ drainEvent' = [drainEvent EXCEPT ![d] = 0]
      /\ m_pfcTxXoff' = m_pfcTxXoff
  BY DEF PopFront
<1>8. Coherent(Len(q) - 1, left, m_localCongested[d][pr] /\ ~xon,
               m_pfcTxXoff[d][pr], m_pfcTxXon[d][pr] + OneIf(xon))
  <2>1. CoherentAt(d, pr)
    BY <1>1 DEF PerClassInv
  <2>2. QED
    BY <1>3, <1>4, <2>1, DepartureKeepsCoherent DEF CoherentAt, OccupancyAfterPop
<1> HIDE DEF left, xon
<1>9. DeviceTypeOK'
  <2>1. m_ingressQ' \in [Ingress -> [Prio -> Seq(Routes)]]
    BY <1>1, <1>3, <1>7 DEF DeviceTypeOK
  <2>2. /\ m_rxOccPkts' \in [Ingress -> [Prio -> Nat]]
        /\ m_localCongested' \in [Ingress -> [Prio -> BOOLEAN]]
        /\ m_pfcTxXon' \in [Ingress -> [Prio -> Nat]]
        /\ m_pfcTxXoff' \in [Ingress -> [Prio -> Nat]]
    BY <1>1, <1>4, <1>5, <1>6, <1>7 DEF DeviceTypeOK
  <2>3. drainEvent' \in [Ingress -> Nat \cup {Expired}]
    BY <1>1, <1>7 DEF DeviceTypeOK
  <2>4. QED
    BY <2>1, <2>2, <2>3 DEF DeviceTypeOK
<1>10. PerClassInv'
  <2>1. SUFFICES ASSUME NEW c \in Ingress, NEW p \in Prio PROVE CoherentAt(c, p)'
    BY DEF PerClassInv
  <2>2. CASE c # d \/ p # pr
    <3>1. CoherentAt(c, p)
      BY <1>1 DEF PerClassInv
    <3>2. /\ m_ingressQ'[c][p] = m_ingressQ[c][p]
          /\ m_rxOccPkts'[c][p] = m_rxOccPkts[c][p]
          /\ m_localCongested'[c][p] = m_localCongested[c][p]
          /\ m_pfcTxXoff'[c][p] = m_pfcTxXoff[c][p]
          /\ m_pfcTxXon'[c][p] = m_pfcTxXon[c][p]
      BY <1>1, <1>7, <2>2 DEF DeviceTypeOK
    <3>3. QED
      BY <3>1, <3>2 DEF CoherentAt
  <2>3. CASE c = d /\ p = pr
    <3>1. /\ m_ingressQ'[d][pr] = Tail(q)
          /\ m_rxOccPkts'[d][pr] = left
          /\ m_localCongested'[d][pr] = (m_localCongested[d][pr] /\ ~xon)
          /\ m_pfcTxXoff'[d][pr] = m_pfcTxXoff[d][pr]
          /\ m_pfcTxXon'[d][pr] = m_pfcTxXon[d][pr] + OneIf(xon)
      BY <1>1, <1>7 DEF DeviceTypeOK
    <3>2. QED
      BY <1>3, <1>8, <2>3, <3>1 DEF CoherentAt
  <2>4. QED
    BY <2>2, <2>3
<1>11. DrainScheduled'
  <2>1. SUFFICES ASSUME NEW c \in Ingress, NEW p \in Prio, m_ingressQ'[c][p] # <<>>
                 PROVE  drainEvent'[c] # Expired
    BY DEF DrainScheduled
  <2>2. CASE c = d
    BY <1>1, <1>7, <2>2 DEF DeviceTypeOK, Expired
  <2>3. CASE c # d
    <3>1. m_ingressQ'[c][p] = m_ingressQ[c][p] /\ drainEvent'[c] = drainEvent[c]
      BY <1>1, <1>7, <2>3 DEF DeviceTypeOK
    <3>2. QED
      BY <1>1, <2>1, <3>1 DEF DrainScheduled
  <2>4. QED
    BY <2>2, <2>3
<1>12. QED
  BY <1>9, <1>10, <1>11 DEF DeviceInv

------------------------------------------------------------------------------
\* The round robin.

LEMMA LeastIsLeast ==
    ASSUME NEW S, S \subseteq Nat, S # {}
    PROVE  Least(S) \in S /\ \A y \in S : Least(S) <= y
BY NatMinimum DEF Least

\* Between is a set of other ports.
LEMMA BetweenIsSmall ==
    ASSUME NEW last \in Nat, NEW d \in Ingress
    PROVE  /\ IsFiniteSet(Between(last, d))
           /\ Cardinality(Between(last, d)) \in Nat
           /\ Cardinality(Ingress) \in Nat
           /\ Cardinality(Between(last, d)) < Cardinality(Ingress)
<1>1. Between(last, d) \subseteq Ingress \ {d}
  BY PortAssumption, SMT DEF Between
<1>2. /\ IsFiniteSet(Ingress \ {d})
      /\ Cardinality(Ingress \ {d}) = Cardinality(Ingress) - 1
  BY PortAssumption, FS_RemoveElement
<1>3. /\ IsFiniteSet(Between(last, d))
      /\ Cardinality(Between(last, d)) <= Cardinality(Ingress \ {d})
  BY <1>1, <1>2, FS_Subset
<1>4. Cardinality(Between(last, d)) \in Nat /\ Cardinality(Ingress) \in Nat
  BY <1>3, PortAssumption, FS_CardinalityType
<1>5. QED
  BY <1>2, <1>3, <1>4, SMT

\* The port SelectNextIngress takes instead of d lies before d, and from there
\* fewer ports do.
LEMMA SelectedBefore ==
    ASSUME NEW last \in Nat, NEW active \in SUBSET Ingress, NEW d \in active,
           NEW x, x = SelectNextIngress(active, last), x # d
    PROVE  /\ x \in Ingress
           /\ Cardinality(Between(x, d)) < Cardinality(Between(last, d))
<1> DEFINE after == {i \in active : i > last}
<1>1. active \subseteq Nat /\ active # {} /\ after \subseteq Nat
  BY PortAssumption
<1>2. /\ x \in Ingress /\ x \in Nat /\ d \in Ingress /\ d \in Nat
      /\ IF d > last THEN last < x /\ x < d
         ELSE x < d \/ last < x
  <2>1. CASE after # {}
    <3>1. x = Least(after)
      BY <2>1 DEF SelectNextIngress
    <3>2. Least(after) \in after /\ \A y \in after : Least(after) <= y
      BY <1>1, <2>1, LeastIsLeast
    <3>3. x \in active /\ x > last /\ (d > last => x <= d)
      BY <3>1, <3>2
    <3> HIDE DEF after
    <3>4. x \in Ingress /\ x \in Nat /\ d \in Ingress /\ d \in Nat
      BY <1>1, <3>3
    <3>5. QED
      BY <3>3, <3>4, SMT
  <2>2. CASE after = {}
    <3>1. x = Least(active)
      BY <2>2 DEF SelectNextIngress
    <3>2. Least(active) \in active /\ \A y \in active : Least(active) <= y
      BY <1>1, LeastIsLeast, Zenon
    <3>3. x \in active /\ x <= d /\ ~(d > last)
      BY <2>2, <3>1, <3>2
    <3> HIDE DEF after
    <3>4. x \in Ingress /\ x \in Nat /\ d \in Ingress /\ d \in Nat
      BY <1>1, <3>3
    <3>5. QED
      BY <3>3, <3>4, SMT
  <2>3. QED
    BY <2>1, <2>2
<1> HIDE DEF after
<1>8. x \in Between(last, d)
  BY <1>2, SMT DEF Between
<1>9. Between(x, d) \subseteq Between(last, d) \ {x}
  <2>1. SUFFICES ASSUME NEW i \in Ingress, i \in Between(x, d)
                 PROVE  i \in Between(last, d) /\ i # x
    BY DEF Between
  <2>2. i \in Nat
    BY PortAssumption
  <2>3. QED
    BY <1>2, <2>1, <2>2, SMT DEF Between
<1>3. IsFiniteSet(Between(last, d)) /\ Cardinality(Between(last, d)) \in Nat
  BY BetweenIsSmall
<1>4. /\ IsFiniteSet(Between(last, d) \ {x})
      /\ Cardinality(Between(last, d) \ {x}) = Cardinality(Between(last, d)) - 1
  BY <1>8, <1>3, FS_RemoveElement
<1>5. Cardinality(Between(x, d)) <= Cardinality(Between(last, d) \ {x})
  BY <1>9, <1>4, FS_Subset
<1>6. Cardinality(Between(x, d)) \in Nat
  BY <1>2, <1>1, PortAssumption, BetweenIsSmall
<1>7. QED
  BY <1>2, <1>3, <1>4, <1>5, <1>6, SMT

\* A grant under contention: everyone who waits comes nearer.
LEMMA GrantRounds ==
    ASSUME ArbiterInv, NEW d \in Ingress, NEW pr \in Prio, NEW e \in Registered,
           NEW i \in Ingress, DrainGranted(d, pr, e)
    PROVE  passedOver'[e][i] + Cardinality(Between(lastServedIngress'[e], i))
             < Cardinality(Ingress)
<1> DEFINE over == passedOver[e][i]
           last == lastServedIngress[e]
           active == activeIngressPorts[e]
<1>1. /\ e \in Egress /\ over \in Nat /\ last \in Nat
      /\ active \subseteq Ingress /\ WithDemand(e, d) \in SUBSET Ingress
  <2>1. e \in Egress /\ Ingress \subseteq Nat
    BY PortAssumption
  <2>2. /\ passedOver \in [Egress -> [Ingress -> Nat]]
        /\ activeIngressPorts \in [Egress -> SUBSET Ingress]
        /\ lastServedIngress \in [Egress -> Ingress \cup {0}]
    BY DEF ArbiterInv, ManagerTypeOK
  <2>3. last \in Ingress \cup {0}
    BY <2>1, <2>2
  <2>4. over \in Nat /\ active \subseteq Ingress
    BY <2>1, <2>2
  <2>5. last \in Nat
    <3>1. last \in Ingress \/ last = 0
      BY <2>3
    <3>2. 0 \in Nat
      BY SMT
    <3>3. QED
      BY <2>1, <3>1, <3>2, Zenon
  <2>6. WithDemand(e, d) \in SUBSET Ingress
    BY <2>4 DEF WithDemand
  <2>7. QED
    BY <2>1, <2>4, <2>5, <2>6, Zenon
<1>2. over + Cardinality(Between(last, i)) < Cardinality(Ingress)
  BY DEF ArbiterInv, RoundsLeft
<1>3. passedOver'[e][i] = IF i # d /\ i \in active THEN over + 1 ELSE 0
  BY <1>1 DEF DrainGranted, CountPassedOver, ArbiterInv, ManagerTypeOK
<1>4. lastServedIngress'[e] = IF Contended(e, d) THEN d ELSE last
  BY <1>1 DEF DrainGranted, ArbiterInv, ManagerTypeOK
<1>5. lastServedIngress'[e] \in Nat
  BY <1>1, <1>4, PortAssumption
<1>6. CASE ~(i # d /\ i \in active)
  <2>1. /\ Cardinality(Between(lastServedIngress'[e], i)) \in Nat
        /\ Cardinality(Between(lastServedIngress'[e], i)) < Cardinality(Ingress)
    BY <1>5, BetweenIsSmall
  <2>2. passedOver'[e][i] = 0
    BY <1>3, <1>6
  <2>3. QED
    BY <2>1, <2>2, SMT
<1>7. CASE i # d /\ i \in active
  <2>1. Contended(e, d)
    <3>1. i \in WithDemand(e, d) /\ d \in WithDemand(e, d)
      BY <1>7 DEF WithDemand
    <3>2. IsFiniteSet(WithDemand(e, d))
      BY <1>1, PortAssumption, FS_Subset
    <3>3. Cardinality(WithDemand(e, d)) \in Nat
      BY <3>2, FS_CardinalityType
    <3>4. Cardinality(WithDemand(e, d)) # 0 /\ Cardinality(WithDemand(e, d)) # 1
      <4>1. Cardinality(WithDemand(e, d)) # 0
        BY <3>1, <3>2, FS_EmptySet
      <4>2. \A x : WithDemand(e, d) # {x}
        BY <1>7, <3>1
      <4>3. QED
        BY <3>2, <4>1, <4>2, FS_Singleton
    <3>5. QED
      BY <3>3, <3>4, SMT DEF Contended
  <2>2. SelectNextIngress(WithDemand(e, d), last) = d
    BY <2>1 DEF DrainGranted, MyTurn
  <2>3. Cardinality(Between(d, i)) < Cardinality(Between(last, i))
    BY <1>1, <1>7, <2>2, SelectedBefore DEF WithDemand
  <2>4. passedOver'[e][i] = over + 1 /\ lastServedIngress'[e] = d
    BY <1>3, <1>4, <1>7, <2>1
  <2>5. /\ Cardinality(Between(d, i)) \in Nat /\ Cardinality(Between(last, i)) \in Nat
        /\ Cardinality(Ingress) \in Nat
    BY <1>1, PortAssumption, BetweenIsSmall
  <2>6. QED
    BY <1>1, <1>2, <2>3, <2>4, <2>5, SMT
<1>8. QED
  BY <1>6, <1>7

------------------------------------------------------------------------------
\* The steps.

\* The devices: an arrival wakes its device, every other step that leaves
\* something behind leaves an event pending.
LEMMA DeviceStep ==
    ASSUME DeviceInv, [Next]_vars
    PROVE  DeviceInv'
<1> USE DEF DeviceInv
<1>1. ASSUME NEW d \in Ingress, NEW pr \in Prio, NEW route \in Routes,
             HandleMacRx(d, pr, route)
      PROVE  DeviceInv'
  <2>1. /\ m_ingressQ' = [m_ingressQ EXCEPT ![d][pr] = Append(@, route)]
        /\ OnDataRx(d, pr)
        /\ drainEvent' = [drainEvent EXCEPT ![d] = Woken(@)]
    BY <1>1 DEF HandleMacRx
  <2>2. Append(m_ingressQ[d][pr], route) \in Seq(Routes)
    BY ElemsAppend DEF DeviceTypeOK
  <2>3. Woken(drainEvent[d]) \in Nat
    BY DEF DeviceTypeOK, Woken, Expired
  <2>4. DeviceTypeOK'
    BY <2>1, <2>2, <2>3, OnDataRxEffect DEF DeviceTypeOK
  <2>5. PerClassInv'
    BY <2>1, ArrivalCoherent
  <2>6. DrainScheduled'
    <3>1. SUFFICES ASSUME NEW c \in Ingress, NEW p \in Prio, m_ingressQ'[c][p] # <<>>
                   PROVE  drainEvent'[c] # Expired
      BY DEF DrainScheduled
    <3>2. CASE c = d
      BY <2>1, <2>3, <3>2 DEF DeviceTypeOK, Expired
    <3>3. CASE c # d
      <4>1. m_ingressQ'[c][p] = m_ingressQ[c][p] /\ drainEvent'[c] = drainEvent[c]
        BY <2>1, <3>3 DEF DeviceTypeOK
      <4>2. QED
        BY <3>1, <4>1 DEF DrainScheduled
    <3>4. QED
      BY <3>2, <3>3
  <2>7. QED
    BY <2>4, <2>5, <2>6
<1>2. ASSUME NEW d \in Ingress, DrainIdle(d)
      PROVE  DeviceInv'
  <2>1. /\ drainEvent' = [drainEvent EXCEPT ![d] = Expired]
        /\ UNCHANGED <<m_ingressQ, m_rxOccPkts, m_localCongested, m_pfcTxXoff, m_pfcTxXon>>
        /\ \A pr \in Prio : m_ingressQ[d][pr] = <<>>
    BY <1>2 DEF DrainIdle
  <2>2. DeviceTypeOK'
    BY <2>1 DEF DeviceTypeOK
  <2>3. PerClassInv'
    BY <2>1 DEF PerClassInv, CoherentAt
  <2>4. DrainScheduled'
    BY <2>1 DEF DrainScheduled, DeviceTypeOK
  <2>5. QED
    BY <2>2, <2>3, <2>4
<1>3. ASSUME NEW d \in Ingress, NEW pr \in Prio, DrainLocal(d, pr)
      PROVE  DeviceInv'
  BY <1>3, PopFrontEffect DEF DrainLocal, Picks
<1>4. ASSUME NEW d \in Ingress, NEW pr \in Prio, NEW e \in Egress, DrainGranted(d, pr, e)
      PROVE  DeviceInv'
  BY <1>4, PopFrontEffect DEF DrainGranted, Picks
<1>5. ASSUME NEW d \in Ingress, NEW pr \in Prio, NEW e \in Egress, DrainRefused(d, pr, e)
      PROVE  DeviceInv'
  <2>1. /\ drainEvent' = [drainEvent EXCEPT ![d] = DrainRetry]
        /\ UNCHANGED <<m_ingressQ, m_rxOccPkts, m_localCongested, m_pfcTxXoff, m_pfcTxXon>>
        /\ DrainRetry \in Nat
    BY <1>5, TimingAssumption DEF DrainRefused
  <2>2. DeviceTypeOK'
    BY <2>1 DEF DeviceTypeOK
  <2>3. PerClassInv'
    BY <2>1 DEF PerClassInv, CoherentAt
  <2>4. DrainScheduled'
    BY <2>1 DEF DrainScheduled, DeviceTypeOK, Expired
  <2>5. QED
    BY <2>2, <2>3, <2>4
<1>6. CASE Tick
  <2>1. /\ drainEvent' = [d \in Ingress |-> Down(drainEvent[d])]
        /\ UNCHANGED <<m_ingressQ, m_rxOccPkts, m_localCongested, m_pfcTxXoff, m_pfcTxXon>>
    BY <1>6 DEF Tick
  <2>2. \A d \in Ingress : /\ Down(drainEvent[d]) \in Nat \cup {Expired}
                           /\ drainEvent[d] # Expired => Down(drainEvent[d]) # Expired
    BY DownType DEF DeviceTypeOK
  <2>3. DeviceTypeOK'
    BY <2>1, <2>2 DEF DeviceTypeOK
  <2>4. PerClassInv'
    BY <2>1 DEF PerClassInv, CoherentAt
  <2>5. DrainScheduled'
    BY <2>1, <2>2 DEF DrainScheduled
  <2>6. QED
    BY <2>3, <2>4, <2>5
<1>7. CASE UNCHANGED vars
  BY <1>7 DEF vars, deviceVars, DeviceTypeOK, PerClassInv, CoherentAt, DrainScheduled
<1>8. QED
  BY <1>1, <1>2, <1>3, <1>4, <1>5, <1>6, <1>7 DEF Next, Simulator, DoIngressDrain

\* The arbiter.
LEMMA ArbiterStep ==
    ASSUME ArbiterInv, [Next]_vars
    PROVE  ArbiterInv'
<1> USE DEF ArbiterInv
<1>1. ASSUME NEW d \in Ingress, NEW pr \in Prio, NEW route \in Routes,
             HandleMacRx(d, pr, route)
      PROVE  ArbiterInv'
  BY <1>1 DEF HandleMacRx, managerVars, ManagerTypeOK, RoundsLeft
<1>2. ASSUME NEW d \in Ingress, DrainIdle(d)
      PROVE  ArbiterInv'
  BY <1>2 DEF DrainIdle, managerVars, ManagerTypeOK, RoundsLeft
<1>3. ASSUME NEW d \in Ingress, NEW pr \in Prio, DrainLocal(d, pr)
      PROVE  ArbiterInv'
  BY <1>3 DEF DrainLocal, managerVars, ManagerTypeOK, RoundsLeft
<1>4. ASSUME NEW d \in Ingress, NEW pr \in Prio, NEW e \in Egress, DrainGranted(d, pr, e)
      PROVE  ArbiterInv'
  <2>1. activeIngressPorts[e] \subseteq Ingress /\ WithDemand(e, d) \subseteq Ingress
    BY DEF ManagerTypeOK, WithDemand
  <2>2. activeIngressPorts' \in [Egress -> SUBSET Ingress]
    <3>1. Remaining(e, d, pr) \in SUBSET Ingress
      BY <2>1 DEF Remaining
    <3>2. activeIngressPorts' = [activeIngressPorts EXCEPT ![e] = Remaining(e, d, pr)]
      BY <1>4 DEF DrainGranted
    <3>3. QED
      BY <3>1, <3>2 DEF ManagerTypeOK
  <2>3. passedOver' \in [Egress -> [Ingress -> Nat]]
    <3> DEFINE row == [i \in Ingress |->
                  IF i # d /\ i \in activeIngressPorts[e] THEN passedOver[e][i] + 1 ELSE 0]
    <3>1. row \in [Ingress -> Nat]
      BY DEF ManagerTypeOK
    <3>2. passedOver' = [passedOver EXCEPT ![e] = row]
      BY <1>4 DEF DrainGranted, CountPassedOver
    <3> HIDE DEF row
    <3>3. QED
      BY <3>1, <3>2 DEF ManagerTypeOK
  <2>4. nRx' \in Nat
    BY <1>4 DEF DrainGranted, ManagerTypeOK
  <2>5. CASE e \notin Registered
    <3>1. UNCHANGED <<m_tokens, lastServedIngress>>
      BY <1>4, <2>5 DEF DrainGranted
    <3>2. \A r \in Registered : passedOver'[r] = passedOver[r]
      BY <1>4, <2>5, PortAssumption DEF DrainGranted, CountPassedOver, ManagerTypeOK
    <3>3. QED
      BY <2>2, <2>3, <2>4, <3>1, <3>2 DEF ManagerTypeOK, RoundsLeft
  <2>6. CASE e \in Registered
    <3>1. m_tokens' \in [Registered -> 0 .. Capacity]
      <4>1. m_tokens[e] \in 0 .. Capacity /\ m_tokens[e] >= Cost
        BY <1>4, <2>6 DEF DrainGranted, HasToken, ManagerTypeOK
      <4>2. m_tokens[e] - Cost \in 0 .. Capacity
        BY <4>1, BucketAssumption, SMT
      <4>3. m_tokens' = [m_tokens EXCEPT ![e] = @ - Cost]
        BY <1>4, <2>6 DEF DrainGranted
      <4>4. QED
        BY <4>2, <4>3 DEF ManagerTypeOK
    <3>2. lastServedIngress' =
             [lastServedIngress EXCEPT ![e] = IF Contended(e, d) THEN d ELSE @]
      BY <1>4, <2>6 DEF DrainGranted
    <3>3. lastServedIngress' \in [Egress -> Ingress \cup {0}]
      BY <3>2 DEF ManagerTypeOK
    <3>4. RoundsLeft'
      <4>1. SUFFICES ASSUME NEW r \in Registered, NEW i \in Ingress
                     PROVE  passedOver'[r][i] + Cardinality(Between(lastServedIngress'[r], i))
                              < Cardinality(Ingress)
        BY DEF RoundsLeft, Between
      <4>2. CASE r = e
        BY <1>4, <4>2, GrantRounds
      <4>3. CASE r # e
        <5>1. passedOver'[r] = passedOver[r] /\ lastServedIngress'[r] = lastServedIngress[r]
          BY <1>4, <3>2, <4>3, PortAssumption DEF DrainGranted, CountPassedOver, ManagerTypeOK
        <5>2. QED
          BY <5>1 DEF RoundsLeft
      <4>4. QED
        BY <4>2, <4>3
    <3>5. QED
      BY <2>2, <2>3, <2>4, <3>1, <3>3, <3>4 DEF ManagerTypeOK
  <2>7. QED
    BY <2>5, <2>6
<1>5. ASSUME NEW d \in Ingress, NEW pr \in Prio, NEW e \in Egress, DrainRefused(d, pr, e)
      PROVE  ArbiterInv'
  <2>1. m_tokens' \in [Registered -> 0 .. Capacity]
    <3>1. e \in Registered /\ m_tokens[e] \in 0 .. Capacity
      BY <1>5 DEF DrainRefused, ManagerTypeOK
    <3>2. CASE HasToken(e)
      <4>1. m_tokens[e] - Cost \in Nat
        BY <3>1, <3>2, BucketAssumption, SMT DEF HasToken
      <4>2. Refund(m_tokens[e] - Cost) \in 0 .. Capacity
        BY <4>1, BucketAssumption, SMT DEF Refund, AtMost
      <4>3. m_tokens' = [m_tokens EXCEPT ![e] = Refund(@ - Cost)]
        BY <1>5, <3>2 DEF DrainRefused
      <4>4. QED
        BY <4>2, <4>3 DEF ManagerTypeOK
    <3>3. CASE ~HasToken(e)
      BY <1>5, <3>3 DEF DrainRefused, ManagerTypeOK
    <3>4. QED
      BY <3>2, <3>3
  <2>2. activeIngressPorts' \in [Egress -> SUBSET Ingress]
    <3>1. WithDemand(e, d) \in SUBSET Ingress
      BY DEF ManagerTypeOK, WithDemand
    <3>2. activeIngressPorts' = [activeIngressPorts EXCEPT ![e] = WithDemand(e, d)]
      BY <1>5 DEF DrainRefused
    <3>3. QED
      BY <3>1, <3>2 DEF ManagerTypeOK
  <2>3. UNCHANGED <<lastServedIngress, nRx, passedOver>>
    BY <1>5 DEF DrainRefused
  <2>4. QED
    BY <2>1, <2>2, <2>3 DEF ManagerTypeOK, RoundsLeft
<1>6. CASE Tick
  <2>1. \A e \in Registered : AtMost(m_tokens[e] + Rate, Capacity) \in 0 .. Capacity
    BY BucketAssumption, SMT DEF ManagerTypeOK, AtMost
  <2>2. QED
    BY <1>6, <2>1 DEF Tick, ManagerTypeOK, RoundsLeft
<1>7. CASE UNCHANGED vars
  BY <1>7 DEF vars, managerVars, ManagerTypeOK, RoundsLeft
<1>8. QED
  BY <1>1, <1>2, <1>3, <1>4, <1>5, <1>6, <1>7 DEF Next, Simulator, DoIngressDrain

------------------------------------------------------------------------------
LEMMA InitSafe == Init => IInv
<1> SUFFICES ASSUME Init PROVE IInv
  OBVIOUS
<1>1. <<>> \in Seq(Routes) /\ Len(<<>>) = 0
  BY EmptySeq
<1>2. /\ m_ingressQ = [d \in Ingress |-> [pr \in Prio |-> <<>>]]
      /\ m_rxOccPkts = [d \in Ingress |-> [pr \in Prio |-> 0]]
      /\ m_localCongested = [d \in Ingress |-> [pr \in Prio |-> FALSE]]
      /\ m_pfcTxXoff = [d \in Ingress |-> [pr \in Prio |-> 0]]
      /\ m_pfcTxXon = [d \in Ingress |-> [pr \in Prio |-> 0]]
      /\ drainEvent = [d \in Ingress |-> Expired]
  BY DEF Init, PerClass
<1>3. DeviceTypeOK
  BY <1>1, <1>2 DEF DeviceTypeOK
<1>4. PerClassInv
  <2>1. SUFFICES ASSUME NEW d \in Ingress, NEW pr \in Prio PROVE CoherentAt(d, pr)
    BY DEF PerClassInv
  <2>2. Coherent(0, 0, FALSE, 0, 0)
    BY WatermarkAssumption, SMT DEF Coherent, OneIf
  <2>3. /\ m_ingressQ[d][pr] = <<>> /\ m_rxOccPkts[d][pr] = 0
        /\ m_localCongested[d][pr] = FALSE
        /\ m_pfcTxXoff[d][pr] = 0 /\ m_pfcTxXon[d][pr] = 0
    BY <1>2
  <2>4. QED
    BY <1>1, <2>2, <2>3 DEF CoherentAt
<1>5. DrainScheduled
  BY <1>2 DEF DrainScheduled
<1>6. ManagerTypeOK
  BY BucketAssumption DEF Init, ManagerInit, ManagerTypeOK
<1>7. RoundsLeft
  <2>1. SUFFICES ASSUME NEW e \in Registered, NEW d \in Ingress
                 PROVE  passedOver[e][d] + Cardinality(Between(lastServedIngress[e], d))
                          < Cardinality(Ingress)
    BY DEF RoundsLeft
  <2>2. passedOver[e][d] = 0 /\ lastServedIngress[e] = 0
    BY PortAssumption DEF Init, ManagerInit
  <2>3. QED
    BY <2>2, BetweenIsSmall
<1>8. QED
  BY <1>3, <1>4, <1>5, <1>6, <1>7 DEF IInv, DeviceInv, ArbiterInv

LEMMA NextSafe == IInv /\ [Next]_vars => IInv'
BY DeviceStep, ArbiterStep DEF IInv

THEOREM Safety == Spec => []IInv
<1>1. Init => IInv
  BY InitSafe
<1>2. IInv /\ [Next]_vars => IInv'
  BY NextSafe
<1>3. QED
  BY <1>1, <1>2, PTL DEF Spec

\* Types; no bucket is overdrawn or holds more than its capacity.
THEOREM TypeCorrect == Spec => []TypeOK
<1>1. IInv => TypeOK
  BY TypeOKSplits DEF IInv, DeviceInv, ArbiterInv
<1>2. QED
  BY <1>1, Safety, PTL

\* m_rxOccPkts, which OnDataRx and DoIngressDrain update apart from the queue,
\* is its length, and so XOFF and XON are decided on the queue itself.
THEOREM OccupancyCountsQueue == Spec => []OccupancyIsLength
<1>1. IInv => OccupancyIsLength
  BY PerClassInvSplits DEF IInv, DeviceInv
<1>2. QED
  BY <1>1, Safety, PTL

\* For every pair of watermarks in the right order the peer is told to stop at
\* the high one and to go on at the low one.
THEOREM WatermarksDecide == Spec => []PfcHysteresis
<1>1. IInv => PfcHysteresis
  BY PerClassInvSplits DEF IInv, DeviceInv
<1>2. QED
  BY <1>1, Safety, PTL

\* XOFF and XON alternate whatever the watermarks are.
THEOREM XonAnswersXoff == Spec => []XoffXonAlternate
<1>1. IInv => XoffXonAlternate
  BY PerClassInvSplits DEF IInv, DeviceInv
<1>2. QED
  BY <1>1, Safety, PTL

\* No device forgets a packet: DoIngressDrain is pending while one waits.
THEOREM DrainIsScheduled == Spec => []DrainScheduled
<1>1. IInv => DrainScheduled
  BY DEF IInv, DeviceInv
<1>2. QED
  BY <1>1, Safety, PTL

\* The round robin among any number of ingress ports: while d's demand stays
\* registered at e, fewer grants of e go to others than there are ports.
THEOREM BypassIsBounded == Spec => []BoundedBypass
<1>1. IInv => BoundedBypass
  <2>1. SUFFICES ASSUME IInv, NEW e \in Registered, NEW d \in Ingress
                 PROVE  passedOver[e][d] < Cardinality(Ingress)
    BY DEF BoundedBypass
  <2>2. e \in Egress /\ 0 \in Nat /\ Ingress \subseteq Nat
    BY PortAssumption, SMT
  <2>3. /\ passedOver[e][d] \in Nat
        /\ lastServedIngress[e] \in Ingress \cup {0}
    BY <2>1, <2>2 DEF IInv, ArbiterInv, ManagerTypeOK
  <2>4. lastServedIngress[e] \in Nat
    BY <2>2, <2>3, Zenon
  <2>5. passedOver[e][d] + Cardinality(Between(lastServedIngress[e], d))
          < Cardinality(Ingress)
    BY <2>1 DEF IInv, ArbiterInv, RoundsLeft
  <2>6. /\ Cardinality(Between(lastServedIngress[e], d)) \in Nat
        /\ Cardinality(Ingress) \in Nat
    BY <2>4, BetweenIsSmall
  <2>7. QED
    BY <2>3, <2>5, <2>6, SMT
<1>2. QED
  BY <1>1, Safety, PTL

\* A token is spent on a packet that leaves for its egress port, and on nothing
\* else: a refused attempt takes none, or gives it back in full.
THEOREM TokensAreNotWasted == Spec => TokensBuyForwarding
<1> DEFINE Bought(e) ==
              m_tokens'[e] < m_tokens[e] =>
                /\ m_tokens'[e] = m_tokens[e] - Cost
                /\ \E d \in Ingress, pr \in Prio :
                     /\ m_ingressQ[d][pr] # <<>>
                     /\ EgressPort(Head(m_ingressQ[d][pr]), e)
                     /\ m_ingressQ'[d][pr] = Tail(m_ingressQ[d][pr])
<1>1. ASSUME IInv, [Next]_vars, NEW e \in Registered PROVE Bought(e)
  <2>1. /\ m_tokens \in [Registered -> 0 .. Capacity]
        /\ m_tokens[e] \in 0 .. Capacity /\ m_tokens[e] \in Nat
        /\ m_ingressQ \in [Ingress -> [Prio -> Seq(Routes)]]
    BY <1>1, BucketAssumption DEF IInv, DeviceInv, DeviceTypeOK, ArbiterInv, ManagerTypeOK
  <2>2. ~(m_tokens[e] < m_tokens[e])
    BY <2>1, SMT
  <2>3. CASE m_tokens' = m_tokens
    BY <2>2, <2>3
  <2>4. ASSUME NEW d \in Ingress, NEW pr \in Prio, NEW x \in Egress,
               DrainGranted(d, pr, x)
        PROVE  Bought(e)
    <3>1. CASE x # e \/ x \notin Registered
      <4>1. m_tokens'[e] = m_tokens[e]
        BY <2>1, <2>4, <3>1 DEF DrainGranted
      <4>2. QED
        BY <2>2, <4>1
    <3>2. CASE x = e /\ x \in Registered
      <4>1. m_tokens'[e] = m_tokens[e] - Cost
        BY <2>1, <2>4, <3>2 DEF DrainGranted
      <4>2. /\ m_ingressQ[d][pr] # <<>>
            /\ EgressPort(Head(m_ingressQ[d][pr]), e)
            /\ m_ingressQ' = [m_ingressQ EXCEPT ![d][pr] = Tail(@)]
        BY <2>4, <3>2 DEF DrainGranted, Picks, PopFront
      <4>3. m_ingressQ'[d][pr] = Tail(m_ingressQ[d][pr])
        BY <2>1, <4>2
      <4>4. QED
        BY <4>1, <4>2, <4>3
    <3>3. QED
      BY <3>1, <3>2
  <2>5. ASSUME NEW d \in Ingress, NEW pr \in Prio, NEW x \in Egress,
               DrainRefused(d, pr, x)
        PROVE  Bought(e)
    <3>1. x \in Registered /\ m_tokens[x] \in 0 .. Capacity
      BY <2>1, <2>5 DEF DrainRefused
    <3>2. Refund(m_tokens[x] - Cost) = m_tokens[x]
      BY <3>1, BucketAssumption, SMT DEF Refund, AtMost
    <3>3. m_tokens' = [m_tokens EXCEPT ![x] = Refund(@ - Cost)] \/ m_tokens' = m_tokens
      BY <2>5 DEF DrainRefused
    <3>4. m_tokens'[e] = m_tokens[e]
      BY <2>1, <3>1, <3>2, <3>3
    <3>5. QED
      BY <2>2, <3>4
  <2>6. CASE Tick
    <3>1. m_tokens'[e] = AtMost(m_tokens[e] + Rate, Capacity)
      BY <2>6 DEF Tick
    <3>2. ~(AtMost(m_tokens[e] + Rate, Capacity) < m_tokens[e])
      BY <2>1, BucketAssumption, SMT DEF AtMost
    <3>3. QED
      BY <3>1, <3>2
  <2>7. ASSUME NEW d \in Ingress, NEW pr \in Prio, NEW route \in Routes,
               HandleMacRx(d, pr, route)
        PROVE  m_tokens' = m_tokens
    BY <2>7 DEF HandleMacRx, managerVars
  <2>8. ASSUME NEW d \in Ingress, DrainIdle(d)
        PROVE  m_tokens' = m_tokens
    BY <2>8 DEF DrainIdle, managerVars
  <2>9. ASSUME NEW d \in Ingress, NEW pr \in Prio, DrainLocal(d, pr)
        PROVE  m_tokens' = m_tokens
    BY <2>9 DEF DrainLocal, managerVars
  <2>10. CASE UNCHANGED vars
    BY <2>3, <2>10 DEF vars, managerVars
  <2> HIDE DEF Bought
  <2>11. QED
    BY <1>1, <2>3, <2>4, <2>5, <2>6, <2>7, <2>8, <2>9, <2>10
       DEF Next, Simulator, DoIngressDrain
<1>2. IInv /\ [Next]_vars => [\A e \in Registered : Bought(e)]_vars
  BY <1>1
<1>3. QED
  BY <1>2, Safety, PTL DEF Spec, TokensBuyForwarding

------------------------------------------------------------------------------
\* The bucket of each egress port is the meter that TokenBucket implements by
\* refilling lazily.
Meter(e) == INSTANCE TokenMeter WITH level <- m_tokens[e]

\* Grants take a packet's cost, time fills, and nothing else changes a level: a
\* token taken out of turn is back before anyone else looks.
THEOREM BucketsAreMeters ==
    ASSUME NEW e \in Registered
    PROVE  Spec => Meter(e)!Spec
<1>1. Init => Meter(e)!Init
  BY DEF Init, ManagerInit, Meter!Init
<1>2. IInv /\ [Next]_vars => [Meter(e)!Next]_(m_tokens[e])
  <2> SUFFICES ASSUME IInv, [Next]_vars
               PROVE  m_tokens'[e] = m_tokens[e] \/ Meter(e)!Take \/ Meter(e)!Rise
    BY DEF Meter!Next
  <2>1. /\ m_tokens \in [Registered -> 0 .. Capacity]
        /\ m_tokens[e] \in Nat /\ m_tokens[e] <= Capacity
        /\ Capacity \in Nat /\ Cost \in Nat
    BY BucketAssumption, SMT DEF IInv, ArbiterInv, ManagerTypeOK
  <2>2. CASE UNCHANGED m_tokens
    BY <2>2
  <2>3. ASSUME NEW d \in Ingress, NEW pr \in Prio, NEW g \in Egress,
               DrainGranted(d, pr, g)
        PROVE  m_tokens'[e] = m_tokens[e] \/ Meter(e)!Take
    <3>1. CASE g = e
      <4>1. m_tokens[e] >= Cost /\ m_tokens'[e] = m_tokens[e] - Cost
        BY <2>1, <2>3, <3>1 DEF DrainGranted, HasToken
      <4>2. QED
        BY <4>1 DEF Meter!Take
    <3>2. CASE g # e
      BY <2>1, <2>3, <3>2 DEF DrainGranted
    <3>3. QED
      BY <3>1, <3>2
  <2>4. ASSUME NEW d \in Ingress, NEW pr \in Prio, NEW g \in Egress,
               DrainRefused(d, pr, g)
        PROVE  m_tokens'[e] = m_tokens[e]
    <3>1. CASE g = e /\ HasToken(g)
      <4>1. m_tokens'[e] = Refund(m_tokens[e] - Cost)
        BY <2>1, <2>4, <3>1 DEF DrainRefused
      <4>2. \A x, y, c \in Nat : x <= y =>
              (IF (x - c) + c < y THEN (x - c) + c ELSE y) = x
        BY SMT
      <4>3. QED
        BY <2>1, <4>1, <4>2 DEF Refund, AtMost
    <3>2. CASE ~(g = e /\ HasToken(g))
      BY <2>1, <2>4, <3>2 DEF DrainRefused
    <3>3. QED
      BY <3>1, <3>2
  <2>5. CASE Tick
    <3>1. m_tokens'[e] = AtMost(m_tokens[e] + Rate, Capacity)
      BY <2>5 DEF Tick
    <3>2. QED
      BY <3>1 DEF AtMost, Meter!Rise, Meter!AtMost
  <2>6. /\ \A d, pr, route : HandleMacRx(d, pr, route) => UNCHANGED m_tokens
        /\ \A d, pr : DrainIdle(d) \/ DrainLocal(d, pr) => UNCHANGED m_tokens
    BY DEF HandleMacRx, DrainIdle, DrainLocal, managerVars
  <2>7. QED
    BY <2>2, <2>3, <2>4, <2>5, <2>6
       DEF Next, Simulator, DoIngressDrain, vars, managerVars
<1>3. QED
  BY <1>1, <1>2, Safety, PTL DEF Spec, Meter!Spec
==============================================================================
