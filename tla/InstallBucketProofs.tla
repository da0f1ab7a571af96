------------------------- MODULE InstallBucketProofs -------------------------
(***************************************************************************)
(* What is put around a device.  Delivery to IP for any number of devices, *)
(* frames, aggregates and calls: a frame received after HookL3Divert has   *)
(* run reaches IP once.  The invariant has three parts, for the            *)
(* attributes, for the receive callback and for the frames; each operation *)
(* disturbs one or two of them.  And the token bucket of an egress port,   *)
(* for every capacity, cost and rate: the bound on what the port can let   *)
(* through in an interval, and the equivalence of lazy and continuous      *)
(* refilling.  The two components share no state.                          *)
(***************************************************************************)
EXTENDS QbbInstall, TokenBucket, SeqSetsProofs

\* The attributes are numbers and the quanta fit.
ConfigOK ==
    /\ default \in [Attr -> Value]
    /\ helper \in [HelperAttr -> Nat] /\ Fits(helper)
    /\ m_deviceFactory \in [Attr -> Value \cup {Unset}]
    /\ attribute \in [Device -> {<<>>} \cup [Attr -> Nat]]
    /\ \A d \in Installed : Fits(attribute[d])

\* The flag is never set before the callback is, and only an installed device of
\* a node with IP has a hook or the flag.
DivertOK ==
    /\ ipv4 \in BOOLEAN
    /\ m_rxCallback \in [Device -> {"null", "node", "L3Swallow"}]
    /\ m_l3DivertInstalled \in [Device -> BOOLEAN]
    /\ hooks \in [Device -> SUBSET {0, 1}]
    /\ \A d \in Device :
         /\ m_l3DivertInstalled[d] \/ hooks[d] # {} => attribute[d] # <<>> /\ ipv4
         /\ m_l3DivertInstalled[d] => m_rxCallback[d] = "L3Swallow"

\* A frame waits in one queue, once.
OneQueueOnly ==
    /\ \A d \in Device : Once(m_ingressQ[d], Nat)
    /\ \A d, e \in Device, f \in Nat :
         f \in Elems(m_ingressQ[d]) /\ f \in Elems(m_ingressQ[e]) => d = e

DeliveryOK ==
    /\ m_ingressQ \in [Device -> Seq(1 .. nFrames)]
    /\ toIp \in Seq(Nat) /\ Len(toIp) = nFrames
    /\ diverted \subseteq 1 .. nFrames
    /\ diverted # {} => ipv4
    /\ OneQueueOnly
    /\ OnceIfDiverted

IInv == ConfigOK /\ DivertOK /\ DeliveryOK

------------------------------------------------------------------------------
\* Attributes.

\* A device with attributes counts as installed.
LEMMA AttributesAreSome ==
    ASSUME NEW f \in [Attr -> Nat]
    PROVE  f # <<>>
<1>1. Quanta \in Attr /\ DOMAIN f = Attr
  BY InstallAssumption DEF Attr
<1>2. DOMAIN <<>> = {}
  OBVIOUS
<1>3. QED
  BY <1>1, <1>2

LEMMA NarrowedFits ==
    ASSUME NEW a \in HelperAttr, NEW v \in Value
    PROVE  Narrowed(a, v) \in Nat /\ (a = Quanta => Narrowed(a, v) < QuantaRange)
<1>1. v \in Nat /\ QuantaRange \in Nat \ {0}
  BY InstallAssumption
<1>2. v % QuantaRange \in 0 .. QuantaRange - 1
  BY <1>1, SMT
<1>3. v % QuantaRange \in Nat /\ v % QuantaRange < QuantaRange
  BY <1>1, <1>2, SMT
<1>4. QED
  BY <1>1, <1>3 DEF Narrowed

\* What Install gives a device are numbers, and quanta that fit: they come from
\* the helper, whatever the other sources say.
LEMMA InstalledFits ==
    ASSUME ConfigOK
    PROVE  AttributesAtInstall \in [Attr -> Nat] /\ Fits(AttributesAtInstall)
<1>1. \A a \in HelperAttr : helper[a] \in Nat
  BY DEF ConfigOK
<1>2. \A a \in Attr : m_deviceFactory[a] # Unset => m_deviceFactory[a] \in Nat
  BY InstallAssumption DEF ConfigOK
<1>3. \A a \in Attr : default[a] \in Nat
  BY InstallAssumption DEF ConfigOK
<1>4. Quanta \in HelperAttr /\ Quanta \in Attr /\ helper[Quanta] < QuantaRange
  BY InstallAssumption DEF Attr, ConfigOK, Fits
<1>5. QED
  BY <1>1, <1>2, <1>3, <1>4 DEF AttributesAtInstall, Fits

\* The calls that set attributes.
LEMMA ConfigurationSafe ==
    ASSUME IInv, NEW a \in Attr, NEW v \in Value,
           \/ SetDefault(a, v) \/ SetDeviceAttribute(a, v)
           \/ a \in HelperAttr /\ SetPfcAttribute(a, v)
           \/ ConfigSet(a, v)
    PROVE  ConfigOK' /\ \A d \in Device : attribute[d] # <<>> => attribute'[d] # <<>>
<1>1. ConfigOK
  BY DEF IInv
<1>2. CASE SetDefault(a, v)
  BY <1>1, <1>2 DEF SetDefault, ConfigOK, Installed
<1>3. CASE SetDeviceAttribute(a, v)
  BY <1>1, <1>3 DEF SetDeviceAttribute, ConfigOK, Installed
<1>4. CASE a \in HelperAttr /\ SetPfcAttribute(a, v)
  <2>1. Narrowed(a, v) \in Nat /\ (a = Quanta => Narrowed(a, v) < QuantaRange)
    BY <1>4, NarrowedFits
  <2>2. helper' = [x \in HelperAttr |-> IF x = a THEN Narrowed(a, v) ELSE helper[x]]
    BY <1>4 DEF SetPfcAttribute
  <2>3. helper' \in [HelperAttr -> Nat] /\ Fits(helper')
    <3>1. helper \in [HelperAttr -> Nat] /\ Fits(helper)
      BY <1>1 DEF ConfigOK
    <3>2. QED
      BY <2>1, <2>2, <3>1 DEF Fits
  <2>4. UNCHANGED <<default, m_deviceFactory, attribute>>
    BY <1>4 DEF SetPfcAttribute
  <2>5. QED
    BY <1>1, <2>3, <2>4 DEF ConfigOK, Installed
<1>5. CASE ConfigSet(a, v)
  <2>1. /\ attribute' = [d \in Device |->
               IF d \in Installed THEN [attribute[d] EXCEPT ![a] = v] ELSE <<>>]
        /\ UNCHANGED <<default, helper, m_deviceFactory>>
    BY <1>5 DEF ConfigSet
  <2>2. v \in Nat /\ (a = Quanta => v < QuantaRange)
    BY <1>5, InstallAssumption DEF ConfigSet, Accepted
  <2>3. ASSUME NEW d \in Installed
        PROVE  /\ attribute'[d] \in [Attr -> Nat] /\ Fits(attribute'[d])
               /\ attribute'[d] # <<>>
    <3>1. d \in Device /\ attribute[d] \in [Attr -> Nat] /\ Fits(attribute[d])
      BY <1>1 DEF ConfigOK, Installed
    <3>2. attribute'[d] = [attribute[d] EXCEPT ![a] = v]
      BY <2>1, <3>1
    <3>3. attribute'[d] \in [Attr -> Nat] /\ Fits(attribute'[d])
      BY <2>2, <3>1, <3>2 DEF Fits
    <3>4. QED
      BY <3>3, AttributesAreSome
  <2>4. \A d \in Device : d \notin Installed => attribute'[d] = <<>>
    BY <2>1
  <2>5. attribute' \in [Device -> {<<>>} \cup [Attr -> Nat]]
    <3>1. \A d \in Device : attribute'[d] \in {<<>>} \cup [Attr -> Nat]
      BY <2>3, <2>4
    <3>2. QED
      BY <2>1, <3>1
  <2>6. \A d \in Device : d \in Installed' => Fits(attribute'[d])
    BY <2>3, <2>4 DEF Installed
  <2>7. ConfigOK'
    BY <1>1, <2>1, <2>5, <2>6 DEF ConfigOK, Installed
  <2>8. QED
    BY <2>3, <2>7 DEF Installed
<1>6. QED
  BY <1>2, <1>3, <1>4, <1>5

------------------------------------------------------------------------------
\* Frames.

LEMMA WaitingIsElems ==
    ASSUME m_ingressQ \in [Device -> Seq(1 .. nFrames)], NEW f
    PROVE  Waiting(f) <=> \E d \in Device : f \in Elems(m_ingressQ[d])
<1>1. \A d \in Device : DOMAIN m_ingressQ[d] = 1 .. Len(m_ingressQ[d])
  BY LenProperties
<1>2. QED
  BY <1>1 DEF Waiting, Elems

\* A number in a sequence changed.
LEMMA ExceptTyped ==
    ASSUME NEW s \in Seq(Nat), NEW i \in 1 .. Len(s), NEW n \in Nat
    PROVE  /\ [s EXCEPT ![i] = n] \in Seq(Nat)
           /\ Len([s EXCEPT ![i] = n]) = Len(s)
           /\ \A j \in 1 .. Len(s) :
                [s EXCEPT ![i] = n][j] = IF j = i THEN n ELSE s[j]
<1>1. Len(s) \in Nat /\ s \in [1 .. Len(s) -> Nat]
  BY LenProperties
<1> DEFINE t == [s EXCEPT ![i] = n]
<1>2. t \in [1 .. Len(s) -> Nat]
  BY <1>1
<1>3. t \in Seq(Nat) /\ Len(t) = Len(s)
  <2> HIDE DEF t
  <2>1. t \in Seq(Nat)
    BY <1>1, <1>2, IsASeq
  <2>2. QED
    BY <1>1, <1>2, <2>1, LenProperties
<1>4. \A j \in 1 .. Len(s) : t[j] = IF j = i THEN n ELSE s[j]
  BY <1>1
<1>5. QED
  BY <1>3, <1>4

\* The new frame is queued, and IP gets it at once only from a device without
\* the flag.
LEMMA ReceiveSafe ==
    ASSUME IInv, NEW d \in Device, Receive(d)
    PROVE  DeliveryOK'
<1> DEFINE n == nFrames + 1
           q == m_ingressQ[d]
<1>1. /\ m_ingressQ \in [Device -> Seq(1 .. nFrames)]
      /\ toIp \in Seq(Nat) /\ Len(toIp) = nFrames
      /\ diverted \subseteq 1 .. nFrames
      /\ diverted # {} => ipv4
      /\ OneQueueOnly /\ OnceIfDiverted
  BY DEF IInv, DeliveryOK
<1>2. nFrames \in Nat /\ n \in 1 .. n /\ n \in Nat /\ n \notin 1 .. nFrames
      /\ 1 .. nFrames \subseteq 1 .. n /\ 1 .. nFrames \subseteq Nat
      /\ 1 .. n = (1 .. nFrames) \cup {n}
  <2>1. nFrames \in Nat
    BY <1>1, LenProperties
  <2>2. QED
    BY <2>1, SMT
<1>3. /\ nFrames' = n
      /\ m_ingressQ' = [m_ingressQ EXCEPT ![d] = Append(@, n)]
      /\ toIp' = Append(toIp, IF ipv4 /\ m_rxCallback[d] = "node" THEN 1 ELSE 0)
      /\ diverted' = IF m_l3DivertInstalled[d] THEN diverted \cup {n} ELSE diverted
      /\ ipv4' = ipv4
  BY DEF Receive
<1>4. ASSUME NEW e \in Device
      PROVE  /\ m_ingressQ[e] \in Seq(1 .. n)
             /\ Elems(m_ingressQ[e]) \subseteq 1 .. nFrames
             /\ n \notin Elems(m_ingressQ[e])
  <2>1. m_ingressQ[e] \in Seq(1 .. nFrames)
    BY <1>1
  <2>2. Elems(m_ingressQ[e]) \subseteq 1 .. nFrames
    BY <2>1, ElemsInSet
  <2>3. m_ingressQ[e] \in Seq(1 .. n)
    BY <1>2, <2>1, <2>2, SeqOverElems
  <2>4. QED
    BY <1>2, <2>2, <2>3
<1>5. /\ Append(q, n) \in Seq(1 .. n)
      /\ Elems(Append(q, n)) = Elems(q) \cup {n}
      /\ Once(Append(q, n), Nat)
  <2>1. Once(q, Nat)
    BY <1>1 DEF OneQueueOnly
  <2>2. q \in Seq(1 .. n) /\ n \notin Elems(q)
    BY <1>4
  <2> HIDE DEF n, q
  <2>3. QED
    BY <1>2, <2>1, <2>2, ElemsAppend, OnceAppend
<1> HIDE DEF n
<1>6. \A e \in Device : m_ingressQ'[e] = IF e = d THEN Append(q, n) ELSE m_ingressQ[e]
  BY <1>1, <1>3
<1>7. m_ingressQ' \in [Device -> Seq(1 .. nFrames')]
  <2>1. \A e \in Device : m_ingressQ'[e] \in Seq(1 .. n)
    BY <1>4, <1>5, <1>6
  <2>2. QED
    BY <1>1, <1>3, <2>1
<1>8. \A e \in Device : Elems(m_ingressQ'[e])
                          = Elems(m_ingressQ[e]) \cup (IF e = d THEN {n} ELSE {})
  BY <1>5, <1>6
<1>9. OneQueueOnly'
  <2>1. \A e \in Device : Once(m_ingressQ'[e], Nat)
    BY <1>1, <1>5, <1>6 DEF OneQueueOnly
  <2>2. ASSUME NEW e \in Device, NEW x \in Device, NEW f \in Nat,
               f \in Elems(m_ingressQ'[e]), f \in Elems(m_ingressQ'[x])
        PROVE  e = x
    <3>1. CASE f = n
      BY <1>4, <1>8, <2>2, <3>1
    <3>2. CASE f # n
      <4>1. f \in Elems(m_ingressQ[e]) /\ f \in Elems(m_ingressQ[x])
        BY <1>8, <2>2, <3>2
      <4>2. QED
        BY <1>1, <4>1 DEF OneQueueOnly
    <3>3. QED
      BY <3>1, <3>2
  <2>3. QED
    BY <2>1, <2>2 DEF OneQueueOnly
<1> DEFINE r == IF ipv4 /\ m_rxCallback[d] = "node" THEN 1 ELSE 0
<1>10. /\ toIp' \in Seq(Nat) /\ Len(toIp') = nFrames'
       /\ \A f \in 1 .. nFrames : toIp'[f] = toIp[f]
       /\ toIp'[n] = r
  <2>1. r \in Nat
    OBVIOUS
  <2>2. toIp' = Append(toIp, r)
    BY <1>3
  <2> HIDE DEF r
  <2>3. /\ toIp' \in Seq(Nat) /\ Len(toIp') = Len(toIp) + 1
        /\ toIp'[Len(toIp) + 1] = r
        /\ \A f \in 1 .. Len(toIp) : toIp'[f] = toIp[f]
    BY <1>1, <2>1, <2>2, AppendProperties
  <2>4. QED
    BY <1>1, <1>3, <2>3 DEF n
<1>11. \A f : Waiting(f)' <=> (Waiting(f) \/ f = n)
  <2>1. \A f : Waiting(f)' <=> \E e \in Device : f \in Elems(m_ingressQ'[e])
    BY <1>7, WaitingIsElems DEF Waiting, Elems
  <2>2. \A f : Waiting(f) <=> \E e \in Device : f \in Elems(m_ingressQ[e])
    BY <1>1, WaitingIsElems
  <2>3. QED
    BY <1>8, <2>1, <2>2
<1>12. OnceIfDiverted'
  <2>1. SUFFICES ASSUME NEW f \in diverted'
                 PROVE  toIp'[f] = IF Waiting(f)' THEN 0 ELSE 1
    BY DEF OnceIfDiverted
  <2>2. CASE f \in diverted
    <3>1. f # n /\ f \in 1 .. nFrames
      BY <1>1, <1>2, <2>2
    <3>2. QED
      BY <1>1, <1>10, <1>11, <2>2, <3>1 DEF OnceIfDiverted
  <2>3. CASE f \notin diverted
    <3>1. f = n /\ m_l3DivertInstalled[d]
      BY <1>3, <2>1, <2>3
    <3>2. m_rxCallback[d] = "L3Swallow"
      BY <3>1 DEF IInv, DivertOK
    <3>3. QED
      BY <1>10, <1>11, <3>1, <3>2
  <2>4. QED
    BY <2>2, <2>3
<1>13. diverted' \subseteq 1 .. nFrames' /\ (diverted' # {} => ipv4')
  <2>1. m_l3DivertInstalled[d] => ipv4
    BY DEF IInv, DivertOK
  <2>2. QED
    BY <1>1, <1>2, <1>3, <2>1
<1>14. QED
  BY <1>7, <1>9, <1>10, <1>12, <1>13 DEF DeliveryOK

\* The head of a queue leaves it for IP, and waits nowhere else.
LEMMA DrainSafe ==
    ASSUME IInv, NEW d \in Device, DoIngressDrain(d)
    PROVE  DeliveryOK'
<1> DEFINE q == m_ingressQ[d]
           f == Head(q)
<1>1. /\ m_ingressQ \in [Device -> Seq(1 .. nFrames)]
      /\ toIp \in Seq(Nat) /\ Len(toIp) = nFrames
      /\ diverted \subseteq 1 .. nFrames
      /\ diverted # {} => ipv4
      /\ OneQueueOnly /\ OnceIfDiverted
  BY DEF IInv, DeliveryOK
<1>2. /\ m_ingressQ' = [m_ingressQ EXCEPT ![d] = Tail(@)]
      /\ toIp' = IF ipv4 THEN [toIp EXCEPT ![f] = @ + 1] ELSE toIp
      /\ q # <<>> /\ UNCHANGED <<nFrames, diverted, ipv4>>
  BY DEF DoIngressDrain
<1>3. nFrames \in Nat /\ 1 .. nFrames \subseteq Nat
  <2>1. nFrames \in Nat
    BY <1>1, LenProperties
  <2>2. QED
    BY <2>1, SMT
<1>4. /\ f \in 1 .. nFrames /\ Tail(q) \in Seq(1 .. nFrames)
      /\ Elems(q) = {f} \cup Elems(Tail(q))
      /\ Once(Tail(q), Nat)
      /\ f \notin Elems(Tail(q))
  <2>1. q \in Seq(1 .. nFrames) /\ Once(q, Nat)
    BY <1>1 DEF OneQueueOnly
  <2> HIDE DEF q
  <2>2. QED
    BY <1>2, <1>3, <2>1, ElemsHeadTail, OnceHeadTail
<1>5. \A e \in Device : m_ingressQ'[e] = IF e = d THEN Tail(q) ELSE m_ingressQ[e]
  BY <1>1, <1>2
<1>6. m_ingressQ' \in [Device -> Seq(1 .. nFrames')]
  <2>1. \A e \in Device : m_ingressQ'[e] \in Seq(1 .. nFrames)
    BY <1>1, <1>4, <1>5
  <2>2. QED
    BY <1>1, <1>2, <2>1
<1>7. \A e \in Device : Elems(m_ingressQ'[e]) = Elems(m_ingressQ[e]) \ {f}
  <2>1. ASSUME NEW e \in Device, e # d
        PROVE  f \notin Elems(m_ingressQ[e])
    <3>1. f \in Elems(m_ingressQ[d]) /\ f \in Nat
      BY <1>3, <1>4
    <3>2. QED
      BY <1>1, <2>1, <3>1 DEF OneQueueOnly
  <2> HIDE DEF f
  <2>2. QED
    BY <1>4, <1>5, <2>1
<1>8. OneQueueOnly'
  <2>1. \A e \in Device : Once(m_ingressQ'[e], Nat)
    BY <1>1, <1>4, <1>5 DEF OneQueueOnly
  <2>2. ASSUME NEW e \in Device, NEW x \in Device, NEW g \in Nat,
               g \in Elems(m_ingressQ'[e]), g \in Elems(m_ingressQ'[x])
        PROVE  e = x
    <3>1. g \in Elems(m_ingressQ[e]) /\ g \in Elems(m_ingressQ[x])
      BY <1>7, <2>2
    <3>2. QED
      BY <1>1, <3>1 DEF OneQueueOnly
  <2>3. QED
    BY <2>1, <2>2 DEF OneQueueOnly
<1>9. /\ toIp' \in Seq(Nat) /\ Len(toIp') = nFrames'
      /\ ipv4 => \A g \in 1 .. nFrames : toIp'[g] = IF g = f THEN toIp[f] + 1 ELSE toIp[g]
  <2>1. CASE ipv4
    <3>1. toIp[f] + 1 \in Nat
      <4>1. toIp[f] \in Nat
        BY <1>1, <1>4, ElementOfSeq
      <4>2. QED
        BY <4>1, SMT
    <3>2. toIp' = [toIp EXCEPT ![f] = toIp[f] + 1]
      BY <1>2, <2>1
    <3> HIDE DEF f
    <3>3. QED
      BY <1>1, <1>2, <1>4, <3>1, <3>2, ExceptTyped
  <2>2. CASE ~ipv4
    BY <1>1, <1>2, <2>2
  <2>3. QED
    BY <2>1, <2>2
<1>10. \A g : Waiting(g)' <=> (Waiting(g) /\ g # f)
  <2>1. \A g : Waiting(g)' <=> \E e \in Device : g \in Elems(m_ingressQ'[e])
    BY <1>6, WaitingIsElems DEF Waiting, Elems
  <2>2. \A g : Waiting(g) <=> \E e \in Device : g \in Elems(m_ingressQ[e])
    BY <1>1, WaitingIsElems
  <2> HIDE DEF f
  <2>3. QED
    BY <1>7, <2>1, <2>2
<1>11. Waiting(f)
  BY <1>1, <1>4, WaitingIsElems
<1>12. OnceIfDiverted'
  <2>1. SUFFICES ASSUME NEW g \in diverted'
                 PROVE  toIp'[g] = IF Waiting(g)' THEN 0 ELSE 1
    BY DEF OnceIfDiverted
  <2>2. g \in diverted /\ g \in 1 .. nFrames /\ ipv4
    BY <1>1, <1>2, <2>1
  <2>3. toIp[g] = IF Waiting(g) THEN 0 ELSE 1
    BY <1>1, <2>2 DEF OnceIfDiverted
  <2> HIDE DEF f
  <2>4. QED
    BY <1>9, <1>10, <1>11, <2>2, <2>3
<1>13. QED
  BY <1>1, <1>2, <1>6, <1>8, <1>9, <1>12 DEF DeliveryOK

------------------------------------------------------------------------------
\* Every step keeps the invariant.

\* A step that leaves frames alone and never takes IP away from the node.
LEMMA FramesKept ==
    ASSUME DeliveryOK, UNCHANGED deliveryVars, ipv4 => ipv4'
    PROVE  DeliveryOK'
BY DEF DeliveryOK, deliveryVars, OneQueueOnly, OnceIfDiverted, Waiting

\* A step that leaves hooks, flags and callbacks alone.
LEMMA DiversionKept ==
    ASSUME DivertOK, UNCHANGED divertVars, ipv4' \in BOOLEAN, ipv4 => ipv4',
           \A d \in Device : attribute[d] # <<>> => attribute'[d] # <<>>
    PROVE  DivertOK'
BY DEF DivertOK, divertVars

LEMMA InitSafe == Init => IInv
<1>1. SUFFICES ASSUME Init PROVE IInv
  OBVIOUS
<1>2. 0 \in Value /\ 0 \in Nat /\ 0 < QuantaRange
  <2>1. QuantaRange \in Nat \ {0} /\ 0 \in Value
    BY InstallAssumption
  <2>2. QED
    BY <2>1, SMT
<1>3. ConfigOK
  <2>1. Installed = {}
    BY <1>1 DEF Init, Installed
  <2>2. QED
    BY <1>1, <1>2, <2>1, InstallAssumption DEF Init, ConfigOK, Fits
<1>4. DivertOK
  BY <1>1 DEF Init, DivertOK
<1>5. DeliveryOK
  <2>1. \A T : <<>> \in Seq(T) /\ Len(<<>>) = 0
    BY EmptySeq
  <2>2. \A d \in Device : Once(m_ingressQ[d], Nat) /\ Elems(m_ingressQ[d]) = {}
    <3>1. \A i \in 1 .. 0 : FALSE
      BY SMT
    <3>2. QED
      BY <1>1, <2>1, <3>1 DEF Init, Once, Elems
  <2>3. OneQueueOnly /\ OnceIfDiverted
    BY <1>1, <2>2 DEF Init, OneQueueOnly, OnceIfDiverted
  <2>4. QED
    BY <1>1, <2>1, <2>3 DEF Init, DeliveryOK
<1>6. QED
  BY <1>3, <1>4, <1>5 DEF IInv

LEMMA InstallSafe ==
    ASSUME IInv, NEW d \in Device, Install(d)
    PROVE  IInv'
<1>1. ConfigOK /\ DivertOK /\ DeliveryOK
  BY DEF IInv
<1>2. /\ d \notin Installed
      /\ attribute' = [attribute EXCEPT ![d] = AttributesAtInstall]
      /\ m_rxCallback' = [m_rxCallback EXCEPT ![d] = "node"]
      /\ UNCHANGED <<configVars, ipv4, m_l3DivertInstalled, hooks, deliveryVars>>
  BY DEF Install
<1>3. AttributesAtInstall \in [Attr -> Nat] /\ Fits(AttributesAtInstall)
  BY <1>1, InstalledFits
<1>4. attribute' \in [Device -> {<<>>} \cup [Attr -> Nat]]
  BY <1>1, <1>2, <1>3 DEF ConfigOK
<1>5. \A e \in Device : attribute'[e] = IF e = d THEN AttributesAtInstall ELSE attribute[e]
  BY <1>1, <1>2 DEF ConfigOK
<1>6. \A e \in Device : e \in Installed' => Fits(attribute'[e])
  BY <1>1, <1>3, <1>5 DEF ConfigOK, Installed
<1>7. ConfigOK'
  BY <1>1, <1>2, <1>4, <1>6 DEF ConfigOK, Installed, configVars
<1>8. DivertOK'
  <2>1. ~m_l3DivertInstalled[d] /\ hooks[d] = {}
    BY <1>1, <1>2 DEF DivertOK, Installed
  <2>2. QED
    BY <1>1, <1>2, <1>5, <2>1 DEF DivertOK
<1>9. DeliveryOK'
  BY <1>1, <1>2, FramesKept
<1>10. QED
  BY <1>7, <1>8, <1>9 DEF IInv

\* The three operations that make the diversion.
LEMMA DiversionSafe ==
    ASSUME IInv,
           \/ \E d \in Device : NotifyNewAggregate(d) \/ HookL3Divert(d)
           \/ Tick
    PROVE  IInv'
<1>1. ConfigOK /\ DivertOK /\ DeliveryOK
  BY DEF IInv
<1>2. UNCHANGED <<configVars, attribute, ipv4, deliveryVars>>
  BY DEF NotifyNewAggregate, HookL3Divert, Tick
<1>3. ConfigOK' /\ DeliveryOK'
  BY <1>1, <1>2, FramesKept DEF ConfigOK, configVars, Installed
<1>4. ASSUME NEW d \in Device, NotifyNewAggregate(d)
      PROVE  DivertOK'
  <2>1. CASE d \in Installed /\ ipv4 /\ ~m_l3DivertInstalled[d]
    <3>1. /\ hooks' = [hooks EXCEPT ![d] = @ \cup {0, 1}]
          /\ m_l3DivertInstalled' = [m_l3DivertInstalled EXCEPT ![d] = m_l3DivertInstalled[d]]
          /\ m_rxCallback' = m_rxCallback /\ attribute[d] # <<>>
      BY <1>4, <2>1 DEF NotifyNewAggregate, FlagWhenNotified, Installed
    <3>2. m_l3DivertInstalled' = m_l3DivertInstalled
      BY <1>1, <3>1 DEF DivertOK
    <3>3. QED
      BY <1>1, <1>2, <2>1, <3>1, <3>2 DEF DivertOK
  <2>2. CASE ~(d \in Installed /\ ipv4 /\ ~m_l3DivertInstalled[d])
    <3>1. UNCHANGED divertVars
      BY <1>4, <2>2 DEF NotifyNewAggregate, divertVars
    <3>2. QED
      BY <1>1, <1>2, <3>1 DEF DivertOK, divertVars
  <2>3. QED
    BY <2>1, <2>2
<1>5. ASSUME NEW d \in Device, HookL3Divert(d)
      PROVE  DivertOK'
  <2>1. /\ 0 \in hooks[d]
        /\ hooks' = [hooks EXCEPT ![d] = @ \ {0}]
        /\ m_rxCallback' = [m_rxCallback EXCEPT ![d] = "L3Swallow"]
        /\ m_l3DivertInstalled' = [m_l3DivertInstalled EXCEPT ![d] = TRUE]
    BY <1>5 DEF HookL3Divert
  <2>2. QED
    BY <1>1, <1>2, <2>1 DEF DivertOK
<1>6. ASSUME Tick
      PROVE  DivertOK'
  <2>1. /\ \A d \in Device : 0 \notin hooks[d]
        /\ hooks' = [d \in Device |-> {t - 1 : t \in hooks[d]}]
        /\ UNCHANGED <<m_rxCallback, m_l3DivertInstalled>>
    BY <1>6 DEF Tick
  <2>2. ASSUME NEW d \in Device
        PROVE  /\ hooks'[d] \in SUBSET {0, 1}
               /\ hooks'[d] # {} => hooks[d] # {}
    <3>1. hooks[d] \subseteq {1}
      BY <1>1, <2>1 DEF DivertOK
    <3>2. hooks'[d] = {t - 1 : t \in hooks[d]}
      BY <2>1
    <3>3. \A t \in hooks[d] : t - 1 = 0
      BY <3>1, SMT
    <3>4. QED
      BY <3>2, <3>3
  <2>3. hooks' \in [Device -> SUBSET {0, 1}]
    <3>1. \A d \in Device : hooks'[d] \in SUBSET {0, 1}
      BY <2>2
    <3>2. QED
      BY <2>1, <3>1
  <2>4. QED
    BY <1>1, <1>2, <2>1, <2>2, <2>3 DEF DivertOK
<1>7. QED
  BY <1>3, <1>4, <1>5, <1>6 DEF IInv

LEMMA NextSafe == IInv /\ [Next]_vars => IInv'
<1>1. SUFFICES ASSUME IInv, [Next]_vars PROVE IInv'
  OBVIOUS
<1>2. ConfigOK /\ DivertOK /\ DeliveryOK
  BY <1>1 DEF IInv
<1>3. CASE InstallInternetStack
  <2>1. /\ ipv4' = TRUE
        /\ UNCHANGED <<configVars, attribute, divertVars, deliveryVars>>
    BY <1>3 DEF InstallInternetStack
  <2>2. ConfigOK'
    BY <1>2, <2>1 DEF ConfigOK, configVars, Installed
  <2>3. DivertOK' /\ DeliveryOK'
    BY <1>2, <2>1, DiversionKept, FramesKept
  <2>4. QED
    BY <2>2, <2>3 DEF IInv
<1>4. ASSUME NEW d \in Device, Install(d)
      PROVE  IInv'
  BY <1>1, <1>4, InstallSafe
<1>5. ASSUME \/ \E d \in Device : NotifyNewAggregate(d) \/ HookL3Divert(d)
             \/ Tick
      PROVE  IInv'
  BY <1>1, <1>5, DiversionSafe
<1>6. ASSUME NEW d \in Device, Receive(d) \/ DoIngressDrain(d)
      PROVE  IInv'
  <2>1. UNCHANGED <<configVars, attribute, ipv4, divertVars>>
    BY <1>6 DEF Receive, DoIngressDrain
  <2>2. ConfigOK'
    BY <1>2, <2>1 DEF ConfigOK, configVars, Installed
  <2>3. DivertOK'
    BY <1>2, <2>1 DEF DivertOK, divertVars
  <2>4. DeliveryOK'
    BY <1>1, <1>6, ReceiveSafe, DrainSafe
  <2>5. QED
    BY <2>2, <2>3, <2>4 DEF IInv
<1>7. ASSUME NEW a \in Attr, NEW v \in Value,
             \/ SetDefault(a, v) \/ SetDeviceAttribute(a, v)
             \/ a \in HelperAttr /\ SetPfcAttribute(a, v)
             \/ ConfigSet(a, v)
      PROVE  IInv'
  <2>1. UNCHANGED <<ipv4, divertVars, deliveryVars>>
    BY <1>7 DEF SetDefault, SetDeviceAttribute, SetPfcAttribute, ConfigSet
  <2>2. /\ ConfigOK'
        /\ \A d \in Device : attribute[d] # <<>> => attribute'[d] # <<>>
    BY <1>1, <1>7, ConfigurationSafe
  <2>3. DivertOK'
    BY <1>2, <2>1, <2>2 DEF DivertOK, divertVars
  <2>4. DeliveryOK'
    BY <1>2, <2>1, FramesKept
  <2>5. QED
    BY <2>2, <2>3, <2>4 DEF IInv
<1>8. CASE UNCHANGED vars
  <2>1. UNCHANGED <<configVars, attribute, ipv4, divertVars, deliveryVars>>
    BY <1>8 DEF vars
  <2>2. ConfigOK' /\ DivertOK'
    BY <1>2, <2>1 DEF ConfigOK, configVars, Installed, DivertOK, divertVars
  <2>3. DeliveryOK'
    BY <1>2, <2>1, FramesKept
  <2>4. QED
    BY <2>2, <2>3 DEF IInv
<1>9. QED
  BY <1>1, <1>3, <1>4, <1>5, <1>6, <1>7, <1>8 DEF Next

------------------------------------------------------------------------------
\* The invariant holds in every reachable state.
THEOREM Safety == Spec => []IInv
BY InitSafe, NextSafe, PTL DEF Spec

\* Whatever sets an attribute, the quanta of every device fit 16 bits.
THEOREM TypeCorrect == Spec => []TypeOK
<1>1. IInv => TypeOK
  BY DEF IInv, ConfigOK, DivertOK, DeliveryOK, TypeOK
<1>2. QED
  BY <1>1, Safety, PTL

\* A frame received after HookL3Divert has run reaches IP exactly once.
THEOREM DivertedReachesIpOnce == Spec => []OnceIfDiverted
<1>1. IInv => OnceIfDiverted
  BY DEF IInv, DeliveryOK
<1>2. QED
  BY <1>1, Safety, PTL

------------------------------------------------------------------------------
\* The token bucket.

\* What has been spent in the window and what is left to spend together do not
\* exceed a full bucket and what the window has brought in.
Budget == spent + Refilled <= Capacity + (now - since) * Rate

BucketInv == BucketTypeOK /\ Budget

\* Elapsed time times the rate, one unit later.
LEMMA OneMoreUnit ==
    ASSUME NEW d \in Nat
    PROVE  /\ d * Rate \in Nat
           /\ (d + 1) * Rate = d * Rate + Rate
           /\ 0 * Rate = 0
BY BucketAssumption, SMT

\* The level Refill computes is between empty and full.
LEMMA RefilledBounds ==
    ASSUME BucketTypeOK
    PROVE  Refilled \in 0 .. Capacity /\ now - m_lastRefill \in Nat
                /\ now - since \in Nat
<1>1. now - m_lastRefill \in Nat /\ now - since \in Nat
  BY SMT DEF BucketTypeOK
<1>2. (now - m_lastRefill) * Rate \in Nat
  BY <1>1, OneMoreUnit
<1>3. QED
  BY <1>1, <1>2, BucketAssumption, SMT DEF BucketTypeOK, Refilled, AtMost

\* Right after a call of Refill the level is what the call left in m_tokens:
\* refilling twice at one instant changes nothing.
LEMMA RefillSettles ==
    ASSUME BucketTypeOK, NEW t \in 0 .. Capacity,
           m_tokens' = t, m_lastRefill' = RefillTime, now' = now,
           Rate = 0 \/ m_lastRefill' = now
    PROVE  Refilled' = t
<1>1. (now - m_lastRefill') * Rate = 0
  <2>1. CASE Rate = 0
    <3>1. m_lastRefill' \in Nat /\ now \in Nat
      BY BucketAssumption, SMT DEF BucketTypeOK, RefillTime
    <3>2. QED
      BY <2>1, <3>1, SMT
  <2>2. CASE m_lastRefill' = now
    <3>1. now - m_lastRefill' = 0
      BY <2>2, SMT DEF BucketTypeOK
    <3>2. QED
      BY <3>1, OneMoreUnit
  <2>3. QED
    BY <2>1, <2>2
<1>2. QED
  BY <1>1, BucketAssumption, SMT DEF Refilled, AtMost, BucketTypeOK

\* The three ways a request for a token ends, seen as the level before and after.
LEMMA Requests ==
    ASSUME BucketTypeOK
    PROVE  /\ TryConsume => /\ Refilled >= Cost /\ Refilled' = Refilled - Cost
                            /\ BucketTypeOK'
           /\ Refuse => Refilled' = Refilled /\ BucketTypeOK'
           /\ ConsumeAndRefund => Refilled' = Refilled /\ BucketTypeOK'
<1>1. Refilled \in 0 .. Capacity
  BY RefilledBounds
<1>2. Rate = 0 \/ RefillTime = now
  BY DEF RefillTime
<1>3. RefillTime \in 0 .. now
  BY BucketAssumption, SMT DEF RefillTime, BucketTypeOK
<1>4. ASSUME TryConsume
      PROVE  Refilled >= Cost /\ Refilled' = Refilled - Cost /\ BucketTypeOK'
  <2>1. Refilled - Cost \in 0 .. Capacity
    BY <1>1, <1>4, BucketAssumption, SMT DEF TryConsume
  <2>2. Refilled' = Refilled - Cost
    BY <1>2, <1>4, <2>1, RefillSettles DEF TryConsume
  <2>3. BucketTypeOK'
    BY <1>3, <1>4, <2>1, BucketAssumption, SMT DEF TryConsume, BucketTypeOK
  <2>4. QED
    BY <1>4, <2>2, <2>3 DEF TryConsume
<1>5. ASSUME Refuse
      PROVE  Refilled' = Refilled /\ BucketTypeOK'
  <2>1. Refilled' = Refilled
    BY <1>1, <1>2, <1>5, RefillSettles DEF Refuse
  <2>2. BucketTypeOK'
    BY <1>1, <1>3, <1>5, SMT DEF Refuse, BucketTypeOK
  <2>3. QED
    BY <2>1, <2>2
<1>6. ASSUME ConsumeAndRefund
      PROVE  Refilled' = Refilled /\ BucketTypeOK'
  <2>1. Refunded(Refilled - Cost) = Refilled
    BY <1>1, <1>6, BucketAssumption, SMT DEF ConsumeAndRefund, Refunded, AtMost
  <2>2. Refilled' = Refilled
    BY <1>1, <1>2, <1>6, <2>1, RefillSettles DEF ConsumeAndRefund
  <2>3. BucketTypeOK'
    BY <1>1, <1>3, <1>6, <2>1, SMT DEF ConsumeAndRefund, BucketTypeOK
  <2>4. QED
    BY <2>2, <2>3
<1>7. QED
  BY <1>4, <1>5, <1>6

\* A unit of time raises the level by the rate, up to the capacity.
LEMMA TimeRaises ==
    ASSUME BucketTypeOK, TimePasses
    PROVE  Refilled' = AtMost(Refilled + Rate, Capacity) /\ BucketTypeOK'
<1>1. now - m_lastRefill \in Nat
  BY RefilledBounds
<1>2. (now' - m_lastRefill') = (now - m_lastRefill) + 1
  BY SMT DEF TimePasses, BucketTypeOK
<1>3. /\ (now - m_lastRefill) * Rate \in Nat
      /\ (now' - m_lastRefill') * Rate = (now - m_lastRefill) * Rate + Rate
  BY <1>1, <1>2, OneMoreUnit
<1>4. Refilled' = AtMost(Refilled + Rate, Capacity)
  BY <1>3, BucketAssumption, SMT DEF TimePasses, BucketTypeOK, Refilled, AtMost
<1>5. BucketTypeOK'
  BY SMT DEF TimePasses, BucketTypeOK
<1>6. QED
  BY <1>4, <1>5

\* A new window changes neither the bucket nor the clock.
LEMMA WindowKeeps ==
    ASSUME BucketTypeOK, StartWindow
    PROVE  Refilled' = Refilled /\ BucketTypeOK'
BY SMT DEF StartWindow, BucketTypeOK, Refilled, AtMost

\* The budget holds in every reachable state of the bucket.
THEOREM BudgetHolds == BucketSpec => []BucketInv
<1>1. BucketInit => BucketInv
  <2>1. SUFFICES ASSUME BucketInit PROVE BucketInv
    OBVIOUS
  <2>2. BucketTypeOK
    BY <2>1, BucketAssumption, SMT DEF BucketInit, BucketTypeOK
  <2>3. now - since = 0 /\ 0 * Rate = 0
    BY <2>1, OneMoreUnit, SMT DEF BucketInit
  <2>4. Refilled \in 0 .. Capacity
    BY <2>2, RefilledBounds
  <2>5. Budget
    BY <2>1, <2>3, <2>4, BucketAssumption, SMT DEF BucketInit, Budget
  <2>6. QED
    BY <2>2, <2>5 DEF BucketInv
<1>2. BucketInv /\ [BucketNext]_bucketVars => BucketInv'
  <2>1. SUFFICES ASSUME BucketInv, [BucketNext]_bucketVars PROVE BucketInv'
    OBVIOUS
  <2>2. BucketTypeOK /\ Budget
    BY <2>1 DEF BucketInv
  <2>3. /\ Refilled \in 0 .. Capacity
        /\ now - since \in Nat
        /\ (now - since) * Rate \in Nat
    BY <2>2, RefilledBounds, OneMoreUnit
  <2>4. CASE TryConsume
    BY <2>2, <2>3, <2>4, Requests, BucketAssumption, SMT DEF TryConsume, BucketInv, Budget, BucketTypeOK
  <2>5. CASE Refuse
    BY <2>2, <2>3, <2>5, Requests, SMT DEF Refuse, BucketInv, Budget
  <2>6. CASE ConsumeAndRefund
    BY <2>2, <2>3, <2>6, Requests, SMT DEF ConsumeAndRefund, BucketInv, Budget
  <2>7. CASE TimePasses
    <3>1. Refilled' = AtMost(Refilled + Rate, Capacity) /\ BucketTypeOK'
      BY <2>2, <2>7, TimeRaises
    <3>2. now' - since' = (now - since) + 1
      BY <2>2, <2>7, SMT DEF TimePasses, BucketTypeOK
    <3>3. (now' - since') * Rate = (now - since) * Rate + Rate
      BY <2>3, <3>2, OneMoreUnit
    <3>4. Budget'
      BY <2>2, <2>3, <2>7, <3>1, <3>3, BucketAssumption, SMT
      DEF Budget, TimePasses, AtMost, BucketTypeOK
    <3>5. QED
      BY <3>1, <3>4 DEF BucketInv
  <2>8. CASE StartWindow
    <3>1. Refilled' = Refilled /\ BucketTypeOK'
      BY <2>2, <2>8, WindowKeeps
    <3>2. now' - since' = 0
      BY <2>2, <2>8, SMT DEF StartWindow, BucketTypeOK
    <3>3. (now' - since') * Rate = 0
      BY <3>2, OneMoreUnit
    <3>4. Budget'
      BY <2>3, <2>8, <3>1, <3>3, BucketAssumption, SMT DEF Budget, StartWindow
    <3>5. QED
      BY <3>1, <3>4 DEF BucketInv
  <2>9. CASE UNCHANGED bucketVars
    BY <2>2, <2>9, SMT DEF bucketVars, BucketInv, Budget, BucketTypeOK, Refilled, AtMost
  <2>10. QED
    BY <2>1, <2>4, <2>5, <2>6, <2>7, <2>8, <2>9 DEF BucketNext
<1>3. QED
  BY <1>1, <1>2, PTL DEF BucketSpec

\* The level stays between empty and full, and no refill is in the future.
THEOREM BucketTypeCorrect == BucketSpec => []BucketTypeOK
<1>1. BucketInv => BucketTypeOK
  BY DEF BucketInv
<1>2. QED
  BY <1>1, BudgetHolds, PTL

\* In any interval an egress port grants at most a full bucket plus the rate
\* times the length of the interval, for every capacity, cost and rate.
THEOREM RateIsBounded == BucketSpec => []RateBound
<1>1. BucketInv => RateBound
  <2>1. SUFFICES ASSUME BucketInv PROVE RateBound
    OBVIOUS
  <2>2. Refilled \in 0 .. Capacity /\ now - since \in Nat
    BY <2>1, RefilledBounds DEF BucketInv
  <2>3. (now - since) * Rate \in Nat
    BY <2>2, OneMoreUnit
  <2>4. QED
    BY <2>1, <2>2, <2>3, BucketAssumption, SMT DEF BucketInv, Budget, RateBound, BucketTypeOK
<1>2. QED
  BY <1>1, BudgetHolds, PTL

\* The lazily refilled bucket implements the meter whose level rises all the
\* time: every initial state maps to one, every step to a step or a stutter.
THEOREM LazyImplementsMeter == BucketSpec => MeterSpec
<1>1. BucketInit => Meter!Init
  <2>1. SUFFICES ASSUME BucketInit PROVE Refilled = Capacity
    BY DEF Meter!Init
  <2>2. now - m_lastRefill = 0 /\ 0 * Rate = 0
    BY <2>1, OneMoreUnit, SMT DEF BucketInit
  <2>3. QED
    BY <2>1, <2>2, BucketAssumption, SMT DEF BucketInit, Refilled, AtMost
<1>2. BucketInv /\ [BucketNext]_bucketVars => [Meter!Next]_Refilled
  <2>1. SUFFICES ASSUME BucketTypeOK, [BucketNext]_bucketVars PROVE [Meter!Next]_Refilled
    BY DEF BucketInv
  <2>2. CASE TryConsume
    BY <2>1, <2>2, Requests DEF Meter!Next, Meter!Take
  <2>3. CASE Refuse
    BY <2>1, <2>3, Requests
  <2>4. CASE ConsumeAndRefund
    BY <2>1, <2>4, Requests
  <2>5. CASE TimePasses
    BY <2>1, <2>5, TimeRaises DEF Meter!Next, Meter!Rise, Meter!AtMost, AtMost
  <2>6. CASE StartWindow
    BY <2>1, <2>6, WindowKeeps
  <2>7. CASE UNCHANGED bucketVars
    BY <2>7 DEF bucketVars, Refilled, AtMost
  <2>8. QED
    BY <2>1, <2>2, <2>3, <2>4, <2>5, <2>6, <2>7 DEF BucketNext
<1>3. QED
  BY <1>1, <1>2, BudgetHolds, PTL DEF BucketSpec, MeterSpec, Meter!Spec
==============================================================================
