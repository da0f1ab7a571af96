------------------------------ MODULE QbbInstall ------------------------------
(***************************************************************************)
(* How the QbbNetDevices of one node come into being and hand frames to    *)
(* IP: QbbPointToPointHelper, the sources of the attributes of a device,   *)
(* and the two ways a received data frame may take, up from the base class *)
(* at once and through the ingress queue.  HookL3Divert closes the first   *)
(* one when it runs.                                                       *)
(***************************************************************************)
EXTENDS Integers, Sequences, FiniteSets

CONSTANTS
    Device,
    HelperAttr,     \* the attributes SetPfcAttribute knows
    OtherAttr,      \* the others, such as AvgPktSize
    Quanta,         \* DefaultQuanta, one of HelperAttr
    QuantaRange,    \* number of values of a uint16_t
    Value,
    Unset,
    MaxCalls, MaxFrames, MaxAggregates   \* bounds

Attr == HelperAttr \cup OtherAttr

ASSUME InstallAssumption ==
    /\ Value \subseteq Nat /\ 0 \in Value /\ Unset \notin Value
    /\ Quanta \in HelperAttr /\ HelperAttr \cap OtherAttr = {}
    /\ QuantaRange \in Nat \ {0}
    /\ MaxCalls \in Nat /\ MaxFrames \in Nat /\ MaxAggregates \in Nat

VARIABLES
    default,       \* per attribute: its default, which Config::SetDefault changes
    helper,        \* per attribute: m_pfcEnable ... m_defaultQuanta of the helper
    m_deviceFactory,   \* per attribute: what SetDeviceAttribute set, or Unset
    attribute,     \* per device: its attributes, <<>> before it is installed
    ipv4,          \* the node has an Ipv4L3Protocol
    m_rxCallback,  \* per device: "null", the node's, or L3Swallow
    m_l3DivertInstalled,
    hooks,         \* per device: times left until pending HookL3Diverts run
    m_ingressQ,    \* per device: frames waiting, all classes together
    nCalls, nFrames, nAggregates,
    diverted,      \* history: frames received after the callback was changed
    toIp           \* history, per frame: how often Ipv4L3Protocol got it

configVars == <<default, helper, m_deviceFactory, nCalls>>
deliveryVars == <<m_ingressQ, nFrames, diverted, toIp>>
divertVars == <<m_rxCallback, m_l3DivertInstalled, hooks>>
vars == <<configVars, attribute, ipv4, divertVars, deliveryVars, nAggregates>>

Installed == {d \in Device : attribute[d] # <<>>}

Init ==
    /\ default = [a \in Attr |-> 0]
    /\ helper = [a \in HelperAttr |-> 0]
    /\ m_deviceFactory = [a \in Attr |-> Unset]
    /\ attribute = [d \in Device |-> <<>>]
    /\ ipv4 = FALSE
    /\ m_rxCallback = [d \in Device |-> "null"]
    /\ m_l3DivertInstalled = [d \in Device |-> FALSE]
    /\ hooks = [d \in Device |-> {}]
    /\ m_ingressQ = [d \in Device |-> <<>>]
    /\ nCalls = 0 /\ nFrames = 0 /\ nAggregates = 0
    /\ diverted = {} /\ toIp = <<>>

------------------------------------------------------------------------------
\* Configuration.
Configures == nCalls < MaxCalls /\ nCalls' = nCalls + 1

\* The attribute's checker takes the value.
Accepted(a, v) == a = Quanta => v < QuantaRange

SetDefault(a, v) ==
    /\ Configures
    /\ Accepted(a, v)
    /\ default' = [default EXCEPT ![a] = v]
    /\ UNCHANGED <<helper, m_deviceFactory, attribute, ipv4, divertVars,
                   deliveryVars, nAggregates>>

SetDeviceAttribute(a, v) ==
    /\ Configures
    /\ Accepted(a, v)
    /\ m_deviceFactory' = [m_deviceFactory EXCEPT ![a] = v]
    /\ UNCHANGED <<default, helper, attribute, ipv4, divertVars,
                   deliveryVars, nAggregates>>

\* Mutant of Narrowed: the quanta keep their width.
NotNarrowed(a, v) == v

\* "static_cast<uint16_t>(uv->Get())", which no checker guards.
Narrowed(a, v) == IF a = Quanta THEN v % QuantaRange ELSE v

\* A name it does not know is ignored without a word.
SetPfcAttribute(a, v) ==
    /\ Configures
    /\ helper' = [x \in HelperAttr |-> IF x = a THEN Narrowed(a, v) ELSE helper[x]]
    /\ UNCHANGED <<default, m_deviceFactory, attribute, ipv4, divertVars,
                   deliveryVars, nAggregates>>

\* Config::Set with a path that matches every device.
ConfigSet(a, v) ==
    /\ Configures
    /\ Accepted(a, v)
    /\ attribute' = [d \in Device |->
           IF d \in Installed THEN [attribute[d] EXCEPT ![a] = v] ELSE <<>>]
    /\ UNCHANGED <<default, helper, m_deviceFactory, ipv4, divertVars,
                   deliveryVars, nAggregates>>

\* What a device starts with: the helper sets its four attributes whether or
\* not anybody called SetPfcAttribute.
AttributesAtInstall ==
    [a \in Attr |->
        IF a \in HelperAttr THEN helper[a]
        ELSE IF m_deviceFactory[a] # Unset THEN m_deviceFactory[a]
        ELSE default[a]]

\* QbbPointToPointHelper::Install at one end of a link; AddDevice sets the
\* node's callback.
Install(d) ==
    /\ d \notin Installed
    /\ attribute' = [attribute EXCEPT ![d] = AttributesAtInstall]
    /\ m_rxCallback' = [m_rxCallback EXCEPT ![d] = "node"]
    /\ UNCHANGED <<configVars, ipv4, m_l3DivertInstalled, hooks, deliveryVars,
                   nAggregates>>

\* InternetStackHelper aggregates Ipv4L3Protocol to the node.
InstallInternetStack ==
    /\ ~ipv4
    /\ ipv4' = TRUE
    /\ UNCHANGED <<configVars, attribute, divertVars, deliveryVars, nAggregates>>

------------------------------------------------------------------------------
\* Mutant of FlagWhenNotified: the flag is set before the callback is.
FlagAtOnce(d) == TRUE

FlagWhenNotified(d) == m_l3DivertInstalled[d]

\* Something is aggregated to the device: NotifyNewAggregate.
NotifyNewAggregate(d) ==
    /\ nAggregates < MaxAggregates
    /\ nAggregates' = nAggregates + 1
    /\ IF d \in Installed /\ ipv4 /\ ~m_l3DivertInstalled[d]
         THEN /\ hooks' = [hooks EXCEPT ![d] = @ \cup {0, 1}]
              /\ m_l3DivertInstalled' =
                   [m_l3DivertInstalled EXCEPT ![d] = FlagWhenNotified(d)]
         ELSE UNCHANGED <<hooks, m_l3DivertInstalled>>
    /\ UNCHANGED <<configVars, attribute, ipv4, m_rxCallback, deliveryVars>>

HookL3Divert(d) ==
    /\ 0 \in hooks[d]
    /\ hooks' = [hooks EXCEPT ![d] = @ \ {0}]
    /\ m_rxCallback' = [m_rxCallback EXCEPT ![d] = "L3Swallow"]
    /\ m_l3DivertInstalled' = [m_l3DivertInstalled EXCEPT ![d] = TRUE]
    /\ UNCHANGED <<configVars, attribute, ipv4, deliveryVars, nAggregates>>

\* PointToPointNetDevice::Receive for a data frame: the MacRx trace, on which
\* HandleMacRx queues a copy, and then the receive callback.
Receive(d) ==
    /\ d \in Installed
    /\ nFrames < MaxFrames
    /\ nFrames' = nFrames + 1
    /\ m_ingressQ' = [m_ingressQ EXCEPT ![d] = Append(@, nFrames')]
    /\ toIp' = Append(toIp, IF ipv4 /\ m_rxCallback[d] = "node" THEN 1 ELSE 0)
    /\ diverted' = IF m_l3DivertInstalled[d] THEN diverted \cup {nFrames'} ELSE diverted
    /\ UNCHANGED <<configVars, attribute, ipv4, divertVars, nAggregates>>

\* DoIngressDrain lets the head of the queue go.
DoIngressDrain(d) ==
    /\ m_ingressQ[d] # <<>>
    /\ m_ingressQ' = [m_ingressQ EXCEPT ![d] = Tail(@)]
    /\ toIp' = IF ipv4 THEN [toIp EXCEPT ![Head(m_ingressQ[d])] = @ + 1] ELSE toIp
    /\ UNCHANGED <<configVars, attribute, ipv4, divertVars, nFrames, diverted, nAggregates>>

Tick ==
    /\ \A d \in Device : 0 \notin hooks[d]
    /\ hooks' = [d \in Device |-> {t - 1 : t \in hooks[d]}]
    /\ UNCHANGED <<configVars, attribute, ipv4, m_rxCallback, m_l3DivertInstalled,
                   deliveryVars, nAggregates>>

Next ==
    \/ InstallInternetStack
    \/ \E d \in Device :
        \/ Install(d)
        \/ NotifyNewAggregate(d)
        \/ HookL3Divert(d)
        \/ Receive(d)
        \/ DoIngressDrain(d)
    \/ \E a \in Attr, v \in Value :
        \/ SetDefault(a, v)
        \/ SetDeviceAttribute(a, v)
        \/ a \in HelperAttr /\ SetPfcAttribute(a, v)
        \/ ConfigSet(a, v)
    \/ Tick

Spec == Init /\ [][Next]_vars

------------------------------------------------------------------------------
Fits(f) == Quanta \in DOMAIN f => f[Quanta] < QuantaRange

\* Types; the quanta of the helper and of every device fit 16 bits.
TypeOK ==
    /\ default \in [Attr -> Value]
    /\ helper \in [HelperAttr -> Nat] /\ Fits(helper)
    /\ m_deviceFactory \in [Attr -> Value \cup {Unset}]
    /\ attribute \in [Device -> {<<>>} \cup [Attr -> Nat]]
    /\ \A d \in Installed : Fits(attribute[d])
    /\ ipv4 \in BOOLEAN
    /\ m_rxCallback \in [Device -> {"null", "node", "L3Swallow"}]
    /\ m_l3DivertInstalled \in [Device -> BOOLEAN]
    /\ hooks \in [Device -> SUBSET {0, 1}]
    /\ m_ingressQ \in [Device -> Seq(1 .. nFrames)]
    /\ toIp \in Seq(Nat) /\ Len(toIp) = nFrames
    /\ diverted \subseteq 1 .. nFrames

Waiting(f) == \E d \in Device : \E i \in DOMAIN m_ingressQ[d] : m_ingressQ[d][i] = f

\* The diversion: a frame received after HookL3Divert ran reaches IP exactly once,
\* when DoIngressDrain lets it go.
OnceIfDiverted ==
    \A f \in diverted : toIp[f] = IF Waiting(f) THEN 0 ELSE 1

\* A received data frame reaches IP at most once.
ReachesIpOnce == \A f \in 1 .. nFrames : toIp[f] <= 1
==============================================================================
