# TLA+ verification of the PFC extension of ns-3

The repository adds Priority-based Flow Control (IEEE 802.1Qbb, "PFC") and weighted
ECMP to a vendored copy of ns-3.45. This directory holds TLA+ models of the
repository's own code, TLC configurations that check them on small instances, and
TLAPS proofs about them for all values of their constants.

    tlc -config QbbTransmit.cfg QbbTransmit      model-check one run
    tlapm QbbTransmitProofs.tla                  check the proofs of one module

`PROJECT.json` lists every run, the definition-to-source map, one mutant per
property (a plausible bug that the property catches), the hazards, the findings and
the theorems.


## 1. Inventory

The paths below are relative to `src/`.

| Component | Source | State | Operations |
|---|---|---|---|
| QbbNetDevice, transmit half | `pfc/qbb-net-device.cc` 214-279, 329-368, 513-606 | `m_txq[8]`, `m_macHold[8]`, `m_paused[8]`, `m_pauseUntil[8]`, `m_txEvent`, `m_refillEvent[8]` | `Send`, `TryDequeue`, `HandleMacRx` (PFC), `PurgeMacQueueForPrio`, `RefillMacQueueFromHold`, `ResumeFromPause`, `SendPfcXoff`, `SendPfcXon` |
| PointToPointNetDevice transmitter, channel | `ns-3.45/src/point-to-point/model/` | `m_queue`, `m_txMachineState`, `m_currentPkt` | `Send`, `TransmitStart`, `TransmitComplete` |
| QbbNetDevice, receive half | `pfc/qbb-net-device.cc` 370-511 | `m_ingressQ[8]`, `m_rxOccPkts[8]`, `m_localCongested[8]`, `m_ingressDrainEv` | `HandleMacRx` (data), `OnDataRx`, `DoIngressDrain`, `GetEgressPortOrInvalid` |
| EgressTokenManager (one per node) | same file 76-143 | `m_buckets`, `m_arbiters` (`activeIngressPorts`, `lastServedIngress`) | `RegisterEgressPort`, `RegisterDemand`, `UnregisterDemand`, `TryConsumeTokenFair` |
| TokenBucket (one per egress port) | same file 32-58 | `m_tokens`, `m_lastRefill` | `Refill`, `TryConsume`, `Refund` |
| PfcHeader | `pfc/pfc-header.cc` | opcode, class mask, eight quanta | serialise, deserialise |
| Delivery to IP | `pfc/qbb-net-device.cc` 189-212 | `m_l3DivertInstalled`, the receive callback | `NotifyNewAggregate`, `HookL3Divert`, `L3Swallow` |
| QbbPointToPointHelper | `pfc/qbb-point-to-point-helper.cc` | attribute values | `SetDeviceAttribute`, `Install` |
| ECMP | `ns-3.45/src/internet/model/ipv4-global-routing.cc` | weight table read from `ecmpProbability.txt`, weight cache, routes, the node's interface addresses (in the salt) | `LookupGlobal`, `GetNodeWeights`, weight file loading, route edits, recomputation on interface events |
| PPP numbers | `.../point-to-point-net-device.cc` 640-675 | none | `PppToEther`, `EtherToPpp` with the added 0x9000 |
| Experiment driver | `cys/test1.cc` | topology, pairs of nodes, sizes, sinks, sampling accumulators and snapshots, results | `main`, `GetStatus`, `LoadSizeCdf`, `SampleSizeFromCdf`, `RecordAllQueuesAtSubPoint`, `RecordAllQueues` |
| The rest of ns-3.45 | `ns-3.45/` | | third party |

The header of the weight table, `ipv4-global-routing.h`, was not updated in this
snapshot, so the modified ECMP file does not compile against it as it stands.
`EgressTokenManager::TryConsumeToken`, `BroadcastPfcXoff`/`BroadcastPfcXon` and
`GetEgressPortForPacket` have no caller.

### How the parts interact

* IP calls `QbbNetDevice::Send`. The packet goes to a software queue; `TryDequeue`, an
  event, moves packets one by one into the base class, whose MAC queue is emptied by
  `TransmitComplete` without asking the derived class.
* The base class fires the `MacRx` trace for every received frame and
  `HandleMacRx` runs as its callback. A PFC frame changes the transmit half; a data frame goes to the
  ingress queue, and `DoIngressDrain`, another event, hands it to IP when the manager
  grants a token of the egress port the route lookup predicts.
* The receive half tells the peer to stop and go on with PFC frames that it sends
  through the base class, past the software queues.
* All devices of a node share one `EgressTokenManager`. The packet a drain hands to IP is sent by the
  egress device in the same event: ingress queue, token, `Send` of another `QbbNetDevice` (`Switch`). That device
  receives too, and its own XOFF and XON frames share its MAC queue and line with the packets.
* `GetEgressPortOrInvalid` and IP's own `RouteInput` both end in `LookupGlobal`, with different
  payloads; all nodes share one weight table, read once.
* A frame has two ways up: the base class's receive callback, at once, and the ingress
  queue. `HookL3Divert` is to close the first; who schedules it is `QbbInstall`'s subject.
* `main` calls `GetStatus`, which reads the topology, builds the network, runs the simulator and returns a
  vector; `main` reads the topology again, with a parser of its own, to name the numbers in it.
* `cys/test1.cc` builds its devices with ns-3's own `PointToPointHelper`; the classes of `pfc/` and
  their helper are used as README.md of the repository describes.

Everything runs in one thread: simulator events run to completion, in time order, and
those of one instant in the order they were scheduled. The difficulty is in the order
of events: XOFF, XON, pause expiry, refill retries, transmit completions and drops on
full queues, none of which has a test in the repository.

### What makes each part correct

* **Transmit half.** A paused class puts nothing on the line; a pause ends exactly
  when the latest XOFF says; no packet is lost, duplicated or forgotten when frames move
  between software queue, MAC queue and hold; a class keeps its order.
* **Receive half.** XOFF and XON follow the queue with hysteresis and alternate; a
  waiting packet always has an event that will look at it.
* **Manager and bucket.** An egress port never grants more than its rate; a refused
  attempt costs nothing; nobody who waits is passed over for ever.
* **ECMP.** A flow keeps its path as long as its node keeps its addresses; a next hop is chosen in proportion to its weight,
  never one of weight 0.
* **Delivery to IP.** A received data frame reaches IP once.
* **Link.** The queue of the receiving device is bounded, and the two ends agree on who is stopped.
* **Helper.** The attributes a user sets are those the devices get.
* **Node.** What the tokens let through does not pile up at the egress device, and a paused egress
  device does not stop the ingress queues.
* **Flow sizes.** The table is a distribution, and what is drawn from it follows the file.
* **Driver.** A failure can be told from a result, numbers carry the names of the links they were
  measured on, every flow reaches its sink, and each snapshot averages its own interval.


## 2. Modelling conventions

* **Time and events.** A pending event is the time left until it runs; 0 means due. `Tick`
  takes one unit off every countdown and is enabled only when nothing is due.
  `m_pauseUntil` is likewise the time left. `Expired` (-1) is an event id for which
  `IsExpired()` holds; an event that is being executed counts as expired
  (`default-simulator-impl.cc:366`), so an action starts by dropping its own event.
* **Same-instant order.** ns-3 runs events of one instant in scheduling order. The models
  allow any order among due events, and let packets and PFC frames arrive at any instant. Every
  behaviour of the program is a behaviour of the model. The safety properties carry over to the program;
  the violations were traced by hand through the code and do not depend on
  the extra orders (section 6).
* **Frames** are records: kind, class, packet number. Headers, bytes and addresses are
  left out; a PFC frame carries the one class that `SendPfcXoff` and `SendPfcXon` ever enable,
  and its pause. A packet's class is fixed by its DSCP field (`GetPrioFromPacket`).
* **Routes** are sets of egress ports a lookup may return, drawn anew at every attempt as
  `GetEgressPortOrInvalid` does.
* **Tokens** are whole units of which a packet costs `Cost`, so that a rate of half a
  packet per unit of time can be written. Rounding of doubles is not modelled.
* **The link.** In `PfcLink` a data frame takes its time on the line plus the delay. A PFC
  frame goes back through the peer's own transmitter, which is busy with traffic of its own: it
  arrives after one of `ReverseTimes`, in order, or is dropped on that transmitter's full
  MAC queue. The header's comment calls `DefaultQuanta` bit times; the code takes a quantum
  as 512 bit times. `Pause` is the result, in units of time.
* **Hashes.** A hash is a number, and a packet carries one for every node and every list of addresses the
  node's interfaces may have: FNV-1a and the avalanche step are any function of the tuple and of the salt, which
  covers both (`GetNodeHeavySalt`). The lookup by `GetEgressPortOrInvalid`, whose "ports" are other
  bytes than those of IP's lookup, is one with other hashes. Hashes, products and
  weights keep their widths as parameters (`HashRange`, its square, `MaxWeight`).
* **Sizes and percentages** are whole numbers; the difference of two sizes is taken
  modulo `SizeRange`, as `uint32_t` does; interpolation is rounded as in the code. Of a link's weight it
  matters whether 50 Mbps divided by it is a rate that `DataRate` reads (`Usable`), of a flow's rate likewise.
* **The driver's files** are sequences of lines, a line its first word and the numbers that can be read from its
  front. A result is a record of what it is the value of; the traffic is any sequence of queue lengths. A
  call of `GetStatus` is cut at its phases and at every event of the simulator it schedules itself.
* **History variables** (`wire`, `accepted`, `wasHeld`, `since`, `spent`, `passedOver`, `unprotected`,
  `diverted`, `toIp`, `loadedFrom`, `taken`, `seen`, and the values `drawn` keeps beside the sizes) are read by properties only, except where
  they carry a bound.


## 3. Modules

| Module | Models | State as in the code |
|---|---|---|
| `SeqSets` | `Elems`, `Filter`: sets of frames in queues | none |
| `PointToPointNetDevice` | transmitter of the base class | `m_queue`, `m_currentPkt` (which determines `m_txMachineState`), `txCompleteIn`, `wire` |
| `QbbTransmit` | transmit half, composed with the base class by EXTENDS as the code does by inheritance | the fields of the table above; `txEvent` and `refillEvent[pr]` are `m_txEvent` and `m_refillEvent[pr]` |
| `IngressDrain` | receive half of all devices of a node and the shared manager | per-device functions of the fields; `activeIngressPorts`, `lastServedIngress`, `m_tokens` per egress port |
| `TokenBucket` | the bucket as it is written: lazy refill from the elapsed time | `m_tokens`, `m_lastRefill`, `now` |
| `TokenMeter` | the abstract bucket: a level that rises with time | `level` |
| `LosslessClasses` | the abstract promise of the transmit half: packets are taken, and put on the line once, never while their class is stopped | `taken`, `pending`, `stopped`, `sent` |
| `Switch` | a forwarding node: EXTENDS `QbbTransmit` for its one egress device, and `IngressDrain` as an instance | those of the two |
| `PfcLink` | a transmit half and the receive half of its peer: EXTENDS `QbbTransmit`, and `IngressDrain` as an instance with one ingress and one egress port | those of the two; the channel in both directions |
| `QbbInstall` | the helper, attribute values, `NotifyNewAggregate`, `HookL3Divert`, `L3Swallow`, the two ways of a frame to IP | `m_deviceFactory`, the helper's fields, `m_rxCallback`, `m_l3DivertInstalled`, pending hooks, `m_ingressQ` |
| `WeightedChoice` | arithmetic of the weighted choice and of the choice without weights | none |
| `EcmpRouting` | weight file, table and cache; the three route tables; the lookups | `g_weightsLoaded`, `g_nodeRawWeights`, `g_ecmpWeightCacheByNodeN`, `m_hostRoutes`, `m_networkRoutes`, `m_ASexternalRoutes`, the two mode flags, `addresses` of each node |
| `SizeCdf` | what `LoadSizeCdf` makes of a file and `SampleSizeFromCdf` of a table | none |
| `Experiment` | `GetStatus` from its files to its results, and `main`'s use of them; EXTENDS `SizeCdf` | `sizeCdf` (`out`), `numNodes`, `edgeNodes`, `allLinks`, `pairs`, `sampledSizes` (`drawn`), sinks, `g_subSampleAccum` (`accum`), `queueSnapshots` |
| `MCEcmpRouting`, `MCExperiment` | values for TLC | |
| `SeqSetsProofs` | lemmas about numbers, sequences and sets | |
| `QbbTransmitProofs`, `IngressDrainProofs`, `EcmpRoutingProofs`, `PfcLinkProofs`, `SwitchProofs`, `ExperimentProofs` | theorems, each about the module it is named after (`EcmpRoutingProofs` also about `WeightedChoice`, `ExperimentProofs` also about `SizeCdf`) | |
| `InstallBucketProofs` | theorems about the two small modules `QbbInstall` and `TokenBucket` | |

Actions correspond to handlers as follows.

* `Send`, `HandleXoff`, `HandleXon`, `SendPfc` are calls from outside; each is the whole
  handler. The three ways out of `TryDequeue` are `TryDequeueIdle`,
  `TryDequeueSent` and `TryDequeueRefused`. `RefillMacQueueFromHold` appears as a
  part of `HandleXon` and of `ResumeFromPause`, which call it, and as an event of its
  own. `TransmitCompletes` is the base class's handler.
* `DoIngressDrain` has four ways out: `DrainIdle`, `DrainLocal` (no egress port),
  `DrainGranted` and `DrainRefused`. The demand registration, the token and its refund, the
  demand withdrawal, the pop, the occupancy, the XON and the rescheduling are parts of
  the one that runs them. The XOFF and XON frames are counted here
  (`m_pfcTxXoff`, `m_pfcTxXon`) and put on the line in `QbbTransmit`.
* In `PfcLink` every step is a step of one side with what it puts on the channel. `PauseRunsOut`,
  `PfcArrives` and `DataArrives` are `ResumeFromPause`, the PFC branch and the data branch of
  `HandleMacRx`; `AnswerSent` and `AnswerDropped` are the two outcomes of `SendPfcXoff` and `SendPfcXon`
  at the peer.
* In `Switch`, `Forwards` is `DoIngressDrain` with its token granted and the `Send` of the egress device it
  ends in, one step because the code makes it within one event; `Keeps` is its other outcomes, `Transmits` the events of
  the egress device, `PeerSpeaks` the PFC frames of the next hop, and `OwnPfc` the XOFF and XON frames that the egress
  device sends to that hop for packets it receives from there. They leave by other egress ports, so `OutPort` is not among the
  ingress ports of the model: of that device's receive half only these frames touch the state, and the environment sends them at any instant.
* In `Experiment`, a fatal error is the phase "aborted": a weight or a flow's rate that `DataRate` does not take, an edge node that does
  not exist, a sink whose port is taken. `Read` is the phases that read the two files and `Prepare` the calls and turns of loops that follow
  them up to `Simulator::Run`, the draws excepted. `LoadSizeCdf` and `ReadTopology` carry the early returns (-6, -1, -2, -4) and `InstallFlow` the
  last one (-5). `PickDestination` is one turn of the `do`-loop. `events` is what
  `GetStatus` schedules before it calls `Simulator::Run`; `Stop` is the return from it and the assembly of the
  results. What `main` computes from a result is operators (`linkNodePairs`, `NumLinks`, `Printed`), because it changes no state.
* In `EcmpRouting`, `NotifyInterfaceEvent` changes the addresses of a node's interfaces or none of them, and the routes of every node to any
  others, as the recomputation by the global route manager may (`RecomputeRoutes`), or not, as before the start of the simulation or without
  `RespondToInterfaceEvents`; it keeps the weight table and its cache. `LookupGlobal` is the whole lookup as `RouteOutput` (with or without an output device)
  and `RouteInput` (without) make it; `GetNodeWeights` with its file read and cache write is part of
  whichever lookup calls it first.
* `IngressDrain` refills its buckets at every unit of time, the code from the elapsed
  time whenever it is asked. That this is the same is what two theorems say of one abstract bucket, `TokenMeter`: the lazy
  one implements it (`LazyImplementsMeter`, and the property `MeterSpec`), and so does the bucket of each egress port of `IngressDrain`
  (`BucketsAreMeters`).


## 4. Properties, runs and bounds

The model is unbounded except for the environment: `MaxSends` packets,
`MaxPfcRx` and `MaxPfcTx` PFC frames, `MaxRx` received frames, and `MaxTime` in
`TokenBucket`. Times are small numbers whose order matters, not their size: a
pause shorter and longer than a transmission, retries that end inside and outside a pause.

| Run | Question | Instance | Distinct states |
|---|---|---|---|
| `tx_safety` | gate, resume timers, wake-ups, conservation, refinement of `LosslessClasses` | 2 classes, MAC queue 2, 3 packets, 2 PFC frames in, 1 out | 1,023,341 |
| `tx_progress` | order within a class; pauses end, held frames return, and without a pause every packet is sent | 1 class, MAC queue 2, 5 packets, 3 PFC frames in, 1 out | 166,129 |
| `tx_stranded` (violation) | is every packet sent? | 1 class, 2 packets, 1 XOFF | |
| `bucket` | rate, refinement of the meter | capacity 2.5 packets, rate 1/2 packet, 8 units of time | 2,996 |
| `rx_safety` | watermarks, XOFF/XON, wake-ups, tokens | 2 ingress ports, 3 egress ports (1 without bucket), 2 classes, 4 frames | 192,633 |
| `switch` | fairness of the arbiter, backlog of the egress device, progress | 3 ingress ports, 1 egress device with MAC queue 1, 5 frames, 1 PFC frame in, 1 out, watermarks out of reach | 690,652 |
| `rx_starved` (violation) | is every packet handed to IP? | 2 ingress ports, 2 egress ports, 3 frames | |
| `link` | how long can the peer's queue get; do the ends agree; do pause and congestion end? | 1 class, MAC queue 2, 8 packets, delay 1, PFC frames back in 0 or 1 or dropped once, drain at 1/6 of the line | 486,522 |
| `install_once` | after the diversion, does a frame reach IP once? | 2 devices, 2 calls, 2 aggregates, 2 frames | 922,720 |
| `install_twice` (violation) | does a frame reach IP once? | 2 devices as the helper leaves them | |
| `ecmp_safety` | shares, stability, weight 0 | 3-bit hashes, up to 3 routes, 2 lists of addresses, 2 lines, 1 edit or interface event, 2 lookups | 1,422,720 |
| `experiment` | sizes, failures, names, sinks, snapshots, return | all size files of up to 3 lines over 4 sizes and 4 percentages, all topology files of up to 5 lines, links with a weight of 0 among them, 0 to 4 flows on 3 port numbers with rates that parse and that do not, applications that stop at 0 to 5, 2 sub-samples an interval | 1,102,517 |

Why these are enough: in `tx_safety` a MAC queue of two with three packets and a PFC frame reaches
every branch: refused frames, dropped PFC frames, purges that keep and
purges that take, and refills that move everything, some and none. Two classes
let one be paused while the other runs. Two PFC frames give every ordered pair on one class, XOFF
over XOFF with a longer and with a shorter pause included. In `tx_progress` five packets on a queue of two let a partial
refill be overtaken: a check that leaves the exception for held frames out of
`OvertakenOnlyIfHeld` fails there. In `rx_safety` four frames pass both watermarks in both
directions on one class and let two ingress ports contend for one token; the
capacity of one and a half packets makes the cap, a fractional remainder and the refund
matter. In `link` the line is six times as fast as the drain and eight packets
carry the queue past the high watermark; the bound is attained, so a smaller one
fails. The lines of the weight file in `ecmp_safety` have three weights whose product with
a hash wraps, a sum of 0 for two candidates, a weight above the width, a token that does not
parse, and too few weights; two lookups with an edit or an interface event between them are what stability and the cache are
about. The hashed packet has one hash with each list of addresses, and the two choose different candidates: without
its condition on the addresses `OnePathPerFlow` fails.
In `switch` the MAC queue of one is full whenever a frame waits behind the one on the line, so that refused frames,
retries and a purge under a pause all happen while three ports compete; a bucket that refunds twice
passes the bound on the backlog, the bound is attained, and without its term for the device's own PFC frame it fails. Five frames
are what it takes to pass one of three ports over three times with its demand registered. Congestion of the ingress ports is left to
`rx_safety`, because their PFC frames leave by other lines. In `experiment` each kind of input is varied with the others held at a plain
one, because the phases of `GetStatus` meet only in what `TypeOK` says of one for the next. Five lines hold a header, an
`EDGE_NODES` line before or after the counts, and two links; the third port number is the last one, so the
third flow is the first whose port wraps and the fourth may meet a port in use; five units of time after the
start give the first interval, its last instant, and the second. The real function returns, so this
cfg switches the deadlock check off.

The properties, and the hazard each is for:

* `PauseGate`, `NeverStartsPaused`: an XOFF may arrive when frames of its class
  are already in the MAC queue, and a PFC frame on an idle line flushes the head of that
  queue, whatever it is.
* `ResumeArmed`: the single `m_refillEvent` of a class serves resume and refill
  retry, and XOFF, XON and both events may come in any order at one instant.
* `NoLostWakeup`: `TryDequeue` stops without rescheduling itself when all that waits is paused.
* `NoLoss`: frames move between three places, copies are made, and
  two of the moves may fail half-way on a full queue.
* `OvertakenOnlyIfHeld`: what remains of order within a class.
* `PauseEnds`, `HeldReturned`, `TransmittedUnlessPaused`: progress, retries on a full MAC queue included.
* `OccupancyIsLength`: the counter PFC decides on is kept apart from the queue.
* `PfcHysteresis` (for `PfcLowPkts < PfcHighPkts`; nothing in the code enforces that order) and
  `XoffXonAlternate`: what the peer was last told fits the queue.
* `DrainScheduled`, `EventuallyDrained`: a refused drain comes back, and in the end gets its token.
* `TokensBuyForwarding`: a token taken before it is known whose turn it is comes back in full.
* `BoundedBypass`: lastServedIngress moves under contention only, and ports join and leave between grants.
* `PromiseKept`: whatever queues, purges, refills and retries do, seen from outside each packet is on
  the line once and never while its class is stopped. A copy that a purge or a refill leaves behind breaks it.
* `BacklogBounded`: the software queue of an egress device has no limit; what keeps it short is that the bucket grants no
  more than the line carries. The device's own XOFF and XON frames take line time without a token, and each adds a packet
  to the bound. Stated for an egress device that is not paused: section 6 says what a pause does.
* `EventuallyDrained` in `switch`: the tokens go on while the egress device is paused, so a pause
  does not spread backwards through the node.
* `RateBound`, `MeterSpec`: no window of time gives more than a full bucket plus the rate.
* `QueueBounded`: the ingress queue has no limit of its own. It exceeds `PfcHighPkts` by at most the frames
  the line is ahead, 1 + (longest way back + delay) / shortest transmission, unless an XOFF is dropped or
  a pause runs out while the peer is congested. After either the queue has no bound: XOFF is not
  repeated. That is why the property is conditional on `unprotected`.
* `PeersAgree`: on the same condition, once no PFC frame is under way the class is paused exactly if the
  peer is congested.
* `CongestionEnds`: a pause and the congestion that caused it are both over at some later instant, although an XOFF
  or XON is lost or a pause runs out early. An XON that cancels the pending resume without resuming breaks it.
* `OnceIfDiverted`: a frame received after the callback was replaced reaches IP once, whatever
  was aggregated, whenever, and in which order. It needs `HookL3Divert` to replace
  the callback in the step that sets the flag; a device flagged earlier would deliver twice.
* `SharesFollowWeights`: the share of the hash values that choose a next hop is its weight's, up to
  rounding, whatever is in the cache. It is stated for sums of weights up to `HashRange`; section 6
  says what happens above.
* `OnePathPerFlow`: the file may be edited, or appear, between two packets of a flow, and an interface event may
  replace the routes while the cache stays. Stated for a node with the addresses it had: with others the salt is
  another (section 6).
* `ZeroWeightNeverTaken`: boundaries of the cumulative sums.
* `TableIsCdf`, `SampleFollowsFile`: conditional on distinct percentages, which the repository's file
  has. With equal ones the smaller size is kept after sizes were made non-decreasing, the table may
  fall, and the unsigned difference of two sizes wraps.

* `FailureRecognisable`: failures are vectors of four numbers and pass `main`'s test for a result.
* `LinkNamesMatch`: names and numbers come from two parsers and are matched by position. Conditional on links that
  join existing nodes (section 6).
* `SinksReachable`: ports are truncated to 16 bits; with flows that fit every sink has a port of its own, the one its
  client addresses. That nothing aborts is on the further condition that edge nodes exist and that weights and rates are ones
  `DataRate` takes (`RatesParse`). Nothing in the driver checks any of these.
* `SnapshotsCoverIntervals`: three kinds of event on one time axis; an interval's snapshot must come behind its last
  sub-sample, before the first one of the next, and before the stop.
* `Returns`: the loop for a destination, with two edge nodes at least.

`HeldReturned` and `TransmittedUnlessPaused` stop where finding 1 begins: once a refill has filled the queue of
an idle transmitter nothing empties it, and a pause may strand a frame (`EventuallyTransmitted`, violated
in `tx_stranded`).

### Fairness

`FairSpec` asks weak fairness of `Simulator`, the disjunction of everything the event loop
does by itself, time included: the loop keeps running as long as an event is
pending. No fairness is asked of single handlers; that due events run before time
passes is the guard of `Tick`. `FairNodeSpec` is the same for `Switch`.
The environment's calls are not fair: nobody has to
send, and no XON has to arrive. `FairLinkSpec` is the same for `PfcLink`: `EventLoop` is everything but new packets, deliveries
on the channel included, which are events of the same loop. Liveness of a single event among several
due ones follows because each handler leaves a state in which fewer are due, save
`ScheduleNow` chains, which end with the queue they empty. The simulation's stop
time is outside these models.

`Experiment` asks weak fairness of `GetStatus` once its files are read and of the simulator it runs, of a draw
of a source and of a size, and of a draw of a destination *other than the source*. The last is more than a program that
keeps running: the code draws uniformly and independently, and such draws hit another node, if there is one,
with probability 1.


## 5. Theorems

All hold for every number of classes, queue size, transmission and pause
times, retries, rates and bounds, from the named assumptions
(`NPrioAssumption`, `QueueMaxAssumption`, `TxTimesAssumption`, `NoPktAssumption`,
`PauseTimesAssumption`, `RetryAssumption`, `BoundAssumption`, `BucketAssumption`,
`MaxTimeAssumption`, `HashRangeAssumption`, `PortAssumption`, `WatermarkAssumption`,
`TimingAssumption`, `InstallAssumption`, `EcmpAssumption`, `LinkAssumption`, `SwitchAssumption`, `IngressAssumption`, `CdfAssumption`,
`ExperimentAssumption`, `InputAssumption`), which say
that counts and times are natural numbers, that nodes, interfaces and attributes are what they are taken for, and that the null packet
is not a frame. `InputAssumption` says that the two files are finite sequences of lines, any lines. Two say more. `LinkAssumption` asks that a transmission takes time, that the delays of a link are finitely many, and that
`PfcLowPkts < PfcHighPkts`, which is what watermarks are for though nothing in the code enforces it. `SwitchAssumption` names the
one egress port of `Switch` and keeps it out of the ingress ports. `ExperimentAssumption` has the base port, 10000 in the code, above 0.

**Transmit half** (`QbbTransmitProofs`). The inductive invariant is

    IInv == TypeOK /\ ClassPure /\ ResumeOnlyIfPaused
              /\ PauseGate /\ ResumeArmed /\ NoLostWakeup /\ NoLoss

No part is inductive by itself. A refill puts frames of its class into the MAC queue, so
`PauseGate` needs `ClassPure` (the hold has frames of that class only) and needs to
know that a refill event of a paused class finds its pause over: `ResumeArmed`. That in turn is kept by XON
and by the retry only because a resume is pending only for paused classes
(`ResumeOnlyIfPaused`). `NoLostWakeup` survives a `TryDequeue` that finds
nothing because what still waits is then paused, and `ResumeArmed` says a resume is
pending for it. The proof has a lemma for what each operation does to the *set* of frames in each
place (`StartEffect`, `AcceptEffect`, `CompleteEffect`, `PurgeEffect`,
`RefillEffect`), a lemma per action that it keeps IInv, and `NextSafe` that puts them together.

* `TypeCorrect`, `PauseGateHolds`, `ResumeArmedHolds`, `NoLostWakeupHolds`,
  `NothingIsLost`: the parts of IInv.
* `PausedClassIsSilent`: the action property, from IInv: whatever is put on the
  line comes from the MAC queue or is what the step just handed to the base class.

**Refinement of the promise** (`QbbTransmitProofs`). `KeepsPromise`: under the mapping

    taken   <- accepted
    pending <- the data frames in m_txq, m_queue and m_macHold
    stopped <- the classes whose pause lasts (Gated)
    sent    <- the data frames of wire

every step of the transmit half is a step of `LosslessClasses` or a stutter. A frame that reaches the line
must leave `pending`, which is false if a copy of it is left in another queue, so
the invariant is

    PInv == IInv /\ OnePlaceOnly /\ Numbered

`OnePlaceOnly` says that no queue has a frame twice and no two places have it at once; a `Send` keeps it because its packet is new
(`Numbered`). Each operation has a lemma for what it does to the three places together, and
`LineRefines` turns "one frame left the places and is on the line" into an abstract `Emit`. That the
emitted frame's class is not stopped is `PauseGate` and `PausedClassIsSilent`'s argument.

**Order** (`QbbTransmitProofs`). `OrderIsKept`: `OvertakenOnlyIfHeld` compares positions on the line, and the
line tells nothing of what may still come. The invariant therefore compares places:

    OInv == PInv /\ OrderKept

`OrderKept` says that on the line and behind it in the MAC queue a frame stands before an older one of its class only if an XOFF once took the older
one back (`wasHeld`), that the hold has such frames only, and that the software queue is in order and younger than whatever left it.
Appending, concatenating and filtering keep such a relation between the elements of a sequence (`PairwiseAppend`, `PairwiseConcat`,
`PairwiseFilter`); each operation is a composition of these.

**Receive half** (`IngressDrainProofs`). The inductive invariant is a part per device and a part per arbiter:

    IInv == DeviceInv /\ ArbiterInv
    DeviceInv  == the types, OccupancyIsLength, PfcHysteresis, XoffXonAlternate, DrainScheduled
    ArbiterInv == the types, RoundsLeft

* `TypeCorrect`, `OccupancyCountsQueue`, `WatermarksDecide`, `XonAnswersXoff`, `DrainIsScheduled`: the parts of IInv. The counter, the
  flag and the two counts of PFC frames are inductive only together (`Coherent`): the flag changes when the *counter*
  crosses a watermark, and the XON a pop owes depends on the flag.
* `BypassIsBounded`: `BoundedBypass` is not inductive, because the number of times d was passed over says
  nothing of who is next. `RoundsLeft` does: `passedOver[e][d]` plus the number of ingress ports between
  `lastServedIngress` and d, in the cyclic order of `SelectNextIngress`, stays below the number of ingress ports. A contended grant to another port
  moves `lastServedIngress` to a port that lies in between, and so takes at least one away from that number
  (`GrantRounds`); without contention nobody else is waiting.
* `TokensAreNotWasted`: the action property, by cases over Next.
* `BucketsAreMeters`: each egress port's bucket refines `TokenMeter`. A refused drain that took a token leaves the level
  as it was, because a level within the capacity survives taking a cost and giving it back under the cap.

**The link** (`PfcLinkProofs`). The inductive invariant is

    LinkInv == IInv /\ PeerOK /\ LineOK /\ BackOK /\ ClassesOK

with IInv of the transmit half, the receive half of the peer (`PeerOK`), what is on the line (`LineOK`: frames
arrive at least a shortest transmission apart) and on the way back (`BackOK`: PFC frames keep their order and none takes longer than `Late`).
`ClassesOK` is the argument, for as long as no PFC frame was lost and no pause ran out early:

* `AgreedOn`: the last PFC frame of a class on its way says what the peer means, and if there is none, `m_paused` says it.
* `BudgetOf`: once a class is congested, the room left below the bound is enough for every frame the line can still start before the XOFF is
  taken, at one per shortest transmission; after that, for those already on their way. The two clocks, of the XOFF and of the line, are
  related by `x.left - txCompleteIn < Room(pr) * Shortest`: it is the busy line that makes the first frame of the headroom wait.

`HeadroomSuffices` and `EndsAgree` follow. `SenderOnLink` and `ReceiverOnLink` show that the composition leaves its parts what they are:
every behaviour of the link is one of `QbbTransmit` and one of `IngressDrain`, so their theorems hold there.

**The node** (`SwitchProofs`). The inductive invariant is the egress device's PInv, the tokens within their bucket, and, until a
PFC frame of the peer comes, an account:

    Paced == the retry of a refused packet is due before the MAC queue is empty
          /\ m_tokens + NotStarted * Cost + txCompleteIn * Rate <= Budget
    Budget == Capacity + nPfcTx * Cost

A grant moves a cost from the first term to the second, a start of transmission moves it to the third (a transmission earns
no more than a cost), time moves the third back to the first. A PFC frame of the device's own adds at most a cost to the second
term, which is what `Budget` is for. Only time that passes on an idle line adds to the account, and
an idle line means that nothing waits (`Undisturbed`), because the refused packet is tried again in time; then the bucket alone has to stay within
`Capacity`. `BacklogIsBounded` is read off the second term. `NodeSafety` is the invariant.
`EgressDeviceInNode` and `IngressSideInNode` are the two refinements, and `RoundRobinInNode` draws the conclusion for `BoundedBypass`.

**Sequences** (`SeqSetsProofs`). Elements of an appended, concatenated, cut and
filtered sequence, and when these keep an element from occurring twice. `Filter` is a recursive function, so `KeptUpToUnfolds` first shows that its
definition has a solution, and `InductionUpTo` and `NatMinimum` give induction without
an operator parameter.

**Token bucket** (`InstallBucketProofs`). The budget
`spent + level <= Capacity + (now - since) * Rate`, with the lazily refilled
level, is inductive (`BudgetHolds`); `RateIsBounded` follows. `LazyImplementsMeter` maps every
step of the bucket to a step or stutter of `TokenMeter`. `BucketTypeCorrect` rests on the same invariant.

**Weighted choice** (`EcmpRoutingProofs`). `ChosenWeightIsPositive`: for every list of weights with a
positive sum and every hash, the index chosen is one of the list and its weight is not 0, also when the product wraps.
The cumulative sums rise from 0 to the sum (by induction over the list), the threshold is below
the sum, and the first sum above the threshold exceeds the sum before it.
`EvenChoiceIsOfList`: the same without weights.

**ECMP** (`EcmpRoutingProofs`). The inductive invariant is

    IInv == TypeOK /\ CacheOK /\ Repeatable

`Repeatable` says that a lookup by flow that was made would choose the same today: its weights are what `NodeWeights` yields for
its number of candidates and its index is `FlowIndex` of them and of the hash with the addresses of then. That two lookups of one
flow with the same addresses agree (`FlowKeepsPath`) follows at once, and it survives edits of the file because `g_weightsLoaded` is set before the first choice (`WeightsStay`,
`QuietWeights`), and other flows' lookups because the cache only ever gets what the raw table says. `CacheOK` keeps the cached weights positive in sum, so that
`ZeroWeightIsNeverTaken` is `ChosenWeightIsPositive` applied to them. The table is typed by induction over the lines
of the file (`TablesOfUnfolds`, `LoadedOK`).

`SharesAreWeights` counts. A next hop is chosen iff the scaled hash lies between two neighbouring cumulative sums
(`ChosenByThreshold`); the hashes that are scaled into such a stretch are an interval whose ends are quotients rounded up (`RoundedUp`,
`ShareOfStretch`), so its length misses the exact share by less than one hash. The product does not wrap for sums up to
`HashRange` (`ScaledExactly`). That the weights are those the file documents is an invariant of its own, `Faithful`: the raw table is what
`loadedFrom` said, and a cache entry what the raw table says (`FileIsFollowed`, and `LastLineCounts` for the last line of a node).

**Delivery to IP** (`InstallBucketProofs`). The inductive invariant is

    IInv == ConfigOK /\ DivertOK /\ DeliveryOK

`DivertOK` says that `m_l3DivertInstalled` is never set before the receive callback is `L3Swallow`, so a frame counted as diverted
cannot also pass the base class's upcall; `DeliveryOK` says that a frame waits in one ingress queue, and there once
(`OneQueueOnly`), so the drain that hands it to IP takes its only copy. `DivertedReachesIpOnce` and `TypeCorrect` follow.

**The driver** (`ExperimentProofs`). Three invariants, each of which needs what stands before it:

    DriverOK   == TopologyOK /\ FlowsOK /\ AbortsOK /\ ResultsOK
    ScheduleOK == SamplesTyped /\ EventsOK /\ CountOK /\ SumsOK          (with DriverOK)
    TableOK    == out is Table(input.sizes), and what is drawn is sampled from it

* `DriverOK` says that `allLinks` is what the file installs, that the i-th sink has the port of flow i - 1 at a node with a link, and that a
  vector returned is a failure or has a queue length and a utilisation per link. `AbortsOK` says that the program has not
  ended if rates parse, edge nodes exist and flows fit (`Reachable`). `PortsSuffice` follows because truncation to 16 bits is the
  identity on ports that fit (`PortsApart`, `SinksApart`), and `FailuresAreRecognisable` by counting the vector. `NamesAreRight`
  compares two parsers. Both keep a sub-sequence of the same lines, `GetStatus` by "joins existing nodes" and `main` by less; if the two tests
  agree on every line behind the header, the results agree (`FilterAgrees`), and what stands in front of the header, where `main` starts
  elsewhere, passes neither (`FilterDropsFront`, `NamesAgree`).
* `ScheduleOK` says what is pending. With k snapshots taken and c sub-samples in the accumulator, the events left are exactly those not before
  sub-sample c of interval k, in the order of the time axis. So whatever runs next is that sub-sample (`SubSampleInTurn`), the snapshot if c is
  `SubSamples` (`SnapshotInTurn`), or the stop if no interval is left (`StopInTurn`): that no sub-sample falls behind its snapshot and no snapshot behind
  the stop is arithmetic on multiples of the interval (`StartsApart`, `Divides`). `SumsOK` relates the accumulator to the history `seen`, the sums
  being a recursive function whose definition has a solution (`SumsUpToUnfolds`). `SnapshotsAreComplete` and `DriverTypeCorrect` follow.
* `TableOK` reduces `TableRises` and `SamplesFollowTheFile` to statements about `Table` alone. `Sorted` is a choice among
  the arrangements that `std::sort` may return, and there is one for every file, by insertion of one line after the other (`OneMoreSorted`,
  `SomeArrangement`). The cleaning loop keeps the percentages rising (`TurnRises`) and, when no percentage is given twice, makes
  the sizes the running maxima of the file's (`TurnMaxima`, `CleanedEntries`); `TableWithEnds` adds 0% and 100%. A row of the table is then a quantile of the
  lines (`LinesUpTo`, `QuantileInTable`), and `InterpolatedBetween` bounds what integer interpolation with rounding can yield between two rows.

**Model-checked only.** The liveness properties (`PauseEnds`, `HeldReturned`, `TransmittedUnlessPaused`, `EventuallyDrained`,
`CongestionEnds`, `Returns`): fairness and ENABLED are out of the prover's reach. Every invariant and every
action property of the passing runs is a theorem. Induction over data is written out where it is needed, over sequences with `InductionUpTo` and over the
turns of a loop, because the library's induction theorems cannot be instantiated.

## 6. Findings

1. **Frames stranded in the MAC queue** (`tx_stranded`, `qbb-net-device.cc:556`).
   `RefillMacQueueFromHold` returns held frames with `macq->Enqueue` and wakes `TryDequeue`, which looks at
   `m_txq` only. Nothing starts the base class's transmitter, which starts itself only in
   `Send` and `TransmitComplete`. If the line has gone idle during the pause, the frames stay until
   a later `Send` flushes one; if they fill the MAC queue, each later `Send`
   fails in `Enqueue` before it looks at the transmitter, PFC frames
   included, and the device is silent for ever.
   Trace: two packets are sent; the first is on the line and the second in the MAC queue when XOFF
   arrives; the first completes; the pause ends; the second is in the MAC queue of an idle device.
2. **Demand that outlives its packets** (`rx_starved`, `qbb-net-device.cc:467`). Demand is
   registered for the port of the head packet and withdrawn only with the last
   packet of the class, at that packet's port. An ingress port that has forwarded to A and
   then empties its queue with a packet to B stays registered at A, and when round
   robin points to it everyone else is refused at A.
   Trace: ingress 1 is granted A without contention, so `lastServedIngress` stays 0; it then empties its
   queue with a packet to B and remains registered at A. Ingress 2 asks for A, the active ports are 1 and 2,
   round robin names 1, which never asks again, and 2 is refused for ever with a full bucket.
3. **Two deliveries** (`install_twice`, `qbb-point-to-point-helper.cc:104`). Without an object aggregated to the *device*,
   nothing schedules `HookL3Divert`; the helper aggregates none. The base class then hands every
   data frame to IP, without a token, and the drain hands it over once more. Each copy is
   forwarded, so the number of copies doubles at every such hop.

Disagreements met while modelling that no run states:

* *Shares when weights are large* (`ipv4-global-routing.cc:506`). The product of hash and sum is
  a `uint64_t`; it wraps when the sum exceeds 2^32, although each weight up to 2^32-1 is accepted, and two equal maximal
  weights do not share evenly; the comment calls the computation unbiased. `SharesFollowWeights` is therefore
  stated for smaller sums. A weight of 0 is never chosen either way (`ChosenWeightIsPositive`).
* *No three-tuple* (`ipv4-global-routing.cc:551`). The attribute's help text (line 301) promises a fallback to addresses
  and protocol for packets without TCP or UDP ports; they all take the first candidate.
* *Addresses in the hash* (`ipv4-global-routing.cc:492`). The same help text calls the hash of a flow stable. The node's salt is
  computed anew at every lookup, from the addresses of its interfaces among other things, so a flow may move to another of
  the same candidates when an address is added or removed, anywhere on the node and whether or not the node responds to interface events.
* *Token of another port* (`qbb-net-device.cc:428`). The prediction looks up a payload that still has its IP
  header, the forwarding one that has not, so the two hash different tuples. With several
  next hops the token and demand may belong to a port the packet does not leave by. `IngressDrain` is about the
  predicted port throughout.
* *Defaults without effect* (`qbb-point-to-point-helper.cc:72`). README.md of the repository configures PFC
  with `Config::SetDefault`; `Install` overwrites four attributes with the helper's fields in any case.

* *A failure is a result* (`test1.cc:378`). `main` looks for results of fewer than three numbers; failures have four. It
  prints the code as the throughput of a run without links, which `FailureRecognisable` shows can still be told from a result.
* *One edge node* (`test1.cc:709`). With one distinct edge node the loop for a destination does not end; only the empty list is refused.
* *Ports* (`test1.cc:762`). Flow number 55536 gets port 0, for which its sink is given a free port that the client does
  not address, and which a later sink of the node may want; from flow 65536 on a second sink may bind the port of an earlier one on
  its node. A bind that fails is fatal (`packet-sink.cc:145`).
* *Weights and rates* (`test1.cc:612`). The data rate of a link is 50 divided by its weight, written with six digits: `inf` for 0, with a
  sign below, with an exponent above 500000. `DataRate` takes none of these, and setting the attribute is fatal. The rate of a
  flow has an exponent from a million Mbps on, with the same result (`test1.cc:809`, `828`).
* *Shifted names* (`test1.cc:393`). `GetStatus` leaves out a link whose node does not exist, `main` names it: every name
  behind it is one place off.
* *Edge nodes that do not exist* (`test1.cc:750`). `EDGE_NODES` is not compared with the number of nodes; `NodeContainer::Get` reads
  behind its vector.
* *No time for applications.* With `appsStop` 0 the throughput is 0 divided by 0. Neither is the accumulator
  `g_subSampleAccum` cleared between calls of `GetStatus`: sub-samples after the last snapshot of one call would count in the next,
  but `SnapshotsCoverIntervals` shows that there are none.
* *Utilisation above 100%.* The utilisation of the whole run, unlike that of an interval, is not capped, and counts bytes when they are handed to the device, before its queue takes them.
* *A paused egress device* (`qbb-net-device.cc:472`). Tokens go on while it is paused, so its software queue grows
  without a bound and its own senders are never told. The other choice would let pauses close a circle.


## 7. Not modelled

* Link-down, error models, sniffers and the receive path of the base class; the channel's
  propagation delay is not visible to one device's transmit half.
* `PfcEnable` is a constant: attributes are set before the simulation starts.
* A PFC frame that enables several classes: no code of the repository sends one.
* Rounding of doubles in `TokenBucket` and in the pause time.
* Drops in the software and ingress queues: they are unbounded in the code.
* IPv6 frames: the drain hands them to IPv4.
* `PfcHeader`'s fields are written and read back one after the other, with no branch.
* In ECMP: local delivery, multicast, the refusals of `RouteInput` and `RouteOutput`, and printing, none of which
  changes state. What a recomputation of the routes computes belongs to the global route manager, which is not the
  repository's own: the model allows any table, and any of a set of lists for a node's addresses.
* In the driver: the values of rates and delays, the transport, which traffic follows from them, the values of throughput, delay and loss,
  and the layout of the report.
* `PfcHeader` and the PPP numbers, which have no branch to get wrong beyond a table of two entries.
* ns-3.45 itself, which is nearly all of the repository's lines: 793,000, of which the code written for the repository is
  some 2,500. It is third-party code that the models meet at its interfaces: the event loop, the drop-tail
  queue, the base class of the device, IP's upcall, the route tables. What of it has been changed here
  (`ipv4-global-routing.cc`, one case in `point-to-point-net-device.cc`) or decides how the repository's code
  behaves (`point-to-point-net-device.cc`, `point-to-point-channel.cc`, `default-simulator-impl.cc`, `queue.h`, and in a few
  lines each `config.cc`, `internet-stack-helper.cc`, `global-route-manager-impl.cc`, `packet-sink.cc`) is modelled from its source.


## 8. Plan

Done, in the order of the modules' importance: the transmit half and its base class; the token bucket with its refinement; the receive half and the
arbiter; the link; the helper and the two ways to IP; ECMP; the abstract promise; the forwarding node; the driver. The safety
properties of every component are theorems.

What is left:

1. End-to-end conservation in `Switch`: what was received is queued at an ingress port or was accepted by the egress device. It needs sums
   over ports and classes.
2. `Switch` with two egress devices, once the demand that outlives its packets (section 6, 2) is settled.
