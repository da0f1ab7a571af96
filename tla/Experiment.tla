------------------------------ MODULE Experiment ------------------------------
(***************************************************************************)
(* The experiment driver: GetStatus reads the sizes and the topology,      *)
(* draws pairs of edge nodes and flow sizes, installs one sink per flow,   *)
(* samples the queues of every link while the simulator runs and returns   *)
(* a vector of numbers; main reads the topology again to name the links    *)
(* in that vector.                                                         *)
(*                                                                         *)
(* One time unit is half of a sub-sample's share of an interval.  The      *)
(* traffic itself is any sequence of queue lengths, and a result is what   *)
(* it is the value of.                                                     *)
(***************************************************************************)
EXTENDS SizeCdf, SeqSets, FiniteSets

CONSTANTS
    Inputs,         \* bound: the files and arguments one call may be given
    NoFile,         \* a topology file that cannot be opened
    PortRange,      \* number of values of a uint16_t
    BasePort,
    SubSamples,     \* SUB_SAMPLE_COUNT
    SampleStart,    \* when the first interval begins
    QueueLengths    \* bound: lengths a queue may have when it is sampled

\* A line of the size file.
SizeLine == [size : 0 .. SizeRange - 1, pct : Int]

\* A line of the topology file: what it starts with, and the numbers that can be
\* read from its front.
TopoLine == [tag : {"plain", "skipped", "EDGE_NODES"}, nums : Seq(Int)]

ASSUME ExperimentAssumption ==
    /\ SubSamples \in Nat \ {0} /\ SampleStart \in Nat
    /\ PortRange \in Nat \ {0} /\ BasePort \in 1 .. PortRange - 1
    /\ QueueLengths \subseteq Nat

ASSUME InputAssumption ==
    Inputs \subseteq [sizes : Seq(SizeLine), topo : {NoFile} \cup Seq(TopoLine),
                     flows : Nat, appsStop : Nat, hugeRef : BOOLEAN]

VARIABLES
    input,      \* [sizes, topo, flows, appsStop, hugeRef]: hugeRef is whether a flow
                \* may get a rate, a factor of linkRefMbps, of a million Mbps
    pc,         \* how far GetStatus is
    out,        \* sizeCdf
    nodes,      \* numNodes
    edgeNodes,
    allLinks,
    pairs, src,       \* the pairs drawn, and the source of the next one
    drawn,            \* sampledSizes, with the values they were drawn from
    sinks,            \* destination and port of each sink installed
    events,           \* what the simulator still has to run
    accum,            \* g_subSampleAccum
    seen,             \* history: the lengths of every sub-sample
    snapshots,        \* queueSnapshots of the links
    results           \* what GetStatus returns

topoVars == <<nodes, edgeNodes, allLinks>>
flowVars == <<pairs, src, drawn, sinks>>
sampleVars == <<events, accum, seen, snapshots>>
vars == <<input, pc, out, topoVars, flowVars, sampleVars, results>>

Interval == 2 * SubSamples
StopTime == input.appsStop + 2 * Interval

------------------------------------------------------------------------------
\* The topology file.

Counts(line) == line.tag = "plain" /\ line.nums # <<>>

IsPlain(line) == line.tag = "plain"

\* The first line behind the i-th that satisfies P, or one more than there are.
NextLine(lines, i, P(_)) ==
    Min({j \in i + 1 .. Len(lines) : P(lines[j])} \cup {Len(lines) + 1})

\* The lines with the number of nodes and, behind it, of links; what does not
\* start with a number is passed over.
NodesAt(lines) == NextLine(lines, 0, Counts)
CountAt(lines) == NextLine(lines, NodesAt(lines), Counts)

NumberAt(lines, i) == IF i > Len(lines) THEN 0 ELSE Head(lines[i].nums)

\* Mutant of LinksFrom: the line that ended the header is not installed.
LinksBehind(lines) == NextLine(lines, NextLine(lines, CountAt(lines), IsPlain), IsPlain)

\* The line that ends the header and the lines behind it are for
\* installLinkAndTrace.  (A count of 0 ends the header too, and then GetStatus
\* fails whatever follows.)
LinksFrom(lines) == NextLine(lines, CountAt(lines), IsPlain)

HeaderEdges(lines) ==
    UNION {ToSet(lines[i].nums) :
             i \in {j \in 1 .. LinksFrom(lines) - 1 : lines[j].tag = "EDGE_NODES"}}

IsLink(line) == line.tag = "plain" /\ Len(line.nums) >= 2

PairOf(line) == <<line.nums[1], line.nums[2]>>

\* Mutant of Exists: off by one.
ExistsOrNext(node, numNodes) == node \in 0 .. numNodes

Exists(node, numNodes) == node \in 0 .. numNodes - 1

JoinsNodes(line, numNodes) ==
    IsLink(line) /\ \A i \in 1 .. 2 : Exists(line.nums[i], numNodes)

Weight(line) == IF Len(line.nums) < 3 THEN 100 ELSE line.nums[3]

\* The data rate is 50.0 / weight, written with six digits.  DataRate::DoParse takes
\* digits and a unit: not "inf", a sign or an exponent, and SetDeviceAttribute makes
\* that fatal.  The last rate without an exponent is 0.0001Mbps.
Usable(line) == Weight(line) \in 1 .. 500000

\* installLinkAndTrace for each line; the number of links is not looked at.
Installed(lines, numNodes) ==
    LET ofNodes == {line \in ToSet(lines) : JoinsNodes(line, numNodes)}
        installed == Filter(SubSeq(lines, LinksFrom(lines), Len(lines)), ofNodes)
    IN  [i \in DOMAIN installed |-> PairOf(installed[i])]

Ends(links) == UNION {ToSet(links[i]) : i \in DOMAIN links}

------------------------------------------------------------------------------
\* What main makes of the results.

linkNodePairs ==
    IF input.topo = NoFile THEN <<>>
    ELSE LET lines == input.topo
             named == Filter(SubSeq(lines, CountAt(lines) + 1, Len(lines)),
                             {line \in ToSet(lines) : IsLink(line)})
         IN  [i \in DOMAIN named |-> PairOf(named[i])]

\* Mutant of NumLinks: off by one.
NumLinksOfTwo(n) == (n - 2) \div 2

NumLinks(n) == (n - 3) \div 2

\* The links main can print: all of them if it prints ten or fewer.
Printed ==
    LET n == NumLinks(Len(results))
    IN  {[name |-> linkNodePairs[i], queue |-> results[i], util |-> results[n + i]] :
           i \in 1 .. IF n < Len(linkNodePairs) THEN n ELSE Len(linkNodePairs)}

Throughput == results[Len(results) - 2]

------------------------------------------------------------------------------
\* GetStatus.

Fails(code) ==
    /\ pc' = "failed" /\ results' = [i \in 1 .. 4 |-> <<"error", code>>]

Init ==
    /\ input \in Inputs /\ pc = "sizes" /\ out = <<>>
    /\ nodes = 0 /\ edgeNodes = {} /\ allLinks = <<>>
    /\ pairs = <<>> /\ src = {} /\ drawn = <<>> /\ sinks = <<>>
    /\ events = {} /\ accum = [count |-> 0, sum |-> <<>>]
    /\ seen = <<>> /\ snapshots = <<>> /\ results = <<>>

LoadSizeCdf ==
    /\ pc = "sizes"
    /\ IF input.sizes = <<>>
         THEN Fails(-6) /\ UNCHANGED out
         ELSE out' = Table(input.sizes) /\ pc' = "topology" /\ UNCHANGED results
    /\ UNCHANGED <<input, topoVars, flowVars, sampleVars>>

\* The links whose line names two nodes, and the edge nodes, which are all the
\* connected ones unless the header names some.  A link without a usable weight
\* ends the program.
ReadTopology ==
    /\ pc = "topology"
    /\ LET lines == input.topo
           numNodes == NumberAt(lines, NodesAt(lines))
           links == Installed(lines, numNodes)
           edges == IF HeaderEdges(lines) = {} THEN Ends(links) ELSE HeaderEdges(lines)
       IN  IF lines = NoFile THEN Fails(-1) /\ UNCHANGED topoVars
           ELSE IF numNodes <= 0 \/ NumberAt(lines, CountAt(lines)) <= 0
             THEN Fails(-2) /\ UNCHANGED topoVars
           ELSE IF \E i \in LinksFrom(lines) .. Len(lines) :
                     JoinsNodes(lines[i], numNodes) /\ ~Usable(lines[i])
             THEN pc' = "aborted" /\ UNCHANGED <<topoVars, results>>
           ELSE /\ nodes' = numNodes /\ allLinks' = links /\ edgeNodes' = edges
                /\ IF edges = {} \/ BasePort >= PortRange - 1
                     THEN Fails(-4) ELSE pc' = "pairs" /\ UNCHANGED results
    /\ UNCHANGED <<input, out, flowVars, sampleVars>>

PickSource(node) ==
    /\ pc = "pairs" /\ Len(pairs) < input.flows /\ src = {}
    /\ src' = {node}
    /\ UNCHANGED <<input, pc, out, topoVars, pairs, drawn, sinks, sampleVars, results>>

\* Mutant of AnotherNode: pairs are drawn in one direction only.
LargerNode(node) == \A s \in src : node > s

AnotherNode(node) == node \notin src

\* do { dst = pickFrom(edgeNodes); } while (dst == src)
PickDestination(node) ==
    /\ pc = "pairs" /\ src # {}
    /\ IF AnotherNode(node)
         THEN /\ pairs' = Append(pairs, <<CHOOSE s \in src : TRUE, node>>)
              /\ src' = {}
         ELSE UNCHANGED <<pairs, src>>
    /\ UNCHANGED <<input, pc, out, topoVars, drawn, sinks, sampleVars, results>>

PairsDone ==
    /\ pc = "pairs" /\ Len(pairs) = input.flows
    /\ pc' = "draw"
    /\ UNCHANGED <<input, out, topoVars, flowVars, sampleVars, results>>

Draw(u) ==
    /\ pc = "draw" /\ Len(drawn) < Len(pairs)
    /\ drawn' = Append(drawn, [u |-> u, bytes |-> SampleSizeFromCdf(out, u)])
    /\ UNCHANGED <<input, pc, out, topoVars, pairs, src, sinks, sampleVars, results>>

DrawsDone ==
    /\ pc = "draw" /\ Len(drawn) = Len(pairs)
    /\ pc' = "flows"
    /\ UNCHANGED <<input, out, topoVars, flowVars, sampleVars, results>>

\* Mutant of Port: one port for two flows.
PortOfTwo(i) == (BasePort + i \div 2) % PortRange

\* (uint16_t)(basePort + i), the first flow being number 0.
Port(i) == (BasePort + i) % PortRange

\* One turn of the loop over the pairs.  nodes.Get reads behind its vector for
\* a node that does not exist; a node without a link has no address.  A rate of a
\* million Mbps is written with an exponent, which DataRate makes fatal.
InstallFlow ==
    /\ pc = "flows" /\ Len(sinks) < Len(pairs)
    /\ LET pair == pairs[Len(sinks) + 1]
       IN  IF \E i \in 1 .. 2 : ~Exists(pair[i], nodes)
             THEN pc' = "aborted" /\ UNCHANGED <<sinks, results>>
           ELSE IF pair[2] \notin Ends(allLinks) THEN Fails(-5) /\ UNCHANGED sinks
           ELSE \/ /\ sinks' = Append(sinks, [dst |-> pair[2], port |-> Port(Len(sinks))])
                   /\ UNCHANGED <<pc, results>>
                \/ input.hugeRef /\ pc' = "aborted" /\ UNCHANGED <<sinks, results>>
    /\ UNCHANGED <<input, out, topoVars, pairs, src, drawn, sampleVars>>

\* The starts of the intervals: "t <= sampleEnd" by steps of an interval.
Starts == {t \in SampleStart .. input.appsStop : (t - SampleStart) % Interval = 0}

\* Sub-samples in the middle of their share, a snapshot at the end of each
\* interval, and Simulator::Stop.
ScheduleSamples ==
    /\ pc = "flows" /\ Len(sinks) = Len(pairs)
    /\ pc' = "run"
    /\ events' = {[at |-> t + 2 * sub + 1, what |-> "RecordAllQueuesAtSubPoint"] :
                    t \in Starts, sub \in 0 .. SubSamples - 1}
                 \cup {[at |-> t + Interval, what |-> "RecordAllQueues"] : t \in Starts}
                 \cup {[at |-> 0, what |-> "StartApplication"], [at |-> StopTime, what |-> "Stop"]}
    /\ UNCHANGED <<input, out, topoVars, flowVars, accum, seen, snapshots, results>>

\* e is what the simulator runs next.
Runs(e, what) ==
    /\ pc = "run" /\ e \in events /\ e.what = what
    /\ \A f \in events : e.at <= f.at
    /\ events' = events \ {e}

\* Two sinks of a node are to bind one port.  For port 0 each gets a free one.
PortTwice ==
    \E i, j \in DOMAIN sinks : i < j /\ sinks[i] = sinks[j] /\ sinks[i].port # 0

\* The free port a sink got for 0 may be that of a later one of its node.
PortMayBeTaken ==
    \E i, j \in DOMAIN sinks :
        i < j /\ sinks[i].dst = sinks[j].dst /\ sinks[i].port = 0 /\ sinks[j].port # 0

\* The sinks bind their sockets, in order; a bind that fails is fatal.
StartApplications(e) ==
    /\ Runs(e, "StartApplication")
    /\ \/ ~PortTwice /\ UNCHANGED pc
       \/ (PortTwice \/ PortMayBeTaken) /\ pc' = "aborted"
    /\ UNCHANGED <<input, out, topoVars, flowVars, accum, seen, snapshots, results>>

\* lens gives the lengths of the queues at the two ends of every link.
RecordAllQueuesAtSubPoint(e, lens) ==
    /\ Runs(e, "RecordAllQueuesAtSubPoint")
    /\ accum' = [count |-> accum.count + 1,
                 sum |-> [l \in DOMAIN allLinks |-> [side \in 1 .. 2 |->
                            (IF accum.sum = <<>> THEN 0 ELSE accum.sum[l][side]) + lens[l][side]]]]
    /\ seen' = Append(seen, lens)
    /\ UNCHANGED <<input, pc, out, topoVars, flowVars, snapshots, results>>

\* Mutant of Cleared: the number of sub-samples is not reset.
ClearedSums(acc) == [acc EXCEPT !.sum = <<>>]

Cleared(acc) == [count |-> 0, sum |-> <<>>]

\* A snapshot is the sums over their count; without a sub-sample it would be the
\* length at that moment, which never happens (SnapshotsCoverIntervals).
RecordAllQueues(e) ==
    /\ Runs(e, "RecordAllQueues")
    /\ snapshots' = Append(snapshots, accum)
    /\ accum' = Cleared(accum)
    /\ UNCHANGED <<input, pc, out, topoVars, flowVars, seen, results>>

\* Simulator::Run returns, and the results are put together.
Stop(e) ==
    /\ Runs(e, "Stop")
    /\ pc' = "done"
    /\ results' = [i \in DOMAIN allLinks |-> <<"queue", allLinks[i]>>]
                  \o [i \in DOMAIN allLinks |-> <<"util", allLinks[i]>>]
                  \o << <<"throughput">>, <<"delay">>, <<"loss">> >>
    /\ UNCHANGED <<input, out, topoVars, flowVars, accum, seen, snapshots>>

Read == LoadSizeCdf \/ ReadTopology

Prepare == PairsDone \/ DrawsDone \/ InstallFlow \/ ScheduleSamples

Simulate ==
    \E e \in events :
        \/ StartApplications(e)
        \/ \E lens \in [DOMAIN allLinks -> QueueLengths \X QueueLengths] :
               RecordAllQueuesAtSubPoint(e, lens)
        \/ RecordAllQueues(e)
        \/ Stop(e)

Next ==
    \/ Read \/ Prepare
    \/ \E node \in edgeNodes : PickSource(node) \/ PickDestination(node)
    \/ \E u \in 0 .. Percent : Draw(u)
    \/ Simulate

\* Once the files are read, the program keeps running, and draws of one node after
\* the other, each as likely as the others, come upon a different one.
Fairness ==
    /\ WF_vars(Prepare \/ Simulate)
    /\ WF_vars(\E node \in edgeNodes : PickSource(node))
    /\ WF_vars(\E node \in edgeNodes : AnotherNode(node) /\ PickDestination(node))
    /\ WF_vars(\E u \in 0 .. Percent : Draw(u))

Spec == Init /\ [][Next]_vars /\ Fairness

------------------------------------------------------------------------------
\* Links join nodes that exist and flows connect edge nodes, with sinks on
\* nodes that have an address.
TypeOK ==
    /\ pc \in {"sizes", "topology", "pairs", "draw", "flows", "run",
               "done", "failed", "aborted"}
    /\ nodes \in Nat
    /\ \A i \in DOMAIN allLinks : \A side \in 1 .. 2 : allLinks[i][side] \in 0 .. nodes - 1
    /\ \A i \in DOMAIN pairs : pairs[i] \in edgeNodes \X edgeNodes
    /\ src \subseteq edgeNodes /\ Cardinality(src) <= 1
    /\ \A i \in DOMAIN sinks : sinks[i] \in [dst : Ends(allLinks), port : 0 .. PortRange - 1]
    /\ accum.count \in 0 .. SubSamples

\* No percentage is given to two lines: what LoadSizeCdf silently relies on.
OneSizeEach ==
    \A i, j \in DOMAIN input.sizes :
        Clamped(input.sizes[i]).pct = Clamped(input.sizes[j]).pct => i = j

\* The table LoadSizeCdf leaves: percentages rise strictly from 0% to 100%, and
\* sizes never fall, for a file that gives no percentage twice.
TableIsCdf ==
    out # <<>> =>
        /\ Head(out).pct = 0 /\ Last(out).pct = Percent
        /\ \A i \in 1 .. Len(out) - 1 :
             /\ out[i].pct < out[i + 1].pct
             /\ OneSizeEach => out[i].size <= out[i + 1].size

\* The quantile of u by the lines themselves: sizes in the order of the
\* percentages, none below an earlier one, 0 at 0% unless the file says otherwise.
Quantile(u) ==
    LET file == input.sizes
        below == {file[i].size : i \in {j \in DOMAIN file : Clamped(file[j]).pct <= u}}
    IN  IF below = {} THEN 0 ELSE CHOOSE s \in below : \A r \in below : r <= s

\* Sampling agrees with the lines of the file: at a percentage of the file it
\* yields the quantile (at least one byte), and between two it stays between
\* the quantiles around it, up to rounding.
SampleFollowsFile ==
    OneSizeEach => \A d \in ToSet(drawn) :
        LET above == {Clamped(line).pct : line \in ToSet(input.sizes)} \cup {Percent}
            next == CHOOSE p \in above : p >= d.u /\ \A q \in above : q >= d.u => p <= q
        IN  /\ AtLeastOne(Quantile(d.u)) <= d.bytes
            /\ d.bytes <= AtLeastOne(Quantile(next))
            /\ d.u = next => d.bytes = AtLeastOne(Quantile(d.u))

\* main takes every failure of GetStatus for a result (its test "fewer than
\* three numbers" is never true), but a reader of what it prints can tell them
\* apart: a failure shows no link and a negative throughput, a success shows
\* all its links and a throughput.
FailureRecognisable ==
    /\ pc = "failed" => Printed = {} /\ Throughput[1] = "error"
    /\ pc = "done" => NumLinks(Len(results)) = Len(allLinks) /\ Throughput[1] = "throughput"

\* The names main prints, which it reads from the topology file a second time
\* with a parser of its own, are those of the links that were measured, as long
\* as every link of the file joins two nodes that exist.
LinkNamesMatch ==
    (pc = "done" /\ \A i \in DOMAIN linkNodePairs : \A side \in 1 .. 2 :
                        linkNodePairs[i][side] \in 0 .. nodes - 1) =>
        \A p \in Printed : p.queue = <<"queue", p.name>> /\ p.util = <<"util", p.name>>

\* Every rate the program writes is one it can read: no link of the file has a
\* weight of 0, a negative or a huge one, and no flow gets a million Mbps.
RatesParse ==
    /\ ~input.hugeRef
    /\ input.topo # NoFile =>
         \A i \in DOMAIN input.topo : IsLink(input.topo[i]) => Usable(input.topo[i])

\* While the flows fit between the base port and the largest one, every sink has
\* a port of its own, which its client can reach, and no bind fails: if the rates
\* parse and the edge nodes exist, nothing aborts.
SinksReachable ==
    input.flows <= PortRange - BasePort =>
        /\ \A i, j \in DOMAIN sinks :
             sinks[i].port >= BasePort /\ (sinks[i].port = sinks[j].port => i = j)
        /\ (RatesParse /\ \A node \in edgeNodes : Exists(node, nodes)) => pc # "aborted"

\* The sums of the first samples at one end of a link.
SumsUpTo(samples, l, side) ==
    LET sum[i \in 0 .. Len(samples)] ==
          IF i = 0 THEN 0 ELSE sum[i - 1] + samples[i][l][side]
    IN  sum

\* Every interval that begins before the applications stop gets its snapshot
\* before the simulation stops, and the k-th snapshot averages the sub-samples
\* of the k-th interval: all of them and no others.
SnapshotsCoverIntervals ==
    /\ \A k \in DOMAIN snapshots :
         LET own == SubSeq(seen, (k - 1) * SubSamples + 1, k * SubSamples)
         IN  /\ snapshots[k].count = SubSamples
             /\ \A l \in DOMAIN allLinks : \A side \in 1 .. 2 :
                  snapshots[k].sum[l][side] = SumsUpTo(own, l, side)[SubSamples]
    /\ pc = "done" => Len(snapshots) = Cardinality(Starts)

\* GetStatus comes to an end if there are two edge nodes to draw from.  With
\* one, the loop that looks for a destination does not end.
Returns ==
    (pc = "pairs" /\ Cardinality(edgeNodes) > 1) ~> pc \in {"done", "failed", "aborted"}
==============================================================================
