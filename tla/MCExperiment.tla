---------------------------- MODULE MCExperiment ----------------------------
(***************************************************************************)
(* Values for checking Experiment.  Each kind of input is varied with the  *)
(* others held at a plain one: all size files of up to three lines, all    *)
(* topology files of up to MaxTopoLines lines, numbers of flows up to one  *)
(* at which ports repeat, and of intervals in which samples are taken.     *)
(***************************************************************************)
EXTENDS Experiment

CONSTANT MaxTopoLines

Plain(nums) == [tag |-> "plain", nums |-> nums]

SizeLines == [size : {0, 1, 4, 9}, pct : {-1, 0, 2, 5}]

\* Node 2 does not exist if there are two, and node 1 may be without a link.
TopoLines ==
    {Plain(<<>>), Plain(<<2>>), Plain(<<0, 1>>), Plain(<<1, 0, 50>>), Plain(<<0, 1, 0>>),
     Plain(<<0, 2>>),
     [tag |-> "skipped", nums |-> <<>>]}
    \cup {[tag |-> "EDGE_NODES", nums |-> nums] : nums \in {<<1, 1>>, <<1, 2>>}}

OneSize == << [size |-> 4, pct |-> 4] >>

TwoLinks == <<Plain(<<2>>), Plain(<<2>>), Plain(<<0, 1>>), Plain(<<1, 0, 50>>)>>

Given(sizes, topos, flows, stops, huge) ==
    [sizes : sizes, topo : topos, flows : flows, appsStop : stops, hugeRef : huge]

MCInputs ==
    Given(BoundedSeq(SizeLines, 3), {SubSeq(TwoLinks, 1, 3)}, {1}, {0}, {FALSE})
    \cup Given({OneSize}, BoundedSeq(TopoLines, MaxTopoLines) \cup {NoFile}, {1}, {0}, {FALSE})
    \cup Given({OneSize}, {TwoLinks}, 0 .. 4, {0}, BOOLEAN)
    \cup Given({OneSize}, {TwoLinks}, {0}, 1 .. 5, {FALSE})
=============================================================================
