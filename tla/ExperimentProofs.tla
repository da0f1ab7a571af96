--------------------------- MODULE ExperimentProofs ---------------------------
(***************************************************************************)
(* Proofs about the experiment driver: what it makes of the topology file, *)
(* the ports of its flows, the results and the names main prints beside    *)
(* them, the schedule of the samples, and the table of sizes.              *)
(***************************************************************************)
EXTENDS Experiment, SeqSetsProofs, FiniteSetTheorems

\* A function on 1 .. n is a sequence.
LEMMA FunctionIsSeq ==
    ASSUME NEW n \in Nat, NEW S, NEW f \in [1 .. n -> S]
    PROVE  f \in Seq(S) /\ Len(f) = n
<1>1. f \in Seq(S)
  BY IsASeq
<1>2. Len(f) \in Nat /\ DOMAIN f = 1 .. Len(f) /\ DOMAIN f = 1 .. n
  BY <1>1, LenProperties
<1>3. \A a, b \in Nat : 1 .. a = 1 .. b => a = b
  <2>1. SUFFICES ASSUME NEW a \in Nat, NEW b \in Nat, 1 .. a = 1 .. b, a < b
                 PROVE  FALSE
    BY SMT
  <2>2. b \in 1 .. b /\ b \notin 1 .. a
    BY <2>1, SMT
  <2>3. QED
    BY <2>1, <2>2
<1>4. QED
  BY <1>1, <1>2, <1>3

------------------------------------------------------------------------------
\* The topology file.

\* The least of the indices behind i that are in P, or n + 1.
LEMMA FirstBehind ==
    ASSUME NEW n \in Nat, NEW i \in Nat, NEW P, NEW T,
           \A j : j \in T <=> (j \in i + 1 .. n /\ j \in P) \/ j = n + 1
    PROVE  /\ Min(T) \in 1 .. n + 1 /\ Min(T) \in Nat
           /\ Min(T) # n + 1 => Min(T) \in P /\ Min(T) > i
           /\ \A j \in i + 1 .. Min(T) - 1 : j \notin P
<1>1. T \subseteq Nat /\ n + 1 \in T
  BY SMT
<1>2. \E x \in T : \A y \in T : x <= y
  BY <1>1, NatMinimum
<1>3. Min(T) \in T /\ \A y \in T : Min(T) <= y
  BY <1>2 DEF Min
<1>4. Min(T) \in 1 .. n + 1 /\ (Min(T) # n + 1 => Min(T) \in P /\ Min(T) > i)
  BY <1>3, SMT
<1>5. ASSUME NEW j \in i + 1 .. Min(T) - 1, j \in P PROVE FALSE
  <2>1. j \in i + 1 .. n /\ ~(Min(T) <= j)
    BY <1>4, SMT
  <2>2. j \in T
    BY <1>5, <2>1
  <2>3. QED
    BY <1>3, <2>1, <2>2
<1>6. Min(T) \in Nat
  BY <1>4, SMT
<1>7. QED
  BY <1>4, <1>5, <1>6

\* What NextLine returns, for a property that the lines in P have.
LEMMA NextCounts ==
    ASSUME NEW lines \in Seq(TopoLine), NEW i \in Nat, NEW next,
           next = NextLine(lines, i, Counts)
    PROVE  /\ next \in 1 .. Len(lines) + 1 /\ next \in Nat
           /\ next # Len(lines) + 1 => Counts(lines[next])
<1> DEFINE P == {j \in 1 .. Len(lines) : Counts(lines[j])}
           T == {j \in i + 1 .. Len(lines) : Counts(lines[j])} \cup {Len(lines) + 1}
<1>1. Len(lines) \in Nat /\ next = Min(T)
  BY LenProperties DEF NextLine
<1>2. \A j : j \in T <=> (j \in i + 1 .. Len(lines) /\ j \in P) \/ j = Len(lines) + 1
  <2>1. \A j \in i + 1 .. Len(lines) : j \in 1 .. Len(lines)
    BY <1>1, SMT
  <2>2. QED
    BY <2>1
<1> HIDE DEF T, P
<1>3. Min(T) \in 1 .. Len(lines) + 1 /\ Min(T) \in Nat /\ (Min(T) # Len(lines) + 1 => Min(T) \in P)
  BY <1>1, <1>2, FirstBehind
<1>4. QED
  BY <1>1, <1>3 DEF P

\* The next plain line is behind i, and all lines between the two are not plain.
LEMMA NextPlain ==
    ASSUME NEW lines \in Seq(TopoLine), NEW i \in Nat, NEW next,
           next = NextLine(lines, i, IsPlain)
    PROVE  /\ next \in 1 .. Len(lines) + 1 /\ next \in Nat
           /\ next # Len(lines) + 1 => next > i
           /\ \A j \in i + 1 .. next - 1 : ~IsPlain(lines[j])
<1> DEFINE P == {j \in 1 .. Len(lines) : IsPlain(lines[j])}
           T == {j \in i + 1 .. Len(lines) : IsPlain(lines[j])} \cup {Len(lines) + 1}
<1>1. Len(lines) \in Nat /\ next = Min(T)
  BY LenProperties DEF NextLine
<1>2. \A j : j \in T <=> (j \in i + 1 .. Len(lines) /\ j \in P) \/ j = Len(lines) + 1
  <2>1. \A j \in i + 1 .. Len(lines) : j \in 1 .. Len(lines)
    BY <1>1, SMT
  <2>2. QED
    BY <2>1
<1> HIDE DEF T, P
<1>3. /\ Min(T) \in 1 .. Len(lines) + 1 /\ Min(T) \in Nat
      /\ Min(T) # Len(lines) + 1 => Min(T) > i
      /\ \A j \in i + 1 .. Min(T) - 1 : j \notin P
  BY <1>1, <1>2, FirstBehind
<1>4. \A j \in i + 1 .. next - 1 : j \in 1 .. Len(lines)
  BY <1>1, <1>3, SMT
<1>5. QED
  BY <1>1, <1>3, <1>4 DEF P

\* The header is in front of the links, and its numbers are numbers.
LEMMA HeaderTyped ==
    ASSUME NEW lines \in Seq(TopoLine)
    PROVE  /\ NodesAt(lines) \in 1 .. Len(lines) + 1
           /\ CountAt(lines) \in 1 .. Len(lines) + 1
           /\ LinksFrom(lines) \in 1 .. Len(lines) + 1
           /\ CountAt(lines) < Len(lines) + 1 => CountAt(lines) < LinksFrom(lines)
           /\ LinksFrom(lines) # Len(lines) + 1 => LinksFrom(lines) > CountAt(lines)
           /\ \A j \in CountAt(lines) + 1 .. LinksFrom(lines) - 1 : ~IsPlain(lines[j])
           /\ NumberAt(lines, NodesAt(lines)) \in Int
           /\ NumberAt(lines, CountAt(lines)) \in Int
<1> DEFINE n == Len(lines)
<1>1. n \in Nat /\ 0 \in Nat
  BY LenProperties
<1>2. /\ NodesAt(lines) \in 1 .. n + 1 /\ NodesAt(lines) \in Nat
      /\ NodesAt(lines) # n + 1 => Counts(lines[NodesAt(lines)])
  BY <1>1, NextCounts DEF NodesAt
<1>3. /\ CountAt(lines) \in 1 .. n + 1 /\ CountAt(lines) \in Nat
      /\ CountAt(lines) # n + 1 => Counts(lines[CountAt(lines)])
  BY <1>2, NextCounts DEF CountAt
<1>4. /\ LinksFrom(lines) \in 1 .. n + 1
      /\ LinksFrom(lines) # n + 1 => LinksFrom(lines) > CountAt(lines)
      /\ \A j \in CountAt(lines) + 1 .. LinksFrom(lines) - 1 : ~IsPlain(lines[j])
  BY <1>3, NextPlain DEF LinksFrom
<1>5. \A i \in 1 .. n + 1 : (i # n + 1 => Counts(lines[i])) => NumberAt(lines, i) \in Int
  <2>1. SUFFICES ASSUME NEW i \in 1 .. n + 1, i # n + 1 => Counts(lines[i])
                 PROVE  NumberAt(lines, i) \in Int
    OBVIOUS
  <2>2. CASE i > n
    BY <2>2 DEF NumberAt
  <2>3. CASE i <= n
    <3>1. i # n + 1 /\ ~(i > n) /\ i \in 1 .. n
      BY <1>1, <2>3, SMT
    <3>2. lines[i] \in TopoLine /\ Counts(lines[i])
      BY <2>1, <3>1, ElementOfSeq
    <3>3. lines[i].nums \in Seq(Int) /\ lines[i].nums # <<>>
      BY <3>2 DEF TopoLine, Counts
    <3>4. Head(lines[i].nums) \in Int
      BY <3>3, ElemsHeadTail
    <3>5. QED
      BY <3>1, <3>4 DEF NumberAt
  <2>4. QED
    BY <1>1, <2>2, <2>3, SMT
<1>6. CountAt(lines) < n + 1 => CountAt(lines) < LinksFrom(lines)
  BY <1>1, <1>3, <1>4, SMT
<1>7. QED
  BY <1>2, <1>3, <1>4, <1>5, <1>6

\* The end of a sequence, from position a.
LEMMA SuffixProperties ==
    ASSUME NEW S, NEW s \in Seq(S), NEW a \in 1 .. Len(s) + 1
    PROVE  /\ SubSeq(s, a, Len(s)) \in Seq(S)
           /\ Len(SubSeq(s, a, Len(s))) = Len(s) - a + 1
           /\ Len(SubSeq(s, a, Len(s))) \in Nat
           /\ \A i \in 1 .. Len(s) - a + 1 : SubSeq(s, a, Len(s))[i] = s[a + i - 1]
           /\ Elems(SubSeq(s, a, Len(s))) \subseteq Elems(s)
<1> DEFINE t == SubSeq(s, a, Len(s))
<1>1. Len(s) \in Nat /\ a \in Int /\ Len(s) \in Int /\ \A i \in a .. Len(s) : i \in 1 .. Len(s)
  BY LenProperties, SMT
<1>2. \A i \in a .. Len(s) : s[i] \in S
  BY <1>1, ElementOfSeq
<1>3. /\ t \in Seq(S) /\ Len(t) = IF a <= Len(s) THEN Len(s) - a + 1 ELSE 0
      /\ \A i \in 1 .. Len(s) - a + 1 : t[i] = s[a + i - 1]
  BY <1>1, <1>2, SubSeqProperties
<1> HIDE DEF t
<1>4. Len(t) = Len(s) - a + 1 /\ Len(t) \in Nat
  BY <1>1, <1>3, SMT
<1>5. \A i \in 1 .. Len(t) : t[i] = s[a + i - 1] /\ a + i - 1 \in 1 .. Len(s)
  BY <1>1, <1>3, <1>4, SMT
<1>6. Elems(t) \subseteq Elems(s)
  BY <1>5 DEF Elems
<1>7. QED
  BY <1>3, <1>4, <1>6 DEF t

\* The end of an end of a sequence is an end of the sequence.
LEMMA SuffixOfSuffix ==
    ASSUME NEW S, NEW s \in Seq(S), NEW a \in 1 .. Len(s) + 1, NEW b \in a .. Len(s) + 1,
           NEW t, t = SubSeq(s, a, Len(s))
    PROVE  SubSeq(t, b - a + 1, Len(t)) = SubSeq(s, b, Len(s))
<1> DEFINE u == SubSeq(t, b - a + 1, Len(t))
           v == SubSeq(s, b, Len(s))
<1>1. Len(s) \in Nat /\ a \in Int /\ b \in Int /\ b \in 1 .. Len(s) + 1
  BY LenProperties, SMT
<1>2. /\ t \in Seq(S) /\ Len(t) = Len(s) - a + 1 /\ Len(t) \in Nat
      /\ \A i \in 1 .. Len(s) - a + 1 : t[i] = s[a + i - 1]
  BY SuffixProperties
<1>3. b - a + 1 \in 1 .. Len(t) + 1
  BY <1>1, <1>2, SMT
<1>4. /\ u \in Seq(S) /\ Len(u) = Len(t) - (b - a + 1) + 1
      /\ \A i \in 1 .. Len(t) - (b - a + 1) + 1 : u[i] = t[b - a + 1 + i - 1]
  BY <1>2, <1>3, SuffixProperties
<1>5. /\ v \in Seq(S) /\ Len(v) = Len(s) - b + 1
      /\ \A i \in 1 .. Len(s) - b + 1 : v[i] = s[b + i - 1]
  BY <1>1, SuffixProperties
<1> HIDE DEF u, v
<1>6. Len(u) = Len(v) /\ Len(v) = Len(s) - b + 1
  BY <1>1, <1>2, <1>4, <1>5, SMT
<1>7. ASSUME NEW i \in 1 .. Len(u) PROVE u[i] = v[i]
  <2>1. /\ i \in 1 .. Len(s) - b + 1 /\ i \in 1 .. Len(t) - (b - a + 1) + 1
        /\ b - a + 1 + i - 1 \in 1 .. Len(s) - a + 1
        /\ a + (b - a + 1 + i - 1) - 1 = b + i - 1
    BY <1>1, <1>2, <1>6, SMT
  <2>2. u[i] = t[b - a + 1 + i - 1] /\ v[i] = s[b + i - 1]
    BY <1>4, <1>5, <2>1
  <2>3. t[b - a + 1 + i - 1] = s[a + (b - a + 1 + i - 1) - 1]
    BY <1>2, <2>1
  <2>4. QED
    BY <2>1, <2>2, <2>3
<1>8. u = v
  BY <1>4, <1>5, <1>6, <1>7, SeqEqual
<1>9. QED
  BY <1>8 DEF u, v

\* A link of the file whose ends exist.
LEMMA LinkOfNodes ==
    ASSUME NEW line \in TopoLine, NEW n \in Nat, IsLink(line)
    PROVE  /\ PairOf(line) \in Int \X Int
           /\ PairOf(line)[1] = line.nums[1] /\ PairOf(line)[2] = line.nums[2]
           /\ (\A i \in 1 .. 2 : Exists(line.nums[i], n)) =>
                 PairOf(line) \in (0 .. n - 1) \X (0 .. n - 1)
<1>1. line.nums \in Seq(Int) /\ Len(line.nums) >= 2 /\ Len(line.nums) \in Nat
  BY LenProperties DEF TopoLine, IsLink
<1>2. 1 \in 1 .. Len(line.nums) /\ 2 \in 1 .. Len(line.nums) /\ 1 \in 1 .. 2 /\ 2 \in 1 .. 2
  BY <1>1, SMT
<1>3. line.nums[1] \in Int /\ line.nums[2] \in Int
  BY <1>1, <1>2, ElementOfSeq
<1>4. QED
  BY <1>2, <1>3 DEF PairOf, Exists

\* Installed links join nodes that exist.
LEMMA InstalledTyped ==
    ASSUME NEW lines \in Seq(TopoLine), NEW n \in Nat
    PROVE  Installed(lines, n) \in Seq((0 .. n - 1) \X (0 .. n - 1))
<1> DEFINE ofNodes == {line \in ToSet(lines) : JoinsNodes(line, n)}
           behind == SubSeq(lines, LinksFrom(lines), Len(lines))
           installed == Filter(behind, ofNodes)
<1>1. behind \in Seq(TopoLine)
  BY HeaderTyped, SuffixProperties
<1> HIDE DEF behind
<1>2. installed \in Seq(TopoLine) /\ Elems(installed) \subseteq ofNodes
  BY <1>1, FilterProperties
<1>3. Len(installed) \in Nat /\ DOMAIN installed = 1 .. Len(installed)
  BY <1>2, LenProperties
<1> HIDE DEF installed
<1>4. \A i \in 1 .. Len(installed) : installed[i] \in ofNodes /\ installed[i] \in TopoLine
  BY <1>2, ElementOfSeq DEF Elems
<1>5. \A i \in 1 .. Len(installed) : PairOf(installed[i]) \in (0 .. n - 1) \X (0 .. n - 1)
  BY <1>4, LinkOfNodes DEF JoinsNodes
<1>6. [i \in DOMAIN installed |-> PairOf(installed[i])]
          \in [1 .. Len(installed) -> (0 .. n - 1) \X (0 .. n - 1)]
  BY <1>3, <1>5
<1>7. [i \in DOMAIN installed |-> PairOf(installed[i])] \in Seq((0 .. n - 1) \X (0 .. n - 1))
  BY <1>3, <1>6, FunctionIsSeq
<1>8. QED
  BY <1>7 DEF Installed, installed, behind

\* The links that main names, if all of them join nodes that exist.
LEMMA NamesAgree ==
    ASSUME NEW lines \in Seq(TopoLine), NEW n \in Nat, NEW named,
           named = Filter(SubSeq(lines, CountAt(lines) + 1, Len(lines)),
                          {line \in ToSet(lines) : IsLink(line)}),
           \A i \in DOMAIN named : \A side \in 1 .. 2 : PairOf(named[i])[side] \in 0 .. n - 1
    PROVE  Installed(lines, n) = [i \in DOMAIN named |-> PairOf(named[i])]
<1> DEFINE N == Len(lines)
           c == CountAt(lines)
           f == LinksFrom(lines)
           links == {line \in ToSet(lines) : IsLink(line)}
           ofNodes == {line \in ToSet(lines) : JoinsNodes(line, n)}
           header == SubSeq(lines, c + 1, N)
           behind == SubSeq(lines, f, N)
<1>1. /\ N \in Nat /\ c \in 1 .. N + 1 /\ f \in 1 .. N + 1
      /\ c < N + 1 => c < f
      /\ f # N + 1 => f > c
      /\ \A j \in c + 1 .. f - 1 : ~IsPlain(lines[j])
      /\ DOMAIN lines = 1 .. N
  BY HeaderTyped, LenProperties
<1>2. behind \in Seq(TopoLine) /\ Elems(behind) \subseteq Elems(lines)
  BY <1>1, SuffixProperties
<1>3. Filter(header, links) = Filter(behind, links)
  <2>1. CASE c = N + 1
    <3>1. f = N + 1
      BY <1>1, <2>1, SMT
    <3>2. N < c + 1 /\ N < f /\ c + 1 \in Int /\ f \in Int /\ N \in Int
      BY <1>1, <2>1, <3>1, SMT
    <3>3. header = <<>> /\ behind = <<>>
      BY <3>2, SubSeqEmpty
    <3>4. QED
      BY <3>3
  <2>2. CASE c < N + 1
    <3> DEFINE m == f - (c + 1)
    <3>1. c + 1 \in 1 .. N + 1 /\ f \in c + 1 .. N + 1
      BY <1>1, <2>2, SMT
    <3>2. /\ header \in Seq(TopoLine) /\ Len(header) = N - (c + 1) + 1
          /\ \A i \in 1 .. N - (c + 1) + 1 : header[i] = lines[c + 1 + i - 1]
      BY <3>1, SuffixProperties
    <3>3. SubSeq(header, f - (c + 1) + 1, Len(header)) = behind
      BY <3>1, SuffixOfSuffix
    <3> HIDE DEF header, behind
    <3>4. m \in 0 .. Len(header)
      BY <1>1, <3>1, <3>2, SMT
    <3>5. ASSUME NEW i \in 1 .. m PROVE header[i] \notin links
      <4>1. i \in 1 .. N - (c + 1) + 1 /\ c + 1 + i - 1 \in c + 1 .. f - 1
        BY <1>1, <3>1, <3>2, <3>4, SMT
      <4>2. header[i] = lines[c + 1 + i - 1] /\ ~IsPlain(lines[c + 1 + i - 1])
        BY <1>1, <3>2, <4>1
      <4>3. QED
        BY <4>2 DEF IsLink, IsPlain
    <3> HIDE DEF links
    <3>6. Filter(header, links) = Filter(SubSeq(header, m + 1, Len(header)), links)
      BY <3>2, <3>4, <3>5, FilterDropsFront
    <3>7. QED
      BY <3>3, <3>6
  <2>3. QED
    BY <1>1, <2>1, <2>2, SMT
<1>4. named = Filter(behind, links)
  BY <1>3
<1>5. /\ named \in Seq(TopoLine) /\ Elems(named) = Elems(behind) \cap links
  <2> HIDE DEF links, behind
  <2>1. /\ Filter(behind, links) \in Seq(TopoLine)
        /\ Elems(Filter(behind, links)) = Elems(behind) \cap links
    BY <1>2, FilterProperties
  <2>2. QED
    BY <1>4, <2>1, Zenon
<1>6. \A e \in Elems(behind) : e \in links <=> e \in ofNodes
  <2>1. SUFFICES ASSUME NEW e \in Elems(behind), e \in links PROVE e \in ofNodes
    BY DEF JoinsNodes
  <2>2. e \in Elems(named)
    BY <1>5, <2>1
  <2>3. PICK i \in 1 .. Len(named) : named[i] = e
    BY <2>2 DEF Elems
  <2>4. i \in DOMAIN named /\ e \in TopoLine
    BY <1>5, <2>3, LenProperties, ElementOfSeq
  <2>5. PairOf(e)[1] \in 0 .. n - 1 /\ PairOf(e)[2] \in 0 .. n - 1
    <3>1. 1 \in 1 .. 2 /\ 2 \in 1 .. 2
      BY SMT
    <3>2. QED
      BY <2>3, <2>4, <3>1
  <2>6. IsLink(e) /\ PairOf(e)[1] = e.nums[1] /\ PairOf(e)[2] = e.nums[2]
    BY <2>1, <2>4, LinkOfNodes
  <2>7. \A side \in 1 .. 2 : side = 1 \/ side = 2
    BY SMT
  <2>8. \A side \in 1 .. 2 : Exists(e.nums[side], n)
    BY <2>5, <2>6, <2>7 DEF Exists
  <2>9. QED
    BY <2>1, <2>6, <2>8 DEF JoinsNodes
<1>7. named = Filter(behind, ofNodes)
  <2> HIDE DEF links, ofNodes, behind
  <2>1. QED
    BY <1>2, <1>4, <1>6, FilterAgrees
<1>8. QED
  BY <1>7 DEF Installed

\* The names main reads, and the links GetStatus installs, are sequences.
LEMMA NamesTyped ==
    ASSUME NEW lines \in Seq(TopoLine), input.topo = lines
    PROVE  /\ Len(linkNodePairs) \in Nat /\ DOMAIN linkNodePairs = 1 .. Len(linkNodePairs)
           /\ input.topo # NoFile =>
                \A n \in Nat :
                   (\A i \in DOMAIN linkNodePairs : \A side \in 1 .. 2 :
                       linkNodePairs[i][side] \in 0 .. n - 1)
                   => Installed(lines, n) = linkNodePairs
<1> DEFINE links == {line \in ToSet(lines) : IsLink(line)}
           header == SubSeq(lines, CountAt(lines) + 1, Len(lines))
           named == Filter(header, links)
<1>1. CASE input.topo = NoFile
  <2>1. linkNodePairs = <<>>
    BY <1>1 DEF linkNodePairs
  <2>2. <<>> \in Seq({}) /\ Len(<<>>) = 0
    BY EmptySeq
  <2>3. DOMAIN <<>> = 1 .. Len(<<>>) /\ Len(<<>>) \in Nat
    BY <2>2, LenProperties
  <2>4. QED
    BY <1>1, <2>1, <2>3
<1>2. CASE input.topo # NoFile
  <2>1. linkNodePairs = [i \in DOMAIN named |-> PairOf(named[i])]
    BY <1>2 DEF linkNodePairs
  <2>2. header \in Seq(TopoLine)
    <3>1. CountAt(lines) \in 1 .. Len(lines) + 1 /\ Len(lines) \in Nat
      BY HeaderTyped, LenProperties
    <3>2. \A i \in CountAt(lines) + 1 .. Len(lines) : i \in 1 .. Len(lines)
      BY <3>1, SMT
    <3>3. \A i \in CountAt(lines) + 1 .. Len(lines) : lines[i] \in TopoLine
      BY <3>2, ElementOfSeq
    <3>4. CountAt(lines) + 1 \in Int /\ Len(lines) \in Int
      BY <3>1, SMT
    <3>5. QED
      BY <3>3, <3>4, SubSeqProperties
  <2> HIDE DEF header, links
  <2>3. named \in Seq(TopoLine)
    BY <2>2, FilterProperties
  <2>4. Len(named) \in Nat /\ DOMAIN named = 1 .. Len(named)
    BY <2>3, LenProperties
  <2>5. \A n \in Nat :
           (\A i \in DOMAIN linkNodePairs : \A side \in 1 .. 2 :
               linkNodePairs[i][side] \in 0 .. n - 1)
           => Installed(lines, n) = linkNodePairs
    <3>1. SUFFICES ASSUME NEW n \in Nat,
                          \A i \in DOMAIN linkNodePairs : \A side \in 1 .. 2 :
                              linkNodePairs[i][side] \in 0 .. n - 1
                   PROVE  Installed(lines, n) = linkNodePairs
      OBVIOUS
    <3>2. \A i \in DOMAIN named : \A side \in 1 .. 2 : PairOf(named[i])[side] \in 0 .. n - 1
      <4> HIDE DEF named
      <4>1. QED
        BY <2>1, <3>1
    <3>3. named = Filter(SubSeq(lines, CountAt(lines) + 1, Len(lines)),
                         {line \in ToSet(lines) : IsLink(line)})
      BY DEF header, links
    <3> HIDE DEF named
    <3>4. Installed(lines, n) = [i \in DOMAIN named |-> PairOf(named[i])]
      BY <3>2, <3>3, NamesAgree
    <3>5. QED
      BY <2>1, <3>4
  <2> HIDE DEF named
  <2>6. linkNodePairs \in [1 .. Len(named) -> {PairOf(named[i]) : i \in 1 .. Len(named)}]
    BY <2>1, <2>4
  <2>7. /\ linkNodePairs \in Seq({PairOf(named[i]) : i \in 1 .. Len(named)})
        /\ Len(linkNodePairs) = Len(named)
    BY <2>4, <2>6, FunctionIsSeq
  <2>8. QED
    BY <2>4, <2>5, <2>6, <2>7
<1>3. QED
  BY <1>1, <1>2

------------------------------------------------------------------------------
\* The invariant.

\* The topology is read.
Built == pc \in {"pairs", "draw", "flows", "run", "done"}

\* The links are those installed from the file.
TopologyOK ==
    /\ input \in [sizes : Seq(SizeLine), topo : {NoFile} \cup Seq(TopoLine),
                  flows : Nat, appsStop : Nat, hugeRef : BOOLEAN]
    /\ pc \in {"sizes", "topology", "pairs", "draw", "flows", "run",
               "done", "failed", "aborted"}
    /\ nodes \in Nat
    /\ allLinks \in Seq((0 .. nodes - 1) \X (0 .. nodes - 1))
    /\ Built => /\ input.topo # NoFile
                /\ allLinks = Installed(input.topo, nodes)

\* Pairs are of edge nodes, and the i-th sink has the port for flow i - 1.
FlowsOK ==
    /\ pc \in {"sizes", "topology"} => pairs = <<>> /\ sinks = <<>>
    /\ pc # "pairs" => src = {}
    /\ pairs \in Seq(edgeNodes \X edgeNodes) /\ Len(pairs) <= input.flows
    /\ src # {} => (\E node \in edgeNodes : src = {node}) /\ Len(pairs) < input.flows
    /\ sinks \in Seq([dst : Ends(allLinks), port : 0 .. PortRange - 1])
    /\ Len(sinks) <= Len(pairs)
    /\ \A i \in 1 .. Len(sinks) : sinks[i].port = Port(i - 1)

Reachable ==
    /\ input.flows <= PortRange - BasePort
    /\ RatesParse
    /\ \A node \in edgeNodes : Exists(node, nodes)

AbortsOK == Reachable => pc # "aborted"

\* The vector GetStatus returns.
ResultsOK ==
    /\ pc = "failed" =>
         \E code \in Int : results = [i \in 1 .. 4 |-> <<"error", code>>]
    /\ pc = "done" =>
         results = [i \in DOMAIN allLinks |-> <<"queue", allLinks[i]>>]
                   \o [i \in DOMAIN allLinks |-> <<"util", allLinks[i]>>]
                   \o << <<"throughput">>, <<"delay">>, <<"loss">> >>

DriverOK == TopologyOK /\ FlowsOK /\ AbortsOK /\ ResultsOK

\* The ports of flows that fit behind the base port.
LEMMA PortsApart ==
    ASSUME NEW n \in Nat, n <= PortRange - BasePort
    PROVE  /\ \A i \in 0 .. n - 1 : Port(i) = BasePort + i
           /\ \A i \in Nat : Port(i) \in 0 .. PortRange - 1
<1>1. PortRange \in Nat \ {0} /\ BasePort \in 1 .. PortRange - 1
  BY ExperimentAssumption
<1>2. \A i \in 0 .. n - 1 : BasePort + i \in 0 .. PortRange - 1
  BY <1>1, SMT
<1>3. \A a \in 0 .. PortRange - 1 : a % PortRange = a
  BY <1>1, SMT
<1>4. \A a \in Nat : a % PortRange \in 0 .. PortRange - 1
  BY <1>1, SMT
<1>5. \A i \in Nat : BasePort + i \in Nat
  BY <1>1, SMT
<1>6. QED
  BY <1>2, <1>3, <1>4, <1>5 DEF Port

\* Before the files are read nothing is installed and nothing returned.
LEMMA DriverInit == Init => DriverOK
<1>1. SUFFICES ASSUME Init PROVE DriverOK
  OBVIOUS
<1>2. \A S : <<>> \in Seq(S) /\ Len(<<>>) = 0
  BY EmptySeq
<1>3. input \in [sizes : Seq(SizeLine), topo : {NoFile} \cup Seq(TopoLine),
                 flows : Nat, appsStop : Nat, hugeRef : BOOLEAN]
  BY <1>1, InputAssumption DEF Init
<1>4. TopologyOK
  BY <1>1, <1>2, <1>3 DEF Init, TopologyOK, Built
<1>5. FlowsOK
  <2>1. 0 <= input.flows /\ \A i \in 1 .. 0 : FALSE
    BY <1>3, SMT
  <2>2. QED
    BY <1>1, <1>2, <2>1 DEF Init, FlowsOK
<1>6. AbortsOK /\ ResultsOK
  BY <1>1 DEF Init, AbortsOK, ResultsOK
<1>7. QED
  BY <1>4, <1>5, <1>6 DEF DriverOK

\* A failure is told by four numbers.
LEMMA FailsSafe ==
    ASSUME NEW code \in Int, Fails(code)
    PROVE  ResultsOK' /\ pc' = "failed"
BY DEF Fails, ResultsOK

\* Reading the size file leaves topology, flows and results alone, or fails.
LEMMA LoadSizeCdfSafe ==
    ASSUME DriverOK, LoadSizeCdf
    PROVE  DriverOK'
<1>1. TopologyOK /\ FlowsOK /\ AbortsOK /\ ResultsOK
  BY DEF DriverOK
<1>2. pc = "sizes" /\ UNCHANGED <<input, nodes, edgeNodes, allLinks, pairs, src, sinks>>
  BY DEF LoadSizeCdf, topoVars, flowVars
<1>3. CASE Fails(-6)
  <2>1. pc' = "failed" /\ ResultsOK'
    <3>1. -6 \in Int
      BY SMT
    <3>2. QED
      BY <1>3, <3>1, FailsSafe
  <2>2. QED
    BY <1>1, <1>2, <2>1
    DEF DriverOK, TopologyOK, Built, FlowsOK, AbortsOK, Reachable, RatesParse
<1>4. CASE pc' = "topology"
  BY <1>1, <1>2, <1>4
  DEF DriverOK, TopologyOK, Built, FlowsOK, AbortsOK, Reachable, RatesParse, ResultsOK
<1>5. QED
  BY <1>3, <1>4 DEF LoadSizeCdf

\* Reading the topology file installs links between nodes that exist, or fails.
LEMMA ReadTopologySafe ==
    ASSUME DriverOK, ReadTopology
    PROVE  DriverOK'
<1>1. TopologyOK /\ FlowsOK /\ AbortsOK /\ ResultsOK
  BY DEF DriverOK
<1>2. /\ pc = "topology" /\ UNCHANGED <<input, pairs, src, sinks>>
      /\ pairs = <<>> /\ src = {} /\ sinks = <<>>
  BY <1>1 DEF ReadTopology, flowVars, FlowsOK
<1>3. -1 \in Int /\ -2 \in Int /\ -4 \in Int
  BY SMT
<1> DEFINE lines == input.topo
           numNodes == NumberAt(lines, NodesAt(lines))
           links == Installed(lines, numNodes)
<1>4. \/ (Fails(-1) \/ Fails(-2)) /\ UNCHANGED topoVars
      \/ /\ lines # NoFile /\ ~(numNodes <= 0)
         /\ nodes' = numNodes /\ allLinks' = links
         /\ (Fails(-4) \/ (pc' = "pairs" /\ UNCHANGED results))
      \/ /\ lines # NoFile /\ pc' = "aborted" /\ UNCHANGED <<topoVars, results>>
         /\ \E i \in LinksFrom(lines) .. Len(lines) :
              JoinsNodes(lines[i], numNodes) /\ ~Usable(lines[i])
  <2> HIDE DEF numNodes, links
  <2>1. QED
    BY DEF ReadTopology, numNodes, links
<1>5. CASE (Fails(-1) \/ Fails(-2)) /\ UNCHANGED topoVars
  <2>1. pc' = "failed" /\ ResultsOK'
    BY <1>3, <1>5, FailsSafe
  <2>2. UNCHANGED <<nodes, edgeNodes, allLinks>>
    BY <1>5 DEF topoVars
  <2>3. QED
    BY <1>1, <1>2, <2>1, <2>2
    DEF DriverOK, TopologyOK, Built, FlowsOK, AbortsOK, Reachable, RatesParse
<1>6. CASE /\ lines # NoFile /\ ~(numNodes <= 0)
           /\ nodes' = numNodes /\ allLinks' = links
           /\ (Fails(-4) \/ (pc' = "pairs" /\ UNCHANGED results))
  <2>1. lines \in Seq(TopoLine)
    BY <1>1, <1>6 DEF TopologyOK
  <2>2. numNodes \in Int
    BY <2>1, HeaderTyped
  <2>3. numNodes \in Nat
    <3> HIDE DEF numNodes
    <3>1. QED
      BY <1>6, <2>2, SMT
  <2>4. links \in Seq((0 .. numNodes - 1) \X (0 .. numNodes - 1))
    <3> HIDE DEF numNodes, lines
    <3>1. QED
      BY <2>1, <2>3, InstalledTyped
  <2>5. pc' \in {"failed", "pairs"} /\ ResultsOK'
    <3>1. CASE Fails(-4)
      BY <1>3, <3>1, FailsSafe
    <3>2. CASE pc' = "pairs"
      BY <3>2 DEF ResultsOK
    <3>3. QED
      BY <1>6, <3>1, <3>2
  <2>6. allLinks' = Installed(input'.topo, nodes') /\ input'.topo # NoFile
    BY <1>2, <1>6
  <2>7. TopologyOK'
    <3> HIDE DEF numNodes, links
    <3>1. QED
      BY <1>1, <1>2, <1>6, <2>3, <2>4, <2>5, <2>6 DEF TopologyOK
  <2>8. FlowsOK'
    <3>1. \A S : <<>> \in Seq(S)
      BY EmptySeq
    <3>2. pairs' = <<>> /\ src' = {} /\ sinks' = <<>> /\ input' = input
      BY <1>2
    <3>3. Len(<<>>) <= Len(<<>>) /\ Len(<<>>) <= input.flows /\ \A i \in 1 .. Len(<<>>) : FALSE
      <4>1. Len(<<>>) = 0 /\ input.flows \in Nat
        BY <1>1, EmptySeq DEF TopologyOK
      <4>2. QED
        BY <4>1, SMT
    <3>4. QED
      BY <3>1, <3>2, <3>3 DEF FlowsOK
  <2>9. AbortsOK'
    BY <2>5 DEF AbortsOK
  <2>10. QED
    BY <2>5, <2>7, <2>8, <2>9 DEF DriverOK
<1>7. CASE /\ lines # NoFile /\ pc' = "aborted" /\ UNCHANGED <<topoVars, results>>
           /\ \E i \in LinksFrom(lines) .. Len(lines) :
                JoinsNodes(lines[i], numNodes) /\ ~Usable(lines[i])
  <2>1. PICK i \in LinksFrom(lines) .. Len(lines) : IsLink(lines[i]) /\ ~Usable(lines[i])
    BY <1>7 DEF JoinsNodes
  <2>2. lines \in Seq(TopoLine)
    BY <1>1, <1>7 DEF TopologyOK
  <2>3. i \in DOMAIN lines
    <3>1. LinksFrom(lines) \in 1 .. Len(lines) + 1 /\ Len(lines) \in Nat
          /\ DOMAIN lines = 1 .. Len(lines)
      <4> HIDE DEF lines
      <4>1. QED
        BY <2>2, HeaderTyped, LenProperties
    <3>2. \A f, n \in Nat : \A k \in f .. n : 1 <= f => k \in 1 .. n
      BY SMT
    <3>3. LinksFrom(lines) \in Nat /\ 1 <= LinksFrom(lines)
      BY <3>1, SMT
    <3> HIDE DEF lines
    <3>4. QED
      BY <3>1, <3>2, <3>3
  <2>4. ~RatesParse
    BY <1>7, <2>1, <2>3 DEF RatesParse
  <2>5. UNCHANGED <<nodes, edgeNodes, allLinks, results>>
    BY <1>7 DEF topoVars
  <2>6. AbortsOK'
    BY <1>2, <2>4 DEF AbortsOK, Reachable, RatesParse
  <2>7. TopologyOK' /\ FlowsOK' /\ ResultsOK'
    BY <1>1, <1>2, <1>7, <2>5 DEF TopologyOK, FlowsOK, ResultsOK, Built
  <2>8. QED
    BY <2>6, <2>7 DEF DriverOK
<1>8. QED
  BY <1>4, <1>5, <1>6, <1>7

\* A step of "pairs", "draw", "flows" or "run" that leaves the topology and what
\* it was given alone.
LEMMA TopologyKept ==
    ASSUME TopologyOK, AbortsOK, pc \in {"pairs", "draw", "flows", "run"},
           UNCHANGED <<input, nodes, edgeNodes, allLinks>>,
           pc' \in {"pairs", "draw", "flows", "run", "done", "failed"}
    PROVE  TopologyOK' /\ AbortsOK'
BY DEF TopologyOK, Built, AbortsOK, Reachable, RatesParse

\* A source is an edge node.
LEMMA PickSourceSafe ==
    ASSUME DriverOK, NEW node \in edgeNodes, PickSource(node)
    PROVE  DriverOK'
<1>1. TopologyOK /\ FlowsOK /\ AbortsOK /\ ResultsOK
  BY DEF DriverOK
<1>2. /\ pc = "pairs" /\ pc' = pc /\ Len(pairs) < input.flows /\ src' = {node}
      /\ UNCHANGED <<input, nodes, edgeNodes, allLinks, pairs, sinks, results>>
  BY DEF PickSource, topoVars
<1>3. TopologyOK' /\ AbortsOK'
  BY <1>1, <1>2, TopologyKept
<1>4. FlowsOK'
  BY <1>1, <1>2 DEF FlowsOK
<1>5. ResultsOK'
  BY <1>2 DEF ResultsOK
<1>6. QED
  BY <1>3, <1>4, <1>5 DEF DriverOK

\* A destination is an edge node: the pair joins those made before, if it is not the source.
LEMMA PickDestinationSafe ==
    ASSUME DriverOK, NEW node \in edgeNodes, PickDestination(node)
    PROVE  DriverOK'
<1>1. TopologyOK /\ FlowsOK /\ AbortsOK /\ ResultsOK
  BY DEF DriverOK
<1>2. /\ pc = "pairs" /\ pc' = pc /\ src # {}
      /\ UNCHANGED <<input, nodes, edgeNodes, allLinks, sinks, results>>
  BY DEF PickDestination, topoVars
<1>3. TopologyOK' /\ AbortsOK'
  BY <1>1, <1>2, TopologyKept
<1>4. ResultsOK'
  BY <1>2 DEF ResultsOK
<1>5. FlowsOK'
  <2>1. CASE UNCHANGED <<pairs, src>>
    BY <1>1, <1>2, <2>1 DEF FlowsOK
  <2>2. CASE src' = {} /\ pairs' = Append(pairs, <<CHOOSE s \in src : TRUE, node>>)
    <3>1. /\ (CHOOSE s \in src : TRUE) \in edgeNodes
          /\ Len(pairs) < input.flows /\ pairs \in Seq(edgeNodes \X edgeNodes)
      BY <1>1, <1>2 DEF FlowsOK
    <3>2. pairs' \in Seq(edgeNodes \X edgeNodes) /\ Len(pairs') = Len(pairs) + 1
      <4>1. \A a \in edgeNodes : <<a, node>> \in edgeNodes \X edgeNodes
        OBVIOUS
      <4>2. \A p \in edgeNodes \X edgeNodes :
               /\ Append(pairs, p) \in Seq(edgeNodes \X edgeNodes)
               /\ Len(Append(pairs, p)) = Len(pairs) + 1
        BY <3>1, AppendProperties
      <4>3. QED
        BY <2>2, <3>1, <4>1, <4>2
    <3>3. Len(pairs) \in Nat /\ input.flows \in Nat /\ Len(sinks) \in Nat
      BY <1>1, <3>1, LenProperties DEF TopologyOK, FlowsOK
    <3>4. Len(pairs') <= input.flows /\ (Len(sinks) <= Len(pairs) => Len(sinks) <= Len(pairs'))
      BY <3>1, <3>2, <3>3, SMT
    <3>5. QED
      BY <1>1, <1>2, <2>2, <3>2, <3>4 DEF FlowsOK
  <2>3. QED
    BY <2>1, <2>2 DEF PickDestination
<1>6. QED
  BY <1>3, <1>4, <1>5 DEF DriverOK

\* The steps that only say that a loop is over, draw a size or take a sample.
LEMMA FlowsKept ==
    ASSUME DriverOK, pc \in {"pairs", "draw", "flows", "run"},
           UNCHANGED <<input, nodes, edgeNodes, allLinks, pairs, src, sinks>>,
           pc = "pairs" /\ pc' # "pairs" => Len(pairs) = input.flows,
           pc' = pc \/ pc' \in {"draw", "flows", "run"}
    PROVE  DriverOK'
<1>1. TopologyOK /\ FlowsOK /\ AbortsOK /\ ResultsOK
  BY DEF DriverOK
<1>2. TopologyOK' /\ AbortsOK'
  BY <1>1, TopologyKept
<1>3. pc = "pairs" /\ pc' # "pairs" => src = {}
  <2>1. Len(pairs) = input.flows => ~(Len(pairs) < input.flows)
    <3>1. input.flows \in Nat
      BY <1>1 DEF TopologyOK
    <3>2. QED
      BY <3>1, SMT
  <2>2. QED
    BY <1>1, <2>1 DEF FlowsOK
<1>4. FlowsOK'
  BY <1>1, <1>3 DEF FlowsOK
<1>5. ResultsOK'
  BY DEF ResultsOK
<1>6. QED
  BY <1>2, <1>4, <1>5 DEF DriverOK

\* The sink of flow i - 1 gets its port at a node with a link, or the call is aborted.
LEMMA InstallFlowSafe ==
    ASSUME DriverOK, InstallFlow
    PROVE  DriverOK'
<1>1. TopologyOK /\ FlowsOK /\ AbortsOK /\ ResultsOK
  BY DEF DriverOK
<1>2. /\ pc = "flows" /\ Len(sinks) < Len(pairs)
      /\ UNCHANGED <<input, nodes, edgeNodes, allLinks, pairs, src>>
  BY DEF InstallFlow, topoVars
<1>3. /\ pairs \in Seq(edgeNodes \X edgeNodes) /\ Len(pairs) \in Nat
      /\ Len(pairs) <= input.flows /\ input.flows \in Nat
      /\ sinks \in Seq([dst : Ends(allLinks), port : 0 .. PortRange - 1])
      /\ Len(sinks) \in Nat /\ Len(sinks) + 1 \in 1 .. Len(pairs)
  <2>1. pairs \in Seq(edgeNodes \X edgeNodes) /\ Len(pairs) <= input.flows
    BY <1>1 DEF FlowsOK
  <2>2. sinks \in Seq([dst : Ends(allLinks), port : 0 .. PortRange - 1])
    BY <1>1 DEF FlowsOK
  <2>3. Len(pairs) \in Nat /\ Len(sinks) \in Nat
    BY <2>1, <2>2, LenProperties
  <2>4. Len(sinks) + 1 \in 1 .. Len(pairs)
    BY <1>2, <2>3, SMT
  <2>5. QED
    BY <1>1, <2>1, <2>2, <2>3, <2>4 DEF TopologyOK
<1> DEFINE pair == pairs[Len(sinks) + 1]
<1>4. pair \in edgeNodes \X edgeNodes
  BY <1>3, ElementOfSeq
<1>5. CASE (\E i \in 1 .. 2 : ~Exists(pair[i], nodes)) /\ pc' = "aborted" /\ UNCHANGED <<sinks, results>>
  <2>1. PICK i \in 1 .. 2 : ~Exists(pair[i], nodes)
    BY <1>5
  <2>2. i = 1 \/ i = 2
    BY SMT
  <2>3. pair[i] \in edgeNodes
    <3>1. pair[1] \in edgeNodes /\ pair[2] \in edgeNodes
      <4> HIDE DEF pair
      <4>1. QED
        BY <1>4
    <3>2. QED
      BY <2>2, <3>1
  <2>4. ~Reachable
    BY <2>1, <2>3 DEF Reachable
  <2>5. AbortsOK'
    BY <1>2, <2>4 DEF AbortsOK, Reachable, RatesParse
  <2>6. TopologyOK' /\ FlowsOK'
    BY <1>1, <1>2, <1>5 DEF TopologyOK, FlowsOK, Built
  <2>7. ResultsOK'
    BY <1>2, <1>5 DEF ResultsOK
  <2>8. QED
    BY <2>5, <2>6, <2>7 DEF DriverOK
<1>6. CASE Fails(-5) /\ UNCHANGED sinks
  <2>1. pc' = "failed" /\ ResultsOK'
    <3>1. -5 \in Int
      BY SMT
    <3>2. QED
      BY <1>6, <3>1, FailsSafe
  <2>2. TopologyOK' /\ AbortsOK'
    BY <1>1, <1>2, <2>1, TopologyKept
  <2>3. FlowsOK'
    BY <1>1, <1>2, <1>6, <2>1 DEF FlowsOK
  <2>4. QED
    BY <2>1, <2>2, <2>3 DEF DriverOK
<1>7. CASE /\ pair[2] \in Ends(allLinks) /\ UNCHANGED <<pc, results>>
           /\ sinks' = Append(sinks, [dst |-> pair[2], port |-> Port(Len(sinks))])
  <2> DEFINE sink == [dst |-> pair[2], port |-> Port(Len(sinks))]
  <2>1. Port(Len(sinks)) \in 0 .. PortRange - 1
    <3>1. 0 \in Nat /\ 0 <= PortRange - BasePort
      BY ExperimentAssumption, SMT
    <3>2. QED
      BY <1>3, <3>1, PortsApart
  <2>2. sink \in [dst : Ends(allLinks), port : 0 .. PortRange - 1]
    BY <1>7, <2>1
  <2>3. sink.port = Port(Len(sinks))
    OBVIOUS
  <2> HIDE DEF sink
  <2>4. sinks' = Append(sinks, sink)
    BY <1>7 DEF sink
  <2>5. /\ sinks' \in Seq([dst : Ends(allLinks), port : 0 .. PortRange - 1])
        /\ Len(sinks') = Len(sinks) + 1
        /\ \A i \in 1 .. Len(sinks) : sinks'[i] = sinks[i]
        /\ sinks'[Len(sinks) + 1] = sink
    BY <1>3, <2>2, <2>4, AppendProperties
  <2>6. Len(sinks') <= Len(pairs) /\ (Len(sinks) + 1) - 1 = Len(sinks)
    BY <1>3, <2>5, SMT
  <2>7. \A i \in 1 .. Len(sinks') : i \in 1 .. Len(sinks) \/ i = Len(sinks) + 1
    BY <1>3, <2>5, SMT
  <2>8. ASSUME NEW i \in 1 .. Len(sinks') PROVE sinks'[i].port = Port(i - 1)
    <3>1. CASE i \in 1 .. Len(sinks)
      BY <1>1, <2>5, <3>1 DEF FlowsOK
    <3>2. CASE i = Len(sinks) + 1
      BY <2>3, <2>5, <2>6, <3>2
    <3>3. QED
      BY <2>7, <3>1, <3>2
  <2>9. Ends(allLinks)' = Ends(allLinks)
    BY <1>2 DEF Ends
  <2>10. FlowsOK'
    BY <1>1, <1>2, <1>7, <2>5, <2>6, <2>8, <2>9 DEF FlowsOK
  <2>11. TopologyOK' /\ AbortsOK'
    BY <1>1, <1>2, <1>7, TopologyKept
  <2>12. ResultsOK'
    BY <1>2, <1>7 DEF ResultsOK
  <2>13. QED
    BY <2>10, <2>11, <2>12 DEF DriverOK
<1>8. CASE input.hugeRef /\ pc' = "aborted" /\ UNCHANGED <<sinks, results>>
  <2>1. AbortsOK'
    BY <1>2, <1>8 DEF AbortsOK, Reachable, RatesParse
  <2>2. TopologyOK' /\ FlowsOK' /\ ResultsOK'
    BY <1>1, <1>2, <1>8 DEF TopologyOK, FlowsOK, ResultsOK, Built
  <2>3. QED
    BY <2>1, <2>2 DEF DriverOK
<1>9. QED
  BY <1>5, <1>6, <1>7, <1>8 DEF InstallFlow

\* The sinks of flows that fit behind the base port have ports of their own.
LEMMA SinksApart ==
    ASSUME DriverOK, input.flows <= PortRange - BasePort
    PROVE  \A i, j \in 1 .. Len(sinks) :
             sinks[i].port >= BasePort /\ (sinks[i].port = sinks[j].port => i = j)
<1>1. /\ input.flows \in Nat /\ input.flows <= PortRange - BasePort
      /\ Len(sinks) <= Len(pairs) /\ Len(pairs) <= input.flows
      /\ \A i \in 1 .. Len(sinks) : sinks[i].port = Port(i - 1)
  BY DEF DriverOK, TopologyOK, FlowsOK
<1>2. Len(sinks) \in Nat /\ Len(pairs) \in Nat
  BY LenProperties DEF DriverOK, FlowsOK
<1>3. \A i \in 0 .. input.flows - 1 : Port(i) = BasePort + i
  BY <1>1, PortsApart
<1>4. \A i \in 1 .. Len(sinks) : i - 1 \in 0 .. input.flows - 1
  BY <1>1, <1>2, SMT
<1>5. \A i \in 1 .. Len(sinks) : sinks[i].port = BasePort + (i - 1)
  BY <1>1, <1>3, <1>4
<1>6. \A i, j \in 1 .. Len(sinks) :
        BasePort + (i - 1) >= BasePort /\ (BasePort + (i - 1) = BasePort + (j - 1) => i = j)
  BY <1>2, ExperimentAssumption, SMT
<1>7. QED
  BY <1>5, <1>6

\* A sink binds its port; if the flows fit, no other sink of its node has it.
LEMMA StartApplicationsSafe ==
    ASSUME DriverOK, NEW e, StartApplications(e)
    PROVE  DriverOK'
<1>1. TopologyOK /\ FlowsOK /\ AbortsOK /\ ResultsOK
  BY DEF DriverOK
<1>2. pc = "run" /\ UNCHANGED <<input, nodes, edgeNodes, allLinks, pairs, src, sinks, results>>
  BY DEF StartApplications, Runs, topoVars, flowVars
<1>3. CASE pc' = pc
  BY <1>2, <1>3, FlowsKept
<1>4. CASE pc' = "aborted" /\ (PortTwice \/ PortMayBeTaken)
  <2>1. ~Reachable
    <3>1. SUFFICES ASSUME Reachable PROVE ~PortTwice /\ ~PortMayBeTaken
      BY <1>4
    <3>2. DOMAIN sinks = 1 .. Len(sinks) /\ Len(sinks) \in Nat
      BY <1>1, LenProperties DEF FlowsOK
    <3>3. \A i, j \in DOMAIN sinks :
             sinks[i].port >= BasePort /\ (sinks[i].port = sinks[j].port => i = j)
      BY <3>1, <3>2, SinksApart DEF Reachable
    <3>4. \A i, j \in DOMAIN sinks : i < j => i # j
      BY <3>2, SMT
    <3>5. ~PortTwice
      BY <3>3, <3>4 DEF PortTwice
    <3>6. ASSUME PortMayBeTaken PROVE FALSE
      <4>1. PICK i, j \in DOMAIN sinks : i < j /\ sinks[i].port = 0
        BY <3>6 DEF PortMayBeTaken
      <4>2. 0 >= BasePort
        BY <3>3, <4>1
      <4>3. QED
        BY <4>2, ExperimentAssumption, SMT
    <3>7. QED
      BY <3>5, <3>6
  <2>2. AbortsOK'
    BY <1>2, <2>1 DEF AbortsOK, Reachable, RatesParse
  <2>3. TopologyOK' /\ FlowsOK'
    BY <1>1, <1>2, <1>4 DEF TopologyOK, FlowsOK, Built
  <2>4. ResultsOK'
    BY <1>2, <1>4 DEF ResultsOK
  <2>5. QED
    BY <2>2, <2>3, <2>4 DEF DriverOK
<1>5. QED
  BY <1>3, <1>4 DEF StartApplications

\* The result has a queue length and a utilisation for every link, in the order of allLinks.
LEMMA StopSafe ==
    ASSUME DriverOK, NEW e, Stop(e)
    PROVE  DriverOK'
<1>1. TopologyOK /\ FlowsOK /\ AbortsOK /\ ResultsOK
  BY DEF DriverOK
<1>2. /\ pc = "run" /\ pc' = "done"
      /\ UNCHANGED <<input, nodes, edgeNodes, allLinks, pairs, src, sinks>>
  BY DEF Stop, Runs, topoVars, flowVars
<1>3. TopologyOK' /\ AbortsOK'
  BY <1>1, <1>2, TopologyKept
<1>4. FlowsOK'
  BY <1>1, <1>2 DEF FlowsOK
<1>5. ResultsOK'
  BY <1>2 DEF Stop, ResultsOK
<1>6. QED
  BY <1>3, <1>4, <1>5 DEF DriverOK

\* Every step keeps the invariant of the driver.
LEMMA DriverNext == DriverOK /\ [Next]_vars => DriverOK'
<1>1. SUFFICES ASSUME DriverOK, [Next]_vars PROVE DriverOK'
  OBVIOUS
<1>2. CASE LoadSizeCdf
  BY <1>1, <1>2, LoadSizeCdfSafe
<1>3. CASE ReadTopology
  BY <1>1, <1>3, ReadTopologySafe
<1>4. CASE \E node \in edgeNodes : PickSource(node) \/ PickDestination(node)
  BY <1>1, <1>4, PickSourceSafe, PickDestinationSafe
<1>5. CASE PairsDone
  BY <1>1, <1>5, FlowsKept DEF PairsDone, topoVars, flowVars
<1>6. CASE \E u \in 0 .. Percent : Draw(u)
  BY <1>1, <1>6, FlowsKept DEF Draw, topoVars
<1>7. CASE DrawsDone
  BY <1>1, <1>7, FlowsKept DEF DrawsDone, topoVars, flowVars
<1>8. CASE InstallFlow
  BY <1>1, <1>8, InstallFlowSafe
<1>9. CASE ScheduleSamples
  BY <1>1, <1>9, FlowsKept DEF ScheduleSamples, topoVars, flowVars
<1>10. CASE Simulate
  <2>1. PICK e \in events :
          \/ StartApplications(e)
          \/ \E lens \in [DOMAIN allLinks -> QueueLengths \X QueueLengths] :
                 RecordAllQueuesAtSubPoint(e, lens)
          \/ RecordAllQueues(e)
          \/ Stop(e)
    BY <1>10 DEF Simulate
  <2>2. CASE StartApplications(e)
    BY <1>1, <2>2, StartApplicationsSafe
  <2>3. CASE \E lens \in [DOMAIN allLinks -> QueueLengths \X QueueLengths] :
                 RecordAllQueuesAtSubPoint(e, lens)
    BY <1>1, <2>3, FlowsKept DEF RecordAllQueuesAtSubPoint, Runs, topoVars, flowVars
  <2>4. CASE RecordAllQueues(e)
    BY <1>1, <2>4, FlowsKept DEF RecordAllQueues, Runs, topoVars, flowVars
  <2>5. CASE Stop(e)
    BY <1>1, <2>5, StopSafe
  <2>6. QED
    BY <2>1, <2>2, <2>3, <2>4, <2>5
<1>11. CASE UNCHANGED vars
  BY <1>1, <1>11
  DEF vars, topoVars, flowVars, DriverOK, TopologyOK, Built, FlowsOK, AbortsOK,
      Reachable, RatesParse, ResultsOK
<1>12. QED
  BY <1>1, <1>2, <1>3, <1>4, <1>5, <1>6, <1>7, <1>8, <1>9, <1>10, <1>11
  DEF Next, Read, Prepare

\* The links, pairs, sinks and results of every reachable state.
THEOREM DriverSafety == Spec => []DriverOK
BY DriverInit, DriverNext, PTL DEF Spec

------------------------------------------------------------------------------
\* What follows for ports, failures and names.

\* As long as the flows fit between the base port and the largest one, every sink
\* has a port of its own; and then no call aborts for any files whose weights and
\* link rate can be written as rates (RatesParse) and whose edge nodes exist.
THEOREM PortsSuffice == Spec => []SinksReachable
<1>1. DriverOK => SinksReachable
  <2>1. SUFFICES ASSUME DriverOK, input.flows <= PortRange - BasePort
                 PROVE  /\ \A i, j \in DOMAIN sinks :
                             sinks[i].port >= BasePort /\ (sinks[i].port = sinks[j].port => i = j)
                        /\ (RatesParse /\ \A node \in edgeNodes : Exists(node, nodes))
                             => pc # "aborted"
    BY DEF SinksReachable
  <2>2. (RatesParse /\ \A node \in edgeNodes : Exists(node, nodes)) => pc # "aborted"
    BY <2>1 DEF DriverOK, AbortsOK, Reachable
  <2>3. DOMAIN sinks = 1 .. Len(sinks)
    BY <2>1, LenProperties DEF DriverOK, FlowsOK
  <2>4. QED
    BY <2>1, <2>2, <2>3, SinksApart
<1>2. QED
  BY <1>1, DriverSafety, PTL

\* The names, where there is a file.
LEMMA NamesOfInput ==
    ASSUME TopologyOK
    PROVE  /\ Len(linkNodePairs) \in Nat /\ DOMAIN linkNodePairs = 1 .. Len(linkNodePairs)
           /\ input.topo # NoFile =>
                \A n \in Nat :
                   (\A i \in DOMAIN linkNodePairs : \A side \in 1 .. 2 :
                       linkNodePairs[i][side] \in 0 .. n - 1)
                   => Installed(input.topo, n) = linkNodePairs
<1>1. CASE input.topo \in Seq(TopoLine)
  <2>1. PICK lines \in Seq(TopoLine) : input.topo = lines
    BY <1>1
  <2>2. QED
    BY <2>1, NamesTyped
<1>2. CASE input.topo = NoFile
  <2>1. linkNodePairs = <<>>
    BY <1>2 DEF linkNodePairs
  <2>2. <<>> \in Seq({}) /\ Len(<<>>) = 0
    BY EmptySeq
  <2>3. DOMAIN <<>> = 1 .. Len(<<>>) /\ Len(<<>>) \in Nat
    BY <2>2, LenProperties
  <2>4. QED
    BY <1>2, <2>1, <2>3
<1>3. QED
  BY <1>1, <1>2 DEF TopologyOK

\* The elements of what GetStatus returns.
LEMMA ResultsOfSuccess ==
    ASSUME NEW S, NEW links \in Seq(S), NEW returned,
           returned = [i \in DOMAIN links |-> <<"queue", links[i]>>]
                      \o [i \in DOMAIN links |-> <<"util", links[i]>>]
                      \o << <<"throughput">>, <<"delay">>, <<"loss">> >>
    PROVE  /\ Len(links) \in Nat /\ Len(returned) = Len(links) + Len(links) + 3
           /\ \A i \in 1 .. Len(links) :
                 /\ returned[i] = <<"queue", links[i]>>
                 /\ returned[Len(links) + i] = <<"util", links[i]>>
           /\ returned[Len(links) + Len(links) + 1] = <<"throughput">>
<1> DEFINE n == Len(links)
           a == [i \in DOMAIN links |-> <<"queue", links[i]>>]
           b == [i \in DOMAIN links |-> <<"util", links[i]>>]
           c == << <<"throughput">>, <<"delay">>, <<"loss">> >>
           All == {<<"queue", links[i]>> : i \in 1 .. n} \cup {<<"util", links[i]>> : i \in 1 .. n}
                  \cup {<<"throughput">>, <<"delay">>, <<"loss">>}
<1>1. n \in Nat /\ DOMAIN links = 1 .. n
  BY LenProperties
<1>2. a \in Seq(All) /\ Len(a) = n /\ \A i \in 1 .. n : a[i] = <<"queue", links[i]>>
  <2>1. \A i \in 1 .. n : <<"queue", links[i]>> \in All
    OBVIOUS
  <2> HIDE DEF All
  <2>2. a \in [1 .. n -> All]
    BY <1>1, <2>1
  <2>3. \A i \in 1 .. n : a[i] = <<"queue", links[i]>>
    BY <1>1
  <2> HIDE DEF a
  <2>4. QED
    BY <1>1, <2>2, <2>3, FunctionIsSeq
<1>3. b \in Seq(All) /\ Len(b) = n /\ \A i \in 1 .. n : b[i] = <<"util", links[i]>>
  <2>1. \A i \in 1 .. n : <<"util", links[i]>> \in All
    OBVIOUS
  <2> HIDE DEF All
  <2>2. b \in [1 .. n -> All]
    BY <1>1, <2>1
  <2>3. \A i \in 1 .. n : b[i] = <<"util", links[i]>>
    BY <1>1
  <2> HIDE DEF b
  <2>4. QED
    BY <1>1, <2>2, <2>3, FunctionIsSeq
<1>4. c \in Seq(All) /\ Len(c) = 3 /\ c[1] = <<"throughput">>
  <2>1. <<"throughput">> \in All /\ <<"delay">> \in All /\ <<"loss">> \in All
    OBVIOUS
  <2> HIDE DEF All
  <2>2. QED
    BY <2>1
<1> HIDE DEF a, b, c, All
<1>5. \A s, t \in Seq(All) :
        /\ s \o t \in Seq(All) /\ Len(s \o t) = Len(s) + Len(t)
        /\ \A i \in 1 .. Len(s) + Len(t) : (s \o t)[i] = IF i <= Len(s) THEN s[i] ELSE t[i - Len(s)]
  BY ConcatProperties
<1>6. /\ a \o b \in Seq(All) /\ Len(a \o b) = n + n
      /\ \A i \in 1 .. n + n : (a \o b)[i] = IF i <= n THEN a[i] ELSE b[i - n]
      /\ Len((a \o b) \o c) = n + n + 3
      /\ \A i \in 1 .. n + n + 3 :
            ((a \o b) \o c)[i] = IF i <= n + n THEN (a \o b)[i] ELSE c[i - (n + n)]
  <2>1. /\ a \o b \in Seq(All) /\ Len(a \o b) = n + n
        /\ \A i \in 1 .. n + n : (a \o b)[i] = IF i <= n THEN a[i] ELSE b[i - n]
    <3>1. /\ a \o b \in Seq(All) /\ Len(a \o b) = Len(a) + Len(b)
          /\ \A i \in 1 .. Len(a) + Len(b) : (a \o b)[i] = IF i <= Len(a) THEN a[i] ELSE b[i - Len(a)]
      BY <1>2, <1>3, <1>5
    <3>2. Len(a) = n /\ Len(b) = n
      BY <1>2, <1>3
    <3>3. QED
      BY <3>1, <3>2
  <2>2. /\ Len((a \o b) \o c) = n + n + 3
        /\ \A i \in 1 .. n + n + 3 :
              ((a \o b) \o c)[i] = IF i <= n + n THEN (a \o b)[i] ELSE c[i - (n + n)]
    <3>1. /\ Len((a \o b) \o c) = Len(a \o b) + Len(c)
          /\ \A i \in 1 .. Len(a \o b) + Len(c) :
                ((a \o b) \o c)[i] = IF i <= Len(a \o b) THEN (a \o b)[i] ELSE c[i - Len(a \o b)]
      BY <1>4, <1>5, <2>1
    <3>2. Len(a \o b) = n + n /\ Len(c) = 3
      BY <1>4, <2>1
    <3>3. QED
      BY <3>1, <3>2
  <2>3. QED
    BY <2>1, <2>2
<1>7. returned = (a \o b) \o c
  BY DEF a, b, c
<1>8. ASSUME NEW i \in 1 .. n
      PROVE  returned[i] = <<"queue", links[i]>> /\ returned[n + i] = <<"util", links[i]>>
  <2>1. /\ i \in 1 .. n + n + 3 /\ i <= n + n /\ i \in 1 .. n + n /\ i <= n
        /\ n + i \in 1 .. n + n + 3 /\ n + i <= n + n /\ n + i \in 1 .. n + n
        /\ ~(n + i <= n) /\ (n + i) - n = i
    BY <1>1, SMT
  <2>2. returned[i] = a[i] /\ returned[n + i] = b[i]
    BY <1>6, <1>7, <2>1
  <2>3. QED
    BY <1>2, <1>3, <2>2
<1>9. returned[n + n + 1] = <<"throughput">>
  <2>1. /\ n + n + 1 \in 1 .. n + n + 3 /\ ~(n + n + 1 <= n + n)
        /\ (n + n + 1) - (n + n) = 1
    BY <1>1, SMT
  <2>2. QED
    BY <1>4, <1>6, <1>7, <2>1
<1>10. QED
  BY <1>1, <1>6, <1>7, <1>8, <1>9

\* Success and failure can be told apart from what main prints, for any files.
THEOREM FailuresAreRecognisable == Spec => []FailureRecognisable
<1>1. DriverOK => FailureRecognisable
  <2>1. SUFFICES ASSUME DriverOK PROVE FailureRecognisable
    OBVIOUS
  <2>2. TopologyOK /\ ResultsOK
    BY <2>1 DEF DriverOK
  <2>3. ASSUME pc = "failed"
        PROVE  Printed = {} /\ Throughput[1] = "error"
    <3>1. PICK code \in Int : results = [i \in 1 .. 4 |-> <<"error", code>>]
      BY <2>2, <2>3 DEF ResultsOK
    <3>2. Len(results) = 4
      <4>1. results \in [1 .. 4 -> { <<"error", code>> }] /\ 4 \in Nat
        BY <3>1, SMT
      <4>2. QED
        BY <4>1, FunctionIsSeq
    <3>3. NumLinks(Len(results)) = 0 /\ Len(results) - 2 = 2
      BY <3>2, SMT DEF NumLinks
    <3>4. Len(linkNodePairs) \in Nat
      BY <2>2, NamesOfInput
    <3>5. (IF 0 < Len(linkNodePairs) THEN 0 ELSE Len(linkNodePairs)) = 0
      BY <3>4, SMT
    <3>6. \A i \in 1 .. 0 : FALSE
      BY SMT
    <3>7. Printed = {}
      BY <3>3, <3>5, <3>6 DEF Printed
    <3>8. 2 \in 1 .. 4
      BY SMT
    <3>9. Throughput[1] = "error"
      BY <3>1, <3>3, <3>8 DEF Throughput
    <3>10. QED
      BY <3>7, <3>9
  <2>4. ASSUME pc = "done"
        PROVE  NumLinks(Len(results)) = Len(allLinks) /\ Throughput[1] = "throughput"
    <3>1. allLinks \in Seq((0 .. nodes - 1) \X (0 .. nodes - 1))
      BY <2>2 DEF TopologyOK
    <3>2. /\ Len(allLinks) \in Nat /\ Len(results) = Len(allLinks) + Len(allLinks) + 3
          /\ results[Len(allLinks) + Len(allLinks) + 1] = <<"throughput">>
      BY <2>2, <2>4, <3>1, ResultsOfSuccess DEF ResultsOK
    <3>3. /\ NumLinks(Len(results)) = Len(allLinks)
          /\ Len(results) - 2 = Len(allLinks) + Len(allLinks) + 1
      BY <3>2, SMT DEF NumLinks
    <3>4. QED
      BY <3>2, <3>3 DEF Throughput
  <2>5. QED
    BY <2>3, <2>4 DEF FailureRecognisable
<1>2. QED
  BY <1>1, DriverSafety, PTL

\* If every link of the topology file joins two nodes that exist, each name main
\* prints stands beside the numbers of the link of that name, for any file.
THEOREM NamesAreRight == Spec => []LinkNamesMatch
<1>1. DriverOK => LinkNamesMatch
  <2>1. SUFFICES ASSUME DriverOK, pc = "done",
                        \A i \in DOMAIN linkNodePairs : \A side \in 1 .. 2 :
                            linkNodePairs[i][side] \in 0 .. nodes - 1,
                        NEW p \in Printed
                 PROVE  p.queue = <<"queue", p.name>> /\ p.util = <<"util", p.name>>
    BY DEF LinkNamesMatch
  <2>2. TopologyOK /\ ResultsOK
    BY <2>1 DEF DriverOK
  <2>3. /\ input.topo # NoFile /\ nodes \in Nat /\ allLinks = Installed(input.topo, nodes)
        /\ allLinks \in Seq((0 .. nodes - 1) \X (0 .. nodes - 1))
    BY <2>1, <2>2 DEF TopologyOK, Built
  <2>4. allLinks = linkNodePairs
    BY <2>1, <2>2, <2>3, NamesOfInput
  <2>5. /\ Len(allLinks) \in Nat /\ Len(results) = Len(allLinks) + Len(allLinks) + 3
        /\ \A i \in 1 .. Len(allLinks) :
              /\ results[i] = <<"queue", allLinks[i]>>
              /\ results[Len(allLinks) + i] = <<"util", allLinks[i]>>
    <3>1. results = [i \in DOMAIN allLinks |-> <<"queue", allLinks[i]>>]
                    \o [i \in DOMAIN allLinks |-> <<"util", allLinks[i]>>]
                    \o << <<"throughput">>, <<"delay">>, <<"loss">> >>
      BY <2>1, <2>2 DEF ResultsOK
    <3>2. QED
      BY <2>3, <3>1, ResultsOfSuccess
  <2>6. NumLinks(Len(results)) = Len(allLinks)
    BY <2>5, SMT DEF NumLinks
  <2>7. \A i \in 1 .. IF Len(allLinks) < Len(allLinks) THEN Len(allLinks) ELSE Len(allLinks) :
           i \in 1 .. Len(allLinks)
    OBVIOUS
  <2>8. PICK i \in 1 .. Len(allLinks) :
           p = [name |-> allLinks[i], queue |-> results[i], util |-> results[Len(allLinks) + i]]
    BY <2>1, <2>4, <2>6, <2>7 DEF Printed
  <2>9. QED
    BY <2>5, <2>8
<1>2. QED
  BY <1>1, DriverSafety, PTL

------------------------------------------------------------------------------
\* The samples.

\* The recursive definition of SumsUpTo has a solution, so it may be unfolded.
LEMMA SumsUpToUnfolds ==
    ASSUME NEW S, NEW samples \in Seq(S), NEW l, NEW side
    PROVE  /\ SumsUpTo(samples, l, side)[0] = 0
           /\ \A i \in 0 .. Len(samples) : i + 1 <= Len(samples) =>
                SumsUpTo(samples, l, side)[i + 1] =
                    SumsUpTo(samples, l, side)[i] + samples[i + 1][l][side]
<1> DEFINE Body(f, i) == IF i = 0 THEN 0 ELSE f[i - 1] + samples[i][l][side]
           Solved == {n \in 0 .. Len(samples) : \E f : f = [i \in 0 .. n |-> Body(f, i)]}
<1>1. Len(samples) \in Nat
  BY LenProperties
<1>2. 0 \in Solved
  <2>1. [i \in 0 .. 0 |-> 0] = [i \in 0 .. 0 |-> Body([j \in 0 .. 0 |-> 0], i)]
    <3>1. \A i \in 0 .. 0 : i = 0
      BY SMT
    <3>2. \A i \in 0 .. 0 : Body([j \in 0 .. 0 |-> 0], i) = 0
      BY <3>1
    <3>3. QED
      BY <3>2
  <2>2. 0 \in 0 .. Len(samples)
    BY <1>1, SMT
  <2>3. QED
    BY <2>1, <2>2
<1>3. ASSUME NEW n \in 0 .. Len(samples), n + 1 <= Len(samples), n \in Solved
      PROVE  n + 1 \in Solved
  <2>1. PICK f : f = [i \in 0 .. n |-> Body(f, i)]
    BY <1>3
  <2> DEFINE g == [i \in 0 .. n + 1 |-> IF i = n + 1 THEN Body(f, i) ELSE f[i]]
  <2>2. \A i \in 0 .. n + 1 : i # n + 1 => i \in 0 .. n
    BY <1>1, SMT
  <2>3. \A i \in 0 .. n + 1 : i # 0 => i - 1 \in 0 .. n + 1 /\ i - 1 # n + 1
    BY <1>1, SMT
  <2>4. \A i \in 0 .. n + 1 : i # 0 => g[i - 1] = f[i - 1]
    BY <2>3
  <2>5. \A i \in 0 .. n + 1 : Body(g, i) = Body(f, i)
    BY <2>4
  <2>6. \A i \in 0 .. n : f[i] = Body(f, i)
    BY <2>1
  <2>7. \A i \in 0 .. n + 1 : g[i] = Body(g, i)
    BY <2>2, <2>5, <2>6
  <2>8. g = [i \in 0 .. n + 1 |-> Body(g, i)]
    <3> HIDE DEF Body
    <3>1. QED
      BY <2>7
  <2>9. n + 1 \in 0 .. Len(samples)
    BY <1>1, <1>3, SMT
  <2>10. QED
    <3> HIDE DEF Body, g
    <3>1. QED
      BY <2>8, <2>9
<1>4. Len(samples) \in Solved
  <2> HIDE DEF Solved
  <2>1. \A i \in 0 .. Len(samples) : i \in Solved
    BY <1>1, <1>2, <1>3, InductionUpTo
  <2>2. QED
    BY <1>1, <2>1, SMT
<1>5. PICK h : h = [i \in 0 .. Len(samples) |-> Body(h, i)]
  BY <1>4
<1>6. SumsUpTo(samples, l, side)
        = [i \in 0 .. Len(samples) |-> Body(SumsUpTo(samples, l, side), i)]
  BY <1>5 DEF SumsUpTo
<1>7. \A i \in 0 .. Len(samples) :
        SumsUpTo(samples, l, side)[i] = Body(SumsUpTo(samples, l, side), i)
  <2> HIDE DEF Body
  <2>1. QED
    BY <1>6, Zenon
<1>8. 0 \in 0 .. Len(samples)
  BY <1>1, SMT
<1>9. \A i \in 0 .. Len(samples) : i + 1 <= Len(samples) =>
          i + 1 \in 0 .. Len(samples) /\ i + 1 # 0 /\ (i + 1) - 1 = i
  BY <1>1, SMT
<1>10. QED
  BY <1>7, <1>8, <1>9

\* The sums of the first samples do not depend on those that follow.
LEMMA SumsOfAppend ==
    ASSUME NEW S, NEW samples \in Seq(S), NEW lens \in S, NEW l, NEW side
    PROVE  SumsUpTo(Append(samples, lens), l, side)[Len(samples) + 1]
             = SumsUpTo(samples, l, side)[Len(samples)] + lens[l][side]
<1> DEFINE n == Len(samples)
           more == Append(samples, lens)
           Same == {i \in 0 .. n : SumsUpTo(more, l, side)[i] = SumsUpTo(samples, l, side)[i]}
<1>1. /\ more \in Seq(S) /\ Len(more) = n + 1 /\ more[n + 1] = lens
      /\ \A i \in 1 .. n : more[i] = samples[i]
  BY AppendProperties
<1> HIDE DEF more
<1>2. n \in Nat /\ n \in 0 .. n /\ 0 \in 0 .. n
  BY LenProperties, SMT
<1>3. /\ SumsUpTo(more, l, side)[0] = 0
      /\ \A i \in 0 .. Len(more) : i + 1 <= Len(more) =>
           SumsUpTo(more, l, side)[i + 1] = SumsUpTo(more, l, side)[i] + more[i + 1][l][side]
  <2>1. more \in Seq(S)
    BY <1>1
  <2>2. \A s \in Seq(S) :
           /\ SumsUpTo(s, l, side)[0] = 0
           /\ \A i \in 0 .. Len(s) : i + 1 <= Len(s) =>
                SumsUpTo(s, l, side)[i + 1] = SumsUpTo(s, l, side)[i] + s[i + 1][l][side]
    BY SumsUpToUnfolds
  <2>3. QED
    BY <2>1, <2>2
<1>4. /\ SumsUpTo(samples, l, side)[0] = 0
      /\ \A i \in 0 .. n : i + 1 <= n =>
           SumsUpTo(samples, l, side)[i + 1]
             = SumsUpTo(samples, l, side)[i] + samples[i + 1][l][side]
  BY SumsUpToUnfolds
<1>5. 0 \in Same
  BY <1>2, <1>3, <1>4
<1>6. ASSUME NEW i \in 0 .. n, i + 1 <= n, i \in Same
      PROVE  i + 1 \in Same
  <2>1. i + 1 \in 0 .. n /\ i + 1 \in 1 .. n /\ i \in 0 .. Len(more) /\ i + 1 <= Len(more)
    BY <1>1, <1>2, <1>6, SMT
  <2>2. /\ SumsUpTo(more, l, side)[i + 1] = SumsUpTo(more, l, side)[i] + more[i + 1][l][side]
        /\ SumsUpTo(samples, l, side)[i + 1]
             = SumsUpTo(samples, l, side)[i] + samples[i + 1][l][side]
    BY <1>3, <1>4, <1>6, <2>1
  <2>3. more[i + 1] = samples[i + 1]
    BY <1>1, <2>1
  <2>4. QED
    BY <1>6, <2>1, <2>2, <2>3
<1> HIDE DEF Same
<1>7. \A i \in 0 .. n : i \in Same
  BY <1>2, <1>5, <1>6, InductionUpTo
<1>8. SumsUpTo(more, l, side)[n] = SumsUpTo(samples, l, side)[n]
  BY <1>2, <1>7 DEF Same
<1>9. n \in 0 .. Len(more) /\ n + 1 <= Len(more)
  BY <1>1, <1>2, SMT
<1>10. QED
  BY <1>1, <1>3, <1>8, <1>9 DEF more

\* Parts of a sequence to which an element is appended.
LEMMA PartKept ==
    ASSUME NEW S, NEW s \in Seq(S), NEW e \in S, NEW a \in Nat, NEW b \in Nat, b <= Len(s)
    PROVE  SubSeq(Append(s, e), a + 1, b) = SubSeq(s, a + 1, b)
<1> DEFINE t == Append(s, e)
<1>1. /\ t \in Seq(S) /\ Len(t) = Len(s) + 1 /\ t[Len(s) + 1] = e
      /\ \A i \in 1 .. Len(s) : t[i] = s[i]
  BY AppendProperties
<1> HIDE DEF t
<1>2. Len(s) \in Nat /\ a + 1 \in Int /\ b \in Int /\ Len(s) + 1 \in Int /\ Len(s) \in Int
  BY LenProperties, SMT
<1>3. \A c \in Nat : \A i \in a + 1 .. c : c <= Len(s) => i \in 1 .. Len(s)
  BY <1>2, SMT
<1>4. \A i \in a + 1 .. b : s[i] \in S /\ t[i] \in S
  <2>1. \A i \in a + 1 .. b : i \in 1 .. Len(s) /\ i \in 1 .. Len(t)
    BY <1>1, <1>2, SMT
  <2>2. QED
    BY <1>1, <2>1, ElementOfSeq
<1>5. SubSeq(t, a + 1, b) = SubSeq(s, a + 1, b)
  <2> DEFINE u == SubSeq(t, a + 1, b)
             v == SubSeq(s, a + 1, b)
  <2>1. /\ u \in Seq(S) /\ Len(u) = (IF a + 1 <= b THEN b - (a + 1) + 1 ELSE 0)
        /\ \A i \in 1 .. b - (a + 1) + 1 : u[i] = t[(a + 1) + i - 1]
    BY <1>2, <1>4, SubSeqProperties
  <2>2. /\ v \in Seq(S) /\ Len(v) = (IF a + 1 <= b THEN b - (a + 1) + 1 ELSE 0)
        /\ \A i \in 1 .. b - (a + 1) + 1 : v[i] = s[(a + 1) + i - 1]
    BY <1>2, <1>4, SubSeqProperties
  <2> HIDE DEF u, v
  <2>3. \A i \in 1 .. Len(u) : i \in 1 .. b - (a + 1) + 1 /\ (a + 1) + i - 1 \in 1 .. Len(s)
    BY <1>2, <2>1, SMT
  <2>4. \A i \in 1 .. Len(u) : u[i] = v[i]
    BY <1>1, <2>1, <2>2, <2>3
  <2>5. u = v
    BY <2>1, <2>2, <2>4, SeqEqual
  <2>6. QED
    BY <2>5 DEF u, v
<1>6. QED
  BY <1>5 DEF t

\* The end of a sequence to which an element is appended.
LEMMA RestOfAppend ==
    ASSUME NEW S, NEW s \in Seq(S), NEW e \in S, NEW a \in Nat, a <= Len(s)
    PROVE  /\ SubSeq(Append(s, e), a + 1, Len(s) + 1) = Append(SubSeq(s, a + 1, Len(s)), e)
           /\ SubSeq(s, a + 1, Len(s)) \in Seq(S)
           /\ Len(SubSeq(s, a + 1, Len(s))) = Len(s) - a
<1> DEFINE t == Append(s, e)
<1>1. /\ t \in Seq(S) /\ Len(t) = Len(s) + 1 /\ t[Len(s) + 1] = e
      /\ \A i \in 1 .. Len(s) : t[i] = s[i]
  BY AppendProperties
<1> HIDE DEF t
<1>2. Len(s) \in Nat /\ a + 1 \in Int /\ Len(s) + 1 \in Int /\ Len(s) \in Int
  BY LenProperties, SMT
<1>3. /\ SubSeq(t, a + 1, Len(s) + 1) = Append(SubSeq(s, a + 1, Len(s)), e)
      /\ SubSeq(s, a + 1, Len(s)) \in Seq(S)
      /\ Len(SubSeq(s, a + 1, Len(s))) = Len(s) - a
  <2> DEFINE u == SubSeq(t, a + 1, Len(t))
             v == SubSeq(s, a + 1, Len(s))
  <2>1. a + 1 \in 1 .. Len(t) + 1 /\ a + 1 \in 1 .. Len(s) + 1
    BY <1>1, <1>2, SMT
  <2>2. /\ u \in Seq(S) /\ Len(u) = Len(t) - (a + 1) + 1
        /\ \A i \in 1 .. Len(t) - (a + 1) + 1 : u[i] = t[(a + 1) + i - 1]
    BY <1>1, <2>1, SuffixProperties
  <2>3. /\ v \in Seq(S) /\ Len(v) = Len(s) - (a + 1) + 1
        /\ \A i \in 1 .. Len(s) - (a + 1) + 1 : v[i] = s[(a + 1) + i - 1]
    BY <2>1, SuffixProperties
  <2> HIDE DEF u, v
  <2>4. Len(v) = Len(s) - a /\ Len(v) \in Nat /\ Len(u) = Len(v) + 1
    BY <1>1, <1>2, <2>2, <2>3, SMT
  <2>5. /\ Append(v, e) \in Seq(S) /\ Len(Append(v, e)) = Len(v) + 1
        /\ Append(v, e)[Len(v) + 1] = e /\ \A i \in 1 .. Len(v) : Append(v, e)[i] = v[i]
    BY <2>3, AppendProperties
  <2>6. ASSUME NEW i \in 1 .. Len(u) PROVE u[i] = Append(v, e)[i]
    <3>1. CASE i = Len(v) + 1
      <4>1. i \in 1 .. Len(t) - (a + 1) + 1 /\ (a + 1) + i - 1 = Len(s) + 1
        BY <1>1, <1>2, <2>4, <3>1, SMT
      <4>2. QED
        BY <1>1, <2>2, <2>5, <3>1, <4>1
    <3>2. CASE i # Len(v) + 1
      <4>1. /\ i \in 1 .. Len(t) - (a + 1) + 1 /\ i \in 1 .. Len(s) - (a + 1) + 1
            /\ i \in 1 .. Len(v) /\ (a + 1) + i - 1 \in 1 .. Len(s)
        BY <1>1, <1>2, <2>4, <3>2, SMT
      <4>2. QED
        BY <1>1, <2>2, <2>3, <2>5, <4>1
    <3>3. QED
      BY <3>1, <3>2
  <2>7. u = Append(v, e)
    BY <2>2, <2>4, <2>5, <2>6, SeqEqual
  <2>8. QED
    BY <1>1, <2>3, <2>4, <2>7 DEF u, v
<1>4. QED
  BY <1>3 DEF t

\* Division with remainder.
LEMMA Divides ==
    ASSUME NEW a \in Nat, NEW b \in Nat \ {0}
    PROVE  a \div b \in Nat /\ (a % b = 0 => a = b * (a \div b))
<1>1. a \div b \in Nat
  BY SMT
<1>2. a % b = a - b * (a \div b)
  BY SMTT(30)
<1>3. b * (a \div b) \in Int
  BY <1>1, SMT
<1>4. QED
  BY <1>1, <1>2, <1>3, SMT

\* The remainder of a multiple of b and less than b.
LEMMA Multiples ==
    ASSUME NEW q \in Nat, NEW b \in Nat \ {0}, NEW r \in 0 .. b - 1
    PROVE  (b * q + r) % b = r
BY SMT

\* When the k-th interval begins, counted from 0.
StartOf(k) == SampleStart + k * Interval

\* The starts lie an interval apart, and every such time up to appsStop is one.
LEMMA StartsApart ==
    ASSUME NEW k \in Nat, input.appsStop \in Nat
    PROVE  /\ Interval \in Nat /\ Interval = SubSamples + SubSamples /\ Interval # 0
           /\ StartOf(k) \in Nat /\ StartOf(k + 1) = StartOf(k) + Interval
           /\ \A t \in Starts : /\ t \in Nat /\ t <= input.appsStop
                                /\ t > StartOf(k) => t >= StartOf(k) + Interval
                                /\ t < StartOf(k) => t + Interval <= StartOf(k)
           /\ StartOf(k) <= input.appsStop => StartOf(k) \in Starts
           /\ \A t \in Starts : t >= StartOf(0)
<1> DEFINE T == Interval
<1>1. /\ SubSamples \in Nat \ {0} /\ SampleStart \in Nat /\ T \in Nat \ {0}
      /\ T \in Int /\ T = SubSamples + SubSamples
  BY ExperimentAssumption, SMT DEF Interval
<1> HIDE DEF T
<1>2. k * T \in Nat /\ (k + 1) * T = k * T + T /\ 0 * T = 0
  <2>1. k * T \in Int /\ (k + 1) * T = k * T + 1 * T /\ 1 * T = T /\ 0 * T = 0
    BY <1>1, TimesDistributes, SMT
  <2>2. 0 * T <= k * T
    BY <1>1, TimesCancels, SMT
  <2>3. QED
    BY <2>1, <2>2, SMT
<1>4. ASSUME NEW t \in Starts
      PROVE  /\ t \in Nat /\ t <= input.appsStop /\ t >= SampleStart
             /\ \E q \in Nat : t = SampleStart + q * T
  <2>1. t \in SampleStart .. input.appsStop /\ (t - SampleStart) % T = 0
    BY DEF Starts, T
  <2>2. t - SampleStart \in Nat /\ t \in Nat /\ t <= input.appsStop /\ t >= SampleStart
    BY <1>1, <2>1, SMT
  <2>3. /\ (t - SampleStart) \div T \in Nat
        /\ t - SampleStart = T * ((t - SampleStart) \div T)
    BY <1>1, <2>1, <2>2, Divides
  <2>4. PICK q \in Nat : t - SampleStart = T * q
    BY <2>3
  <2>5. T * q = q * T /\ q * T \in Int
    BY <1>1, SMT
  <2>6. t = SampleStart + q * T
    BY <1>1, <2>2, <2>4, <2>5, SMT
  <2>7. QED
    BY <2>2, <2>6
<1>5. ASSUME NEW t \in Starts
      PROVE  /\ t > SampleStart + k * T => t >= SampleStart + k * T + T
             /\ t < SampleStart + k * T => t + T <= SampleStart + k * T
  <2>1. PICK q \in Nat : t = SampleStart + q * T
    BY <1>4
  <2>2. q * T \in Int /\ (q + 1) * T = q * T + T
    <3>1. q * T \in Int /\ (q + 1) * T = q * T + 1 * T /\ 1 * T = T
      BY <1>1, TimesDistributes, SMT
    <3>2. QED
      BY <3>1
  <2>3. ASSUME t > SampleStart + k * T PROVE t >= SampleStart + k * T + T
    <3>1. k * T < q * T
      BY <1>1, <1>2, <2>1, <2>2, <2>3, SMT
    <3>2. k < q
      BY <1>1, <3>1, TimesCancels
    <3>3. k + 1 <= q /\ k + 1 \in Int
      BY <3>2, SMT
    <3>4. (k + 1) * T <= q * T
      BY <1>1, <3>3, TimesCancels
    <3>5. QED
      BY <1>1, <1>2, <2>1, <2>2, <3>4, SMT
  <2>4. ASSUME t < SampleStart + k * T PROVE t + T <= SampleStart + k * T
    <3>1. q * T < k * T
      BY <1>1, <1>2, <2>1, <2>2, <2>4, SMT
    <3>2. q < k
      BY <1>1, <3>1, TimesCancels
    <3>3. q + 1 <= k /\ q + 1 \in Int
      BY <3>2, SMT
    <3>4. (q + 1) * T <= k * T
      BY <1>1, <3>3, TimesCancels
    <3>5. QED
      BY <1>1, <1>2, <2>1, <2>2, <3>4, SMT
  <2>5. QED
    BY <2>3, <2>4
<1>6. ASSUME SampleStart + k * T <= input.appsStop
      PROVE  SampleStart + k * T \in Starts
  <2>1. (SampleStart + k * T) - SampleStart = k * T
    BY <1>1, <1>2, SMT
  <2>2. (k * T) % T = 0
    <3>1. T * k + 0 = k * T /\ 0 \in 0 .. T - 1
      BY <1>1, SMT
    <3>2. (T * k + 0) % T = 0
      BY <1>1, <3>1, Multiples
    <3>3. QED
      BY <3>1, <3>2
  <2>3. SampleStart + k * T \in SampleStart .. input.appsStop
    BY <1>1, <1>2, <1>6, SMT
  <2>4. QED
    BY <2>1, <2>2, <2>3 DEF Starts, T
<1>7. StartOf(k) \in Nat /\ StartOf(k + 1) = StartOf(k) + T /\ StartOf(0) = SampleStart
  <2>1. SampleStart + k * T \in Nat /\ SampleStart + (k + 1) * T = (SampleStart + k * T) + T
    BY <1>1, <1>2, SMT
  <2>2. SampleStart + 0 * T = SampleStart
    BY <1>1, <1>2, SMT
  <2>3. QED
    BY <2>1, <2>2 DEF StartOf, T
<1>8. QED
  BY <1>1, <1>4, <1>5, <1>6, <1>7 DEF StartOf, T

SubEvent(t, sub) == [at |-> t + 2 * sub + 1, what |-> "RecordAllQueuesAtSubPoint"]
SnapEvent(t) == [at |-> t + Interval, what |-> "RecordAllQueues"]
StopEvent == [at |-> StopTime, what |-> "Stop"]

\* The sub-sample of the interval that begins at t is still to come when k
\* intervals are over and the one that follows has c sub-samples.
Left(k, c, t, sub) == t > StartOf(k) \/ (t = StartOf(k) /\ sub >= c)

Sums == {<<>>} \cup [DOMAIN allLinks -> [1 .. 2 -> Nat]]

SamplesTyped ==
    /\ accum \in [count : 0 .. SubSamples, sum : Sums]
    /\ seen \in Seq([DOMAIN allLinks -> Nat \X Nat])
    /\ snapshots \in Seq([count : {SubSamples}, sum : Sums])
    /\ pc \in {"sizes", "topology", "pairs", "draw", "flows"} =>
         seen = <<>> /\ snapshots = <<>> /\ accum = [count |-> 0, sum |-> <<>>]
    /\ Len(seen) = Len(snapshots) * SubSamples + accum.count

\* What is still to come, in the order of the intervals.
EventsOK ==
    pc = "run" =>
      /\ \A t \in Starts, sub \in 0 .. SubSamples - 1 :
           Left(Len(snapshots), accum.count, t, sub) => SubEvent(t, sub) \in events
      /\ \A e \in events : e.what = "RecordAllQueuesAtSubPoint" =>
           \E t \in Starts, sub \in 0 .. SubSamples - 1 :
              e = SubEvent(t, sub) /\ Left(Len(snapshots), accum.count, t, sub)
      /\ \A t \in Starts : t >= StartOf(Len(snapshots)) => SnapEvent(t) \in events
      /\ \A e \in events : e.what = "RecordAllQueues" =>
           \E t \in Starts : e = SnapEvent(t) /\ t >= StartOf(Len(snapshots))
      /\ StopEvent \in events
      /\ \A e \in events : e.what = "Stop" => e = StopEvent

\* As many snapshots as intervals that are over.
CountOK ==
    /\ pc = "run" =>
         Cardinality({t \in Starts : t < StartOf(Len(snapshots))}) = Len(snapshots)
    /\ pc = "done" => Len(snapshots) = Cardinality(Starts)

\* The sums are those of the samples of their own interval.
SumsOK ==
    /\ accum.count = 0 => accum.sum = <<>>
    /\ accum.count # 0 =>
         /\ DOMAIN accum.sum = DOMAIN allLinks
         /\ \A l \in DOMAIN allLinks : \A side \in 1 .. 2 :
              accum.sum[l][side]
                = SumsUpTo(SubSeq(seen, Len(snapshots) * SubSamples + 1, Len(seen)), l, side)[accum.count]
    /\ \A k \in 1 .. Len(snapshots) : \A l \in DOMAIN allLinks : \A side \in 1 .. 2 :
         snapshots[k].sum[l][side]
           = SumsUpTo(SubSeq(seen, (k - 1) * SubSamples + 1, k * SubSamples), l, side)[SubSamples]

ScheduleOK == SamplesTyped /\ EventsOK /\ CountOK /\ SumsOK

\* The numbers the schedule is made of.
LEMMA ScheduleNumbers ==
    ASSUME TopologyOK, SamplesTyped, NEW k, k = Len(snapshots), NEW c, c = accum.count,
           NEW b, b = StartOf(k)
    PROVE  /\ k \in Nat /\ c \in 0 .. SubSamples /\ b \in Nat /\ SubSamples \in Nat \ {0}
           /\ input.appsStop \in Nat /\ Interval \in Nat /\ Interval = SubSamples + SubSamples
           /\ StopTime = input.appsStop + 2 * Interval
           /\ StartOf(k + 1) = b + Interval
           /\ \A t \in Starts : /\ t \in Nat /\ t <= input.appsStop
                                /\ t > b => t >= b + Interval
                                /\ t < b => t + Interval <= b
           /\ b <= input.appsStop => b \in Starts
<1>1. k \in Nat
  BY LenProperties DEF SamplesTyped
<1>2. c \in 0 .. SubSamples
  BY DEF SamplesTyped
<1>3. input.appsStop \in Nat /\ SubSamples \in Nat \ {0}
  BY ExperimentAssumption DEF TopologyOK
<1>4. QED
  BY <1>1, <1>2, <1>3, StartsApart DEF StopTime

\* A sub-sample is the next one of the interval that follows the last snapshot.
LEMMA SubSampleInTurn ==
    ASSUME TopologyOK, SamplesTyped, EventsOK, NEW k, k = Len(snapshots),
           NEW c, c = accum.count, NEW b, b = StartOf(k),
           NEW e, Runs(e, "RecordAllQueuesAtSubPoint")
    PROVE  c < SubSamples /\ b \in Starts /\ e = SubEvent(b, c)
<1>1. /\ k \in Nat /\ c \in 0 .. SubSamples /\ b \in Nat /\ SubSamples \in Nat \ {0}
      /\ input.appsStop \in Nat /\ Interval \in Nat /\ Interval = SubSamples + SubSamples
      /\ \A t \in Starts : /\ t \in Nat /\ t <= input.appsStop
                           /\ t > b => t >= b + Interval
                           /\ t < b => t + Interval <= b
      /\ b <= input.appsStop => b \in Starts
  BY ScheduleNumbers
<1>2. PICK t \in Starts, sub \in 0 .. SubSamples - 1 : e = SubEvent(t, sub) /\ Left(k, c, t, sub)
  BY DEF Runs, EventsOK
<1>3. \A f \in events : e.at <= f.at
  BY DEF Runs
<1>4. e.at = t + 2 * sub + 1
  BY <1>2 DEF SubEvent
<1>5. t >= b /\ b <= input.appsStop
  BY <1>1, <1>2, SMT DEF Left
<1>6. b \in Starts
  BY <1>1, <1>5
<1>7. t = b
  <2>1. SUFFICES ASSUME t > b PROVE FALSE
    BY <1>1, <1>5, SMT
  <2>2. SnapEvent(b) \in events
    <3>1. b >= b
      BY <1>1, SMT
    <3>2. QED
      BY <1>6, <3>1 DEF EventsOK, Runs
  <2>3. e.at <= b + Interval
    BY <1>3, <2>2 DEF SnapEvent
  <2>4. t >= b + Interval
    BY <1>1, <2>1
  <2>5. QED
    BY <1>1, <1>4, <2>3, <2>4, SMT
<1>8. sub >= c /\ c \in 0 .. SubSamples - 1
  BY <1>1, <1>2, <1>7, SMT DEF Left
<1>9. sub = c
  <2>1. Left(k, c, b, c)
    BY <1>8, SMT DEF Left
  <2>2. SubEvent(b, c) \in events
    BY <1>6, <1>8, <2>1 DEF EventsOK, Runs
  <2>3. e.at <= b + 2 * c + 1
    BY <1>3, <2>2 DEF SubEvent
  <2>4. QED
    BY <1>1, <1>4, <1>7, <1>8, <2>3, SMT
<1>10. c < SubSamples
  BY <1>1, <1>8, SMT
<1>11. QED
  BY <1>2, <1>6, <1>7, <1>9, <1>10

\* A snapshot is taken of the interval that follows the last one, when it is
\* complete.
LEMMA SnapshotInTurn ==
    ASSUME TopologyOK, SamplesTyped, EventsOK, NEW k, k = Len(snapshots),
           NEW c, c = accum.count, NEW b, b = StartOf(k),
           NEW e, Runs(e, "RecordAllQueues")
    PROVE  c = SubSamples /\ b \in Starts /\ e = SnapEvent(b)
<1>1. /\ k \in Nat /\ c \in 0 .. SubSamples /\ b \in Nat /\ SubSamples \in Nat \ {0}
      /\ input.appsStop \in Nat /\ Interval \in Nat /\ Interval = SubSamples + SubSamples
      /\ \A t \in Starts : /\ t \in Nat /\ t <= input.appsStop
                           /\ t > b => t >= b + Interval
                           /\ t < b => t + Interval <= b
      /\ b <= input.appsStop => b \in Starts
  BY ScheduleNumbers
<1>2. PICK t \in Starts : e = SnapEvent(t) /\ t >= b
  BY DEF Runs, EventsOK
<1>3. \A f \in events : e.at <= f.at
  BY DEF Runs
<1>4. e.at = t + Interval
  BY <1>2 DEF SnapEvent
<1>5. b <= input.appsStop
  BY <1>1, <1>2, SMT
<1>6. b \in Starts
  BY <1>1, <1>5
<1>7. t = b
  <2>1. SUFFICES ASSUME t > b PROVE FALSE
    BY <1>1, <1>2, SMT
  <2>2. SnapEvent(b) \in events
    <3>1. b >= b
      BY <1>1, SMT
    <3>2. QED
      BY <1>6, <3>1 DEF EventsOK, Runs
  <2>3. e.at <= b + Interval
    BY <1>3, <2>2 DEF SnapEvent
  <2>4. QED
    BY <1>1, <1>4, <2>1, <2>3, SMT
<1>8. c = SubSamples
  <2>1. SUFFICES ASSUME c # SubSamples PROVE FALSE
    OBVIOUS
  <2>2. c \in 0 .. SubSamples - 1
    BY <1>1, <2>1, SMT
  <2>3. Left(k, c, b, c)
    BY <2>2, SMT DEF Left
  <2>4. SubEvent(b, c) \in events
    BY <1>6, <2>2, <2>3 DEF EventsOK, Runs
  <2>5. e.at <= b + 2 * c + 1
    BY <1>3, <2>4 DEF SubEvent
  <2>6. QED
    BY <1>1, <1>4, <1>7, <2>2, <2>5, SMT
<1>9. QED
  BY <1>2, <1>6, <1>7, <1>8

\* The simulation stops when every interval is over.
LEMMA StopInTurn ==
    ASSUME TopologyOK, SamplesTyped, EventsOK, NEW k, k = Len(snapshots),
           NEW b, b = StartOf(k), NEW e, Runs(e, "Stop")
    PROVE  \A t \in Starts : t < b
<1>1. /\ k \in Nat /\ b \in Nat /\ SubSamples \in Nat \ {0}
      /\ input.appsStop \in Nat /\ Interval \in Nat /\ Interval = SubSamples + SubSamples
      /\ StopTime = input.appsStop + 2 * Interval
      /\ \A t \in Starts : t \in Nat /\ t <= input.appsStop
  BY ScheduleNumbers
<1>2. SUFFICES ASSUME NEW t \in Starts, t >= b PROVE FALSE
  BY <1>1, SMT
<1>3. SnapEvent(t) \in events
  BY <1>2 DEF EventsOK, Runs
<1>4. e.at <= t + Interval
  BY <1>3 DEF Runs, SnapEvent
<1>5. e.at = StopTime
  BY DEF EventsOK, Runs, StopEvent
<1>6. QED
  BY <1>1, <1>4, <1>5, SMT

\* Before the first sample.
NothingSampled == seen = <<>> /\ snapshots = <<>> /\ accum = [count |-> 0, sum |-> <<>>]

\* Before the simulation there are no samples to account for.
LEMMA NothingSampledSafe ==
    ASSUME NothingSampled
    PROVE  SamplesTyped /\ SumsOK
<1>1. \A S : <<>> \in Seq(S) /\ Len(<<>>) = 0
  BY EmptySeq
<1>2. 0 \in 0 .. SubSamples /\ SubSamples \in Nat
  BY ExperimentAssumption, SMT
<1>3. accum \in [count : 0 .. SubSamples, sum : Sums]
  BY <1>2 DEF NothingSampled, Sums
<1>4. 0 * SubSamples + 0 = 0
  BY <1>2, SMT
<1>5. accum.count = 0 /\ accum.sum = <<>>
  BY DEF NothingSampled
<1>6. SamplesTyped
  BY <1>1, <1>3, <1>4, <1>5 DEF NothingSampled, SamplesTyped
<1>7. \A k \in 1 .. 0 : FALSE
  BY SMT
<1>8. SumsOK
  BY <1>1, <1>5, <1>7 DEF NothingSampled, SumsOK
<1>9. QED
  BY <1>6, <1>8

\* Nothing is sampled in the beginning.
LEMMA ScheduleInit == Init => ScheduleOK
<1>1. SUFFICES ASSUME Init PROVE ScheduleOK
  OBVIOUS
<1>2. SamplesTyped /\ SumsOK
  BY <1>1, NothingSampledSafe DEF Init, NothingSampled
<1>3. EventsOK /\ CountOK
  BY <1>1 DEF Init, EventsOK, CountOK
<1>4. QED
  BY <1>2, <1>3 DEF ScheduleOK

\* The steps before the simulation.
LEMMA PreparationSchedule ==
    ASSUME ScheduleOK, pc \in {"sizes", "topology", "pairs", "draw", "flows"},
           pc' # "run" /\ pc' # "done", UNCHANGED <<accum, seen, snapshots>>
    PROVE  ScheduleOK'
<1>1. NothingSampled
  BY DEF ScheduleOK, SamplesTyped, NothingSampled
<1>2. NothingSampled'
  BY <1>1 DEF NothingSampled
<1>3. (SamplesTyped /\ SumsOK)'
  BY <1>2, NothingSampledSafe, PTL
<1>4. EventsOK' /\ CountOK'
  BY DEF EventsOK, CountOK
<1>5. QED
  BY <1>3, <1>4 DEF ScheduleOK

\* GetStatus schedules every sub-sample and snapshot of every interval, and the stop.
LEMMA ScheduleSamplesSchedule ==
    ASSUME DriverOK, ScheduleOK, ScheduleSamples
    PROVE  ScheduleOK'
<1>1. TopologyOK /\ TopologyOK'
  <2>1. DriverOK'
    BY FlowsKept DEF ScheduleSamples, topoVars, flowVars
  <2>2. QED
    BY <2>1 DEF DriverOK
<1>2. /\ pc = "flows" /\ pc' = "run"
      /\ UNCHANGED <<input, allLinks, accum, seen, snapshots>>
      /\ events' = {[at |-> t + 2 * sub + 1, what |-> "RecordAllQueuesAtSubPoint"] :
                      t \in Starts, sub \in 0 .. SubSamples - 1}
                   \cup {[at |-> t + Interval, what |-> "RecordAllQueues"] : t \in Starts}
                   \cup {[at |-> 0, what |-> "StartApplication"],
                         [at |-> StopTime, what |-> "Stop"]}
  BY DEF ScheduleSamples, topoVars
<1>3. NothingSampled /\ NothingSampled'
  <2>1. NothingSampled
    BY <1>2 DEF ScheduleOK, SamplesTyped, NothingSampled
  <2>2. QED
    BY <1>2, <2>1 DEF NothingSampled
<1>4. (SamplesTyped /\ SumsOK)'
  BY <1>3, NothingSampledSafe, PTL
<1>5. Len(snapshots') = 0 /\ accum'.count = 0
  BY <1>3, EmptySeq DEF NothingSampled
<1>6. /\ 0 \in Nat /\ \A t \in Starts : t >= StartOf(0) /\ t \in Nat /\ StartOf(0) \in Nat
  BY <1>1, StartsApart DEF TopologyOK
<1>7. Starts' = Starts /\ StopTime' = StopTime
  BY <1>2 DEF Starts, StopTime
<1>8. EventsOK'
  <2>1. ASSUME NEW t \in Starts, NEW sub \in 0 .. SubSamples - 1
        PROVE  SubEvent(t, sub) \in events'
    BY <1>2, <2>1 DEF SubEvent
  <2>2. ASSUME NEW e \in events', e.what = "RecordAllQueuesAtSubPoint"
        PROVE  \E t \in Starts, sub \in 0 .. SubSamples - 1 :
                  e = SubEvent(t, sub) /\ Left(0, 0, t, sub)
    <3>1. PICK t \in Starts, sub \in 0 .. SubSamples - 1 :
             e = [at |-> t + 2 * sub + 1, what |-> "RecordAllQueuesAtSubPoint"]
      BY <1>2, <2>2
    <3>2. Left(0, 0, t, sub)
      <4>1. sub >= 0 /\ (t > StartOf(0) \/ t = StartOf(0))
        BY <1>6, SMT
      <4>2. QED
        BY <4>1 DEF Left
    <3>3. QED
      BY <3>1, <3>2 DEF SubEvent
  <2>3. ASSUME NEW t \in Starts
        PROVE  SnapEvent(t) \in events'
    BY <1>2, <2>3 DEF SnapEvent
  <2>4. ASSUME NEW e \in events', e.what = "RecordAllQueues"
        PROVE  \E t \in Starts : e = SnapEvent(t) /\ t >= StartOf(0)
    BY <1>2, <1>6, <2>4 DEF SnapEvent
  <2>5. StopEvent \in events' /\ \A e \in events' : e.what = "Stop" => e = StopEvent
    BY <1>2 DEF StopEvent
  <2>6. StopEvent' = StopEvent
    BY <1>7 DEF StopEvent
  <2>7. QED
    BY <1>5, <1>7, <2>1, <2>2, <2>3, <2>4, <2>5, <2>6 DEF EventsOK
<1>9. CountOK'
  <2>1. {t \in Starts : t < StartOf(0)} = {}
    BY <1>6, SMT
  <2>2. Cardinality({}) = 0
    BY FS_EmptySet
  <2>3. QED
    BY <1>2, <1>5, <1>7, <2>1, <2>2 DEF CountOK
<1>10. QED
  BY <1>4, <1>8, <1>9 DEF ScheduleOK

\* What stays pending when e has run.
LEMMA RunsOne ==
    ASSUME NEW e, NEW what, Runs(e, what)
    PROVE  /\ pc = "run" /\ e \in events /\ e.what = what /\ events' \subseteq events
           /\ \A f \in events : f # e => f \in events'
           /\ \A t : what # "RecordAllQueues" /\ SnapEvent(t) \in events => SnapEvent(t) \in events'
           /\ \A t, sub : what # "RecordAllQueuesAtSubPoint" /\ SubEvent(t, sub) \in events
                             => SubEvent(t, sub) \in events'
           /\ what # "Stop" /\ StopEvent \in events => StopEvent \in events'
BY DEF Runs, SnapEvent, SubEvent, StopEvent

\* The start of the applications leaves the samples alone.
LEMMA StartApplicationsSchedule ==
    ASSUME DriverOK, ScheduleOK, NEW e, StartApplications(e)
    PROVE  ScheduleOK'
<1>1. /\ Runs(e, "StartApplication") /\ pc' \in {"run", "aborted"}
      /\ UNCHANGED <<input, allLinks, accum, seen, snapshots>>
  BY DEF StartApplications, Runs, topoVars
<1>2. Starts' = Starts /\ StopEvent' = StopEvent /\ Sums' = Sums
  BY <1>1 DEF Starts, StopEvent, StopTime, Sums
<1>3. SamplesTyped' /\ SumsOK' /\ CountOK'
  <2>1. pc = "run"
    BY <1>1 DEF Runs
  <2>2. QED
    BY <1>1, <1>2, <2>1 DEF ScheduleOK, SamplesTyped, SumsOK, CountOK
<1>4. EventsOK'
  <2>1. EventsOK /\ pc = "run"
    BY <1>1 DEF ScheduleOK, Runs
  <2>2. /\ events' \subseteq events
        /\ \A t : SnapEvent(t) \in events => SnapEvent(t) \in events'
        /\ \A t, sub : SubEvent(t, sub) \in events => SubEvent(t, sub) \in events'
        /\ StopEvent \in events => StopEvent \in events'
    BY <1>1, RunsOne
  <2>3. QED
    BY <1>1, <1>2, <2>1, <2>2 DEF EventsOK
<1>5. QED
  BY <1>3, <1>4 DEF ScheduleOK

\* A sub-sample adds to the sums of its own interval.
LEMMA SubSampleSchedule ==
    ASSUME DriverOK, ScheduleOK, NEW e,
           NEW lens \in [DOMAIN allLinks -> QueueLengths \X QueueLengths],
           RecordAllQueuesAtSubPoint(e, lens)
    PROVE  ScheduleOK'
<1> DEFINE k == Len(snapshots)
           c == accum.count
           b == StartOf(k)
           Lens == [DOMAIN allLinks -> Nat \X Nat]
<1>1. TopologyOK /\ SamplesTyped /\ EventsOK /\ CountOK /\ SumsOK
  BY DEF DriverOK, ScheduleOK
<1>2. /\ Runs(e, "RecordAllQueuesAtSubPoint") /\ pc = "run" /\ pc' = pc
      /\ accum' = [count |-> accum.count + 1,
                   sum |-> [l \in DOMAIN allLinks |-> [side \in 1 .. 2 |->
                      (IF accum.sum = <<>> THEN 0 ELSE accum.sum[l][side]) + lens[l][side]]]]
      /\ seen' = Append(seen, lens)
      /\ UNCHANGED <<input, allLinks, snapshots>>
  BY DEF RecordAllQueuesAtSubPoint, Runs, topoVars
<1>3. Starts' = Starts /\ StopEvent' = StopEvent /\ Sums' = Sums
  BY <1>2 DEF Starts, StopEvent, StopTime, Sums
<1>4. c < SubSamples /\ b \in Starts /\ e = SubEvent(b, c)
  BY <1>1, <1>2, SubSampleInTurn
<1>5. /\ k \in Nat /\ c \in 0 .. SubSamples /\ b \in Nat /\ SubSamples \in Nat \ {0}
      /\ Interval \in Nat /\ Interval = SubSamples + SubSamples
      /\ \A t \in Starts : t \in Nat /\ (t > b => t >= b + Interval)
  BY <1>1, ScheduleNumbers
<1>6. accum'.count = c + 1 /\ c + 1 \in 0 .. SubSamples /\ c + 1 # 0
  BY <1>2, <1>4, <1>5, SMT
<1>7. lens \in Lens
  BY ExperimentAssumption
<1>8. \A l \in DOMAIN allLinks : \A side \in 1 .. 2 : lens[l][side] \in Nat
  <2>1. \A side \in 1 .. 2 : side = 1 \/ side = 2
    BY SMT
  <2>2. \A p \in Nat \X Nat : p[1] \in Nat /\ p[2] \in Nat
    OBVIOUS
  <2>3. \A l \in DOMAIN allLinks : lens[l] \in Nat \X Nat
    BY <1>7
  <2>4. QED
    BY <2>1, <2>2, <2>3
<1>9. \A l \in DOMAIN allLinks : \A side \in 1 .. 2 :
        (IF accum.sum = <<>> THEN 0 ELSE accum.sum[l][side]) + lens[l][side] \in Nat
  <2>1. ASSUME NEW l \in DOMAIN allLinks, NEW side \in 1 .. 2, accum.sum # <<>>
        PROVE  accum.sum[l][side] \in Nat
    BY <1>1, <2>1 DEF SamplesTyped, Sums
  <2>2. \A m, n \in Nat : m + n \in Nat
    BY SMT
  <2>3. QED
    BY <1>8, <2>1, <2>2
<1>10. SamplesTyped'
  <2>1. accum'.sum \in [DOMAIN allLinks -> [1 .. 2 -> Nat]]
    BY <1>2, <1>9
  <2>2. accum' \in [count : 0 .. SubSamples, sum : Sums]
    BY <1>2, <1>6, <2>1 DEF Sums
  <2>3. seen \in Seq(Lens) /\ Len(seen) = k * SubSamples + c
    BY <1>1 DEF SamplesTyped
  <2>4. seen' \in Seq(Lens) /\ Len(seen') = Len(seen) + 1
    BY <1>2, <1>7, <2>3, AppendProperties
  <2>5. Len(seen') = k * SubSamples + (c + 1)
    <3>1. k * SubSamples \in Int
      BY <1>5, SMT
    <3>2. QED
      BY <1>5, <2>3, <2>4, <3>1, SMT
  <2>6. QED
    BY <1>1, <1>2, <1>3, <1>6, <2>2, <2>4, <2>5 DEF SamplesTyped
<1>11. EventsOK'
  <2>1. /\ events' \subseteq events /\ \A f \in events : f # e => f \in events'
        /\ \A t : SnapEvent(t) \in events => SnapEvent(t) \in events'
        /\ StopEvent \in events => StopEvent \in events'
    BY <1>2, RunsOne
  <2>2. e \notin events'
    BY <1>2 DEF Runs
  <2>3. ASSUME NEW t \in Starts, NEW sub \in 0 .. SubSamples - 1, Left(k, c + 1, t, sub)
        PROVE  SubEvent(t, sub) \in events'
    <3>1. Left(k, c, t, sub) /\ t + 2 * sub + 1 # b + 2 * c + 1
      BY <1>4, <1>5, <2>3, SMT DEF Left
    <3>2. SubEvent(t, sub) # e
      BY <1>4, <3>1 DEF SubEvent
    <3>3. SubEvent(t, sub) \in events
      BY <1>1, <1>2, <3>1 DEF EventsOK
    <3>4. QED
      BY <2>1, <3>2, <3>3
  <2>4. ASSUME NEW f \in events', f.what = "RecordAllQueuesAtSubPoint"
        PROVE  \E t \in Starts, sub \in 0 .. SubSamples - 1 :
                  f = SubEvent(t, sub) /\ Left(k, c + 1, t, sub)
    <3>1. PICK t \in Starts, sub \in 0 .. SubSamples - 1 :
             f = SubEvent(t, sub) /\ Left(k, c, t, sub)
      BY <1>1, <1>2, <2>1, <2>4 DEF EventsOK
    <3>2. ~(t = b /\ sub = c)
      BY <1>4, <2>2, <2>4, <3>1
    <3>3. Left(k, c + 1, t, sub)
      BY <1>5, <3>1, <3>2, SMT DEF Left
    <3>4. QED
      BY <3>1, <3>3
  <2>5. Len(snapshots') = k /\ pc = "run"
    BY <1>2
  <2>6. QED
    BY <1>1, <1>3, <1>6, <2>1, <2>3, <2>4, <2>5 DEF EventsOK
<1>12. CountOK'
  BY <1>1, <1>2, <1>3 DEF CountOK
<1>13. SumsOK'
  <2> DEFINE a == k * SubSamples
             own == SubSeq(seen, a + 1, Len(seen))
  <2>1. seen \in Seq(Lens) /\ Len(seen) = a + c /\ seen' = Append(seen, lens)
    BY <1>1, <1>2 DEF SamplesTyped
  <2>2. a \in Nat /\ a <= Len(seen) /\ Len(seen) \in Nat /\ Len(seen) - a = c
    <3>1. a \in Int /\ 0 * SubSamples <= a /\ 0 * SubSamples = 0
      BY <1>5, TimesCancels, SMT
    <3>2. QED
      BY <1>5, <2>1, <3>1, SMT
  <2>10. lens \in Lens /\ seen \in Seq(Lens)
    BY <1>7, <2>1
  <2> HIDE DEF a, Lens
  <2>3. /\ SubSeq(seen', a + 1, Len(seen) + 1) = Append(own, lens)
        /\ own \in Seq(Lens) /\ Len(own) = c
    <3>1. /\ SubSeq(Append(seen, lens), a + 1, Len(seen) + 1) = Append(own, lens)
          /\ own \in Seq(Lens) /\ Len(own) = Len(seen) - a
      <4>1. \A m \in Nat : m <= Len(seen) =>
               /\ SubSeq(Append(seen, lens), m + 1, Len(seen) + 1)
                    = Append(SubSeq(seen, m + 1, Len(seen)), lens)
               /\ SubSeq(seen, m + 1, Len(seen)) \in Seq(Lens)
               /\ Len(SubSeq(seen, m + 1, Len(seen))) = Len(seen) - m
        BY <2>10, RestOfAppend
      <4>2. QED
        BY <2>2, <4>1
    <3>2. SubSeq(seen', a + 1, Len(seen) + 1) = Append(own, lens)
      BY <2>1, <3>1
    <3>3. Len(own) = c
      BY <2>2, <3>1
    <3>4. QED
      BY <3>1, <3>2, <3>3
  <2>4. Len(seen') = Len(seen) + 1
    BY <2>10, <2>1, AppendProperties
  <2>5. ASSUME NEW l \in DOMAIN allLinks, NEW side \in 1 .. 2
        PROVE  accum'.sum[l][side]
                 = SumsUpTo(SubSeq(seen', a + 1, Len(seen')), l, side)[c + 1]
    <3>1. accum'.sum[l][side]
            = (IF accum.sum = <<>> THEN 0 ELSE accum.sum[l][side]) + lens[l][side]
      BY <1>2
    <3>2. (IF accum.sum = <<>> THEN 0 ELSE accum.sum[l][side]) = SumsUpTo(own, l, side)[c]
      <4>1. CASE c = 0
        <5>1. accum.sum = <<>>
          BY <1>1, <4>1 DEF SumsOK
        <5>2. SumsUpTo(own, l, side)[0] = 0
          BY <2>3, SumsUpToUnfolds
        <5>3. QED
          BY <4>1, <5>1, <5>2
      <4>2. CASE c # 0
        <5>1. /\ DOMAIN accum.sum = DOMAIN allLinks
              /\ accum.sum[l][side] = SumsUpTo(own, l, side)[c]
          BY <1>1, <4>2 DEF SumsOK, a
        <5>2. accum.sum # <<>>
          <6>1. DOMAIN <<>> = {}
            OBVIOUS
          <6>2. QED
            BY <2>5, <5>1, <6>1
        <5>3. QED
          BY <5>1, <5>2
      <4>3. QED
        BY <4>1, <4>2
    <3>3. SumsUpTo(Append(own, lens), l, side)[Len(own) + 1]
            = SumsUpTo(own, l, side)[Len(own)] + lens[l][side]
      <4> HIDE DEF own
      <4>1. QED
        BY <2>10, <2>3, SumsOfAppend
    <3>4. QED
      BY <2>3, <2>4, <3>1, <3>2, <3>3
  <2>6. ASSUME NEW i \in 1 .. k, NEW l \in DOMAIN allLinks, NEW side \in 1 .. 2
        PROVE  snapshots[i].sum[l][side]
                 = SumsUpTo(SubSeq(seen', (i - 1) * SubSamples + 1, i * SubSamples), l, side)[SubSamples]
    <3>1. (i - 1) * SubSamples \in Nat /\ i * SubSamples \in Nat /\ i * SubSamples <= Len(seen)
      <4>1. /\ i - 1 \in Nat /\ i \in Nat /\ i <= k /\ 0 <= i - 1 /\ 0 <= i /\ i - 1 \in Int
            /\ i \in Int /\ k \in Int /\ 0 \in Int
        BY <1>5, SMT
      <4>2. /\ 0 * SubSamples = 0 /\ 0 * SubSamples <= (i - 1) * SubSamples
            /\ 0 * SubSamples <= i * SubSamples /\ i * SubSamples <= k * SubSamples
        BY <1>5, <4>1, TimesCancels, SMT
      <4>3. (i - 1) * SubSamples \in Int /\ i * SubSamples \in Int /\ k * SubSamples \in Int
        BY <1>5, <4>1, SMT
      <4>4. QED
        BY <2>2, <4>2, <4>3, SMT DEF a
    <3>2. SubSeq(seen', (i - 1) * SubSamples + 1, i * SubSamples)
            = SubSeq(seen, (i - 1) * SubSamples + 1, i * SubSamples)
      <4>1. \A m, n \in Nat : n <= Len(seen) =>
               SubSeq(Append(seen, lens), m + 1, n) = SubSeq(seen, m + 1, n)
        BY <2>10, PartKept
      <4>2. QED
        BY <2>1, <3>1, <4>1
    <3>3. QED
      BY <1>1, <3>2 DEF SumsOK
  <2>7. DOMAIN accum'.sum = DOMAIN allLinks'
    BY <1>2
  <2>8. QED
    BY <1>2, <1>6, <2>5, <2>6, <2>7 DEF SumsOK, a
<1>14. QED
  BY <1>10, <1>11, <1>12, <1>13 DEF ScheduleOK

\* Another interval is over.
LEMMA SnapshotSchedule ==
    ASSUME DriverOK, ScheduleOK, NEW e, RecordAllQueues(e)
    PROVE  ScheduleOK'
<1> DEFINE k == Len(snapshots)
           c == accum.count
           b == StartOf(k)
           Lens == [DOMAIN allLinks -> Nat \X Nat]
           Taken == [count : {SubSamples}, sum : Sums]
<1>1. TopologyOK /\ SamplesTyped /\ EventsOK /\ CountOK /\ SumsOK
  BY DEF DriverOK, ScheduleOK
<1>2. /\ Runs(e, "RecordAllQueues") /\ pc = "run" /\ pc' = pc
      /\ snapshots' = Append(snapshots, accum)
      /\ accum' = [count |-> 0, sum |-> <<>>]
      /\ UNCHANGED <<input, allLinks, seen>>
  BY DEF RecordAllQueues, Cleared, Runs, topoVars
<1>3. Starts' = Starts /\ StopEvent' = StopEvent /\ Sums' = Sums
  BY <1>2 DEF Starts, StopEvent, StopTime, Sums
<1>4. c = SubSamples /\ b \in Starts /\ e = SnapEvent(b)
  BY <1>1, <1>2, SnapshotInTurn
<1>5. /\ k \in Nat /\ b \in Nat /\ SubSamples \in Nat \ {0}
      /\ Interval \in Nat /\ Interval = SubSamples + SubSamples
      /\ StartOf(k + 1) = b + Interval /\ input.appsStop \in Nat
      /\ \A t \in Starts : /\ t \in Nat /\ t <= input.appsStop
                           /\ t > b => t >= b + Interval
                           /\ t < b => t + Interval <= b
  BY <1>1, ScheduleNumbers
<1>6. /\ snapshots \in Seq(Taken) /\ accum \in Taken
  <2>1. snapshots \in Seq(Taken) /\ accum \in [count : 0 .. SubSamples, sum : Sums]
    BY <1>1 DEF SamplesTyped
  <2>2. accum \in Taken
    BY <1>4, <2>1
  <2>3. QED
    BY <2>1, <2>2
<1>7. /\ snapshots' \in Seq(Taken) /\ Len(snapshots') = k + 1
      /\ snapshots'[k + 1] = accum /\ \A i \in 1 .. k : snapshots'[i] = snapshots[i]
  <2> HIDE DEF Taken
  <2>1. QED
    BY <1>2, <1>6, AppendProperties
<1>8. /\ Len(seen) = k * SubSamples + SubSamples /\ k * SubSamples \in Int
      /\ (k + 1) * SubSamples = k * SubSamples + SubSamples /\ (k + 1) - 1 = k
  <2>1. Len(seen) = k * SubSamples + SubSamples
    BY <1>1, <1>4 DEF SamplesTyped
  <2>2. k * SubSamples \in Int /\ (k + 1) * SubSamples = k * SubSamples + SubSamples /\ (k + 1) - 1 = k
    BY <1>5, SMT
  <2>3. QED
    BY <2>1, <2>2
<1>9. SamplesTyped'
  <2>1. accum' \in [count : 0 .. SubSamples, sum : Sums]
    <3>1. 0 \in 0 .. SubSamples
      BY <1>5, SMT
    <3>2. QED
      BY <1>2, <3>1 DEF Sums
  <2>2. seen' \in Seq(Lens) /\ Len(seen') = (k + 1) * SubSamples + 0
    <3>1. seen \in Seq(Lens)
      BY <1>1 DEF SamplesTyped
    <3>2. (k + 1) * SubSamples = (k + 1) * SubSamples + 0
      BY <1>5, SMT
    <3>3. QED
      BY <1>2, <1>8, <3>1, <3>2
  <2>3. QED
    BY <1>2, <1>3, <1>7, <2>1, <2>2 DEF SamplesTyped
<1>10. EventsOK'
  <2>1. /\ events' \subseteq events /\ \A f \in events : f # e => f \in events'
        /\ \A t, sub : SubEvent(t, sub) \in events => SubEvent(t, sub) \in events'
        /\ StopEvent \in events => StopEvent \in events'
    BY <1>2, RunsOne
  <2>2. e \notin events'
    BY <1>2 DEF Runs
  <2>3. \A t \in Starts, sub \in 0 .. SubSamples - 1 :
           Left(k + 1, 0, t, sub) <=> Left(k, c, t, sub)
    <3>1. ASSUME NEW t \in Starts, NEW sub \in 0 .. SubSamples - 1
          PROVE  (t > b + Interval \/ (t = b + Interval /\ sub >= 0))
                   <=> (t > b \/ (t = b /\ sub >= SubSamples))
      BY <1>5, <3>1, SMT
    <3>2. QED
      BY <1>4, <1>5, <3>1 DEF Left
  <2>4. ASSUME NEW t \in Starts, t >= b + Interval
        PROVE  SnapEvent(t) \in events'
    <3>1. t >= b /\ t + Interval # b + Interval
      BY <1>5, <2>4, SMT
    <3>2. SnapEvent(t) \in events
      BY <1>1, <1>2, <3>1 DEF EventsOK
    <3>3. SnapEvent(t) # e
      BY <1>4, <3>1 DEF SnapEvent
    <3>4. QED
      BY <2>1, <3>2, <3>3
  <2>5. ASSUME NEW f \in events', f.what = "RecordAllQueues"
        PROVE  \E t \in Starts : f = SnapEvent(t) /\ t >= b + Interval
    <3>1. PICK t \in Starts : f = SnapEvent(t) /\ t >= b
      BY <1>1, <1>2, <2>1, <2>5 DEF EventsOK
    <3>2. t # b
      BY <1>4, <2>2, <2>5, <3>1
    <3>3. t >= b + Interval
      BY <1>5, <3>1, <3>2, SMT
    <3>4. QED
      BY <3>1, <3>3
  <2>6. /\ \A t \in Starts, sub \in 0 .. SubSamples - 1 :
             Left(k + 1, 0, t, sub) => SubEvent(t, sub) \in events'
        /\ \A f \in events' : f.what = "RecordAllQueuesAtSubPoint" =>
             \E t \in Starts, sub \in 0 .. SubSamples - 1 :
                f = SubEvent(t, sub) /\ Left(k + 1, 0, t, sub)
    BY <1>1, <1>2, <2>1, <2>3 DEF EventsOK
  <2>7. accum'.count = 0
    BY <1>2
  <2>8. QED
    BY <1>1, <1>2, <1>3, <1>5, <1>7, <2>1, <2>4, <2>5, <2>6, <2>7 DEF EventsOK
<1>11. CountOK'
  <2> DEFINE Over == {t \in Starts : t < b}
  <2>1. Cardinality(Over) = k
    BY <1>1, <1>2 DEF CountOK
  <2>2. IsFiniteSet(Over)
    <3>1. IsFiniteSet(SampleStart .. input.appsStop)
      <4>1. SampleStart \in Int /\ input.appsStop \in Int
        BY <1>5, ExperimentAssumption, SMT
      <4>2. QED
        BY <4>1, FS_Interval
    <3>2. Over \subseteq SampleStart .. input.appsStop
      BY DEF Starts
    <3>3. QED
      BY <3>1, <3>2, FS_Subset
  <2>3. b \notin Over
    BY <1>5, SMT
  <2>4. {t \in Starts : t < b + Interval} = Over \cup {b}
    <3>1. \A t \in Starts : t < b + Interval <=> (t < b \/ t = b)
      BY <1>5, SMT
    <3>2. QED
      BY <1>4, <3>1
  <2>5. Cardinality(Over \cup {b}) = k + 1
    <3> HIDE DEF Over
    <3>1. QED
      BY <2>1, <2>2, <2>3, FS_AddElement
  <2>6. QED
    BY <1>2, <1>3, <1>5, <1>7, <2>4, <2>5 DEF CountOK
<1>12. SumsOK'
  <2>1. ASSUME NEW i \in 1 .. k + 1, NEW l \in DOMAIN allLinks, NEW side \in 1 .. 2
        PROVE  snapshots'[i].sum[l][side]
                 = SumsUpTo(SubSeq(seen, (i - 1) * SubSamples + 1, i * SubSamples), l, side)[SubSamples]
    <3>1. CASE i = k + 1
      <4>1. SubSeq(seen, k * SubSamples + 1, Len(seen))
              = SubSeq(seen, (i - 1) * SubSamples + 1, i * SubSamples)
        BY <1>8, <3>1
      <4>2. accum.sum[l][side]
              = SumsUpTo(SubSeq(seen, k * SubSamples + 1, Len(seen)), l, side)[SubSamples]
        <5>1. accum.count # 0
          BY <1>4, <1>5
        <5>2. QED
          BY <1>1, <1>4, <5>1 DEF SumsOK
      <4>3. QED
        BY <1>7, <3>1, <4>1, <4>2
    <3>2. CASE i # k + 1
      <4>1. i \in 1 .. k
        BY <1>5, <3>2, SMT
      <4>2. QED
        BY <1>1, <1>7, <4>1 DEF SumsOK
    <3>3. QED
      BY <3>1, <3>2
  <2>2. accum'.count = 0 /\ accum'.sum = <<>>
    BY <1>2
  <2>3. QED
    BY <1>2, <1>7, <2>1, <2>2 DEF SumsOK
<1>13. QED
  BY <1>9, <1>10, <1>11, <1>12 DEF ScheduleOK

\* The simulation stops.
LEMMA StopSchedule ==
    ASSUME DriverOK, ScheduleOK, NEW e, Stop(e)
    PROVE  ScheduleOK'
<1>1. TopologyOK /\ SamplesTyped /\ EventsOK /\ CountOK /\ SumsOK
  BY DEF DriverOK, ScheduleOK
<1>2. /\ Runs(e, "Stop") /\ pc = "run" /\ pc' = "done"
      /\ UNCHANGED <<input, allLinks, accum, seen, snapshots>>
  BY DEF Stop, Runs, topoVars
<1>3. Starts' = Starts /\ Sums' = Sums
  BY <1>2 DEF Starts, Sums
<1>4. \A t \in Starts : t < StartOf(Len(snapshots))
  BY <1>1, <1>2, StopInTurn
<1>5. {t \in Starts : t < StartOf(Len(snapshots))} = Starts
  BY <1>4
<1>6. CountOK'
  BY <1>1, <1>2, <1>3, <1>5 DEF CountOK
<1>7. EventsOK'
  BY <1>2 DEF EventsOK
<1>8. SamplesTyped' /\ SumsOK'
  BY <1>1, <1>2, <1>3 DEF SamplesTyped, SumsOK
<1>9. QED
  BY <1>6, <1>7, <1>8 DEF ScheduleOK

\* Every step keeps the invariant of the schedule.
LEMMA ScheduleNext == DriverOK /\ ScheduleOK /\ [Next]_vars => ScheduleOK'
<1>1. SUFFICES ASSUME DriverOK, ScheduleOK, [Next]_vars PROVE ScheduleOK'
  OBVIOUS
<1>2. CASE Read
  BY <1>1, <1>2, PreparationSchedule
  DEF Read, LoadSizeCdf, ReadTopology, Fails, sampleVars
<1>3. CASE \E node \in edgeNodes : PickSource(node) \/ PickDestination(node)
  BY <1>1, <1>3, PreparationSchedule DEF PickSource, PickDestination, sampleVars
<1>4. CASE PairsDone
  BY <1>1, <1>4, PreparationSchedule DEF PairsDone, sampleVars
<1>5. CASE \E u \in 0 .. Percent : Draw(u)
  BY <1>1, <1>5, PreparationSchedule DEF Draw, sampleVars
<1>6. CASE DrawsDone
  BY <1>1, <1>6, PreparationSchedule DEF DrawsDone, sampleVars
<1>7. CASE InstallFlow
  BY <1>1, <1>7, PreparationSchedule DEF InstallFlow, Fails, sampleVars
<1>8. CASE ScheduleSamples
  BY <1>1, <1>8, ScheduleSamplesSchedule
<1>9. CASE Simulate
  <2>1. PICK e \in events :
          \/ StartApplications(e)
          \/ \E lens \in [DOMAIN allLinks -> QueueLengths \X QueueLengths] :
                 RecordAllQueuesAtSubPoint(e, lens)
          \/ RecordAllQueues(e)
          \/ Stop(e)
    BY <1>9 DEF Simulate
  <2>2. CASE StartApplications(e)
    BY <1>1, <2>2, StartApplicationsSchedule
  <2>3. CASE \E lens \in [DOMAIN allLinks -> QueueLengths \X QueueLengths] :
                 RecordAllQueuesAtSubPoint(e, lens)
    BY <1>1, <2>3, SubSampleSchedule
  <2>4. CASE RecordAllQueues(e)
    BY <1>1, <2>4, SnapshotSchedule
  <2>5. CASE Stop(e)
    BY <1>1, <2>5, StopSchedule
  <2>6. QED
    BY <2>1, <2>2, <2>3, <2>4, <2>5
<1>10. CASE UNCHANGED vars
  BY <1>1, <1>10
  DEF vars, topoVars, flowVars, sampleVars, ScheduleOK, SamplesTyped, EventsOK, CountOK,
      SumsOK, Starts, StopEvent, StopTime, Sums
<1>11. QED
  BY <1>1, <1>2, <1>3, <1>4, <1>5, <1>6, <1>7, <1>8, <1>9, <1>10 DEF Next, Prepare

\* What is pending, the sums and the snapshots of every reachable state.
THEOREM ScheduleSafety == Spec => []ScheduleOK
<1>1. Init => DriverOK /\ ScheduleOK
  BY DriverInit, ScheduleInit
<1>2. DriverOK /\ ScheduleOK /\ [Next]_vars => (DriverOK /\ ScheduleOK)'
  BY DriverNext, ScheduleNext
<1>3. QED
  BY <1>1, <1>2, PTL DEF Spec

\* For any traffic and any number of sub-samples, every interval that begins
\* before the applications stop has its snapshot before the simulation does, and
\* each averages the sub-samples of its own interval: all of them and no others.
THEOREM SnapshotsAreComplete == Spec => []SnapshotsCoverIntervals
<1>1. ScheduleOK => SnapshotsCoverIntervals
  <2>1. SUFFICES ASSUME ScheduleOK PROVE SnapshotsCoverIntervals
    OBVIOUS
  <2>2. snapshots \in Seq([count : {SubSamples}, sum : Sums]) /\ SumsOK /\ CountOK
    BY <2>1 DEF ScheduleOK, SamplesTyped
  <2>3. DOMAIN snapshots = 1 .. Len(snapshots)
    BY <2>2, LenProperties
  <2>4. \A k \in DOMAIN snapshots : snapshots[k].count = SubSamples
    <3>1. \A k \in DOMAIN snapshots : snapshots[k] \in [count : {SubSamples}, sum : Sums]
      BY <2>2, <2>3, ElementOfSeq
    <3>2. QED
      BY <3>1
  <2>5. QED
    BY <2>2, <2>3, <2>4 DEF SnapshotsCoverIntervals, SumsOK, CountOK
<1>2. QED
  BY <1>1, ScheduleSafety, PTL

\* Every link joins two nodes that exist, flows connect edge nodes, and sinks
\* are on nodes with an address, for any files, arguments and traffic.
THEOREM DriverTypeCorrect == Spec => []TypeOK
<1>1. DriverOK /\ ScheduleOK => TypeOK
  <2>1. SUFFICES ASSUME DriverOK, ScheduleOK PROVE TypeOK
    OBVIOUS
  <2>2. TopologyOK /\ FlowsOK /\ accum.count \in 0 .. SubSamples
    BY <2>1 DEF DriverOK, ScheduleOK, SamplesTyped
  <2>3. \A i \in DOMAIN allLinks : \A side \in 1 .. 2 : allLinks[i][side] \in 0 .. nodes - 1
    <3>1. \A S : \A p \in S \X S : \A side \in 1 .. 2 : p[side] \in S
      <4>1. \A side \in 1 .. 2 : side = 1 \/ side = 2
        BY SMT
      <4>2. QED
        BY <4>1
    <3>2. \A i \in DOMAIN allLinks : allLinks[i] \in (0 .. nodes - 1) \X (0 .. nodes - 1)
      BY <2>2, ElementOfSeq, LenProperties DEF TopologyOK
    <3>3. QED
      BY <3>1, <3>2
  <2>4. \A i \in DOMAIN pairs : pairs[i] \in edgeNodes \X edgeNodes
    BY <2>2, ElementOfSeq, LenProperties DEF FlowsOK
  <2>5. src \subseteq edgeNodes /\ Cardinality(src) <= 1
    <3>1. CASE src = {}
      BY <3>1, FS_EmptySet
    <3>2. CASE src # {}
      <4>1. PICK node \in edgeNodes : src = {node}
        BY <2>2, <3>2 DEF FlowsOK
      <4>2. Cardinality({node}) = 1
        BY FS_Singleton
      <4>3. QED
        BY <4>1, <4>2
    <3>3. QED
      BY <3>1, <3>2
  <2>6. \A i \in DOMAIN sinks : sinks[i] \in [dst : Ends(allLinks), port : 0 .. PortRange - 1]
    <3> DEFINE Sinks == [dst : Ends(allLinks), port : 0 .. PortRange - 1]
    <3>1. sinks \in Seq(Sinks)
      BY <2>2 DEF FlowsOK
    <3> HIDE DEF Sinks
    <3>2. \A i \in DOMAIN sinks : sinks[i] \in Sinks
      BY <3>1, ElementOfSeq, LenProperties
    <3>3. QED
      BY <3>2 DEF Sinks
  <2>7. QED
    BY <2>2, <2>3, <2>4, <2>5, <2>6 DEF TypeOK, TopologyOK
<1>2. QED
  BY <1>1, DriverSafety, ScheduleSafety, PTL

------------------------------------------------------------------------------
\* The table of sizes.

Entry == [size : 0 .. SizeRange - 1, pct : 0 .. Percent]

\* A line's size and its percentage, clamped, are an entry of the table.
LEMMA ClampedEntries ==
    ASSUME NEW line \in SizeLine
    PROVE  /\ Clamped(line) \in Entry /\ Clamped(line).size = line.size
           /\ Clamped(line) = [size |-> line.size,
                               pct |-> IF line.pct < 0 THEN 0
                                       ELSE IF line.pct > Percent THEN Percent ELSE line.pct]
<1>1. line.pct \in Int /\ line.size \in 0 .. SizeRange - 1 /\ line = [size |-> line.size, pct |-> line.pct]
  BY DEF SizeLine
<1>2. (IF line.pct < 0 THEN 0 ELSE IF line.pct > Percent THEN Percent ELSE line.pct) \in 0 .. Percent
  BY <1>1, CdfAssumption, SMT
<1>3. Clamped(line) = [size |-> line.size,
                       pct |-> IF line.pct < 0 THEN 0
                               ELSE IF line.pct > Percent THEN Percent ELSE line.pct]
  BY <1>1 DEF Clamped
<1>4. QED
  BY <1>1, <1>2, <1>3 DEF Entry

\* The order that std::sort is given.
LEMMA BeforeOrders ==
    ASSUME NEW a \in Entry, NEW b \in Entry
    PROVE  /\ \A c \in Entry : Before(a, b) /\ Before(b, c) => Before(a, c)
           /\ ~Before(b, a) => a.pct <= b.pct /\ (a.pct = b.pct => a.size <= b.size)
<1>1. \A c \in Entry : c.pct \in Int /\ c.size \in Int
  BY SMT DEF Entry
<1>2. QED
  BY <1>1, SMT DEF Before

\* The permutations that sort the first m elements.
Arrangements(L, m) ==
    {p \in [1 .. m -> 1 .. m] :
       /\ \A i, j \in 1 .. m : p[i] = p[j] => i = j
       /\ \A x \in 1 .. m : \E i \in 1 .. m : p[i] = x
       /\ \A i, j \in 1 .. m : i < j => ~Before(L[p[j]], L[p[i]])}

\* The next element is inserted in front of the first one it comes before.
LEMMA OneMoreSorted ==
    ASSUME NEW n \in Nat, NEW L \in [1 .. n -> Entry], NEW m \in Nat, m + 1 <= n,
           NEW p \in Arrangements(L, m)
    PROVE  \E q : q \in Arrangements(L, m + 1)
<1> DEFINE Larger == {i \in 1 .. m : Before(L[m + 1], L[p[i]])} \cup {m + 1}
<1>1. PICK at \in Larger : \A i \in Larger : at <= i
  <2>1. Larger \subseteq Nat /\ Larger # {}
    BY SMT
  <2>2. QED
    BY <2>1, NatMinimum
<1> DEFINE q == [i \in 1 .. m + 1 |-> IF i < at THEN p[i] ELSE IF i = at THEN m + 1 ELSE p[i - 1]]
<1>2. at \in 1 .. m + 1
  BY <1>1, SMT
<1>3. \A i \in 1 .. m + 1 : /\ i < at => i \in 1 .. m
                            /\ i > at => i - 1 \in 1 .. m /\ i - 1 >= at
  BY <1>2, SMT
<1>4. /\ p \in [1 .. m -> 1 .. m]
      /\ \A i, j \in 1 .. m : p[i] = p[j] => i = j
      /\ \A x \in 1 .. m : \E i \in 1 .. m : p[i] = x
      /\ \A i, j \in 1 .. m : i < j => ~Before(L[p[j]], L[p[i]])
  BY DEF Arrangements
<1>5. \A i \in 1 .. m : p[i] \in 1 .. m + 1 /\ p[i] # m + 1 /\ p[i] \in 1 .. n
  <2>1. \A x \in 1 .. m : x \in 1 .. m + 1 /\ x # m + 1 /\ x \in 1 .. n
    BY SMT
  <2>2. QED
    BY <1>4, <2>1
<1>6. \A i \in 1 .. m + 1 : /\ i < at => q[i] = p[i]
                            /\ i = at => q[i] = m + 1
                            /\ i > at => q[i] = p[i - 1]
  BY <1>2, SMT
<1>7. \A i \in 1 .. m + 1 : i < at \/ i = at \/ i > at
  BY <1>2, SMT
<1>8. q \in [1 .. m + 1 -> 1 .. m + 1]
  <2>1. \A i \in 1 .. m + 1 : q[i] \in 1 .. m + 1
    BY <1>2, <1>3, <1>5, <1>6, <1>7
  <2>2. QED
    BY <2>1
<1> HIDE DEF q
<1>9. ASSUME NEW i \in 1 .. m + 1, NEW j \in 1 .. m + 1, i < j
      PROVE  q[i] # q[j]
  <2>1. CASE j < at
    <3>1. i < at /\ i # j
      BY <1>2, <1>9, <2>1, SMT
    <3>2. QED
      BY <1>3, <1>4, <1>6, <2>1, <3>1
  <2>2. CASE j = at
    BY <1>3, <1>5, <1>6, <1>9, <2>2
  <2>3. CASE j > at /\ i < at
    <3>1. i # j - 1
      BY <1>2, <2>3, SMT
    <3>2. i \in 1 .. m /\ j - 1 \in 1 .. m /\ q[i] = p[i] /\ q[j] = p[j - 1]
      BY <1>3, <1>6, <2>3
    <3>3. QED
      BY <1>4, <3>1, <3>2
  <2>4. CASE j > at /\ i = at
    BY <1>3, <1>5, <1>6, <2>4
  <2>5. CASE j > at /\ i > at
    <3>1. i - 1 # j - 1
      BY <1>9, SMT
    <3>2. i - 1 \in 1 .. m /\ j - 1 \in 1 .. m /\ q[i] = p[i - 1] /\ q[j] = p[j - 1]
      BY <1>3, <1>6, <2>5
    <3>3. QED
      BY <1>4, <3>1, <3>2
  <2>6. QED
    BY <1>7, <2>1, <2>2, <2>3, <2>4, <2>5
<1>10. \A i, j \in 1 .. m + 1 : q[i] = q[j] => i = j
  <2>1. \A i, j \in 1 .. m + 1 : i < j \/ j < i \/ i = j
    BY SMT
  <2>2. QED
    BY <1>9, <2>1
<1>11. ASSUME NEW x \in 1 .. m + 1
       PROVE  \E i \in 1 .. m + 1 : q[i] = x
  <2>1. CASE x = m + 1
    BY <1>2, <1>6, <2>1
  <2>2. CASE x # m + 1
    <3>1. x \in 1 .. m
      BY <2>2, SMT
    <3>2. PICK i \in 1 .. m : p[i] = x
      BY <1>4, <3>1
    <3>3. /\ i \in 1 .. m + 1 /\ i + 1 \in 1 .. m + 1 /\ (i + 1) - 1 = i
          /\ i < at \/ i + 1 > at
      BY <1>2, SMT
    <3>4. QED
      BY <1>6, <3>2, <3>3
  <2>3. QED
    BY <2>1, <2>2
<1>12. ASSUME NEW i \in 1 .. m + 1, NEW j \in 1 .. m + 1, i < j
       PROVE  ~Before(L[q[j]], L[q[i]])
  <2>1. CASE j < at
    <3>1. i < at
      BY <1>2, <1>12, <2>1, SMT
    <3>2. QED
      BY <1>3, <1>4, <1>6, <1>12, <2>1, <3>1
  <2>2. CASE j = at
    <3>1. i < at /\ i \in 1 .. m /\ ~(at <= i)
      BY <1>2, <1>12, <2>2, SMT
    <3>2. i \notin Larger
      BY <1>1, <3>1
    <3>3. QED
      BY <1>6, <2>2, <3>1, <3>2
  <2>3. CASE j > at /\ i < at
    <3>1. i < j - 1
      BY <1>2, <2>3, SMT
    <3>2. QED
      BY <1>3, <1>4, <1>6, <2>3, <3>1
  <2>4. CASE j > at /\ i = at
    <3>1. at \in 1 .. m /\ Before(L[m + 1], L[p[at]])
      <4>1. at # m + 1
        BY <1>2, <2>4, SMT
      <4>2. QED
        BY <1>1, <4>1
    <3>2. ~Before(L[p[j - 1]], L[p[at]])
      <4>1. j - 1 \in 1 .. m /\ (at < j - 1 \/ at = j - 1)
        BY <1>2, <2>4, SMT
      <4>2. CASE at = j - 1
        <5>1. L[p[at]] \in Entry
          BY <1>5, <3>1
        <5>2. \A a \in Entry : ~Before(a, a)
          BY SMT DEF Before, Entry
        <5>3. QED
          BY <4>2, <5>1, <5>2
      <4>3. QED
        BY <1>4, <3>1, <4>1, <4>2
    <3>3. /\ L[p[j - 1]] \in Entry /\ L[m + 1] \in Entry /\ L[p[at]] \in Entry
      <4>1. m + 1 \in 1 .. n
        BY SMT
      <4>2. QED
        BY <1>3, <1>5, <2>4, <3>1, <4>1
    <3>4. ~Before(L[p[j - 1]], L[m + 1])
      BY <3>1, <3>2, <3>3, BeforeOrders
    <3>5. QED
      BY <1>6, <2>4, <3>4
  <2>5. CASE j > at /\ i > at
    <3>1. i - 1 < j - 1
      BY <1>12, SMT
    <3>2. i - 1 \in 1 .. m /\ j - 1 \in 1 .. m /\ q[i] = p[i - 1] /\ q[j] = p[j - 1]
      BY <1>3, <1>6, <2>5
    <3>3. QED
      BY <1>4, <3>1, <3>2
  <2>6. QED
    BY <1>7, <2>1, <2>2, <2>3, <2>4, <2>5
<1>13. QED
  BY <1>8, <1>10, <1>11, <1>12 DEF Arrangements

\* Any list of lines can be arranged in the order of Before.
LEMMA SomeArrangement ==
    ASSUME NEW n \in Nat, NEW L \in [1 .. n -> Entry]
    PROVE  \E p : p \in Arrangements(L, n)
<1> DEFINE Sortable == {m \in 0 .. n : \E p : p \in Arrangements(L, m)}
<1>1. 0 \in Sortable
  <2>1. 1 .. 0 = {} /\ 0 \in 0 .. n
    BY SMT
  <2>2. [i \in 1 .. 0 |-> 0] \in Arrangements(L, 0)
    BY <2>1 DEF Arrangements
  <2>3. QED
    BY <2>1, <2>2
<1>2. ASSUME NEW m \in 0 .. n, m + 1 <= n, m \in Sortable
      PROVE  m + 1 \in Sortable
  <2>1. PICK p : p \in Arrangements(L, m)
    BY <1>2
  <2>2. m \in Nat /\ m + 1 \in 0 .. n
    BY <1>2, SMT
  <2>3. \E q : q \in Arrangements(L, m + 1)
    BY <1>2, <2>1, <2>2, OneMoreSorted
  <2>4. QED
    BY <2>2, <2>3
<1>3. n \in Sortable
  <2> HIDE DEF Sortable
  <2>1. \A m \in 0 .. n : m \in Sortable
    BY <1>1, <1>2, InductionUpTo
  <2>2. n \in 0 .. n
    BY SMT
  <2>3. QED
    BY <2>1, <2>2
<1>4. QED
  BY <1>3

Entries(lines) == [i \in DOMAIN lines |-> Clamped(lines[i])]

\* s has the lines in order: the p[i]-th is at place i.
SortingOf(s, lines) ==
    /\ s \in Seq(Entry) /\ Len(s) = Len(lines)
    /\ \A i, j \in 1 .. Len(lines) : i < j =>
         s[i].pct <= s[j].pct /\ (s[i].pct = s[j].pct => s[i].size <= s[j].size)
    /\ \E p \in [1 .. Len(lines) -> 1 .. Len(lines)] :
         /\ \A i, j \in 1 .. Len(lines) : p[i] = p[j] => i = j
         /\ \A x \in 1 .. Len(lines) : \E i \in 1 .. Len(lines) : p[i] = x
         /\ \A i \in 1 .. Len(lines) : s[i] = Clamped(lines[p[i]])

\* What Sorted chooses is an arrangement of the clamped lines.
LEMMA SortedEntries ==
    ASSUME NEW lines \in Seq(SizeLine), NEW s, s = Sorted(Entries(lines))
    PROVE  SortingOf(s, lines)
<1> DEFINE n == Len(lines)
           L == Entries(lines)
           Orders == {[i \in DOMAIN L |-> L[p[i]]] : p \in Bijection(DOMAIN L, DOMAIN L)}
           InOrder(t) == \A i, j \in DOMAIN L : i < j => ~Before(t[j], t[i])
<1>1. n \in Nat /\ DOMAIN lines = 1 .. n /\ DOMAIN L = 1 .. n
  BY LenProperties DEF Entries
<1>2. L \in [1 .. n -> Entry] /\ \A i \in 1 .. n : L[i] = Clamped(lines[i])
  <2>1. \A i \in 1 .. n : lines[i] \in SizeLine
    BY ElementOfSeq
  <2>2. \A i \in 1 .. n : Clamped(lines[i]) \in Entry
    BY <2>1, ClampedEntries
  <2>3. QED
    BY <1>1, <2>2 DEF Entries
<1> HIDE DEF n, L
<1>3. s = CHOOSE t \in Orders : InOrder(t)
  BY DEF Sorted, L
<1>4. \A p : p \in Bijection(1 .. n, 1 .. n) <=>
        /\ p \in [1 .. n -> 1 .. n]
        /\ \A i, j \in 1 .. n : p[i] = p[j] => i = j
        /\ \A x \in 1 .. n : \E i \in 1 .. n : p[i] = x
  BY DEF Bijection, Injection, Surjection, IsInjective
<1>5. \E t \in Orders : InOrder(t)
  <2>1. PICK p : p \in Arrangements(L, n)
    BY <1>1, <1>2, SomeArrangement
  <2>2. p \in Bijection(1 .. n, 1 .. n) /\ p \in [1 .. n -> 1 .. n]
    BY <1>4, <2>1 DEF Arrangements
  <2>3. [i \in 1 .. n |-> L[p[i]]] \in Orders
    BY <1>1, <2>2
  <2>4. \A i, j \in 1 .. n : i < j => ~Before(L[p[j]], L[p[i]])
    BY <2>1 DEF Arrangements
  <2>5. InOrder([i \in 1 .. n |-> L[p[i]]])
    BY <1>1, <2>4
  <2>6. QED
    BY <2>3, <2>5
<1>6. s \in Orders /\ InOrder(s)
  BY <1>3, <1>5
<1>7. PICK p \in Bijection(1 .. n, 1 .. n) : s = [i \in 1 .. n |-> L[p[i]]]
  BY <1>1, <1>6
<1>8. /\ p \in [1 .. n -> 1 .. n]
      /\ \A i, j \in 1 .. n : p[i] = p[j] => i = j
      /\ \A x \in 1 .. n : \E i \in 1 .. n : p[i] = x
  BY <1>4
<1>9. \A i \in 1 .. n : s[i] = L[p[i]] /\ s[i] = Clamped(lines[p[i]]) /\ s[i] \in Entry
  BY <1>2, <1>7, <1>8
<1>10. s \in Seq(Entry) /\ Len(s) = n
  <2>1. s \in [1 .. n -> Entry]
    BY <1>7, <1>9
  <2>2. QED
    BY <1>1, <2>1, FunctionIsSeq
<1>11. \A i, j \in 1 .. n : i < j =>
         s[i].pct <= s[j].pct /\ (s[i].pct = s[j].pct => s[i].size <= s[j].size)
  BY <1>1, <1>6, <1>9, BeforeOrders
<1>12. QED
  BY <1>8, <1>9, <1>10, <1>11 DEF n, SortingOf

\* The recursive definition of CleanedUpTo has a solution, so it may be unfolded.
LEMMA CleanedUpToUnfolds ==
    ASSUME NEW S, NEW s \in Seq(S)
    PROVE  /\ CleanedUpTo(s)[0] = <<>>
           /\ \A i \in 0 .. Len(s) : i + 1 <= Len(s) =>
                CleanedUpTo(s)[i + 1] = Cleaned(CleanedUpTo(s)[i], s[i + 1])
<1> DEFINE Body(f, i) == IF i = 0 THEN <<>> ELSE Cleaned(f[i - 1], s[i])
           Solved == {n \in 0 .. Len(s) : \E f : f = [i \in 0 .. n |-> Body(f, i)]}
<1>1. Len(s) \in Nat
  BY LenProperties
<1>2. 0 \in Solved
  <2>1. [i \in 0 .. 0 |-> <<>>] = [i \in 0 .. 0 |-> Body([j \in 0 .. 0 |-> <<>>], i)]
    <3>1. \A i \in 0 .. 0 : i = 0
      BY SMT
    <3>2. \A i \in 0 .. 0 : Body([j \in 0 .. 0 |-> <<>>], i) = <<>>
      BY <3>1
    <3>3. QED
      BY <3>2
  <2>2. 0 \in 0 .. Len(s)
    BY <1>1, SMT
  <2>3. QED
    BY <2>1, <2>2
<1>3. ASSUME NEW n \in 0 .. Len(s), n + 1 <= Len(s), n \in Solved
      PROVE  n + 1 \in Solved
  <2>1. PICK f : f = [i \in 0 .. n |-> Body(f, i)]
    BY <1>3
  <2> DEFINE g == [i \in 0 .. n + 1 |-> IF i = n + 1 THEN Body(f, i) ELSE f[i]]
  <2>2. \A i \in 0 .. n + 1 : i # n + 1 => i \in 0 .. n
    BY <1>1, SMT
  <2>3. \A i \in 0 .. n + 1 : i # 0 => i - 1 \in 0 .. n + 1 /\ i - 1 # n + 1
    BY <1>1, SMT
  <2>4. \A i \in 0 .. n + 1 : i # 0 => g[i - 1] = f[i - 1]
    BY <2>3
  <2>5. \A i \in 0 .. n + 1 : Body(g, i) = Body(f, i)
    BY <2>4
  <2>6. \A i \in 0 .. n : f[i] = Body(f, i)
    BY <2>1
  <2>7. \A i \in 0 .. n + 1 : g[i] = Body(g, i)
    BY <2>2, <2>5, <2>6
  <2>8. g = [i \in 0 .. n + 1 |-> Body(g, i)]
    <3> HIDE DEF Body
    <3>1. QED
      BY <2>7
  <2>9. n + 1 \in 0 .. Len(s)
    BY <1>1, <1>3, SMT
  <2>10. QED
    <3> HIDE DEF Body, g
    <3>1. QED
      BY <2>8, <2>9
<1>4. Len(s) \in Solved
  <2> HIDE DEF Solved
  <2>1. \A i \in 0 .. Len(s) : i \in Solved
    BY <1>1, <1>2, <1>3, InductionUpTo
  <2>2. QED
    BY <1>1, <2>1, SMT
<1>5. PICK h : h = [i \in 0 .. Len(s) |-> Body(h, i)]
  BY <1>4
<1>6. CleanedUpTo(s) = [i \in 0 .. Len(s) |-> Body(CleanedUpTo(s), i)]
  BY <1>5 DEF CleanedUpTo
<1>7. \A i \in 0 .. Len(s) : CleanedUpTo(s)[i] = Body(CleanedUpTo(s), i)
  <2> HIDE DEF Body
  <2>1. QED
    BY <1>6, Zenon
<1>8. 0 \in 0 .. Len(s)
  BY <1>1, SMT
<1>9. \A i \in 0 .. Len(s) : i + 1 <= Len(s) =>
          i + 1 \in 0 .. Len(s) /\ i + 1 # 0 /\ (i + 1) - 1 = i
  BY <1>1, SMT
<1>10. QED
  BY <1>7, <1>8, <1>9

\* Percentages rise strictly.
Rising(t) ==
    t \in Seq(Entry) /\ t # <<>> /\ \A i, j \in 1 .. Len(t) : i < j => t[i].pct < t[j].pct

\* Each entry of t has the percentage of the line of s at its place, and the
\* largest size of the lines so far.
RunningMaxima(t, s) ==
    /\ \A i \in 1 .. Len(t) : /\ t[i].pct = s[i].pct /\ s[i].size <= t[i].size
                              /\ \E j \in 1 .. i : t[i].size = s[j].size
    /\ \A i, j \in 1 .. Len(t) : i < j => t[i].size <= t[j].size

\* The numbers of an entry.
LEMMA EntryNumbers ==
    /\ \A e \in Entry : e.pct \in Int /\ e.size \in Int /\ e.pct \in 0 .. Percent
                        /\ e.size \in 0 .. SizeRange - 1
    /\ \A x \in 0 .. SizeRange - 1, y \in 0 .. Percent : [size |-> x, pct |-> y] \in Entry
BY SMT DEF Entry

\* The loop starts with the first entry.
LEMMA FirstTurn ==
    ASSUME NEW e \in Entry
    PROVE  /\ Rising(Cleaned(<<>>, e)) /\ Len(Cleaned(<<>>, e)) = 1
           /\ Cleaned(<<>>, e)[1] = e
<1>1. Cleaned(<<>>, e) = <<e>>
  BY DEF Cleaned
<1>2. <<e>> \in Seq(Entry) /\ Len(<<e>>) = 1 /\ <<e>>[1] = e /\ <<e>> # <<>>
  OBVIOUS
<1>3. \A i, j \in 1 .. 1 : ~(i < j)
  BY SMT
<1>4. QED
  BY <1>1, <1>2, <1>3 DEF Rising

\* A turn keeps the percentages rising.
LEMMA TurnRises ==
    ASSUME NEW t, Rising(t), NEW e \in Entry, Last(t).pct <= e.pct
    PROVE  /\ Rising(Cleaned(t, e)) /\ Last(Cleaned(t, e)).pct = e.pct
           /\ Last(t).pct < e.pct =>
                /\ Len(Cleaned(t, e)) = Len(t) + 1
                /\ \A i \in 1 .. Len(t) : Cleaned(t, e)[i] = t[i]
                /\ Cleaned(t, e)[Len(t) + 1] = [size |-> Raised(e.size, Last(t).size), pct |-> e.pct]
<1> DEFINE n == Len(t)
<1>1. /\ t \in Seq(Entry) /\ t # <<>> /\ n \in Nat \ {0} /\ n \in 1 .. n
      /\ \A i, j \in 1 .. n : i < j => t[i].pct < t[j].pct
  <2>1. t \in Seq(Entry) /\ t # <<>> /\ n \in Nat \ {0}
    BY EmptySeq DEF Rising
  <2>2. n \in 1 .. n
    BY <2>1, SMT
  <2>3. QED
    BY <2>1, <2>2 DEF Rising
<1>2. Last(t) = t[n] /\ t[n] \in Entry
  BY <1>1, ElementOfSeq DEF Last
<1>3. CASE t[n].pct < e.pct
  <2> DEFINE new == [size |-> Raised(e.size, t[n].size), pct |-> e.pct]
             u == Append(t, new)
  <2>1. Cleaned(t, e) = u
    <3>1. e.pct # t[n].pct
      BY <1>2, <1>3, EntryNumbers, SMT
    <3>2. QED
      BY <1>1, <1>2, <3>1 DEF Cleaned
  <2>2. new \in Entry
    <3>1. Raised(e.size, t[n].size) \in 0 .. SizeRange - 1
      BY <1>2, EntryNumbers DEF Raised
    <3>2. QED
      BY <3>1, EntryNumbers
  <2> HIDE DEF new
  <2>3. /\ u \in Seq(Entry) /\ Len(u) = n + 1 /\ u[n + 1] = new
        /\ \A i \in 1 .. n : u[i] = t[i]
    BY <1>1, <2>2, AppendProperties
  <2>4. new.pct = e.pct
    BY DEF new
  <2> HIDE DEF u
  <2>5. u # <<>>
    <3>1. Len(<<>>) = 0 /\ n + 1 # 0
      BY <1>1, SMT
    <3>2. QED
      BY <2>3, <3>1
  <2>6. ASSUME NEW i \in 1 .. n + 1, NEW j \in 1 .. n + 1, i < j
        PROVE  u[i].pct < u[j].pct
    <3>1. i \in 1 .. n /\ (j \in 1 .. n \/ j = n + 1) /\ (i < n \/ i = n)
      BY <1>1, <2>6, SMT
    <3>2. t[i].pct <= t[n].pct
      <4>1. t[i].pct \in Int /\ t[n].pct \in Int
        BY <1>1, <1>2, <3>1, ElementOfSeq, EntryNumbers
      <4>2. i < n => t[i].pct < t[n].pct
        BY <1>1, <3>1
      <4>3. QED
        BY <3>1, <4>1, <4>2, SMT
    <3>3. j = n + 1 => u[i].pct < u[j].pct
      <4>1. t[i].pct \in Int /\ t[n].pct \in Int /\ e.pct \in Int
        BY <1>1, <1>2, <3>1, ElementOfSeq, EntryNumbers
      <4>2. t[i].pct < e.pct
        BY <1>3, <3>2, <4>1, SMT
      <4>3. QED
        BY <2>3, <2>4, <3>1, <4>2
    <3>4. j \in 1 .. n => u[i].pct < u[j].pct
      BY <1>1, <2>3, <2>6, <3>1
    <3>5. QED
      BY <3>1, <3>3, <3>4
  <2>7. Rising(u)
    BY <2>3, <2>5, <2>6 DEF Rising
  <2>8. Last(u).pct = e.pct
    BY <2>3, <2>4 DEF Last
  <2>9. QED
    BY <1>2, <2>1, <2>3, <2>7, <2>8 DEF new
<1>4. CASE t[n].pct = e.pct
  <2>1. ~(t[n].pct < e.pct)
    BY <1>2, <1>4, EntryNumbers, SMT
  <2>2. CASE e.size < t[n].size
    <3> DEFINE low == [t[n] EXCEPT !.size = e.size]
               u == [t EXCEPT ![n] = low]
    <3>1. Cleaned(t, e) = u
      BY <1>1, <1>2, <1>4, <2>2 DEF Cleaned
    <3>2. low = [size |-> e.size, pct |-> e.pct]
      BY <1>2, <1>4 DEF Entry
    <3>3. low \in Entry /\ low.pct = e.pct
      BY <3>2, EntryNumbers
    <3> HIDE DEF low
    <3>4. /\ u \in Seq(Entry) /\ Len(u) = n
          /\ \A i \in 1 .. n : u[i] = IF i = n THEN low ELSE t[i]
      BY <1>1, <3>3, ExceptSeq
    <3> HIDE DEF u
    <3>5. \A i \in 1 .. n : u[i].pct = t[i].pct
      BY <1>4, <3>3, <3>4
    <3>6. u # <<>>
      <4>1. Len(<<>>) = 0 /\ n # 0
        BY <1>1, SMT
      <4>2. QED
        BY <3>4, <4>1
    <3>7. Rising(u) /\ Last(u).pct = e.pct
      BY <1>1, <1>4, <3>4, <3>5, <3>6 DEF Rising, Last
    <3>8. QED
      BY <1>2, <2>1, <3>1, <3>7
  <2>3. CASE ~(e.size < t[n].size)
    <3>1. Cleaned(t, e) = t
      BY <1>1, <1>2, <1>4, <2>3 DEF Cleaned
    <3>2. QED
      BY <1>2, <1>4, <2>1, <3>1
  <2>4. QED
    BY <2>2, <2>3
<1>5. QED
  BY <1>2, <1>3, <1>4, EntryNumbers, SMT

\* A turn for a new percentage keeps the running maxima.
LEMMA TurnMaxima ==
    ASSUME NEW t, Rising(t), NEW s \in Seq(Entry), Len(t) + 1 <= Len(s),
           RunningMaxima(t, s), Last(t).pct < s[Len(t) + 1].pct
    PROVE  RunningMaxima(Cleaned(t, s[Len(t) + 1]), s)
<1> DEFINE n == Len(t)
           e == s[n + 1]
           u == Cleaned(t, e)
           size == Raised(e.size, Last(t).size)
<1>1. /\ t \in Seq(Entry) /\ n \in Nat \ {0} /\ n \in 1 .. n /\ n + 1 \in 1 .. Len(s)
  <2>1. t \in Seq(Entry) /\ n \in Nat \ {0} /\ Len(s) \in Nat
    BY EmptySeq, LenProperties DEF Rising
  <2>2. n \in 1 .. n /\ n + 1 \in 1 .. Len(s)
    BY <2>1, SMT
  <2>3. QED
    BY <2>1, <2>2
<1>2. e \in Entry /\ Last(t) = t[n] /\ t[n] \in Entry
  BY <1>1, ElementOfSeq DEF Last
<1>3. /\ Len(u) = n + 1 /\ \A i \in 1 .. n : u[i] = t[i]
      /\ u[n + 1] = [size |-> size, pct |-> e.pct]
  <2>1. Last(t).pct <= e.pct
    BY <1>2, EntryNumbers, SMT
  <2> HIDE DEF e
  <2>2. QED
    BY <1>2, <2>1, TurnRises DEF e
<1>4. size \in Int /\ e.size <= size /\ t[n].size <= size /\ (size = e.size \/ size = t[n].size)
  BY <1>2, EntryNumbers, SMT DEF Raised
<1> HIDE DEF u, size
<1>5. /\ \A i \in 1 .. n : /\ t[i].pct = s[i].pct /\ s[i].size <= t[i].size
                           /\ \E j \in 1 .. i : t[i].size = s[j].size
      /\ \A i, j \in 1 .. n : i < j => t[i].size <= t[j].size
  BY DEF RunningMaxima
<1>6. \A i \in 1 .. n + 1 : i \in 1 .. n \/ i = n + 1
  BY <1>1, SMT
<1>7. \E j \in 1 .. n + 1 : size = s[j].size
  <2>1. CASE size = e.size
    <3>1. n + 1 \in 1 .. n + 1
      BY <1>1, SMT
    <3>2. QED
      BY <2>1, <3>1
  <2>2. CASE size = t[n].size
    <3>1. PICK j \in 1 .. n : t[n].size = s[j].size
      BY <1>1, <1>5
    <3>2. j \in 1 .. n + 1
      BY <1>1, SMT
    <3>3. QED
      BY <2>2, <3>1, <3>2
  <2>3. QED
    BY <1>4, <2>1, <2>2
<1>8. \A i \in 1 .. n + 1 : /\ u[i].pct = s[i].pct /\ s[i].size <= u[i].size
                            /\ \E j \in 1 .. i : u[i].size = s[j].size
  <2>1. /\ u[n + 1].pct = s[n + 1].pct /\ s[n + 1].size <= u[n + 1].size
        /\ \E j \in 1 .. n + 1 : u[n + 1].size = s[j].size
    BY <1>3, <1>4, <1>7
  <2>2. QED
    BY <1>3, <1>5, <1>6, <2>1
<1>9. ASSUME NEW i \in 1 .. n + 1, NEW j \in 1 .. n + 1, i < j
      PROVE  u[i].size <= u[j].size
  <2>1. i \in 1 .. n /\ (i < n \/ i = n)
    BY <1>1, <1>9, SMT
  <2>2. t[i].size \in Int /\ t[n].size \in Int
    BY <1>1, <2>1, ElementOfSeq, EntryNumbers
  <2>3. t[i].size <= size
    <3>1. i < n => t[i].size <= t[n].size
      BY <1>1, <1>5, <2>1
    <3>2. QED
      BY <1>4, <2>1, <2>2, <3>1, SMT
  <2>4. CASE j = n + 1
    BY <1>3, <2>1, <2>3, <2>4
  <2>5. CASE j \in 1 .. n
    BY <1>3, <1>5, <1>9, <2>1, <2>5
  <2>6. QED
    BY <1>6, <2>4, <2>5
<1>10. QED
  BY <1>3, <1>8, <1>9 DEF RunningMaxima, u

\* What the loop leaves of entries in the order of their percentages.
LEMMA CleanedEntries ==
    ASSUME NEW s \in Seq(Entry), s # <<>>,
           \A i, j \in 1 .. Len(s) : i < j => s[i].pct <= s[j].pct
    PROVE  /\ Rising(CleanedUpTo(s)[Len(s)])
           /\ (\A i, j \in 1 .. Len(s) : s[i].pct = s[j].pct => i = j) =>
                /\ Len(CleanedUpTo(s)[Len(s)]) = Len(s)
                /\ RunningMaxima(CleanedUpTo(s)[Len(s)], s)
<1> DEFINE n == Len(s)
           C(m) == CleanedUpTo(s)[m]
           Apart == \A i, j \in 1 .. n : s[i].pct = s[j].pct => i = j
           Fine == {m \in 0 .. n : m # 0 =>
                      /\ Rising(C(m)) /\ Last(C(m)).pct = s[m].pct
                      /\ Apart => Len(C(m)) = m /\ RunningMaxima(C(m), s)}
<1>1. n \in Nat \ {0} /\ n \in 1 .. n /\ n \in 0 .. n /\ 0 \in 0 .. n
  <2>1. n \in Nat \ {0}
    BY EmptySeq
  <2>2. QED
    BY <2>1, SMT
<1>2. /\ C(0) = <<>>
      /\ \A i \in 0 .. n : i + 1 <= n => C(i + 1) = Cleaned(C(i), s[i + 1])
  BY CleanedUpToUnfolds
<1>3. 0 \in Fine
  BY <1>1
<1>4. ASSUME NEW m \in 0 .. n, m + 1 <= n, m \in Fine
      PROVE  m + 1 \in Fine
  <2> DEFINE e == s[m + 1]
  <2>1. m + 1 \in 1 .. n /\ m + 1 \in 0 .. n /\ (m # 0 => m \in 1 .. n /\ m < m + 1)
    BY <1>1, <1>4, SMT
  <2>2. e \in Entry /\ C(m + 1) = Cleaned(C(m), e)
    BY <1>2, <1>4, <2>1, ElementOfSeq
  <2>3. CASE m = 0
    <3>1. C(m + 1) = Cleaned(<<>>, e) /\ m + 1 = 1
      BY <1>2, <2>2, <2>3
    <3>2. Rising(C(m + 1)) /\ Len(C(m + 1)) = 1 /\ C(m + 1)[1] = s[1]
      BY <2>2, <3>1, FirstTurn
    <3> HIDE DEF C
    <3>3. Last(C(m + 1)).pct = s[m + 1].pct
      BY <3>1, <3>2 DEF Last
    <3>4. RunningMaxima(C(m + 1), s)
      <4>1. \A i \in 1 .. 1 : i = 1
        BY SMT
      <4>2. 1 \in 1 .. 1 /\ s[1].size <= s[1].size
        BY <2>1, <3>1, ElementOfSeq, EntryNumbers, SMT
      <4>3. \A i, j \in 1 .. 1 : ~(i < j)
        BY SMT
      <4>4. QED
        BY <3>2, <4>1, <4>2, <4>3 DEF RunningMaxima
    <3>5. QED
      BY <2>1, <3>1, <3>2, <3>3, <3>4
  <2>4. CASE m # 0
    <3>1. /\ Rising(C(m)) /\ Last(C(m)).pct = s[m].pct
          /\ Apart => Len(C(m)) = m /\ RunningMaxima(C(m), s)
      BY <1>4, <2>4
    <3>2. Last(C(m)).pct <= e.pct
      BY <2>1, <2>4, <3>1
    <3>3. Rising(C(m + 1)) /\ Last(C(m + 1)).pct = s[m + 1].pct
      <4> HIDE DEF C, e
      <4>1. Rising(Cleaned(C(m), e)) /\ Last(Cleaned(C(m), e)).pct = e.pct
        BY <2>2, <3>1, <3>2, TurnRises
      <4>2. QED
        BY <2>2, <4>1 DEF e
    <3>4. ASSUME Apart PROVE Len(C(m + 1)) = m + 1 /\ RunningMaxima(C(m + 1), s)
      <4>1. Last(C(m)).pct < e.pct
        <5>1. s[m].pct # s[m + 1].pct
          <6>1. m # m + 1
            BY SMT
          <6>2. QED
            BY <2>1, <2>4, <3>4, <6>1
        <5>2. s[m].pct \in Int /\ s[m + 1].pct \in Int
          BY <2>1, <2>4, ElementOfSeq, EntryNumbers
        <5>3. QED
          BY <3>1, <3>2, <5>1, <5>2, SMT
      <4>2. Len(C(m)) = m /\ RunningMaxima(C(m), s)
        BY <3>1, <3>4
      <4>3. Len(C(m + 1)) = m + 1
        <5> HIDE DEF C, e
        <5>1. Len(Cleaned(C(m), e)) = Len(C(m)) + 1
          BY <2>2, <3>1, <3>2, <4>1, TurnRises
        <5>2. QED
          BY <2>2, <4>2, <5>1
      <4>4. RunningMaxima(C(m + 1), s)
        <5> HIDE DEF C
        <5>1. Len(C(m)) + 1 <= Len(s) /\ Last(C(m)).pct < s[Len(C(m)) + 1].pct
          BY <1>4, <4>1, <4>2
        <5>2. RunningMaxima(Cleaned(C(m), s[Len(C(m)) + 1]), s)
          BY <3>1, <4>2, <5>1, TurnMaxima
        <5>3. QED
          BY <2>2, <4>2, <5>2
      <4>5. QED
        BY <4>3, <4>4
    <3>5. QED
      BY <2>1, <3>3, <3>4
  <2>5. QED
    BY <2>3, <2>4
<1>5. n \in Fine
  <2> HIDE DEF Fine, n
  <2>1. \A m \in 0 .. n : m \in Fine
    BY <1>1, <1>3, <1>4, InductionUpTo
  <2>2. QED
    BY <1>1, <2>1
<1>6. QED
  BY <1>1, <1>5

\* An entry for 0% in front of t.
LEMMA EntryInFront ==
    ASSUME NEW t, Rising(t), NEW zero, zero = [size |-> 0, pct |-> 0], t[1].pct > 0
    PROVE  /\ Rising(<<zero>> \o t) /\ Len(<<zero>> \o t) = Len(t) + 1
           /\ (<<zero>> \o t)[1] = zero /\ \A i \in 1 .. Len(t) : (<<zero>> \o t)[i + 1] = t[i]
<1> DEFINE n == Len(t)
           u == <<zero>> \o t
<1>1. /\ t \in Seq(Entry) /\ n \in Nat \ {0} /\ 1 \in 1 .. n
      /\ \A i, j \in 1 .. n : i < j => t[i].pct < t[j].pct
  <2>1. t \in Seq(Entry) /\ n \in Nat \ {0}
    BY EmptySeq DEF Rising
  <2>2. QED
    BY <2>1, SMT DEF Rising
<1>2. zero \in Entry /\ zero.pct = 0
  <2>1. 0 \in 0 .. SizeRange - 1 /\ 0 \in 0 .. Percent
    BY CdfAssumption, SMT
  <2>2. QED
    BY <2>1, EntryNumbers
<1>3. <<zero>> \in Seq(Entry) /\ Len(<<zero>>) = 1 /\ <<zero>>[1] = zero
  BY <1>2
<1>4. /\ u \in Seq(Entry) /\ Len(u) = 1 + n
      /\ \A i \in 1 .. 1 + n : u[i] = IF i <= 1 THEN <<zero>>[i] ELSE t[i - 1]
  <2> DEFINE z == <<zero>>
  <2>1. z \in Seq(Entry) /\ Len(z) = 1
    BY <1>3
  <2> HIDE DEF z
  <2>2. /\ z \o t \in Seq(Entry) /\ Len(z \o t) = Len(z) + n
        /\ \A i \in 1 .. Len(z) + n : (z \o t)[i] = IF i <= Len(z) THEN z[i] ELSE t[i - Len(z)]
    BY <1>1, <2>1, ConcatProperties
  <2>3. QED
    BY <2>1, <2>2 DEF z
<1> HIDE DEF u
<1>5. u[1] = zero /\ \A i \in 1 .. n : u[i + 1] = t[i]
  <2>1. /\ 1 \in 1 .. 1 + n
        /\ \A i \in 1 .. n : i + 1 \in 1 .. 1 + n /\ ~(i + 1 <= 1) /\ (i + 1) - 1 = i
    BY <1>1, SMT
  <2>2. QED
    BY <1>3, <1>4, <2>1
<1>6. \A i \in 1 .. n : t[i].pct \in Int /\ t[i].pct > 0
  <2>1. \A i \in 1 .. n : t[i].pct \in Int
    BY <1>1, ElementOfSeq, EntryNumbers
  <2>2. \A i \in 1 .. n : i = 1 \/ 1 < i
    BY SMT
  <2>3. ASSUME NEW i \in 1 .. n, 1 < i PROVE t[i].pct > 0
    <3>1. t[1].pct < t[i].pct
      BY <1>1, <2>3
    <3>2. QED
      BY <1>1, <2>1, <3>1, SMT
  <2>4. QED
    BY <2>1, <2>2, <2>3
<1>7. ASSUME NEW i \in 1 .. 1 + n, NEW j \in 1 .. 1 + n, i < j
      PROVE  u[i].pct < u[j].pct
  <2>1. j - 1 \in 1 .. n /\ (j - 1) + 1 = j
    BY <1>1, <1>7, SMT
  <2>2. u[j] = t[j - 1]
    BY <1>5, <2>1
  <2>3. CASE i = 1
    BY <1>2, <1>5, <1>6, <2>1, <2>2, <2>3
  <2>4. CASE i # 1
    <3>1. i - 1 \in 1 .. n /\ (i - 1) + 1 = i /\ i - 1 < j - 1
      BY <1>1, <1>7, <2>4, SMT
    <3>2. QED
      BY <1>1, <1>5, <2>1, <2>2, <3>1
  <2>5. QED
    BY <2>3, <2>4
<1>8. u # <<>>
  <2>1. Len(<<>>) = 0 /\ 1 + n # 0
    BY <1>1, SMT
  <2>2. QED
    BY <1>4, <2>1
<1>9. 1 + n = n + 1
  BY <1>1, SMT
<1>10. QED
  BY <1>4, <1>5, <1>7, <1>8, <1>9 DEF Rising, u

\* An entry for 100% behind u.
LEMMA EntryBehind ==
    ASSUME NEW u, Rising(u), Last(u).pct < Percent,
           NEW full, full = [size |-> Last(u).size, pct |-> Percent]
    PROVE  /\ Rising(u \o <<full>>) /\ Len(u \o <<full>>) = Len(u) + 1
           /\ (u \o <<full>>)[Len(u) + 1] = full
           /\ \A i \in 1 .. Len(u) : (u \o <<full>>)[i] = u[i]
<1> DEFINE n == Len(u)
           v == u \o <<full>>
<1>1. /\ u \in Seq(Entry) /\ n \in Nat \ {0} /\ n \in 1 .. n
      /\ \A i, j \in 1 .. n : i < j => u[i].pct < u[j].pct
  <2>1. u \in Seq(Entry) /\ n \in Nat \ {0}
    BY EmptySeq DEF Rising
  <2>2. QED
    BY <2>1, SMT DEF Rising
<1>2. full \in Entry /\ full.pct = Percent
  <2>1. u[n] \in Entry /\ Percent \in 0 .. Percent
    BY <1>1, ElementOfSeq, CdfAssumption, SMT
  <2>2. QED
    BY <2>1, EntryNumbers DEF Last
<1>3. <<full>> \in Seq(Entry) /\ Len(<<full>>) = 1 /\ <<full>>[1] = full
  BY <1>2
<1>4. /\ v \in Seq(Entry) /\ Len(v) = n + 1
      /\ \A i \in 1 .. n + 1 : v[i] = IF i <= n THEN u[i] ELSE <<full>>[i - n]
  <2> DEFINE z == <<full>>
  <2>1. z \in Seq(Entry) /\ Len(z) = 1
    BY <1>3
  <2> HIDE DEF z
  <2>2. /\ u \o z \in Seq(Entry) /\ Len(u \o z) = n + Len(z)
        /\ \A i \in 1 .. n + Len(z) : (u \o z)[i] = IF i <= n THEN u[i] ELSE z[i - n]
    BY <1>1, <2>1, ConcatProperties
  <2>3. QED
    BY <2>1, <2>2 DEF z
<1> HIDE DEF v
<1>5. v[n + 1] = full /\ \A i \in 1 .. n : v[i] = u[i]
  <2>1. /\ n + 1 \in 1 .. n + 1 /\ ~(n + 1 <= n) /\ (n + 1) - n = 1
        /\ \A i \in 1 .. n : i \in 1 .. n + 1 /\ i <= n
    BY <1>1, SMT
  <2>2. QED
    BY <1>3, <1>4, <2>1
<1>6. \A i \in 1 .. n : u[i].pct \in Int /\ u[i].pct < Percent
  <2>1. \A i \in 1 .. n : u[i].pct \in Int
    BY <1>1, ElementOfSeq, EntryNumbers
  <2>2. \A i \in 1 .. n : i = n \/ i < n
    BY SMT
  <2>3. ASSUME NEW i \in 1 .. n, i < n PROVE u[i].pct < Percent
    <3>1. u[i].pct < u[n].pct /\ u[n].pct < Percent
      BY <1>1, <2>3 DEF Last
    <3>2. QED
      BY <1>1, <2>1, <3>1, CdfAssumption, SMT
  <2>4. QED
    BY <2>1, <2>2, <2>3 DEF Last
<1>7. ASSUME NEW i \in 1 .. n + 1, NEW j \in 1 .. n + 1, i < j
      PROVE  v[i].pct < v[j].pct
  <2>1. i \in 1 .. n /\ (j = n + 1 \/ j \in 1 .. n)
    BY <1>1, <1>7, SMT
  <2>2. QED
    BY <1>1, <1>2, <1>5, <1>6, <1>7, <2>1
<1>8. v # <<>>
  <2>1. Len(<<>>) = 0 /\ n + 1 # 0
    BY <1>1, SMT
  <2>2. QED
    BY <1>4, <2>1
<1>9. QED
  BY <1>4, <1>5, <1>7, <1>8 DEF Rising, v

\* The entries of t in T, f places further on.
Within(t, T, f) ==
    /\ f = (IF Head(t).pct > 0 THEN 1 ELSE 0)
    /\ Rising(T) /\ T[1].pct = 0 /\ T[Len(T)].pct = Percent
    /\ \A i \in 1 .. Len(t) : T[f + i] = t[i]
    /\ f = 1 => T[1] = [size |-> 0, pct |-> 0]
    /\ \/ Len(T) = f + Len(t)
       \/ /\ Len(T) = f + Len(t) + 1 /\ Last(t).pct < Percent
          /\ T[Len(T)] = [size |-> Last(t).size, pct |-> Percent]

\* The table with the entries for 0% and 100% where they are missing.
LEMMA TableWithEnds ==
    ASSUME NEW t, Rising(t)
    PROVE  \E f \in {0, 1} : Within(t, WithEnds(t), f)
<1> DEFINE n == Len(t)
           zero == [size |-> 0, pct |-> 0]
           full == [size |-> Last(t).size, pct |-> Percent]
           f == IF Head(t).pct > 0 THEN 1 ELSE 0
           front == IF Head(t).pct > 0 THEN <<zero>> ELSE <<>>
           back == IF Last(t).pct < Percent THEN <<full>> ELSE <<>>
           u == front \o t
           v == u \o back
<1>1. t \in Seq(Entry) /\ n \in Nat \ {0} /\ 1 \in 1 .. n /\ n \in 1 .. n
  <2>1. t \in Seq(Entry) /\ n \in Nat \ {0}
    BY EmptySeq DEF Rising
  <2>2. QED
    BY <2>1, SMT
<1>2. Head(t) = t[1] /\ Last(t) = t[n] /\ t[1] \in Entry /\ t[n] \in Entry
  BY <1>1, ElementOfSeq DEF Last
<1>3. [Last(t) EXCEPT !.pct = Percent] = full
  BY <1>2 DEF Entry
<1>4. WithEnds(t) = v
  BY <1>3 DEF WithEnds
<1>5. /\ f \in {0, 1} /\ Rising(u) /\ Len(u) = f + n /\ u[1].pct = 0
      /\ \A i \in 1 .. n : u[f + i] = t[i]
      /\ f = 1 => u[1] = zero
  <2>1. CASE Head(t).pct > 0
    <3>1. u = <<zero>> \o t /\ f = 1
      BY <2>1
    <3>2. /\ Rising(u) /\ Len(u) = n + 1 /\ u[1] = zero
          /\ \A i \in 1 .. n : u[i + 1] = t[i]
      <4> HIDE DEF u, zero
      <4>1. zero = [size |-> 0, pct |-> 0]
        BY DEF zero
      <4>2. QED
        BY <1>2, <2>1, <3>1, <4>1, EntryInFront
    <3>3. n + 1 = 1 + n /\ \A i \in 1 .. n : i + 1 = 1 + i
      BY <1>1, SMT
    <3> HIDE DEF u
    <3>4. QED
      BY <3>1, <3>2, <3>3
  <2>2. CASE ~(Head(t).pct > 0)
    <3>1. u = t /\ f = 0
      BY <1>1, <2>2, ConcatEmptySeq
    <3>2. t[1].pct = 0
      BY <1>2, <2>2, EntryNumbers, SMT
    <3>3. Len(t) = 0 + n /\ \A i \in 1 .. n : 0 + i = i
      BY <1>1, SMT
    <3>4. f \in {0, 1} /\ ~(f = 1)
      BY <3>1
    <3> HIDE DEF u, f, n
    <3>5. \A i \in 1 .. n : u[f + i] = t[i]
      BY <3>1, <3>3
    <3>6. Len(u) = f + n
      BY <3>1, <3>3
    <3>7. QED
      BY <3>1, <3>2, <3>4, <3>5, <3>6
  <2>3. QED
    BY <2>1, <2>2
<1> HIDE DEF u, f
<1>6. Last(u) = t[n] /\ f + n \in Nat \ {0} /\ 1 \in 1 .. f + n /\ \A i \in 1 .. n : f + i \in 1 .. f + n
  <2>1. f + n \in Nat \ {0} /\ 1 \in 1 .. f + n /\ \A i \in 1 .. n : f + i \in 1 .. f + n
    BY <1>1, <1>5, SMT
  <2>2. QED
    BY <1>1, <1>5, <2>1 DEF Last
<1>7. CASE Last(t).pct < Percent
  <2>1. v = u \o <<full>>
    BY <1>7
  <2>2. /\ Rising(v) /\ Len(v) = (f + n) + 1 /\ v[(f + n) + 1] = full
        /\ \A i \in 1 .. f + n : v[i] = u[i]
    <3> HIDE DEF v, full
    <3>1. full = [size |-> Last(u).size, pct |-> Percent] /\ Last(u).pct < Percent
      BY <1>2, <1>6, <1>7 DEF full
    <3>2. /\ Rising(u \o <<full>>) /\ Len(u \o <<full>>) = Len(u) + 1
          /\ (u \o <<full>>)[Len(u) + 1] = full
          /\ \A i \in 1 .. Len(u) : (u \o <<full>>)[i] = u[i]
      BY <1>5, <3>1, EntryBehind
    <3>3. QED
      BY <1>5, <2>1, <3>2
  <2> HIDE DEF v
  <2>3. v[Len(v)].pct = Percent
    BY <2>2
  <2>4. QED
    BY <1>4, <1>5, <1>6, <1>7, <2>2, <2>3 DEF Within, f
<1>8. CASE ~(Last(t).pct < Percent)
  <2>1. v = u
    <3>1. u \in Seq(Entry)
      BY <1>5 DEF Rising
    <3>2. QED
      BY <1>8, <3>1, ConcatEmptySeq
  <2>2. t[n].pct = Percent
    BY <1>2, <1>8, EntryNumbers, CdfAssumption, SMT
  <2> HIDE DEF v
  <2>3. QED
    BY <1>4, <1>5, <1>6, <2>1, <2>2 DEF Within, f, Last
<1>9. QED
  BY <1>7, <1>8

\* No percentage twice.
LinesApart(lines) ==
    \A i, j \in 1 .. Len(lines) : Clamped(lines[i]).pct = Clamped(lines[j]).pct => i = j

\* The s[i] are the lines, in the order of their percentages.
InOrder(s, lines) ==
    /\ s \in Seq(Entry) /\ Len(s) = Len(lines)
    /\ \A x \in 1 .. Len(lines) : \E i \in 1 .. Len(lines) : s[i] = Clamped(lines[x])
    /\ \A i \in 1 .. Len(lines) : \E x \in 1 .. Len(lines) : s[i] = Clamped(lines[x])
    /\ LinesApart(lines) =>
         \A i, j \in 1 .. Len(lines) : i < j => s[i].pct < s[j].pct

\* How the table comes from the lines.
LEMMA TableOfLines ==
    ASSUME NEW lines \in Seq(SizeLine), lines # <<>>
    PROVE  \E s, t : \E f \in {0, 1} :
              /\ InOrder(s, lines) /\ Rising(t) /\ Within(t, Table(lines), f)
              /\ LinesApart(lines) => Len(t) = Len(s) /\ RunningMaxima(t, s)
<1> DEFINE n == Len(lines)
           s == Sorted(Entries(lines))
           t == CleanedUpTo(s)[Len(s)]
<1>1. /\ s \in Seq(Entry) /\ Len(s) = n
      /\ \A i, j \in 1 .. n : i < j =>
           s[i].pct <= s[j].pct /\ (s[i].pct = s[j].pct => s[i].size <= s[j].size)
      /\ \E p \in [1 .. n -> 1 .. n] :
           /\ \A i, j \in 1 .. n : p[i] = p[j] => i = j
           /\ \A x \in 1 .. n : \E i \in 1 .. n : p[i] = x
           /\ \A i \in 1 .. n : s[i] = Clamped(lines[p[i]])
  <2>1. s = Sorted(Entries(lines))
    OBVIOUS
  <2> HIDE DEF s
  <2>2. SortingOf(s, lines)
    BY <2>1, SortedEntries
  <2>3. QED
    BY <2>2 DEF SortingOf
<1>2. Table(lines) = WithEnds(t)
  BY DEF Table, Entries
<1> HIDE DEF s
<1>3. n \in Nat \ {0} /\ s # <<>>
  <2>1. n \in Nat \ {0}
    BY EmptySeq
  <2>2. Len(<<>>) = 0 /\ n # 0
    BY <2>1
  <2>3. QED
    BY <1>1, <2>1, <2>2
<1>4. PICK p \in [1 .. n -> 1 .. n] :
         /\ \A i, j \in 1 .. n : p[i] = p[j] => i = j
         /\ \A x \in 1 .. n : \E i \in 1 .. n : p[i] = x
         /\ \A i \in 1 .. n : s[i] = Clamped(lines[p[i]])
  BY <1>1
<1>5. /\ Rising(t)
      /\ (\A i, j \in 1 .. Len(s) : s[i].pct = s[j].pct => i = j) =>
           Len(t) = Len(s) /\ RunningMaxima(t, s)
  BY <1>1, <1>3, CleanedEntries
<1> HIDE DEF t
<1>6. LinesApart(lines) => \A i, j \in 1 .. Len(s) : s[i].pct = s[j].pct => i = j
  <2>1. SUFFICES ASSUME LinesApart(lines), NEW i \in 1 .. n, NEW j \in 1 .. n,
                        s[i].pct = s[j].pct
                 PROVE  i = j
    BY <1>1
  <2>2. p[i] \in 1 .. n /\ p[j] \in 1 .. n
    BY <1>4
  <2>3. p[i] = p[j]
    <3>1. \A x, y \in 1 .. n : Clamped(lines[x]).pct = Clamped(lines[y]).pct => x = y
      BY <2>1 DEF LinesApart
    <3>2. s[i] = Clamped(lines[p[i]]) /\ s[j] = Clamped(lines[p[j]])
      BY <1>4
    <3>3. Clamped(lines[p[i]]).pct = Clamped(lines[p[j]]).pct
      BY <2>1, <3>2
    <3>4. QED
      BY <2>2, <3>1, <3>3
  <2>4. QED
    BY <1>4, <2>3
<1>7. ASSUME LinesApart(lines), NEW i \in 1 .. n, NEW j \in 1 .. n, i < j
      PROVE  s[i].pct < s[j].pct
  <2>1. i # j
    BY <1>7, SMT
  <2>2. s[i].pct # s[j].pct /\ s[i].pct <= s[j].pct
    BY <1>1, <1>6, <1>7, <2>1
  <2>3. s[i].pct \in Int /\ s[j].pct \in Int
    BY <1>1, ElementOfSeq, EntryNumbers
  <2>4. QED
    BY <2>2, <2>3, SMT
<1>8. InOrder(s, lines)
  <2>1. \A x \in 1 .. n : \E i \in 1 .. n : s[i] = Clamped(lines[x])
    BY <1>4
  <2>2. \A i \in 1 .. n : \E x \in 1 .. n : s[i] = Clamped(lines[x])
    BY <1>4
  <2>3. QED
    BY <1>1, <1>7, <2>1, <2>2 DEF InOrder
<1>9. \E f \in {0, 1} : Within(t, Table(lines), f)
  BY <1>2, <1>5, TableWithEnds
<1>10. QED
  BY <1>5, <1>6, <1>8, <1>9

\* The sizes of the table do not fall if no percentage is given twice.
LEMMA SizesRise ==
    ASSUME NEW s \in Seq(Entry), NEW t, Rising(t), RunningMaxima(t, s), NEW T,
           NEW f \in {0, 1}, Within(t, T, f)
    PROVE  \A i \in 1 .. Len(T) - 1 : T[i].size <= T[i + 1].size
<1> DEFINE n == Len(t)
<1>1. /\ t \in Seq(Entry) /\ n \in Nat \ {0} /\ n \in 1 .. n /\ T \in Seq(Entry)
      /\ Last(t) = t[n]
  <2>1. t \in Seq(Entry) /\ n \in Nat \ {0} /\ T \in Seq(Entry)
    BY EmptySeq DEF Rising, Within
  <2>2. QED
    BY <2>1, SMT DEF Last
<1>2. /\ \A i \in 1 .. n : T[f + i] = t[i]
      /\ f = 1 => T[1] = [size |-> 0, pct |-> 0]
      /\ \/ Len(T) = f + n
         \/ /\ Len(T) = f + n + 1
            /\ T[Len(T)] = [size |-> t[n].size, pct |-> Percent]
  BY <1>1 DEF Within
<1>3. \A i, j \in 1 .. n : i < j => t[i].size <= t[j].size
  BY DEF RunningMaxima
<1>4. SUFFICES ASSUME NEW i \in 1 .. Len(T) - 1 PROVE T[i].size <= T[i + 1].size
  OBVIOUS
<1>5. Len(T) \in Nat /\ i \in 1 .. Len(T) /\ i + 1 \in 1 .. Len(T)
  <2>1. Len(T) \in Nat
    BY <1>1, LenProperties
  <2>2. QED
    BY <2>1, SMT
<1>6. T[i].size \in Nat /\ T[i + 1].size \in Nat
  <2>1. T[i] \in Entry /\ T[i + 1] \in Entry
    BY <1>1, <1>5, ElementOfSeq
  <2>2. QED
    BY <2>1, EntryNumbers
<1>7. CASE i = 1 /\ f = 1
  <2>1. T[i].size = 0
    BY <1>2, <1>7
  <2>2. QED
    BY <1>6, <2>1, SMT
<1>8. CASE i + 1 <= f + n /\ ~(i = 1 /\ f = 1)
  <2>1. /\ i - f \in 1 .. n /\ (i - f) + 1 \in 1 .. n /\ i - f < (i - f) + 1
        /\ f + (i - f) = i /\ f + ((i - f) + 1) = i + 1
    BY <1>1, <1>5, <1>8, SMT
  <2>2. T[i] = t[i - f] /\ T[i + 1] = t[(i - f) + 1]
    BY <1>2, <2>1
  <2>3. t[i - f].size <= t[(i - f) + 1].size
    BY <1>3, <2>1
  <2>4. QED
    BY <2>2, <2>3
<1>9. CASE ~(i + 1 <= f + n)
  <2>1. Len(T) = f + n + 1 /\ i + 1 = Len(T) /\ i = f + n
    BY <1>1, <1>2, <1>5, <1>9, SMT
  <2>2. T[i] = t[n] /\ T[i + 1].size = t[n].size
    BY <1>1, <1>2, <2>1
  <2>3. QED
    BY <1>6, <2>2, SMT
<1>10. QED
  BY <1>7, <1>8, <1>9

------------------------------------------------------------------------------
\* What is drawn from the table.

Samples == {[u |-> u, bytes |-> SampleSizeFromCdf(Table(input.sizes), u)] : u \in 0 .. Percent}

TableOK ==
    /\ input.sizes \in Seq(SizeLine)
    /\ pc \notin {"sizes", "failed"} => input.sizes # <<>> /\ out = Table(input.sizes)
    /\ out # <<>> => input.sizes # <<>> /\ out = Table(input.sizes)
    /\ drawn \in Seq(Samples)
    /\ drawn # <<>> => input.sizes # <<>>

\* There is no table in the beginning.
LEMMA TableInit == Init => TableOK
<1>1. SUFFICES ASSUME Init PROVE TableOK
  OBVIOUS
<1>2. input.sizes \in Seq(SizeLine)
  BY <1>1, InputAssumption DEF Init
<1>3. <<>> \in Seq(Samples)
  BY EmptySeq
<1>4. QED
  BY <1>1, <1>2, <1>3 DEF Init, TableOK

\* A step that leaves the table and the sizes drawn alone.
LEMMA TableKept ==
    ASSUME TableOK, pc \notin {"sizes", "failed"} \/ pc' = pc, UNCHANGED <<input, out, drawn>>
    PROVE  TableOK'
BY DEF TableOK, Samples

\* Every step keeps the table and the sizes drawn what they are.
LEMMA TableNext == TableOK /\ [Next]_vars => TableOK'
<1>1. SUFFICES ASSUME TableOK, [Next]_vars PROVE TableOK'
  OBVIOUS
<1>2. CASE LoadSizeCdf
  <2>1. pc = "sizes" /\ UNCHANGED <<input, drawn>>
    BY <1>2 DEF LoadSizeCdf, flowVars
  <2>2. CASE input.sizes = <<>>
    BY <1>1, <1>2, <2>1, <2>2 DEF LoadSizeCdf, Fails, TableOK, Samples
  <2>3. CASE input.sizes # <<>>
    <3>1. out' = Table(input.sizes)
      BY <1>2, <2>3 DEF LoadSizeCdf
    <3>2. out' = Table(input'.sizes) /\ input'.sizes # <<>>
      BY <2>1, <2>3, <3>1
    <3>3. Samples' = Samples
      BY <2>1 DEF Samples
    <3>4. QED
      BY <1>1, <2>1, <3>2, <3>3 DEF TableOK
  <2>4. QED
    BY <2>2, <2>3
<1>3. CASE ReadTopology
  BY <1>1, <1>3, TableKept DEF ReadTopology, flowVars
<1>4. CASE \E node \in edgeNodes : PickSource(node) \/ PickDestination(node)
  BY <1>1, <1>4, TableKept DEF PickSource, PickDestination
<1>5. CASE PairsDone
  BY <1>1, <1>5, TableKept DEF PairsDone, flowVars
<1>6. CASE \E u \in 0 .. Percent : Draw(u)
  <2>1. PICK u \in 0 .. Percent : Draw(u)
    BY <1>6
  <2>2. /\ pc = "draw" /\ UNCHANGED <<input, pc, out>>
        /\ drawn' = Append(drawn, [u |-> u, bytes |-> SampleSizeFromCdf(out, u)])
    BY <2>1 DEF Draw
  <2>3. out = Table(input.sizes) /\ input.sizes # <<>>
    BY <1>1, <2>2 DEF TableOK
  <2>4. [u |-> u, bytes |-> SampleSizeFromCdf(out, u)] \in Samples
    BY <2>3 DEF Samples
  <2>5. drawn' \in Seq(Samples)
    <3>1. drawn \in Seq(Samples)
      BY <1>1 DEF TableOK
    <3> HIDE DEF Samples
    <3>2. QED
      BY <2>2, <2>4, <3>1, AppendProperties
  <2>6. Samples' = Samples
    BY <2>2 DEF Samples
  <2>7. QED
    BY <1>1, <2>2, <2>3, <2>5, <2>6 DEF TableOK
<1>7. CASE DrawsDone
  BY <1>1, <1>7, TableKept DEF DrawsDone, flowVars
<1>8. CASE InstallFlow
  BY <1>1, <1>8, TableKept DEF InstallFlow
<1>9. CASE ScheduleSamples
  BY <1>1, <1>9, TableKept DEF ScheduleSamples, flowVars
<1>10. CASE Simulate
  BY <1>1, <1>10, TableKept
  DEF Simulate, StartApplications, RecordAllQueuesAtSubPoint, RecordAllQueues, Stop, Runs, flowVars
<1>11. CASE UNCHANGED vars
  BY <1>1, <1>11, TableKept DEF vars, flowVars
<1>12. QED
  BY <1>1, <1>2, <1>3, <1>4, <1>5, <1>6, <1>7, <1>8, <1>9, <1>10, <1>11 DEF Next, Read, Prepare

\* The table is the one of the lines, and what is drawn is drawn from it.
THEOREM TableSafety == Spec => []TableOK
BY TableInit, TableNext, PTL DEF Spec

\* For any size file, the table rises strictly from 0% to 100%, and its sizes do
\* not fall if no percentage is given twice.
THEOREM TableRises == Spec => []TableIsCdf
<1>1. TableOK => TableIsCdf
  <2>1. SUFFICES ASSUME TableOK, out # <<>>
                 PROVE  /\ Head(out).pct = 0 /\ Last(out).pct = Percent
                        /\ \A i \in 1 .. Len(out) - 1 :
                             /\ out[i].pct < out[i + 1].pct
                             /\ OneSizeEach => out[i].size <= out[i + 1].size
    BY DEF TableIsCdf
  <2> DEFINE lines == input.sizes
  <2>2. lines \in Seq(SizeLine) /\ lines # <<>> /\ out = Table(lines)
    BY <2>1 DEF TableOK
  <2>3. OneSizeEach => LinesApart(lines)
    BY <2>2, LenProperties DEF OneSizeEach, LinesApart
  <2> HIDE DEF lines
  <2>4. PICK s, t : \E f \in {0, 1} :
              /\ InOrder(s, lines) /\ Rising(t) /\ Within(t, Table(lines), f)
              /\ LinesApart(lines) => Len(t) = Len(s) /\ RunningMaxima(t, s)
    BY <2>2, TableOfLines
  <2>5. PICK f \in {0, 1} :
              /\ InOrder(s, lines) /\ Rising(t) /\ Within(t, out, f)
              /\ LinesApart(lines) => Len(t) = Len(s) /\ RunningMaxima(t, s)
    BY <2>2, <2>4
  <2>6. /\ out \in Seq(Entry) /\ out[1].pct = 0 /\ out[Len(out)].pct = Percent
        /\ \A i, j \in 1 .. Len(out) : i < j => out[i].pct < out[j].pct
    BY <2>5 DEF Within, Rising
  <2>7. Head(out) = out[1] /\ Last(out) = out[Len(out)] /\ Len(out) \in Nat
    BY <2>1, <2>6, LenProperties DEF Last
  <2>8. \A i \in 1 .. Len(out) - 1 :
           i \in 1 .. Len(out) /\ i + 1 \in 1 .. Len(out) /\ i < i + 1
    BY <2>7, SMT
  <2>9. OneSizeEach => \A i \in 1 .. Len(out) - 1 : out[i].size <= out[i + 1].size
    BY <2>3, <2>5, SizesRise DEF InOrder
  <2>10. QED
    BY <2>6, <2>7, <2>8, <2>9
<1>2. QED
  BY <1>1, TableSafety, PTL

\* A quotient between two whole numbers.
LEMMA DivisionBounds ==
    ASSUME NEW p \in Nat, NEW q \in Nat \ {0}, NEW r \in Nat
    PROVE  /\ p \div q \in Nat
           /\ r * q <= p => r <= p \div q
           /\ p < (r + 1) * q => p \div q <= r
<1> DEFINE d == p \div q
<1>1. d \in Nat /\ p % q \in 0 .. q - 1
  BY SMT
<1>2. p % q = p - q * d
  BY SMTT(30)
<1>3. q * d = d * q /\ d * q \in Int /\ (d + 1) * q = d * q + q /\ r * q \in Int /\ (r + 1) * q \in Int
  <2> HIDE DEF d
  <2>1. QED
    BY <1>1, SMT
<1> HIDE DEF d
<1>4. d * q <= p /\ p < (d + 1) * q
  BY <1>1, <1>2, <1>3, SMT
<1>5. ASSUME r * q <= p PROVE r <= d
  <2>1. r * q < (d + 1) * q
    BY <1>1, <1>3, <1>4, <1>5, SMT
  <2>2. r \in Int /\ d + 1 \in Int
    BY <1>1, SMT
  <2>3. r < d + 1
    BY <2>1, <2>2, TimesCancels
  <2>4. QED
    BY <1>1, <2>3, SMT
<1>6. ASSUME p < (r + 1) * q PROVE d <= r
  <2>1. d * q < (r + 1) * q
    BY <1>1, <1>3, <1>4, <1>6, SMT
  <2>2. d \in Int /\ r + 1 \in Int
    BY <1>1, SMT
  <2>3. d < r + 1
    BY <2>1, <2>2, TimesCancels
  <2>4. QED
    BY <1>1, <2>3, SMT
<1>7. QED
  BY <1>1, <1>5, <1>6 DEF d

\* Rounding what lies between two multiples of w.
LEMMA Rounded ==
    ASSUME NEW w \in Nat \ {0}, NEW a \in Nat, NEW b \in Nat, NEW s \in Nat,
           a * w <= s, s <= b * w, NEW r, r = (IF s < w THEN 1 ELSE (2 * s + w) \div (2 * w))
    PROVE  /\ AtLeastOne(a) <= r /\ r <= AtLeastOne(b)
           /\ s = b * w => r = AtLeastOne(b)
<1>1. a * w \in Int /\ b * w \in Int /\ 1 * w = w /\ w \in Int /\ 1 \in Int /\ a \in Int /\ b \in Int
  BY SMT
<1>2. CASE s < w
  <2>1. a < 1
    <3>1. a * w < 1 * w
      BY <1>1, <1>2, SMT
    <3>2. QED
      BY <1>1, <3>1, TimesCancels
  <2>2. s = b * w => b < 1
    <3>1. s = b * w => b * w < 1 * w
      BY <1>1, <1>2, SMT
    <3>2. QED
      BY <1>1, <3>1, TimesCancels
  <2>3. QED
    BY <1>2, <2>1, <2>2, SMT DEF AtLeastOne
<1>3. CASE ~(s < w)
  <2> DEFINE p == 2 * s + w
             q == 2 * w
  <2>1. p \in Nat /\ q \in Nat \ {0} /\ r = p \div q
    BY <1>3, SMT
  <2>2. /\ a * q = 2 * (a * w) /\ b * q = 2 * (b * w) /\ (b + 1) * q = 2 * (b * w) + 2 * w
        /\ 1 * q = 2 * w
    BY SMT
  <2>3. a * q <= p /\ 1 * q <= p /\ p < (b + 1) * q
    BY <1>1, <1>3, <2>2, SMT
  <2>4. s = b * w => b * q <= p
    BY <1>1, <2>2, SMT
  <2> HIDE DEF p, q
  <2>5. 1 \in Nat
    OBVIOUS
  <2>6. p \div q \in Nat /\ a <= p \div q /\ 1 <= p \div q /\ p \div q <= b
    BY <2>1, <2>3, <2>5, DivisionBounds
  <2>7. s = b * w => b <= p \div q
    BY <2>1, <2>4, DivisionBounds
  <2>8. QED
    BY <2>1, <2>6, <2>7, SMT DEF AtLeastOne
<1>4. QED
  BY <1>2, <1>3

\* Interpolation stays between the two entries and ends at the second.
LEMMA InterpolatedBetween ==
    ASSUME NEW a \in Entry, NEW b \in Entry, NEW u \in Nat, a.pct < u, u <= b.pct,
           a.size <= b.size
    PROVE  /\ AtLeastOne(a.size) <= Interpolated(a, b, u)
           /\ Interpolated(a, b, u) <= AtLeastOne(b.size)
           /\ u = b.pct => Interpolated(a, b, u) = AtLeastOne(b.size)
<1> DEFINE w == b.pct - a.pct
           x == u - a.pct
           d == b.size - a.size
           s == a.size * w + x * d
<1>1. /\ a.size \in Nat /\ b.size \in Nat /\ a.pct \in Int /\ b.pct \in Int /\ a.size \in Int
      /\ a.size \in 0 .. SizeRange - 1 /\ b.size \in 0 .. SizeRange - 1
  BY EntryNumbers, SMT
<1>2. w \in Nat \ {0} /\ x \in Nat /\ x <= w /\ (u = b.pct => x = w) /\ d \in 0 .. SizeRange - 1
  BY <1>1, CdfAssumption, SMT
<1>3. d \in Nat /\ d % SizeRange = d
  <2>1. d \in Nat /\ d < SizeRange
    BY <1>2, CdfAssumption, SMT
  <2> HIDE DEF d
  <2>2. QED
    BY <2>1, CdfAssumption, SMT
<1>4. Interpolated(a, b, u) = IF s < w THEN 1 ELSE (2 * s + w) \div (2 * w)
  <2>1. (b.size - a.size) % SizeRange = d
    BY <1>3
  <2>2. QED
    BY <2>1 DEF Interpolated
<1>5. b.size = a.size + d
  BY <1>1, SMT
<1> HIDE DEF w, x, d
<1>6. x * d \in Int /\ w * d \in Int /\ 0 <= x * d /\ x * d <= w * d
  <2>1. CASE d = 0
    BY <1>2, <2>1, SMT
  <2>2. CASE d # 0
    <3>1. d \in Nat \ {0} /\ x \in Int /\ w \in Int /\ 0 \in Int /\ 0 <= x
      BY <1>2, <1>3, <2>2, SMT
    <3>2. x * d <= w * d /\ 0 * d <= x * d
      BY <1>2, <3>1, TimesCancels
    <3>3. 0 * d = 0 /\ x * d \in Int /\ w * d \in Int
      BY <3>1, SMT
    <3>4. QED
      BY <3>2, <3>3
  <2>3. QED
    BY <2>1, <2>2
<1>7. b.size * w = a.size * w + w * d /\ a.size * w \in Nat
  <2>1. \A m \in Nat : (m + d) * w = m * w + w * d /\ m * w \in Nat
    BY <1>2, <1>3, SMT
  <2>2. QED
    BY <1>1, <1>5, <2>1
<1>8. s \in Nat /\ a.size * w <= s /\ s <= b.size * w
  <2>1. \A m \in Nat : m + x * d \in Nat /\ m <= m + x * d /\ m + x * d <= m + w * d
    BY <1>6, SMT
  <2>2. QED
    BY <1>7, <2>1
<1>9. u = b.pct => s = b.size * w
  BY <1>2, <1>7
<1> HIDE DEF s
<1>10. QED
  BY <1>1, <1>2, <1>4, <1>8, <1>9, Rounded

\* The entry a percentage falls into.
LEMMA EntryOfTable ==
    ASSUME NEW T, Rising(T), T[1].pct = 0, T[Len(T)].pct = Percent, NEW u \in 0 .. Percent,
           NEW i, i = EntryOf(T, u)
    PROVE  /\ i \in 1 .. Len(T) /\ Len(T) \in Nat /\ u <= T[i].pct
           /\ i = 1 => u = 0
           /\ i # 1 => i - 1 \in 1 .. Len(T) /\ T[i - 1].pct < u
<1> DEFINE n == Len(T)
           reached == {j \in DOMAIN T : u <= T[j].pct}
<1>1. /\ T \in Seq(Entry) /\ n \in Nat \ {0} /\ n \in 1 .. n /\ 1 \in 1 .. n /\ DOMAIN T = 1 .. n
  <2>1. T \in Seq(Entry) /\ n \in Nat \ {0} /\ DOMAIN T = 1 .. n
    BY EmptySeq, LenProperties DEF Rising
  <2>2. QED
    BY <2>1, SMT
<1>2. n \in reached /\ reached \subseteq Nat
  <2>1. u <= T[n].pct
    BY SMT
  <2>2. QED
    BY <1>1, <2>1
<1>3. i \in reached /\ \A j \in reached : i <= j
  <2>1. \E j \in reached : \A k \in reached : j <= k
    BY <1>2, NatMinimum
  <2>2. QED
    BY <1>2, <2>1 DEF EntryOf
<1>4. i = 1 => u = 0
  BY <1>3, SMT
<1>5. ASSUME i # 1 PROVE i - 1 \in 1 .. n /\ T[i - 1].pct < u
  <2>1. i - 1 \in 1 .. n /\ ~(i <= i - 1)
    BY <1>1, <1>3, <1>5, SMT
  <2>2. ~(u <= T[i - 1].pct)
    BY <1>1, <1>3, <2>1
  <2>3. T[i - 1].pct \in Int
    BY <1>1, <2>1, ElementOfSeq, EntryNumbers
  <2>4. QED
    BY <2>1, <2>2, <2>3, SMT
<1>6. QED
  BY <1>1, <1>3, <1>4, <1>5

\* How the table of lines that give no percentage twice comes about.
TableFrom(lines, s, t, T, f) ==
    /\ lines \in Seq(SizeLine) /\ lines # <<>> /\ LinesApart(lines)
    /\ InOrder(s, lines) /\ Rising(t) /\ Len(t) = Len(s) /\ RunningMaxima(t, s)
    /\ f \in {0, 1} /\ Within(t, T, f)

TableFacts(lines, s, t, T, f, n) ==
    /\ n \in Nat \ {0} /\ DOMAIN lines = 1 .. n /\ Len(s) = n /\ Len(t) = n
    /\ f \in {0, 1} /\ Len(T) \in Nat
    /\ Len(T) = f + n \/ (Len(T) = f + n + 1 /\ T[Len(T)].size = t[n].size)
    /\ \A i \in 1 .. n : lines[i] \in SizeLine /\ s[i] \in Entry /\ t[i] \in Entry
    /\ \A i \in 1 .. Len(T) : T[i] \in Entry
    /\ \A i \in 1 .. n : T[f + i] = t[i]
    /\ f = 1 => T[1].size = 0
    /\ T[1].pct = 0 /\ T[Len(T)].pct = Percent
    /\ \A i, j \in 1 .. Len(T) : i < j => T[i].pct < T[j].pct

\* The numbers, the order and the bounds of a table that comes from the lines.
LEMMA TableFromFacts ==
    ASSUME NEW lines, NEW s, NEW t, NEW T, NEW f, TableFrom(lines, s, t, T, f),
           NEW n, n = Len(lines)
    PROVE  TableFacts(lines, s, t, T, f, n)
<1>1. /\ lines \in Seq(SizeLine) /\ s \in Seq(Entry) /\ t \in Seq(Entry) /\ T \in Seq(Entry)
      /\ Len(s) = n /\ Len(t) = n
  BY DEF TableFrom, InOrder, Rising, Within
<1>2. n \in Nat \ {0} /\ DOMAIN lines = 1 .. n /\ Len(T) \in Nat
  <2>1. lines # <<>>
    BY DEF TableFrom
  <2>2. QED
    BY <1>1, <2>1, EmptySeq, LenProperties
<1>3. \A i \in 1 .. n : lines[i] \in SizeLine /\ s[i] \in Entry /\ t[i] \in Entry
  BY <1>1, ElementOfSeq
<1>4. \A i \in 1 .. Len(T) : T[i] \in Entry
  BY <1>1, ElementOfSeq
<1>5. /\ f \in {0, 1}
      /\ \A i \in 1 .. n : T[f + i] = t[i]
      /\ f = 1 => T[1] = [size |-> 0, pct |-> 0]
      /\ \/ Len(T) = f + n
         \/ /\ Len(T) = f + n + 1
            /\ T[Len(T)] = [size |-> Last(t).size, pct |-> Percent]
      /\ T[1].pct = 0 /\ T[Len(T)].pct = Percent
  BY <1>1 DEF TableFrom, Within
<1>6. Last(t) = t[n]
  BY <1>1 DEF Last
<1>7. \A i, j \in 1 .. Len(T) : i < j => T[i].pct < T[j].pct
  BY DEF TableFrom, Within, Rising
<1>8. Len(T) = f + n \/ (Len(T) = f + n + 1 /\ T[Len(T)].size = t[n].size)
  BY <1>5, <1>6
<1>9. f = 1 => T[1].size = 0
  BY <1>5
<1>10. QED
  BY <1>1, <1>2, <1>3, <1>4, <1>5, <1>7, <1>8, <1>9 DEF TableFacts

\* The lines up to a percentage are the first ones in the order.
LEMMA LinesUpTo ==
    ASSUME NEW lines, NEW s, NEW t, NEW T, NEW f, TableFrom(lines, s, t, T, f),
           NEW n, n = Len(lines), NEW u \in 0 .. Percent, NEW k \in 1 .. Len(T),
           T[k].pct <= u, k = Len(T) \/ u < T[k + 1].pct,
           NEW m, m = (IF k - f > n THEN n ELSE k - f)
    PROVE  /\ m \in 0 .. n /\ (m = 0 => f = 1 /\ k = 1)
           /\ m # 0 => T[k].size = t[m].size
           /\ \A i \in 1 .. n : s[i].pct <= u <=> i <= m
<1>1. /\ n \in Nat \ {0} /\ f \in {0, 1} /\ Len(T) \in Nat
      /\ Len(T) = f + n \/ (Len(T) = f + n + 1 /\ T[Len(T)].size = t[n].size)
      /\ \A i \in 1 .. n : T[f + i] = t[i]
      /\ \A i \in 1 .. Len(T) : T[i] \in Entry
      /\ \A i, j \in 1 .. Len(T) : i < j => T[i].pct < T[j].pct
      /\ Len(t) = n
  <2>1. TableFacts(lines, s, t, T, f, n)
    BY TableFromFacts
  <2>2. QED
    BY <2>1 DEF TableFacts
<1>2. /\ m \in 0 .. n /\ (m = 0 => f = 1 /\ k = 1) /\ (m # 0 => m \in 1 .. n)
      /\ k - f > n => m = n /\ k = Len(T) /\ Len(T) = f + n + 1
      /\ ~(k - f > n) => m = k - f /\ f + m = k
  BY <1>1, SMT
<1>3. ASSUME m # 0 PROVE T[k].size = t[m].size
  <2>1. CASE k - f > n
    <3>1. m = n /\ k = Len(T) /\ Len(T) # f + n
      BY <1>1, <1>2, <2>1, SMT
    <3>2. QED
      BY <1>1, <3>1
  <2>2. CASE ~(k - f > n)
    BY <1>1, <1>2, <1>3, <2>2
  <2>3. QED
    BY <2>1, <2>2
<1>4. \A i \in 1 .. n : s[i].pct = T[f + i].pct /\ f + i \in 1 .. Len(T)
  <2>1. \A i \in 1 .. n : t[i].pct = s[i].pct
    BY <1>1 DEF TableFrom, RunningMaxima
  <2>2. \A i \in 1 .. n : f + i \in 1 .. Len(T)
    BY <1>1, SMT
  <2>3. QED
    BY <1>1, <2>1, <2>2
<1>5. \A i \in 1 .. Len(T) : T[i].pct \in Int
  BY <1>1, EntryNumbers
<1>6. ASSUME NEW i \in 1 .. n, i <= m PROVE s[i].pct <= u
  <2>1. f + i <= k
    BY <1>1, <1>2, <1>6, SMT
  <2>2. CASE f + i = k
    BY <1>4, <2>2
  <2>3. CASE f + i < k
    <3>1. T[f + i].pct < T[k].pct
      BY <1>1, <1>4, <2>3
    <3>2. T[f + i].pct \in Int /\ T[k].pct \in Int
      BY <1>4, <1>5
    <3>3. T[f + i].pct <= u
      BY <3>1, <3>2, SMT
    <3>4. QED
      BY <1>4, <3>3
  <2>4. QED
    BY <1>1, <2>1, <2>2, <2>3, SMT
<1>7. ASSUME NEW i \in 1 .. n, ~(i <= m) PROVE ~(s[i].pct <= u)
  <2>1. k # Len(T) /\ k + 1 \in 1 .. Len(T) /\ k + 1 <= f + i
    BY <1>1, <1>2, <1>7, SMT
  <2>2. u < T[k + 1].pct /\ T[k + 1].pct \in Int /\ T[f + i].pct \in Int
    BY <1>4, <1>5, <2>1
  <2>3. CASE k + 1 = f + i
    <3>1. ~(T[f + i].pct <= u)
      BY <2>2, <2>3, SMT
    <3>2. QED
      BY <1>4, <3>1
  <2>4. CASE k + 1 < f + i
    <3>1. T[k + 1].pct < T[f + i].pct
      BY <1>1, <1>4, <2>1, <2>4
    <3>2. ~(T[f + i].pct <= u)
      BY <2>2, <3>1, SMT
    <3>3. QED
      BY <1>4, <3>2
  <2>5. QED
    BY <1>1, <2>1, <2>3, <2>4, SMT
<1>8. QED
  BY <1>2, <1>3, <1>6, <1>7

\* The quantile by the lines is the size of the last entry up to u.
LEMMA QuantileInTable ==
    ASSUME NEW lines, lines = input.sizes, NEW s, NEW t, NEW T, NEW f,
           TableFrom(lines, s, t, T, f), NEW u \in 0 .. Percent, NEW k \in 1 .. Len(T),
           T[k].pct <= u, k = Len(T) \/ u < T[k + 1].pct
    PROVE  Quantile(u) = T[k].size
<1> DEFINE n == Len(lines)
           m == IF k - f > n THEN n ELSE k - f
           below == {lines[i].size : i \in {j \in DOMAIN lines : Clamped(lines[j]).pct <= u}}
<1>1. /\ n \in Nat \ {0} /\ DOMAIN lines = 1 .. n /\ Len(t) = n /\ (f = 1 => T[1].size = 0)
      /\ \A i \in 1 .. n : lines[i] \in SizeLine /\ s[i] \in Entry /\ t[i] \in Entry
  <2>1. TableFacts(lines, s, t, T, f, n)
    BY TableFromFacts
  <2>2. QED
    BY <2>1 DEF TableFacts
<1>2. /\ m \in 0 .. n /\ (m = 0 => f = 1 /\ k = 1)
      /\ m # 0 => T[k].size = t[m].size
      /\ \A i \in 1 .. n : s[i].pct <= u <=> i <= m
  <2>1. n = Len(lines) /\ m = IF k - f > n THEN n ELSE k - f
    OBVIOUS
  <2> HIDE DEF n, m
  <2>2. QED
    BY <2>1, LinesUpTo
<1> HIDE DEF m, n
<1>3. /\ \A x \in 1 .. n : \E i \in 1 .. n : s[i] = Clamped(lines[x])
      /\ \A i \in 1 .. n : \E x \in 1 .. n : s[i] = Clamped(lines[x])
  BY DEF TableFrom, InOrder, n
<1>4. \A x \in 1 .. n : Clamped(lines[x]).size = lines[x].size
  BY <1>1, ClampedEntries
<1>5. below = {s[i].size : i \in 1 .. m}
  <2>1. ASSUME NEW x \in 1 .. n, Clamped(lines[x]).pct <= u
        PROVE  \E i \in 1 .. m : lines[x].size = s[i].size
    <3>1. PICK i \in 1 .. n : s[i] = Clamped(lines[x])
      BY <1>3
    <3>2. i <= m
      BY <1>2, <2>1, <3>1
    <3>3. i \in 1 .. m
      BY <1>1, <1>2, <3>2, SMT
    <3>4. QED
      BY <1>4, <3>1, <3>3
  <2>2. ASSUME NEW i \in 1 .. m
        PROVE  \E x \in 1 .. n : Clamped(lines[x]).pct <= u /\ s[i].size = lines[x].size
    <3>1. i \in 1 .. n /\ i <= m
      BY <1>1, <1>2, SMT
    <3>2. PICK x \in 1 .. n : s[i] = Clamped(lines[x])
      BY <1>3, <3>1
    <3>3. QED
      BY <1>2, <1>4, <3>1, <3>2
  <2>3. \A y \in below : \E i \in 1 .. m : y = s[i].size
    BY <1>1, <2>1
  <2>4. \A i \in 1 .. m : s[i].size \in below
    BY <1>1, <2>2
  <2> HIDE DEF below
  <2>5. QED
    BY <2>3, <2>4
<1>6. Quantile(u) = IF below = {} THEN 0 ELSE CHOOSE x \in below : \A r \in below : r <= x
  BY DEF Quantile
<1> HIDE DEF below
<1>7. CASE m = 0
  <2>1. 1 .. m = {}
    BY <1>7, SMT
  <2>2. below = {}
    BY <1>5, <2>1
  <2>3. QED
    BY <1>1, <1>2, <1>6, <1>7, <2>2
<1>8. CASE m # 0
  <2>1. m \in 1 .. n /\ m \in 1 .. m
    BY <1>1, <1>2, <1>8, SMT
  <2>2. /\ \A i \in 1 .. n : s[i].size <= t[i].size /\ \E j \in 1 .. i : t[i].size = s[j].size
        /\ \A i, j \in 1 .. n : i < j => t[i].size <= t[j].size
    BY <1>1 DEF TableFrom, RunningMaxima
  <2>3. t[m].size \in below
    BY <1>5, <2>1, <2>2
  <2>4. ASSUME NEW r \in below PROVE r \in Int /\ r <= t[m].size
    <3>1. PICK i \in 1 .. m : r = s[i].size
      BY <1>5
    <3>2. i \in 1 .. n /\ (i = m \/ i < m)
      BY <1>1, <1>2, SMT
    <3>3. s[i].size \in Int /\ t[i].size \in Int /\ t[m].size \in Int
      BY <1>1, <2>1, <3>2, EntryNumbers
    <3>4. s[i].size <= t[i].size /\ (i < m => t[i].size <= t[m].size)
      BY <2>1, <2>2, <3>2
    <3>5. QED
      BY <3>1, <3>2, <3>3, <3>4, SMT
  <2>5. \A x \in below : (\A r \in below : r <= x) => x = t[m].size
    <3>1. SUFFICES ASSUME NEW x \in below, \A r \in below : r <= x PROVE x = t[m].size
      OBVIOUS
    <3>2. t[m].size <= x /\ x <= t[m].size /\ x \in Int /\ t[m].size \in Int
      BY <2>3, <2>4, <3>1
    <3>3. QED
      BY <3>2, SMT
  <2>6. \A r \in below : r <= t[m].size
    BY <2>4
  <2>7. (CHOOSE x \in below : \A r \in below : r <= x) = t[m].size
    BY <2>3, <2>5, <2>6
  <2>8. QED
    BY <1>2, <1>6, <1>8, <2>3, <2>7
<1>9. QED
  BY <1>7, <1>8

\* The percentages of the file, and 100%.
Percentages(lines) == {Clamped(line).pct : line \in ToSet(lines)} \cup {Percent}

\* The percentages of the file are those of the table, but for 0%.
LEMMA PercentagesInTable ==
    ASSUME NEW lines, NEW s, NEW t, NEW T, NEW f, TableFrom(lines, s, t, T, f)
    PROVE  \A p : p \in Percentages(lines) <=> \E j \in f + 1 .. Len(T) : p = T[j].pct
<1> DEFINE n == Len(lines)
           above == Percentages(lines)
           rows == {T[j].pct : j \in f + 1 .. Len(T)}
<1>1. /\ n \in Nat \ {0} /\ DOMAIN lines = 1 .. n /\ Len(t) = n /\ f \in {0, 1}
      /\ Len(T) \in Nat /\ (Len(T) = f + n \/ Len(T) = f + n + 1)
      /\ \A i \in 1 .. n : T[f + i] = t[i]
      /\ T[Len(T)].pct = Percent
  <2>1. TableFacts(lines, s, t, T, f, n)
    BY TableFromFacts
  <2>2. QED
    BY <2>1 DEF TableFacts
<1>2. /\ \A x \in 1 .. n : \E i \in 1 .. n : s[i] = Clamped(lines[x])
      /\ \A i \in 1 .. n : \E x \in 1 .. n : s[i] = Clamped(lines[x])
      /\ \A i \in 1 .. n : t[i].pct = s[i].pct
  BY <1>1 DEF TableFrom, InOrder, RunningMaxima
<1>3. /\ \A i \in 1 .. n : f + i \in f + 1 .. Len(T)
      /\ Len(T) \in f + 1 .. Len(T)
      /\ \A j \in f + 1 .. Len(T) : (j - f \in 1 .. n /\ f + (j - f) = j) \/ j = Len(T)
  BY <1>1, SMT
<1>4. \A p : p \in above <=> (\E x \in 1 .. n : p = Clamped(lines[x]).pct) \/ p = Percent
  BY <1>1 DEF ToSet, Percentages
<1> HIDE DEF above, n
<1>5. ASSUME NEW p \in above PROVE p \in rows
  <2>1. CASE p = Percent
    BY <1>1, <1>3, <2>1
  <2>2. CASE \E x \in 1 .. n : p = Clamped(lines[x]).pct
    <3>1. PICK x \in 1 .. n : p = Clamped(lines[x]).pct
      BY <2>2
    <3>2. PICK i \in 1 .. n : s[i] = Clamped(lines[x])
      BY <1>2
    <3>3. p = T[f + i].pct
      BY <1>1, <1>2, <3>1, <3>2
    <3>4. QED
      BY <1>3, <3>3
  <2>3. QED
    BY <1>4, <2>1, <2>2
<1>6. ASSUME NEW j \in f + 1 .. Len(T) PROVE T[j].pct \in above
  <2>1. CASE j = Len(T)
    BY <1>1, <1>4, <2>1
  <2>2. CASE j - f \in 1 .. n /\ f + (j - f) = j
    <3>1. PICK x \in 1 .. n : s[j - f] = Clamped(lines[x])
      BY <1>2, <2>2
    <3>2. T[j] = t[j - f]
      BY <1>1, <2>2
    <3>3. T[j].pct = Clamped(lines[x]).pct
      BY <1>2, <2>2, <3>1, <3>2
    <3>4. QED
      BY <1>4, <3>3
  <2>3. QED
    BY <1>3, <2>1, <2>2
<1>7. above = rows
  BY <1>5, <1>6
<1>8. QED
  BY <1>7 DEF above

\* The first percentage of the file that is not below u.
LEMMA NextInTable ==
    ASSUME NEW above, NEW T, NEW a, NEW b,
           above = {T[j].pct : j \in a .. b}, \A j \in a .. b : T[j].pct \in Int,
           NEW u \in Int, NEW k \in a .. b, u <= T[k].pct,
           \A j \in a .. b : T[j].pct >= u => T[k].pct <= T[j].pct
    PROVE  (CHOOSE p \in above : p >= u /\ \A q \in above : q >= u => p <= q) = T[k].pct
<1> DEFINE Is(p) == p >= u /\ \A q \in above : q >= u => p <= q
<1>1. T[k].pct \in above /\ T[k].pct >= u
  BY SMT
<1>2. Is(T[k].pct)
  BY <1>1
<1>3. ASSUME NEW p \in above, Is(p) PROVE p = T[k].pct
  <2>1. p <= T[k].pct /\ p >= u
    BY <1>1, <1>3
  <2>2. T[k].pct <= p /\ p \in Int /\ T[k].pct \in Int
    BY <2>1
  <2>3. QED
    BY <2>1, <2>2, SMT
<1> HIDE DEF Is
<1>4. (CHOOSE p \in above : Is(p)) = T[k].pct
  BY <1>1, <1>2, <1>3
<1>5. QED
  BY <1>4 DEF Is

NextPercentage(lines, u) ==
    CHOOSE p \in Percentages(lines) :
        p >= u /\ \A q \in Percentages(lines) : q >= u => p <= q

\* Sampling at u, with the row that u falls into and the row of the next percentage.
LEMMA SampleInTable ==
    ASSUME NEW lines, lines = input.sizes, NEW s, NEW t, NEW T, NEW f,
           TableFrom(lines, s, t, T, f), NEW u \in 0 .. Percent,
           NEW next, next = NextPercentage(lines, u),
           NEW bytes, bytes = SampleSizeFromCdf(T, u)
    PROVE  /\ AtLeastOne(Quantile(u)) <= bytes
           /\ bytes <= AtLeastOne(Quantile(next))
           /\ u = next => bytes = AtLeastOne(Quantile(u))
<1> DEFINE n == Len(lines)
           i == EntryOf(T, u)
           above == Percentages(lines)
<1>1. /\ n \in Nat \ {0} /\ f \in {0, 1} /\ Len(T) \in Nat
      /\ (Len(T) = f + n \/ Len(T) = f + n + 1)
      /\ \A j \in 1 .. Len(T) : T[j] \in Entry
      /\ (f = 1 => T[1].size = 0) /\ T[1].pct = 0 /\ T[Len(T)].pct = Percent
      /\ \A j, k \in 1 .. Len(T) : j < k => T[j].pct < T[k].pct
  <2>1. TableFacts(lines, s, t, T, f, n)
    BY TableFromFacts
  <2>2. QED
    BY <2>1 DEF TableFacts
<1>2. Rising(T)
  BY DEF TableFrom, Within
<1> HIDE DEF n
<1>3. /\ i \in 1 .. Len(T) /\ u <= T[i].pct
      /\ i = 1 => u = 0
      /\ i # 1 => i - 1 \in 1 .. Len(T) /\ T[i - 1].pct < u
  BY <1>1, <1>2, EntryOfTable
<1>4. \A j \in 1 .. Len(T) : /\ T[j].pct \in Int /\ T[j].pct \in 0 .. Percent /\ T[j].size \in Nat
                             /\ T[j].size \in 0 .. SizeRange - 1
  BY <1>1, EntryNumbers, SMT
<1>5. ~(i > Len(T)) /\ i \in Nat /\ u \in Nat
  BY <1>1, <1>3, SMT
<1>6. \A k \in 1 .. Len(T), v \in 0 .. Percent :
        T[k].pct <= v /\ (k = Len(T) \/ v < T[k + 1].pct) => Quantile(v) = T[k].size
  BY QuantileInTable
<1>7. \A k \in 1 .. Len(T) : Quantile(T[k].pct) = T[k].size
  <2>1. SUFFICES ASSUME NEW k \in 1 .. Len(T) PROVE Quantile(T[k].pct) = T[k].size
    OBVIOUS
  <2>2. k = Len(T) \/ T[k].pct < T[k + 1].pct
    <3>1. k # Len(T) => k + 1 \in 1 .. Len(T) /\ k < k + 1
      BY <1>1, SMT
    <3>2. QED
      BY <1>1, <3>1
  <2>3. T[k].pct <= T[k].pct /\ T[k].pct \in 0 .. Percent
    BY <1>4, SMT
  <2>4. QED
    BY <1>6, <2>2, <2>3
<1>8. above = {T[j].pct : j \in f + 1 .. Len(T)}
  <2>1. \A p : p \in above <=> \E j \in f + 1 .. Len(T) : p = T[j].pct
    BY PercentagesInTable
  <2> HIDE DEF above
  <2>2. QED
    BY <2>1
<1>9. next = CHOOSE p \in above : p >= u /\ \A q \in above : q >= u => p <= q
  BY DEF NextPercentage
<1> HIDE DEF above, i
<1>10. ASSUME NEW k \in f + 1 .. Len(T), u <= T[k].pct,
              k = f + 1 \/ T[k - 1].pct < u
       PROVE  next = T[k].pct
  <2>1. \A j \in f + 1 .. Len(T) : T[j].pct \in Int
    <3>1. \A j \in f + 1 .. Len(T) : j \in 1 .. Len(T)
      BY <1>1, SMT
    <3>2. QED
      BY <1>4, <3>1
  <2>2. ASSUME NEW j \in f + 1 .. Len(T), T[j].pct >= u PROVE T[k].pct <= T[j].pct
    <3>1. /\ j \in 1 .. Len(T) /\ k \in 1 .. Len(T) /\ (j < k => k - 1 \in 1 .. Len(T) /\ k # f + 1)
          /\ j < k \/ j = k \/ k < j
          /\ j < k => j < k - 1 \/ j = k - 1
      BY <1>1, SMT
    <3>2. ~(j < k)
      <4>1. SUFFICES ASSUME j < k PROVE FALSE
        OBVIOUS
      <4>2. T[k - 1].pct < u /\ k - 1 \in 1 .. Len(T)
        BY <1>10, <3>1, <4>1
      <4>3. T[k - 1].pct \in Int /\ T[j].pct \in Int
        BY <1>4, <3>1, <4>2
      <4>4. j < k - 1 => T[j].pct < T[k - 1].pct
        BY <1>1, <3>1, <4>2
      <4>5. T[j].pct < u
        <5>1. CASE j = k - 1
          BY <4>2, <5>1
        <5>2. CASE j < k - 1
          BY <1>5, <4>2, <4>3, <4>4, <5>2, SMT
        <5>3. QED
          BY <3>1, <4>1, <5>1, <5>2
      <4>6. QED
        BY <1>5, <2>2, <4>3, <4>5, SMT
    <3>3. k < j => T[k].pct < T[j].pct
      BY <1>1, <3>1
    <3>4. T[k].pct \in Int /\ T[j].pct \in Int
      BY <1>4, <3>1
    <3>5. QED
      BY <3>1, <3>2, <3>3, <3>4, SMT
  <2>3. u \in Int
    BY <1>5, SMT
  <2>4. QED
    BY <1>8, <1>9, <1>10, <2>1, <2>2, <2>3, NextInTable
<1>11. CASE i # 1
  <2> DEFINE a == T[i - 1]
             b == T[i]
  <2>1. i - 1 \in 1 .. Len(T) /\ a \in Entry /\ b \in Entry /\ a.pct < u /\ u <= b.pct
    BY <1>1, <1>3, <1>11
  <2>2. a.size <= b.size
    <3>1. i - 1 \in 1 .. Len(T) - 1 /\ (i - 1) + 1 = i
      BY <1>1, <1>3, <2>1, SMT
    <3>2. \A j \in 1 .. Len(T) - 1 : T[j].size <= T[j + 1].size
      BY SizesRise DEF TableFrom, InOrder
    <3>3. T[i - 1].size <= T[(i - 1) + 1].size
      BY <3>1, <3>2
    <3>4. QED
      BY <3>1, <3>3
  <2>3. bytes = Interpolated(a, b, u)
    BY <1>5, <1>11 DEF SampleSizeFromCdf, i
  <2>4. next = b.pct
    <3>1. i \in f + 1 .. Len(T)
      BY <1>1, <1>3, <1>11, SMT
    <3>2. QED
      BY <1>10, <2>1, <3>1
  <2>5. Quantile(next) = b.size
    BY <1>3, <1>7, <2>4
  <2>6. u # b.pct => Quantile(u) = a.size
    <3>1. u # b.pct => u < T[(i - 1) + 1].pct
      <4>1. (i - 1) + 1 = i /\ b.pct \in Int
        BY <1>3, <1>4, <1>5, SMT
      <4>2. u # b.pct => u < b.pct
        BY <1>5, <2>1, <4>1, SMT
      <4>3. QED
        BY <4>1, <4>2
    <3>2. a.pct <= u
      BY <1>4, <1>5, <2>1, SMT
    <3>3. QED
      BY <1>6, <2>1, <3>1, <3>2
  <2> HIDE DEF a, b
  <2>7. /\ AtLeastOne(a.size) <= bytes /\ bytes <= AtLeastOne(b.size)
        /\ u = b.pct => bytes = AtLeastOne(b.size)
    BY <1>5, <2>1, <2>2, <2>3, InterpolatedBetween
  <2>8. AtLeastOne(b.size) <= AtLeastOne(b.size)
    <3>1. b.size \in Int
      BY <2>1, EntryNumbers
    <3>2. QED
      BY <3>1, SMT DEF AtLeastOne
  <2>9. QED
    BY <2>4, <2>5, <2>6, <2>7, <2>8
<1>12. CASE i = 1
  <2>1. u = 0 /\ bytes = AtLeastOne(T[1].size) /\ 1 \in 1 .. Len(T) /\ Quantile(u) = T[1].size
    <3>1. u = 0 /\ bytes = AtLeastOne(T[1].size)
      BY <1>3, <1>12 DEF SampleSizeFromCdf, i
    <3>2. 1 \in 1 .. Len(T)
      BY <1>3, <1>12
    <3>3. QED
      BY <1>1, <1>7, <3>1, <3>2
  <2>2. bytes = AtLeastOne(Quantile(u)) /\ bytes \in Int /\ bytes <= bytes
    BY <1>4, <2>1, SMT DEF AtLeastOne
  <2>3. CASE f = 0
    <3>1. next = T[1].pct
      <4>1. 1 \in f + 1 .. Len(T) /\ 1 = f + 1
        BY <1>1, <2>1, <2>3, SMT
      <4>2. u <= T[1].pct
        BY <1>3, <1>12
      <4>3. QED
        BY <1>10, <4>1, <4>2
    <3>2. Quantile(next) = T[1].size
      BY <1>7, <2>1, <3>1
    <3>3. QED
      BY <2>1, <2>2, <3>2
  <2>4. CASE f = 1
    <3>1. 2 \in f + 1 .. Len(T) /\ 2 = f + 1 /\ 2 \in 1 .. Len(T)
      BY <1>1, <2>4, SMT
    <3>2. u <= T[2].pct
      BY <1>4, <2>1, <3>1, SMT
    <3>3. Quantile(next) \in Nat
      BY <1>4, <1>7, <1>10, <3>1, <3>2
    <3>4. bytes = 1
      BY <1>1, <2>1, <2>4, SMT DEF AtLeastOne
    <3>5. 1 <= AtLeastOne(Quantile(next))
      BY <3>3, SMT DEF AtLeastOne
    <3>6. QED
      BY <2>2, <3>4, <3>5
  <2>5. QED
    BY <1>1, <2>3, <2>4
<1>13. QED
  BY <1>11, <1>12

\* For any size file that gives no percentage twice, what is drawn at a
\* percentage lies between the quantiles by the lines of the file around it.
THEOREM SamplesFollowTheFile == Spec => []SampleFollowsFile
<1>1. TableOK => SampleFollowsFile
  <2>1. SUFFICES ASSUME TableOK, OneSizeEach, NEW d \in ToSet(drawn),
                        NEW next, next = NextPercentage(input.sizes, d.u)
                 PROVE  /\ AtLeastOne(Quantile(d.u)) <= d.bytes
                        /\ d.bytes <= AtLeastOne(Quantile(next))
                        /\ d.u = next => d.bytes = AtLeastOne(Quantile(d.u))
    BY DEF SampleFollowsFile, NextPercentage, Percentages
  <2> DEFINE lines == input.sizes
             T == Table(lines)
  <2>2. drawn \in Seq(Samples)
    BY <2>1 DEF TableOK
  <2>3. d \in Samples /\ drawn # <<>>
    <3>1. PICK i \in DOMAIN drawn : d = drawn[i]
      BY <2>1 DEF ToSet
    <3> HIDE DEF Samples
    <3>2. d \in Samples
      BY <2>2, <3>1, ElementOfSeq, LenProperties
    <3>3. drawn # <<>>
      <4>1. DOMAIN <<>> = {}
        OBVIOUS
      <4>2. QED
        BY <3>1, <4>1
    <3>4. QED
      BY <3>2, <3>3
  <2>4. PICK u \in 0 .. Percent : d = [u |-> u, bytes |-> SampleSizeFromCdf(T, u)]
    BY <2>3 DEF Samples
  <2>5. lines \in Seq(SizeLine) /\ lines # <<>> /\ LinesApart(lines)
    <3>1. lines \in Seq(SizeLine) /\ lines # <<>>
      BY <2>1, <2>3 DEF TableOK
    <3>2. QED
      BY <2>1, <3>1, LenProperties DEF OneSizeEach, LinesApart
  <2>6. lines = input.sizes /\ T = Table(lines)
    OBVIOUS
  <2> HIDE DEF lines, T
  <2>7. PICK s, t : \E f \in {0, 1} :
              /\ InOrder(s, lines) /\ Rising(t) /\ Within(t, Table(lines), f)
              /\ LinesApart(lines) => Len(t) = Len(s) /\ RunningMaxima(t, s)
    BY <2>5, TableOfLines
  <2>8. PICK f \in {0, 1} : TableFrom(lines, s, t, T, f)
    BY <2>5, <2>6, <2>7 DEF TableFrom
  <2>9. d.u = u /\ d.bytes = SampleSizeFromCdf(T, u)
    BY <2>4
  <2>10. /\ AtLeastOne(Quantile(u)) <= d.bytes
         /\ d.bytes <= AtLeastOne(Quantile(next))
         /\ u = next => d.bytes = AtLeastOne(Quantile(u))
    <3>1. next = NextPercentage(lines, u)
      BY <2>1, <2>6, <2>9
    <3>2. QED
      BY <2>6, <2>8, <2>9, <3>1, SampleInTable
  <2>11. QED
    BY <2>9, <2>10
<1>2. QED
  BY <1>1, TableSafety, PTL
==============================================================================
