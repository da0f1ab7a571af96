-------------------------- MODULE EcmpRoutingProofs --------------------------
(***************************************************************************)
(* First the choice of a next hop by weight, for every list of weights,    *)
(* every hash and every hash width: it is a next hop of the list, and one  *)
(* whose weight is not 0, even where the 64-bit product wraps around.      *)
(*                                                                         *)
(* Then the choice as a system: for any nodes, routes, weight files and    *)
(* lookups, a flow keeps its path while the node keeps its addresses, and  *)
(* never takes a next hop of weight 0.                                     *)
(* A lookup that has been made can be repeated with the same result        *)
(* (Repeatable), because what was read of the weight file is neither read  *)
(* again nor changed by what others look up (WeightsStay).                 *)
(*                                                                         *)
(* Last the shares: the scaled hashes that choose a next hop are a stretch *)
(* as long as its weight (ChosenByThreshold), the hashes scaled into it an *)
(* interval (ShareOfStretch), and the weights those of the file (Faithful).*)
(***************************************************************************)
EXTENDS EcmpRouting, SeqSetsProofs, FiniteSetTheorems

------------------------------------------------------------------------------
\* The choice of an index.

\* The recursive definition of PrefixSums has a solution, so it may be unfolded.
LEMMA PrefixSumsUnfold ==
    ASSUME NEW w \in Seq(Nat)
    PROVE  /\ PrefixSums(w)[0] = 0
           /\ \A k \in 0 .. Len(w) : k + 1 <= Len(w) =>
                PrefixSums(w)[k + 1] = PrefixSums(w)[k] + w[k + 1]
<1> DEFINE Body(f, k) == IF k = 0 THEN 0 ELSE f[k - 1] + w[k]
           Solved == {n \in 0 .. Len(w) : \E f : f = [k \in 0 .. n |-> Body(f, k)]}
<1>1. Len(w) \in Nat
  BY LenProperties
<1>2. 0 \in Solved
  <2>1. [k \in 0 .. 0 |-> 0] = [k \in 0 .. 0 |-> Body([j \in 0 .. 0 |-> 0], k)]
    <3>1. \A k \in 0 .. 0 : k = 0
      BY SMT
    <3>2. \A k \in 0 .. 0 : Body([j \in 0 .. 0 |-> 0], k) = 0
      BY <3>1
    <3>3. QED
      BY <3>2
  <2>2. 0 \in 0 .. Len(w)
    BY <1>1, SMT
  <2>3. QED
    BY <2>1, <2>2
<1>3. ASSUME NEW n \in 0 .. Len(w), n + 1 <= Len(w), n \in Solved
      PROVE  n + 1 \in Solved
  <2>1. PICK f : f = [k \in 0 .. n |-> Body(f, k)]
    BY <1>3
  <2> DEFINE g == [k \in 0 .. n + 1 |-> IF k = n + 1 THEN Body(f, k) ELSE f[k]]
  <2>2. \A k \in 0 .. n + 1 : k # n + 1 => k \in 0 .. n
    BY <1>1, SMT
  <2>3. \A k \in 0 .. n + 1 : k # 0 => k - 1 \in 0 .. n + 1 /\ k - 1 # n + 1
    BY <1>1, SMT
  <2>4. \A k \in 0 .. n + 1 : k # 0 => g[k - 1] = f[k - 1]
    BY <2>3
  <2>5. \A k \in 0 .. n + 1 : Body(g, k) = Body(f, k)
    BY <2>4
  <2>6. \A k \in 0 .. n : f[k] = Body(f, k)
    BY <2>1
  <2>7. \A k \in 0 .. n + 1 : g[k] = Body(g, k)
    BY <2>2, <2>5, <2>6
  <2>8. g = [k \in 0 .. n + 1 |-> Body(g, k)]
    <3> HIDE DEF Body
    <3>1. QED
      BY <2>7
  <2>9. n + 1 \in 0 .. Len(w)
    BY <1>1, <1>3, SMT
  <2>10. QED
    <3> HIDE DEF Body, g
    <3>1. QED
      BY <2>8, <2>9
<1>4. Len(w) \in Solved
  <2> HIDE DEF Solved
  <2>1. \A k \in 0 .. Len(w) : k \in Solved
    BY <1>1, <1>2, <1>3, InductionUpTo
  <2>2. QED
    BY <1>1, <2>1, SMT
<1>5. PICK f : f = [k \in 0 .. Len(w) |-> Body(f, k)]
  BY <1>4
<1>6. PrefixSums(w) = [k \in 0 .. Len(w) |-> Body(PrefixSums(w), k)]
  BY <1>5 DEF PrefixSums
<1>7. \A k \in 0 .. Len(w) : PrefixSums(w)[k] = Body(PrefixSums(w), k)
  <2> HIDE DEF Body
  <2>1. QED
    BY <1>6, Zenon
<1>8. 0 \in 0 .. Len(w)
  BY <1>1, SMT
<1>9. \A k \in 0 .. Len(w) : k + 1 <= Len(w) =>
          k + 1 \in 0 .. Len(w) /\ k + 1 # 0 /\ (k + 1) - 1 = k
  BY <1>1, SMT
<1>10. QED
  BY <1>7, <1>8, <1>9

\* The running sums are natural numbers.
LEMMA PrefixSumsNat ==
    ASSUME NEW w \in Seq(Nat)
    PROVE  \A k \in 0 .. Len(w) : PrefixSums(w)[k] \in Nat
<1> DEFINE G == {k \in 0 .. Len(w) : PrefixSums(w)[k] \in Nat}
<1>1. Len(w) \in Nat
  BY LenProperties
<1>2. 0 \in G
  BY <1>1, PrefixSumsUnfold, SMT
<1>3. ASSUME NEW k \in 0 .. Len(w), k + 1 <= Len(w), k \in G
      PROVE  k + 1 \in G
  <2>1. k + 1 \in 1 .. Len(w) /\ k + 1 \in 0 .. Len(w)
    BY <1>1, <1>3, SMT
  <2>2. w[k + 1] \in Nat
    BY <2>1, ElementOfSeq
  <2>3. PrefixSums(w)[k + 1] = PrefixSums(w)[k] + w[k + 1]
    BY <1>3, PrefixSumsUnfold
  <2>4. PrefixSums(w)[k] \in Nat
    BY <1>3
  <2>5. QED
    BY <2>1, <2>2, <2>3, <2>4, SMT
<1>4. \A k \in 0 .. Len(w) : k \in G
  <2> HIDE DEF G
  <2>1. QED
    BY <1>1, <1>2, <1>3, InductionUpTo
<1>5. QED
  BY <1>4

\* Dividing a number below m * n by m gives one below n.
LEMMA DivideBelow ==
    ASSUME NEW m \in Nat \ {0}, NEW n \in Nat, NEW x \in Nat, x < m * n
    PROVE  x \div m \in Nat /\ x \div m < n
<1>1. x \div m \in Int /\ m * (x \div m) <= x /\ x < m * (x \div m) + m
  BY SMT
<1>2. x \div m \in Nat
  BY <1>1, SMT
<1>3. ASSUME n <= x \div m PROVE FALSE
  <2>1. m * n <= m * (x \div m)
    BY <1>2, <1>3, SMT
  <2>2. QED
    BY <1>1, <2>1, SMT
<1>4. QED
  BY <1>2, <1>3, SMT

\* What the hash is scaled to is below the sum of the weights, and stays so when
\* the product wraps around.
LEMMA ScaledBelowTotal ==
    ASSUME NEW total \in Nat, total > 0, NEW h \in Hash
    PROVE  Scaled(h, total) \in Nat /\ Scaled(h, total) < total
<1> DEFINE M == HashRange
           product == h * total
           wrapped == product % (M * M)
<1>1. M \in Nat \ {0} /\ h \in Nat /\ h < M
  BY HashRangeAssumption, SMT DEF Hash
<1>2. product \in Nat /\ product < M * total /\ M * M \in Nat \ {0}
  BY <1>1, SMT
<1>3. wrapped \in Nat /\ wrapped < M * M /\ wrapped <= product
  <2> HIDE DEF product
  <2>1. QED
    BY <1>2, SMT
<1>4. wrapped < M * total
  <2> HIDE DEF product, wrapped
  <2>1. M * total \in Nat
    BY <1>1, SMT
  <2>2. QED
    BY <1>2, <1>3, <2>1, SMT
<1>5. wrapped \div M \in Nat /\ wrapped \div M < total
  <2> HIDE DEF wrapped
  <2>1. QED
    BY <1>1, <1>3, <1>4, DivideBelow
<1>6. QED
  BY <1>5 DEF Scaled

\* A hashed flow is sent to a next hop of the list, and never to one of weight 0:
\* the loop of LookupGlobal finds its index before the fallback after it.
THEOREM ChosenWeightIsPositive ==
    ASSUME NEW w \in Seq(Nat), Total(w) > 0, NEW h \in Hash
    PROVE  /\ ChooseWeighted(w, h) \in 1 .. Len(w)
           /\ w[ChooseWeighted(w, h)] > 0
<1> DEFINE r == Scaled(h, Total(w))
           reached == {k \in 1 .. Len(w) : Reaches(w, k, r)}
           i == ChooseWeighted(w, h)
<1>1. Len(w) \in Nat /\ Len(w) \in 0 .. Len(w)
  BY LenProperties, SMT
<1>2. Total(w) \in Nat
  BY <1>1, PrefixSumsNat DEF Total
<1>3. r \in Nat /\ r < Total(w)
  BY <1>2, ScaledBelowTotal
<1>4. Len(w) # 0
  <2>1. Len(w) = 0 => Total(w) = 0
    BY PrefixSumsUnfold DEF Total
  <2>2. QED
    BY <1>2, <2>1, SMT
<1>5. Len(w) \in reached
  BY <1>1, <1>3, <1>4, SMT DEF Reaches, Total
<1>6. i \in reached /\ \A j \in reached : i <= j
  <2>1. reached \subseteq Nat /\ reached # {}
    BY <1>5, SMT
  <2>2. \E k \in reached : \A j \in reached : k <= j
    <3> HIDE DEF reached
    <3>1. QED
      BY <2>1, NatMinimum
  <2>3. i = CHOOSE k \in reached : \A j \in reached : k <= j
    BY <2>1 DEF ChooseWeighted
  <2>4. QED
    <3> HIDE DEF reached, i
    <3>1. QED
      BY <2>2, <2>3
<1>7. i \in 1 .. Len(w) /\ r < PrefixSums(w)[i]
  <2> HIDE DEF i, r
  <2>1. QED
    BY <1>6 DEF Reaches
<1>8. i - 1 \in 0 .. Len(w) /\ (i - 1) + 1 = i /\ (i - 1) + 1 <= Len(w)
  <2> HIDE DEF i, r
  <2>1. QED
    BY <1>1, <1>7, SMT
<1>9. PrefixSums(w)[i] = PrefixSums(w)[i - 1] + w[i]
  <2> HIDE DEF i, r
  <2>1. QED
    BY <1>8, PrefixSumsUnfold
<1>10. PrefixSums(w)[i - 1] <= r
  <2>1. CASE i = 1
    <3> HIDE DEF i, r
    <3>1. i - 1 = 0
      BY <2>1, SMT
    <3>2. PrefixSums(w)[i - 1] = 0
      BY <3>1, PrefixSumsUnfold
    <3>3. QED
      BY <1>3, <3>2, SMT
  <2>2. CASE i # 1
    <3> HIDE DEF i, r
    <3>1. i - 1 \in 1 .. Len(w) /\ ~ (i <= i - 1)
      BY <1>1, <1>7, <2>2, SMT
    <3>2. ~ Reaches(w, i - 1, r)
      BY <1>6, <3>1
    <3>3. ~ (r < PrefixSums(w)[i - 1]) /\ PrefixSums(w)[i - 1] \in Nat
      BY <1>8, <3>2, PrefixSumsNat DEF Reaches
    <3>4. QED
      BY <1>3, <3>3, SMT
  <2>3. QED
    BY <2>1, <2>2
<1>11. w[i] \in Nat /\ PrefixSums(w)[i - 1] \in Nat
  <2> HIDE DEF i, r
  <2>1. QED
    BY <1>7, <1>8, PrefixSumsNat, ElementOfSeq
<1>12. w[i] > 0
  <2> HIDE DEF i, r
  <2>1. QED
    BY <1>3, <1>7, <1>9, <1>10, <1>11, SMT
<1>13. QED
  BY <1>7, <1>12

\* The choice without weights is a next hop of the list.
THEOREM EvenChoiceIsOfList ==
    ASSUME NEW n \in Nat, n > 0, NEW h \in Hash
    PROVE  ChooseEvenly(n, h) \in 1 .. n
<1>1. HashRange \in Nat \ {0} /\ h \in Nat /\ h < HashRange
  BY HashRangeAssumption, SMT DEF Hash
<1>2. h * n \in Nat /\ h * n < HashRange * n
  BY <1>1, SMT
<1>3. (h * n) \div HashRange \in Nat /\ (h * n) \div HashRange < n
  BY <1>1, <1>2, DivideBelow
<1>4. QED
  BY <1>3, SMT DEF ChooseEvenly

------------------------------------------------------------------------------
\* The system.

TableOK(table) ==
    /\ DOMAIN table \subseteq Node
    /\ \A v \in DOMAIN table : table[v] \in Seq(Weight)

\* Only usable weights are cached, and none before the file was read.
CacheOK ==
    \A k \in DOMAIN g_ecmpWeightCacheByNodeN :
        /\ g_weightsLoaded
        /\ g_ecmpWeightCacheByNodeN[k] \in Seq(Weight)
        /\ Total(g_ecmpWeightCacheByNodeN[k]) > 0

\* The hash that a lookup made.
HashOf(t) == t.packet.h[<<t.node, t.addresses>>]

\* A lookup by flow would choose today, with the addresses of then, what it chose.
RepeatableLookup(t) ==
    /\ t.node \in Node /\ t.routes \in Seq(Route) /\ Len(t.routes) > 0
    /\ IF Len(t.routes) > 1 /\ t.packet.ported
         THEN /\ g_weightsLoaded
              /\ HashOf(t) \in Hash
              /\ t.weights = NodeWeights(t.node, Len(t.routes))
              /\ t.index = FlowIndex(t.node, Len(t.routes), HashOf(t))
         ELSE t.index = 1

Repeatable == m_perflowEcmpRouting => \A t \in taken : RepeatableLookup(t)

IInv == TypeOK /\ CacheOK /\ Repeatable

------------------------------------------------------------------------------
\* The weight file.

LEMMA WeightIsNat == Weight \subseteq Nat
BY EcmpAssumption, SMT DEF Weight

\* A line gives weights of 32 bits, whatever its tokens are.
LEMMA WeightsTyped ==
    ASSUME NEW line \in Lines
    PROVE  WeightsOf(line) \in Seq(Weight)
<1> DEFINE good == Filter(line.tokens, Nat)
<1>1. line.tokens \in Seq(Nat \cup {Bad})
  BY EcmpAssumption
<1>2. good \in Seq(Nat \cup {Bad}) /\ Elems(good) \subseteq Nat
  BY <1>1, FilterProperties
<1>3. good \in Seq(Nat)
  BY <1>2, SeqOverElems
<1>4. DOMAIN good = 1 .. Len(good) /\ Len(good) \in Nat
  BY <1>3, LenProperties
<1>5. \A i \in 1 .. Len(good) : Clamped(good[i]) \in Weight
  <2>1. \A i \in 1 .. Len(good) : good[i] \in Nat
    BY <1>3, ElementOfSeq
  <2>2. QED
    BY <2>1, EcmpAssumption, SMT DEF Clamped, Weight
<1>6. [i \in 1 .. Len(good) |-> Clamped(good[i])] \in Seq(Weight)
  <2> DEFINE clamped == [i \in 1 .. Len(good) |-> Clamped(good[i])]
  <2>1. clamped \in [1 .. Len(good) -> Weight]
    BY <1>5
  <2> HIDE DEF clamped
  <2>2. clamped \in Seq(Weight)
    BY <1>4, <2>1, IsASeq
  <2>3. QED
    BY <2>2 DEF clamped
<1>7. QED
  BY <1>4, <1>6 DEF WeightsOf

\* A line keeps the table a table.
LEMMA TableWithOK ==
    ASSUME NEW table, TableOK(table), NEW line \in Lines
    PROVE  TableOK(TableWith(table, line))
<1>1. WeightsOf(line) \in Seq(Weight) /\ line.node \in Node
  BY WeightsTyped, EcmpAssumption
<1>2. QED
  BY <1>1 DEF TableOK, TableWith

\* The recursive definition of TablesOf has a solution, so it may be unfolded.
LEMMA TablesOfUnfolds ==
    ASSUME NEW lines \in Seq(Lines)
    PROVE  /\ TablesOf(lines)[0] = None
           /\ \A i \in 0 .. Len(lines) : i + 1 <= Len(lines) =>
                TablesOf(lines)[i + 1] = TableWith(TablesOf(lines)[i], lines[i + 1])
<1> DEFINE Body(f, i) == IF i = 0 THEN None ELSE TableWith(f[i - 1], lines[i])
           Solved == {n \in 0 .. Len(lines) : \E f : f = [i \in 0 .. n |-> Body(f, i)]}
<1>1. Len(lines) \in Nat
  BY LenProperties
<1>2. 0 \in Solved
  <2> DEFINE first == [i \in 0 .. 0 |-> None]
  <2>1. \A i \in 0 .. 0 : i = 0
    BY SMT
  <2>2. \A i \in 0 .. 0 : Body(first, i) = None
    BY <2>1
  <2>3. first = [i \in 0 .. 0 |-> Body(first, i)]
    BY <2>2
  <2>4. 0 \in 0 .. Len(lines)
    BY <1>1, SMT
  <2>5. QED
    <3> HIDE DEF Body, first
    <3>1. QED
      BY <2>3, <2>4
<1>3. ASSUME NEW n \in 0 .. Len(lines), n + 1 <= Len(lines), n \in Solved
      PROVE  n + 1 \in Solved
  <2>1. PICK f : f = [i \in 0 .. n |-> Body(f, i)]
    BY <1>3
  <2> DEFINE g == [i \in 0 .. n + 1 |-> IF i = n + 1 THEN Body(f, i) ELSE f[i]]
  <2>2. \A i \in 0 .. n + 1 : i # n + 1 => i \in 0 .. n
    BY <1>1, SMT
  <2>3. \A i \in 0 .. n + 1 : i # 0 => i - 1 \in 0 .. n + 1 /\ i - 1 # n + 1
    BY <1>1, SMT
  <2>4. \A i \in 0 .. n + 1 : i # 0 => g[i - 1] = f[i - 1]
    BY <2>3
  <2>5. \A i \in 0 .. n + 1 : Body(g, i) = Body(f, i)
    BY <2>4
  <2>6. \A i \in 0 .. n : f[i] = Body(f, i)
    <3> HIDE DEF Body
    <3>1. QED
      BY <2>1, Zenon
  <2>7. \A i \in 0 .. n + 1 : g[i] = Body(g, i)
    BY <2>2, <2>5, <2>6
  <2>8. g = [i \in 0 .. n + 1 |-> Body(g, i)]
    <3> HIDE DEF Body
    <3>1. QED
      BY <2>7
  <2>9. n + 1 \in 0 .. Len(lines)
    BY <1>1, <1>3, SMT
  <2>10. QED
    <3> HIDE DEF Body, g
    <3>1. QED
      BY <2>8, <2>9
<1>4. Len(lines) \in Solved
  <2> HIDE DEF Solved
  <2>1. \A n \in 0 .. Len(lines) : n \in Solved
    BY <1>1, <1>2, <1>3, InductionUpTo
  <2>2. QED
    BY <1>1, <2>1, SMT
<1>5. PICK f : f = [i \in 0 .. Len(lines) |-> Body(f, i)]
  BY <1>4
<1>6. TablesOf(lines) = [i \in 0 .. Len(lines) |-> Body(TablesOf(lines), i)]
  BY <1>5 DEF TablesOf
<1>7. \A i \in 0 .. Len(lines) : TablesOf(lines)[i] = Body(TablesOf(lines), i)
  <2> HIDE DEF Body
  <2>1. QED
    BY <1>6, Zenon
<1>8. 0 \in 0 .. Len(lines)
  BY <1>1, SMT
<1>9. \A i \in 0 .. Len(lines) : i + 1 <= Len(lines) =>
          i + 1 \in 0 .. Len(lines) /\ i + 1 # 0 /\ (i + 1) - 1 = i
  BY <1>1, SMT
<1>10. QED
  BY <1>7, <1>8, <1>9

\* A file that can be opened is a sequence of lines.
LEMMA FileTyped ==
    ASSUME NEW lines \in Files, lines # NoFile
    PROVE  lines \in Seq(Lines)
<1>1. PICK m \in 0 .. MaxLines : lines \in [1 .. m -> Lines]
  BY DEF Files, BoundedSeq, SeqOf
<1>2. m \in Nat
  BY EcmpAssumption, SMT
<1>3. QED
  BY <1>1, <1>2, IsASeq

\* Whatever the file holds, the table has lists of weights of nodes.
LEMMA LoadedOK ==
    ASSUME file \in Files
    PROVE  TableOK(LoadAllNodeWeightsFile)
<1>1. TableOK(None)
  BY DEF TableOK, None
<1>2. CASE file = NoFile
  BY <1>1, <1>2 DEF LoadAllNodeWeightsFile
<1>3. CASE file # NoFile
  <2>2. file \in Seq(Lines) /\ Len(file) \in Nat
    BY <1>3, FileTyped, LenProperties
  <2> DEFINE Good == {i \in 0 .. Len(file) : TableOK(TablesOf(file)[i])}
  <2>3. 0 \in Good
    BY <1>1, <2>2, TablesOfUnfolds, SMT
  <2>4. ASSUME NEW i \in 0 .. Len(file), i + 1 <= Len(file), i \in Good
        PROVE  i + 1 \in Good
    <3>1. i + 1 \in 1 .. Len(file) /\ i + 1 \in 0 .. Len(file)
      BY <2>2, <2>4, SMT
    <3>2. file[i + 1] \in Lines
      BY <2>2, <3>1, ElementOfSeq
    <3>3. TableOK(TablesOf(file)[i + 1])
      BY <2>2, <2>4, <3>2, TablesOfUnfolds, TableWithOK
    <3>4. QED
      BY <3>1, <3>3
  <2>5. Len(file) \in Good
    <3> HIDE DEF Good
    <3>1. \A i \in 0 .. Len(file) : i \in Good
      BY <2>2, <2>3, <2>4, InductionUpTo
    <3>2. QED
      BY <2>2, <3>1, SMT
  <2>6. QED
    BY <1>3, <2>5 DEF LoadAllNodeWeightsFile, TableAfter
<1>4. QED
  BY <1>2, <1>3

LEMMA RawOK ==
    ASSUME TypeOK
    PROVE  TableOK(Raw)
<1>1. file \in Files /\ TableOK(g_nodeRawWeights)
  BY DEF TypeOK, TableOK
<1>2. QED
  BY <1>1, LoadedOK DEF Raw

------------------------------------------------------------------------------
\* The cache.

\* What GetNodeWeights yields, if anything, is usable.
LEMMA WeightsUsable ==
    ASSUME TypeOK, CacheOK, NEW v \in Node, NEW n \in Nat, NodeWeights(v, n) # None
    PROVE  NodeWeights(v, n) \in Seq(Weight) /\ Total(NodeWeights(v, n)) > 0
<1>1. CASE CacheKey(v, n) \in DOMAIN g_ecmpWeightCacheByNodeN
  BY <1>1 DEF NodeWeights, CacheOK
<1>2. CASE CacheKey(v, n) \notin DOMAIN g_ecmpWeightCacheByNodeN
  <2>1. /\ v \in DOMAIN Raw /\ Len(Raw[v]) >= n
        /\ Total(SubSeq(Raw[v], 1, n)) > 0
        /\ NodeWeights(v, n) = SubSeq(Raw[v], 1, n)
    BY <1>2 DEF NodeWeights
  <2>2. Raw[v] \in Seq(Weight)
    BY <2>1, RawOK DEF TableOK
  <2>3. n \in 0 .. Len(Raw[v])
    BY <2>1, <2>2, LenProperties, SMT
  <2>4. SubSeq(Raw[v], 1, n) \in Seq(Weight)
    BY <2>2, <2>3, ElemsSplit
  <2>5. QED
    BY <2>1, <2>4
<1>3. QED
  BY <1>1, <1>2

\* A lookup that asks for weights leaves what any lookup would get as it is, and
\* a cache that is in order.
LEMMA WeightsStay ==
    ASSUME TypeOK, CacheOK, NEW v \in Node, NEW n \in Nat, GetNodeWeights(v, n)
    PROVE  /\ g_weightsLoaded' /\ CacheOK'
           /\ \A u, m : NodeWeights(u, m)' = NodeWeights(u, m)
           /\ DOMAIN g_ecmpWeightCacheByNodeN' \subseteq Node \X Nat
           /\ TableOK(g_nodeRawWeights')
           /\ loadedFrom' = loadedFrom \/ loadedFrom' = file
<1> DEFINE key == CacheKey(v, n)
           w == NodeWeights(v, n)
<1>1. DOMAIN g_ecmpWeightCacheByNodeN \subseteq Node \X Nat /\ key \in Node \X Nat
  BY DEF TypeOK, CacheKey
<1>2. CASE key \in DOMAIN g_ecmpWeightCacheByNodeN
  <2>1. g_weightsLoaded
    BY <1>2 DEF CacheOK
  <2>2. UNCHANGED weightVars
    BY <1>2 DEF GetNodeWeights
  <2>3. CacheOK' /\ TableOK(g_nodeRawWeights')
    BY <2>2, CacheOK, TypeOK DEF weightVars, CacheOK, TypeOK, TableOK
  <2>4. Raw' = Raw
    BY <2>1, <2>2 DEF weightVars, Raw
  <2>5. ASSUME NEW u, NEW m
        PROVE  NodeWeights(u, m)' = NodeWeights(u, m)
    BY <2>2, <2>4 DEF weightVars, NodeWeights, CacheKey
  <2>6. QED
    BY <1>1, <2>1, <2>2, <2>3, <2>5 DEF weightVars
<1>3. CASE key \notin DOMAIN g_ecmpWeightCacheByNodeN
  <2>1. /\ g_weightsLoaded' = TRUE
        /\ g_nodeRawWeights' = Raw
        /\ loadedFrom' = IF g_weightsLoaded THEN loadedFrom ELSE file
        /\ g_ecmpWeightCacheByNodeN' =
             IF w = None THEN g_ecmpWeightCacheByNodeN
             ELSE [k \in DOMAIN g_ecmpWeightCacheByNodeN \cup {key} |->
                      IF k = key THEN w ELSE g_ecmpWeightCacheByNodeN[k]]
    BY <1>3 DEF GetNodeWeights, LoadedAfterwards
  <2>2. Raw' = Raw
    BY <2>1 DEF Raw
  <2>3. w # None => w \in Seq(Weight) /\ Total(w) > 0
    BY WeightsUsable
  <2>4. CacheOK'
    <3> HIDE DEF w, key
    <3>1. QED
      BY <2>1, <2>3 DEF CacheOK
  <2>5. ASSUME NEW u, NEW m
        PROVE  NodeWeights(u, m)' = NodeWeights(u, m)
    <3>1. CASE w = None
      BY <2>1, <2>2, <3>1 DEF NodeWeights, CacheKey
    <3>2. CASE w # None /\ u = v /\ m = n
      <4>1. NodeWeights(v, n)' = w
        <5>1. key \in DOMAIN g_ecmpWeightCacheByNodeN' /\ g_ecmpWeightCacheByNodeN'[key] = w
          <6> HIDE DEF w, key
          <6>1. QED
            BY <2>1, <3>2
        <5>2. CacheKey(v, n)' = key
          BY DEF CacheKey
        <5>3. QED
          <6> HIDE DEF w, key
          <6>1. QED
            BY <5>1, <5>2 DEF NodeWeights
      <4>2. QED
        BY <3>2, <4>1
    <3>3. CASE w # None /\ ~(u = v /\ m = n)
      <4>1. CacheKey(u, m) # key /\ CacheKey(u, m)' = CacheKey(u, m)
        BY <3>3 DEF CacheKey
      <4>2. /\ CacheKey(u, m) \in DOMAIN g_ecmpWeightCacheByNodeN' <=>
                 CacheKey(u, m) \in DOMAIN g_ecmpWeightCacheByNodeN
            /\ CacheKey(u, m) \in DOMAIN g_ecmpWeightCacheByNodeN =>
                 g_ecmpWeightCacheByNodeN'[CacheKey(u, m)]
                   = g_ecmpWeightCacheByNodeN[CacheKey(u, m)]
        <5> HIDE DEF w, key
        <5>1. QED
          BY <2>1, <3>3, <4>1
      <4>3. QED
        BY <2>2, <4>1, <4>2 DEF NodeWeights
    <3>4. QED
      BY <3>1, <3>2, <3>3
  <2>6. DOMAIN g_ecmpWeightCacheByNodeN' \subseteq Node \X Nat
    <3> HIDE DEF w, key
    <3>1. QED
      BY <1>1, <2>1
  <2>7. TableOK(g_nodeRawWeights')
    BY <2>1, RawOK
  <2>8. QED
    <3> HIDE DEF w, key
    <3>1. QED
      BY <2>1, <2>4, <2>5, <2>6, <2>7
<1>4. QED
  BY <1>2, <1>3

\* Once a flow has been looked up, nothing but a lookup touches what its choice
\* depends on; the file may be edited.
LEMMA QuietWeights ==
    ASSUME g_weightsLoaded, UNCHANGED weightVars
    PROVE  \A u, m : NodeWeights(u, m)' = NodeWeights(u, m)
<1>1. Raw' = Raw
  BY DEF weightVars, Raw
<1>2. QED
  BY <1>1 DEF weightVars, NodeWeights, CacheKey

\* A lookup that has been made stays repeatable.
LEMMA StaysRepeatable ==
    ASSUME NEW t, RepeatableLookup(t), g_weightsLoaded => g_weightsLoaded',
           g_weightsLoaded => \A u, m : NodeWeights(u, m)' = NodeWeights(u, m)
    PROVE  RepeatableLookup(t)'
<1>1. g_weightsLoaded => \A u, m, h : FlowIndex(u, m, h)' = FlowIndex(u, m, h)
  BY DEF FlowIndex
<1>2. QED
  BY <1>1 DEF RepeatableLookup, HashOf

------------------------------------------------------------------------------
\* Routes.

LEMMA AllRoutesTyped ==
    ASSUME TypeOK, NEW v \in Node, NEW dest, NEW oif
    PROVE  AllRoutes(v, dest, oif) \in Seq(Route)
<1>1. \A routes \in Seq(Route) : Matching(routes, dest, oif) \in Seq(Route)
  BY FilterProperties DEF Matching
<1>2. /\ m_hostRoutes[v] \in Seq(Route)
      /\ m_networkRoutes[v] \in Seq(Route)
      /\ m_ASexternalRoutes[v] \in Seq(Route)
  BY DEF TypeOK
<1> DEFINE external == Matching(m_ASexternalRoutes[v], dest, oif)
<1>3. external \in Seq(Route)
  BY <1>1, <1>2
<1>4. (IF external = <<>> THEN 0 ELSE 1) \in 0 .. Len(external)
  <2>1. external # <<>> => Len(external) \in Nat \ {0}
    BY <1>3, EmptySeq
  <2>2. Len(external) \in Nat
    BY <1>3, LenProperties
  <2>3. QED
    BY <2>1, <2>2, SMT
<1>5. SubSeq(external, 1, IF external = <<>> THEN 0 ELSE 1) \in Seq(Route)
  <2> HIDE DEF external
  <2>1. QED
    BY <1>3, <1>4, ElemsSplit
<1>6. QED
  BY <1>1, <1>2, <1>5 DEF AllRoutes

\* A table of routes without one of them is a table of routes.
LEMMA RemoveAtTyped ==
    ASSUME NEW S, NEW s \in Seq(S), NEW i \in 1 .. Len(s)
    PROVE  RemoveAt(s, i) \in Seq(S)
<1>1. Len(s) \in Nat
  BY LenProperties
<1>2. i - 1 \in 0 .. Len(s) /\ i \in 0 .. Len(s)
  BY <1>1, SMT
<1>3. SubSeq(s, 1, i - 1) \in Seq(S) /\ SubSeq(s, i + 1, Len(s)) \in Seq(S)
  BY <1>2, ElemsSplit
<1>4. QED
  BY <1>3, ElemsConcat DEF RemoveAt

\* One table extended, cut or replaced.
LEMMA TableAppend ==
    ASSUME NEW S, NEW T \in [Node -> Seq(S)], NEW v \in Node, NEW r \in S
    PROVE  [T EXCEPT ![v] = Append(@, r)] \in [Node -> Seq(S)]
<1>1. Append(T[v], r) \in Seq(S)
  BY ElemsAppend
<1>2. QED
  BY <1>1

LEMMA TableRemove ==
    ASSUME NEW S, NEW T \in [Node -> Seq(S)], NEW v \in Node, NEW i \in 1 .. Len(T[v])
    PROVE  [T EXCEPT ![v] = RemoveAt(@, i)] \in [Node -> Seq(S)]
<1>1. RemoveAt(T[v], i) \in Seq(S)
  BY RemoveAtTyped
<1>2. QED
  BY <1>1

LEMMA RecomputedTyped ==
    ASSUME NEW R, R \subseteq Route, NEW T \in Recomputed(R)
    PROVE  T \in [Node -> Seq(Route)]
<1>1. BoundedSeq(R, MaxRoutes) \subseteq Seq(Route)
  <2>1. SUFFICES ASSUME NEW m \in 0 .. MaxRoutes, NEW s \in [1 .. m -> R]
                 PROVE  s \in Seq(Route)
    BY DEF BoundedSeq, SeqOf
  <2>2. m \in Nat
    BY EcmpAssumption, SMT
  <2>3. QED
    BY <2>2, IsASeq
<1>2. QED
  BY <1>1 DEF Recomputed

\* RemoveRoute finds the index it is given in one of the three tables.
LEMMA RemoveRouteTyped ==
    ASSUME TypeOK, NEW v \in Node, NEW index \in 1 .. NRoutes(v), RemoveRoute(v, index)
    PROVE  /\ m_hostRoutes' \in [Node -> Seq(Route)]
           /\ m_networkRoutes' \in [Node -> Seq(Route)]
           /\ m_ASexternalRoutes' \in [Node -> Seq(Route)]
<1> DEFINE hosts == Len(m_hostRoutes[v])
           networks == Len(m_networkRoutes[v])
           externals == Len(m_ASexternalRoutes[v])
<1>1. /\ m_hostRoutes \in [Node -> Seq(Route)]
      /\ m_networkRoutes \in [Node -> Seq(Route)]
      /\ m_ASexternalRoutes \in [Node -> Seq(Route)]
  BY DEF TypeOK
<1>2. hosts \in Nat /\ networks \in Nat /\ externals \in Nat
  BY <1>1, LenProperties
<1>3. index \in 1 .. hosts + networks + externals
  BY DEF NRoutes
<1>4. /\ index <= hosts => index \in 1 .. hosts
      /\ ~(index <= hosts) /\ index <= hosts + networks => index - hosts \in 1 .. networks
      /\ ~(index <= hosts) /\ ~(index <= hosts + networks)
           => index - hosts - networks \in 1 .. externals
  <2> HIDE DEF hosts, networks, externals
  <2>1. QED
    BY <1>2, <1>3, SMT
<1>5. CASE index <= hosts
  <2>1. /\ m_hostRoutes' = [m_hostRoutes EXCEPT ![v] = RemoveAt(@, index)]
        /\ UNCHANGED <<m_networkRoutes, m_ASexternalRoutes>>
    BY <1>5 DEF RemoveRoute
  <2>2. QED
    BY <1>1, <1>4, <1>5, <2>1, TableRemove
<1>6. CASE ~(index <= hosts) /\ index <= hosts + networks
  <2>1. /\ m_networkRoutes' = [m_networkRoutes EXCEPT ![v] = RemoveAt(@, index - hosts)]
        /\ UNCHANGED <<m_hostRoutes, m_ASexternalRoutes>>
    BY <1>6 DEF RemoveRoute
  <2>2. QED
    BY <1>1, <1>4, <1>6, <2>1, TableRemove
<1>7. CASE ~(index <= hosts) /\ ~(index <= hosts + networks)
  <2>1. /\ m_ASexternalRoutes' =
             [m_ASexternalRoutes EXCEPT ![v] = RemoveAt(@, index - hosts - networks)]
        /\ UNCHANGED <<m_hostRoutes, m_networkRoutes>>
    BY <1>7 DEF RemoveRoute
  <2>2. QED
    BY <1>1, <1>4, <1>7, <2>1, TableRemove
<1>8. QED
  BY <1>5, <1>6, <1>7

------------------------------------------------------------------------------
\* Every step keeps the invariant.

LEMMA LookupSafe ==
    ASSUME IInv, NEW v \in Node, NEW p \in Packets, NEW oif, LookupGlobal(v, p, oif)
    PROVE  IInv'
<1> DEFINE routes == AllRoutes(v, p.dest, oif)
           n == Len(routes)
<1>1. TypeOK /\ CacheOK /\ Repeatable
  BY DEF IInv
<1>2. routes \in Seq(Route) /\ n \in Nat /\ n > 0
  BY <1>1, AllRoutesTyped, LenProperties DEF LookupGlobal
<1> DEFINE h32 == FlowHash(v, p)
<1>3. PICK i \in SelectIndex(v, n, p.ported, h32) :
        taken' = taken \cup {[node |-> v, addresses |-> addresses[v], packet |-> p,
                              routes |-> routes, weights |-> NodeWeights(v, n),
                              index |-> i]}
  BY DEF LookupGlobal
<1> DEFINE t == [node |-> v, addresses |-> addresses[v], packet |-> p,
                 routes |-> routes, weights |-> NodeWeights(v, n), index |-> i]
<1>4. /\ ReadsWeights(v, n, p.ported)
      /\ UNCHANGED <<file, addresses, routeVars, modeVars, nEdits>>
  BY DEF LookupGlobal
<1>5. h32 \in Hash
  BY <1>1, EcmpAssumption DEF TypeOK, FlowHash
<1>6. /\ g_weightsLoaded => g_weightsLoaded'
      /\ HashesFlow(n, p.ported) => g_weightsLoaded'
      /\ g_weightsLoaded \/ HashesFlow(n, p.ported)
           => \A u, m : NodeWeights(u, m)' = NodeWeights(u, m)
      /\ TypeOK' /\ CacheOK'
  <2>1. CASE HashesFlow(n, p.ported)
    <3>1. GetNodeWeights(v, n)
      BY <1>4, <2>1 DEF ReadsWeights
    <3>2. /\ g_weightsLoaded' /\ CacheOK'
          /\ \A u, m : NodeWeights(u, m)' = NodeWeights(u, m)
          /\ DOMAIN g_ecmpWeightCacheByNodeN' \subseteq Node \X Nat
          /\ TableOK(g_nodeRawWeights')
          /\ loadedFrom' = loadedFrom \/ loadedFrom' = file
      BY <1>1, <1>2, <3>1, WeightsStay
    <3>3. g_weightsLoaded' \in BOOLEAN
      <4>1. g_weightsLoaded' = g_weightsLoaded \/ g_weightsLoaded' = TRUE
        BY <3>1 DEF GetNodeWeights, LoadedAfterwards, weightVars
      <4>2. QED
        BY <1>1, <4>1 DEF TypeOK
    <3>4. TypeOK'
      BY <1>1, <1>4, <3>2, <3>3 DEF TypeOK, TableOK, routeVars
    <3>5. QED
      BY <3>2, <3>4
  <2>2. CASE ~HashesFlow(n, p.ported)
    <3>1. UNCHANGED weightVars
      BY <1>4, <2>2 DEF ReadsWeights
    <3>2. TypeOK' /\ CacheOK'
      BY <1>1, <1>4, <3>1 DEF TypeOK, CacheOK, weightVars, routeVars
    <3>3. g_weightsLoaded => \A u, m : NodeWeights(u, m)' = NodeWeights(u, m)
      BY <3>1, QuietWeights
    <3>4. QED
      BY <2>2, <3>1, <3>2, <3>3 DEF weightVars
  <2>3. QED
    BY <2>1, <2>2
<1>7. Repeatable'
  <2>1. SUFFICES ASSUME m_perflowEcmpRouting, NEW s \in taken'
                 PROVE  RepeatableLookup(s)'
    BY <1>4 DEF Repeatable, modeVars
  <2>2. CASE s \in taken
    BY <1>1, <1>6, <2>1, <2>2, StaysRepeatable DEF Repeatable
  <2>3. CASE s = t
    <3>1. /\ s.node = v /\ s.addresses = addresses[v] /\ s.packet = p
          /\ s.routes = routes /\ s.weights = NodeWeights(v, n) /\ s.index = i
      BY <2>3
    <3>2. HashesFlow(n, p.ported) <=> n > 1 /\ p.ported
      BY <2>1 DEF HashesFlow
    <3>3. CASE n > 1 /\ p.ported
      <4>1. g_weightsLoaded' /\ \A u, m : NodeWeights(u, m)' = NodeWeights(u, m)
        BY <1>6, <3>2, <3>3
      <4>2. i = FlowIndex(v, n, h32) /\ HashOf(s) = h32
        BY <1>3, <3>1, <3>2, <3>3 DEF SelectIndex, FlowHash, HashOf
      <4>3. \A u, m, h : FlowIndex(u, m, h)' = FlowIndex(u, m, h)
        BY <4>1 DEF FlowIndex
      <4>4. /\ s.node = v /\ s.node \in Node /\ s.routes \in Seq(Route)
            /\ Len(s.routes) > 1 /\ Len(s.routes) > 0 /\ s.packet.ported
            /\ HashOf(s) \in Hash
            /\ s.weights = NodeWeights(s.node, Len(s.routes))
            /\ s.index = FlowIndex(s.node, Len(s.routes), HashOf(s))
        <5> HIDE DEF routes, h32
        <5>1. QED
          BY <1>2, <1>5, <3>1, <3>3, <4>2
      <4>5. QED
        BY <4>1, <4>3, <4>4 DEF RepeatableLookup, HashOf
    <3>4. CASE ~(n > 1 /\ p.ported)
      <4>1. i = 1
        BY <1>3, <2>1, <3>2, <3>4 DEF SelectIndex, DrawsAtRandom
      <4>2. QED
        <5> HIDE DEF routes
        <5>1. QED
          BY <1>2, <3>1, <3>4, <4>1 DEF RepeatableLookup
    <3>5. QED
      BY <3>3, <3>4
  <2>4. QED
    BY <1>3, <2>1, <2>2, <2>3
<1>8. QED
  BY <1>6, <1>7 DEF IInv

\* A step that leaves the weights and the lookups alone has to keep the types.
LEMMA OtherSafe ==
    ASSUME IInv, UNCHANGED <<weightVars, modeVars, taken>>, file' \in Files, nEdits' \in Nat,
           addresses' \in [Node -> Addresses],
           m_hostRoutes' \in [Node -> Seq(Route)],
           m_networkRoutes' \in [Node -> Seq(Route)],
           m_ASexternalRoutes' \in [Node -> Seq(Route)]
    PROVE  IInv'
<1>1. TypeOK /\ CacheOK /\ Repeatable
  BY DEF IInv
<1>2. TypeOK' /\ CacheOK'
  BY <1>1 DEF TypeOK, CacheOK, weightVars
<1>3. g_weightsLoaded => \A u, m : NodeWeights(u, m)' = NodeWeights(u, m)
  BY QuietWeights
<1>4. Repeatable'
  <2>1. SUFFICES ASSUME m_perflowEcmpRouting, NEW t \in taken
                 PROVE  RepeatableLookup(t)'
    BY DEF Repeatable, modeVars
  <2>2. QED
    BY <1>1, <1>3, <2>1, StaysRepeatable DEF Repeatable, weightVars
<1>5. QED
  BY <1>2, <1>4 DEF IInv

LEMMA InitSafe == Init => IInv
<1>1. SUFFICES ASSUME Init PROVE IInv
  OBVIOUS
<1>2. NoFile \in Files
  BY DEF Files
<1>3. \A v \in Node : <<>> \in Seq(Route)
  BY EmptySeq
<1>4. DOMAIN None = {}
  BY DEF None
<1>5. TypeOK
  BY <1>1, <1>2, <1>3, <1>4 DEF Init, TypeOK
<1>6. CacheOK /\ Repeatable
  BY <1>1, <1>4 DEF Init, CacheOK, Repeatable
<1>7. QED
  BY <1>5, <1>6 DEF IInv

LEMMA NextSafe == IInv /\ [Next]_vars => IInv'
<1>1. SUFFICES ASSUME IInv, [Next]_vars PROVE IInv'
  OBVIOUS
<1>2. /\ file \in Files /\ nEdits \in Nat /\ addresses \in [Node -> Addresses]
      /\ m_hostRoutes \in [Node -> Seq(Route)]
      /\ m_networkRoutes \in [Node -> Seq(Route)]
      /\ m_ASexternalRoutes \in [Node -> Seq(Route)]
  BY <1>1 DEF IInv, TypeOK
<1>3. CASE EditFile
  BY <1>1, <1>2, <1>3, OtherSafe DEF EditFile, routeVars
<1>4. CASE NotifyInterfaceEvent
  <2>1. /\ {r \in Route : Cardinality(r.dests) = 1} \subseteq Route
        /\ {r \in Route : r.dests # {}} \subseteq Route
    OBVIOUS
  <2>2. /\ m_hostRoutes' \in [Node -> Seq(Route)]
        /\ m_networkRoutes' \in [Node -> Seq(Route)]
        /\ m_ASexternalRoutes' \in [Node -> Seq(Route)]
    <3>1. CASE RecomputeRoutes
      BY <2>1, <3>1, RecomputedTyped DEF RecomputeRoutes
    <3>2. CASE UNCHANGED routeVars
      BY <1>2, <3>2 DEF routeVars
    <3>3. QED
      BY <1>4, <3>1, <3>2 DEF NotifyInterfaceEvent
  <2>3. addresses' \in [Node -> Addresses]
    BY <1>2, <1>4 DEF NotifyInterfaceEvent
  <2>4. QED
    BY <1>1, <1>2, <1>4, <2>2, <2>3, OtherSafe DEF NotifyInterfaceEvent
<1>5. ASSUME NEW v \in Node, NEW p \in Packets, NEW oif, LookupGlobal(v, p, oif)
      PROVE  IInv'
  BY <1>1, <1>5, LookupSafe
<1>6. ASSUME NEW v \in Node, NEW interface \in Interface, NEW dest \in Dest,
             AddHostRouteTo(v, dest, interface)
      PROVE  IInv'
  <2>1. [dests |-> {dest}, interface |-> interface] \in Route
    BY DEF Route
  <2>2. m_hostRoutes' \in [Node -> Seq(Route)]
    BY <1>2, <1>6, <2>1, TableAppend DEF AddHostRouteTo
  <2>3. QED
    BY <1>1, <1>2, <1>6, <2>2, OtherSafe DEF AddHostRouteTo
<1>7. ASSUME NEW v \in Node, NEW interface \in Interface, NEW dests \in SUBSET Dest,
             AddNetworkRouteTo(v, dests, interface)
      PROVE  IInv'
  <2>1. [dests |-> dests, interface |-> interface] \in Route
    BY DEF Route
  <2>2. m_networkRoutes' \in [Node -> Seq(Route)]
    BY <1>2, <1>7, <2>1, TableAppend DEF AddNetworkRouteTo
  <2>3. QED
    BY <1>1, <1>2, <1>7, <2>2, OtherSafe DEF AddNetworkRouteTo
<1>8. ASSUME NEW v \in Node, NEW interface \in Interface, NEW dests \in SUBSET Dest,
             AddASExternalRouteTo(v, dests, interface)
      PROVE  IInv'
  <2>1. [dests |-> dests, interface |-> interface] \in Route
    BY DEF Route
  <2>2. m_ASexternalRoutes' \in [Node -> Seq(Route)]
    BY <1>2, <1>8, <2>1, TableAppend DEF AddASExternalRouteTo
  <2>3. QED
    BY <1>1, <1>2, <1>8, <2>2, OtherSafe DEF AddASExternalRouteTo
<1>9. ASSUME NEW v \in Node, NEW index \in 1 .. NRoutes(v), RemoveRoute(v, index)
      PROVE  IInv'
  <2>1. /\ m_hostRoutes' \in [Node -> Seq(Route)]
        /\ m_networkRoutes' \in [Node -> Seq(Route)]
        /\ m_ASexternalRoutes' \in [Node -> Seq(Route)]
    BY <1>1, <1>9, RemoveRouteTyped DEF IInv
  <2>2. QED
    BY <1>1, <1>2, <1>9, <2>1, OtherSafe DEF RemoveRoute
<1>10. CASE UNCHANGED vars
  BY <1>1, <1>2, <1>10, OtherSafe DEF vars, routeVars
<1>11. QED
  BY <1>1, <1>3, <1>4, <1>5, <1>6, <1>7, <1>8, <1>9, <1>10 DEF Next

------------------------------------------------------------------------------
\* The invariant holds in every reachable state.
THEOREM Safety == Spec => []IInv
BY InitSafe, NextSafe, PTL DEF Spec

\* The routes, the table and the cache keep their types; no weight needs more
\* than 32 bits, whatever the file holds.
THEOREM TypeCorrect == Spec => []TypeOK
<1>1. IInv => TypeOK
  BY DEF IInv
<1>2. QED
  BY <1>1, Safety, PTL

\* A flow keeps its path at a node that has the addresses it had, however the file
\* is edited, interfaces and routes come and go and other flows are looked up in
\* between, and whatever function of flow, node and addresses the hash is.
THEOREM FlowKeepsPath == Spec => []OnePathPerFlow
<1>1. IInv => OnePathPerFlow
  BY DEF IInv, Repeatable, RepeatableLookup, HashOf, OnePathPerFlow
<1>2. QED
  BY <1>1, Safety, PTL

\* A hashed flow never takes a next hop of weight 0.
THEOREM ZeroWeightIsNeverTaken == Spec => []ZeroWeightNeverTaken
<1>1. IInv => ZeroWeightNeverTaken
  <2>1. SUFFICES ASSUME IInv, NEW t \in taken, m_perflowEcmpRouting, t.packet.ported,
                        Len(t.routes) > 1, t.weights # None
                 PROVE  t.weights[t.index] > 0
    BY DEF ZeroWeightNeverTaken
  <2> DEFINE n == Len(t.routes)
             w == NodeWeights(t.node, n)
  <2>2. /\ t.node \in Node /\ t.routes \in Seq(Route) /\ HashOf(t) \in Hash
        /\ t.weights = w /\ t.index = FlowIndex(t.node, n, HashOf(t))
    BY <2>1 DEF IInv, Repeatable, RepeatableLookup
  <2>3. n \in Nat
    BY <2>2, LenProperties
  <2>4. w \in Seq(Weight) /\ Total(w) > 0
    BY <2>1, <2>2, <2>3, WeightsUsable DEF IInv
  <2>5. w \in Seq(Nat)
    BY <2>4, WeightIsNat, ElemsInSet, SeqOverElems
  <2>6. w[ChooseWeighted(w, HashOf(t))] > 0
    BY <2>2, <2>4, <2>5, ChosenWeightIsPositive
  <2>7. t.index = ChooseWeighted(w, HashOf(t))
    BY <2>1, <2>2 DEF FlowIndex
  <2>8. QED
    BY <2>2, <2>6, <2>7
<1>2. QED
  BY <1>1, Safety, PTL

------------------------------------------------------------------------------
\* How many hashes choose a next hop.

\* The sum of the first weights rises with their number.
LEMMA PrefixSumsRise ==
    ASSUME NEW w \in Seq(Nat), NEW j \in 0 .. Len(w), NEW k \in 0 .. Len(w), j <= k
    PROVE  PrefixSums(w)[j] <= PrefixSums(w)[k]
<1> DEFINE G == {i \in 0 .. Len(w) : j <= i => PrefixSums(w)[j] <= PrefixSums(w)[i]}
<1>1. Len(w) \in Nat /\ j \in Nat
  BY LenProperties, SMT
<1>2. PrefixSums(w)[j] \in Nat
  BY PrefixSumsNat
<1>3. 0 \in G
  <2>1. 0 \in 0 .. Len(w) /\ (j <= 0 => j = 0)
    BY <1>1, SMT
  <2>2. PrefixSums(w)[j] <= PrefixSums(w)[j]
    BY <1>2, SMT
  <2>3. QED
    BY <2>1, <2>2
<1>4. ASSUME NEW i \in 0 .. Len(w), i + 1 <= Len(w), i \in G
      PROVE  i + 1 \in G
  <2>1. /\ i + 1 \in 0 .. Len(w) /\ i + 1 \in 1 .. Len(w)
        /\ j <= i + 1 => j <= i \/ j = i + 1
    BY <1>1, <1>4, SMT
  <2>2. /\ PrefixSums(w)[i + 1] = PrefixSums(w)[i] + w[i + 1]
        /\ PrefixSums(w)[i] \in Nat /\ w[i + 1] \in Nat
    BY <1>4, <2>1, PrefixSumsUnfold, PrefixSumsNat, ElementOfSeq
  <2>3. j <= i => PrefixSums(w)[j] <= PrefixSums(w)[i + 1]
    <3>1. \A x, y, z \in Nat : x <= y => x <= y + z
      BY SMT
    <3>2. QED
      BY <1>2, <1>4, <2>2, <3>1
  <2>4. j = i + 1 => PrefixSums(w)[j] <= PrefixSums(w)[i + 1]
    <3>1. \A x \in Nat : x <= x
      BY SMT
    <3>2. QED
      BY <1>2, <3>1
  <2>5. QED
    BY <2>1, <2>3, <2>4
<1>5. \A i \in 0 .. Len(w) : i \in G
  <2> HIDE DEF G
  <2>1. QED
    BY <1>1, <1>3, <1>4, InductionUpTo
<1>6. QED
  BY <1>5

\* Which scaled hashes choose i: those from the sum of the weights before it up to
\* the sum that includes it.
LEMMA ChosenByThreshold ==
    ASSUME NEW w \in Seq(Nat), Total(w) > 0, NEW h \in Hash, NEW i \in 1 .. Len(w)
    PROVE  ChooseWeighted(w, h) = i <=>
             /\ PrefixSums(w)[i - 1] <= Scaled(h, Total(w))
             /\ Scaled(h, Total(w)) < PrefixSums(w)[i]
<1> DEFINE r == Scaled(h, Total(w))
           reached == {k \in 1 .. Len(w) : Reaches(w, k, r)}
           c == ChooseWeighted(w, h)
<1>1. Len(w) \in Nat /\ Len(w) \in 0 .. Len(w)
  BY LenProperties, SMT
<1>2. Total(w) \in Nat
  BY <1>1, PrefixSumsNat DEF Total
<1>3. r \in Nat /\ r < Total(w)
  BY <1>2, ScaledBelowTotal
<1>4. Len(w) \in reached
  <2>1. Len(w) \in 1 .. Len(w)
    BY <1>1, SMT
  <2>2. QED
    BY <1>3, <2>1 DEF Reaches, Total
<1>5. c \in reached /\ \A j \in reached : c <= j
  <2>1. reached \subseteq Nat /\ reached # {}
    BY <1>4, SMT
  <2>2. \E k \in reached : \A j \in reached : k <= j
    <3> HIDE DEF reached
    <3>1. QED
      BY <2>1, NatMinimum
  <2>3. c = CHOOSE k \in reached : \A j \in reached : k <= j
    BY <2>1 DEF ChooseWeighted
  <2>4. QED
    <3> HIDE DEF reached, c
    <3>1. QED
      BY <2>2, <2>3
<1> HIDE DEF c, r
<1>6. /\ i \in Nat /\ i \in 0 .. Len(w) /\ i - 1 \in 0 .. Len(w)
      /\ c \in 1 .. Len(w) /\ c \in Nat /\ c \in 0 .. Len(w)
  BY <1>1, <1>5, SMT
<1>7. /\ PrefixSums(w)[i] \in Nat /\ PrefixSums(w)[i - 1] \in Nat
      /\ PrefixSums(w)[c] \in Nat
  BY <1>6, PrefixSumsNat
<1>8. r < PrefixSums(w)[c]
  BY <1>5 DEF Reaches
<1>9. ASSUME c = i
      PROVE  PrefixSums(w)[i - 1] <= r /\ r < PrefixSums(w)[i]
  <2>1. CASE i = 1
    <3>1. PrefixSums(w)[0] = 0 /\ i - 1 = 0
      BY <2>1, PrefixSumsUnfold, SMT
    <3>2. PrefixSums(w)[i - 1] <= r
      BY <1>3, <3>1, SMT
    <3>3. QED
      BY <1>8, <1>9, <3>2
  <2>2. CASE i # 1
    <3>1. i - 1 \in 1 .. Len(w) /\ ~ (c <= i - 1)
      BY <1>1, <1>6, <1>9, <2>2, SMT
    <3>2. ~ (r < PrefixSums(w)[i - 1])
      BY <1>5, <3>1 DEF Reaches
    <3>3. PrefixSums(w)[i - 1] <= r
      BY <1>3, <1>7, <3>2, SMT
    <3>4. QED
      BY <1>8, <1>9, <3>3
  <2>3. QED
    BY <2>1, <2>2
<1>10. ASSUME PrefixSums(w)[i - 1] <= r, r < PrefixSums(w)[i]
       PROVE  c = i
  <2>1. c <= i
    BY <1>5, <1>10 DEF Reaches
  <2>2. ASSUME c # i PROVE FALSE
    <3>1. c <= i - 1
      BY <1>6, <2>1, <2>2, SMT
    <3>2. PrefixSums(w)[c] <= PrefixSums(w)[i - 1]
      BY <1>6, <3>1, PrefixSumsRise
    <3>3. QED
      BY <1>3, <1>7, <1>8, <1>10, <3>2, SMT
  <2>3. QED
    BY <2>2
<1>11. QED
  BY <1>9, <1>10 DEF c, r

\* The smallest multiple of t that is not below x.
LEMMA RoundedUp ==
    ASSUME NEW x \in Nat, NEW t \in Nat \ {0}
    PROVE  \E c \in Nat : /\ x <= c * t /\ c * t < x + t
                          /\ \A h \in Nat : x <= h * t <=> c <= h
<1> DEFINE y == x + t - 1
           c == y \div t
<1>1. y \in Nat /\ y = x + t - 1
  BY SMT
<1> HIDE DEF y
<1>2. c \in Nat /\ t * c <= y /\ y < t * c + t
  <2>1. \A a \in Nat, b \in Nat \ {0} :
          a \div b \in Nat /\ b * (a \div b) <= a /\ a < b * (a \div b) + b
    BY SMT
  <2>2. QED
    BY <1>1, <2>1
<1> HIDE DEF c
<1>3. c * t \in Int /\ t * c = c * t
  BY <1>2, SMT
<1>4. x <= c * t /\ c * t < x + t
  <2> DEFINE p == c * t
  <2>1. p \in Int /\ p <= y /\ y < p + t
    BY <1>2, <1>3
  <2> HIDE DEF p
  <2>2. x <= p /\ p < x + t
    BY <1>1, <2>1, SMT
  <2>3. QED
    BY <2>2 DEF p
<1>5. ASSUME NEW h \in Nat
      PROVE  x <= h * t <=> c <= h
  <2>1. /\ h \in Int /\ c \in Int /\ h + 1 \in Int /\ t \in Int /\ 1 \in Int
        /\ c <= h \/ h + 1 <= c
    BY <1>2, SMT
  <2>2. h * t \in Int /\ (h + 1) * t = h * t + t /\ (h + 1) * t \in Int
    BY <2>1, TimesDistributes
  <2>3. CASE c <= h
    <3>1. c * t <= h * t
      BY <2>1, <2>3, TimesCancels
    <3>2. x <= h * t
      <4>1. \A a, b, d \in Int : a <= b /\ b <= d => a <= d
        BY SMT
      <4>2. x \in Int
        BY SMT
      <4>3. QED
        BY <1>3, <1>4, <2>2, <3>1, <4>1, <4>2
    <3>3. QED
      BY <2>3, <3>2
  <2>4. CASE h + 1 <= c
    <3>1. (h + 1) * t <= c * t
      BY <2>1, <2>4, TimesCancels
    <3>2. ~(x <= h * t)
      <4>1. \A a, b, d \in Int : a + d <= b /\ b < x + d => ~(x <= a)
        BY SMT
      <4>2. QED
        BY <1>3, <1>4, <2>1, <2>2, <3>1, <4>1
    <3>3. ~(c <= h)
      BY <1>2, <2>4, SMT
    <3>4. QED
      BY <3>2, <3>3
  <2>5. QED
    BY <2>1, <2>3, <2>4
<1>6. QED
  BY <1>2, <1>4, <1>5

\* A number is in the a-th stretch of length m or a later one iff its quotient by m
\* is at least a.
LEMMA QuotientAtLeast ==
    ASSUME NEW x \in Nat, NEW m \in Nat \ {0}, NEW a \in Nat
    PROVE  x \div m \in Nat /\ (a <= x \div m <=> a * m <= x)
<1> DEFINE q == x \div m
<1>1. q \in Nat /\ m * q <= x /\ x < m * q + m
  <2>1. \A y \in Nat, b \in Nat \ {0} :
          y \div b \in Nat /\ b * (y \div b) <= y /\ y < b * (y \div b) + b
    BY SMT
  <2>2. QED
    BY <2>1
<1> HIDE DEF q
<1>2. /\ q \in Int /\ a \in Int /\ m \in Int /\ x \in Int /\ q + 1 \in Int /\ 1 \in Int
      /\ m * q = q * m /\ (a <= q \/ q + 1 <= a)
  BY <1>1, SMT
<1>3. /\ q * m \in Int /\ (q + 1) * m = q * m + m /\ (q + 1) * m \in Int
      /\ a * m \in Int
  BY <1>2, TimesDistributes
<1>4. CASE a <= q
  <2>1. a * m <= q * m
    BY <1>2, <1>4, TimesCancels
  <2>2. \A u, v, y \in Int : u <= v /\ v <= y => u <= y
    BY SMT
  <2>3. a * m <= x
    BY <1>1, <1>2, <1>3, <2>1, <2>2
  <2>4. QED
    BY <1>1, <1>4, <2>3 DEF q
<1>5. CASE q + 1 <= a
  <2>1. (q + 1) * m <= a * m
    BY <1>2, <1>5, TimesCancels
  <2>2. \A u, v, y \in Int : u <= v /\ y < u => ~(v <= y)
    BY SMT
  <2>3. ~(a * m <= x)
    BY <1>1, <1>2, <1>3, <2>1, <2>2
  <2>4. ~(a <= q)
    BY <1>2, <1>5, SMT
  <2>5. QED
    BY <1>1, <2>3, <2>4 DEF q
<1>6. QED
  BY <1>2, <1>4, <1>5

\* The share of the hashes that the stretch from a to b of t gets is b - a out of t,
\* up to rounding.
LEMMA ShareOfStretch ==
    ASSUME NEW t \in Nat \ {0}, NEW a \in Nat, NEW b \in Nat, a <= b, b <= t,
           NEW share,
           share = Cardinality({h \in Hash : /\ a <= (h * t) \div HashRange
                                             /\ (h * t) \div HashRange < b})
    PROVE  /\ -t < share * t - HashRange * (b - a)
           /\ share * t - HashRange * (b - a) < t
<1> DEFINE M == HashRange
           S == {h \in Hash : a <= (h * t) \div M /\ (h * t) \div M < b}
<1>1. M \in Nat \ {0} /\ \A h \in Hash : h \in Nat /\ h < M
  BY HashRangeAssumption, SMT DEF Hash
<1>2. /\ a \in Int /\ b \in Int /\ t \in Int /\ M \in Int
      /\ a * M \in Nat /\ b * M \in Nat /\ t * M \in Nat /\ M * t = t * M
      /\ a * M <= b * M /\ b * M <= t * M
  <2>1. a \in Int /\ b \in Int /\ t \in Int /\ M \in Int
    BY <1>1, SMT
  <2>2. a * M \in Nat /\ b * M \in Nat /\ t * M \in Nat /\ M * t = t * M
    BY <1>1, SMT
  <2>3. a * M <= b * M /\ b * M <= t * M
    BY <1>1, <2>1, TimesCancels
  <2>4. QED
    BY <2>1, <2>2, <2>3
<1>3. PICK lo \in Nat : /\ a * M <= lo * t /\ lo * t < a * M + t
                        /\ \A h \in Nat : a * M <= h * t <=> lo <= h
  BY <1>2, RoundedUp
<1>4. PICK hi \in Nat : /\ b * M <= hi * t /\ hi * t < b * M + t
                        /\ \A h \in Nat : b * M <= h * t <=> hi <= h
  BY <1>2, RoundedUp
<1>5. lo * t \in Int /\ hi * t \in Int
  BY SMT
<1>6. lo <= hi /\ hi <= M
  <2>1. \A u, v, y \in Int : u <= v /\ v <= y => u <= y
    BY SMT
  <2>2. a * M <= hi * t
    BY <1>2, <1>4, <1>5, <2>1
  <2>3. b * M <= M * t
    BY <1>2
  <2>4. QED
    BY <1>1, <1>3, <1>4, <2>2, <2>3
<1>7. S = lo .. hi - 1
  <2>1. \A h \in Hash : h * t \in Nat
    BY <1>1, SMT
  <2>2. \A h \in Hash : /\ (h * t) \div M \in Nat
                        /\ a <= (h * t) \div M <=> lo <= h
                        /\ b <= (h * t) \div M <=> hi <= h
    BY <1>1, <1>3, <1>4, <2>1, QuotientAtLeast
  <2>3. \A h \in Hash : h \in S <=> lo <= h /\ ~(hi <= h)
    <3>1. \A x \in Nat : x < b <=> ~(b <= x)
      BY SMT
    <3>2. QED
      BY <2>2, <3>1
  <2>4. \A h : h \in lo .. hi - 1 <=> h \in Hash /\ lo <= h /\ ~(hi <= h)
    BY <1>1, <1>6, SMT DEF Hash
  <2>5. S \subseteq Hash
    OBVIOUS
  <2> HIDE DEF S
  <2>6. QED
    BY <2>3, <2>4, <2>5
<1>8. share = hi - lo
  <2>1. Cardinality(lo .. hi - 1) = hi - lo
    <3>1. lo \in Int /\ hi - 1 \in Int
      BY SMT
    <3>2. Cardinality(lo .. hi - 1) = IF lo > hi - 1 THEN 0 ELSE (hi - 1) - lo + 1
      BY <3>1, FS_Interval
    <3>3. (IF lo > hi - 1 THEN 0 ELSE (hi - 1) - lo + 1) = hi - lo
      BY <1>6, SMT
    <3>4. QED
      BY <3>2, <3>3
  <2>2. QED
    BY <1>7, <2>1
<1>9. share * t = hi * t - lo * t
  <2>1. hi \in Int /\ lo \in Int
    BY SMT
  <2>2. QED
    BY <1>2, <1>8, <2>1, TimesDistributes
<1>10. M * (b - a) = b * M - a * M
  <2>1. b - a \in Int /\ M * (b - a) = (b - a) * M
    BY <1>1, SMT
  <2>2. QED
    BY <1>2, <2>1, TimesDistributes
<1>11. \A u, v, x, y, d \in Int :
          x <= u /\ u < x + d /\ y <= v /\ v < y + d
            => -d < (v - u) - (y - x) /\ (v - u) - (y - x) < d
  BY SMT
<1>12. /\ -t < (hi * t - lo * t) - (b * M - a * M)
       /\ (hi * t - lo * t) - (b * M - a * M) < t
  <2>1. a * M \in Int /\ b * M \in Int
    BY <1>2, SMT
  <2>2. QED
    BY <1>2, <1>3, <1>4, <1>5, <1>11, <2>1
<1>13. QED
  BY <1>9, <1>10, <1>12

\* The product does not wrap when the sum of the weights is small enough.
LEMMA ScaledExactly ==
    ASSUME NEW t \in Nat, t <= HashRange, NEW h \in Hash
    PROVE  Scaled(h, t) = (h * t) \div HashRange
<1> DEFINE M == HashRange
           x == h * t
<1>1. M \in Nat \ {0} /\ h \in Nat /\ h < M /\ h \in Int /\ t \in Int /\ M \in Int
  BY HashRangeAssumption, SMT DEF Hash
<1>2. h * t \in Nat /\ h * M \in Nat /\ M * M \in Nat \ {0} /\ t * h = h * t /\ M * h = h * M
  BY <1>1, SMT
<1>3. t * h <= M * h
  <2>1. CASE h = 0
    BY <1>1, <2>1, SMT
  <2>2. CASE h # 0
    BY <1>1, <2>2, TimesCancels
  <2>3. QED
    BY <2>1, <2>2
<1>4. h * M < M * M
  <2>1. (h + 1) * M <= M * M /\ (h + 1) * M = h * M + M
    <3>1. h + 1 \in Int /\ h + 1 <= M /\ 1 \in Int
      BY <1>1, SMT
    <3>2. QED
      BY <1>1, <3>1, TimesCancels, TimesDistributes
  <2>2. \A u, v, d \in Nat : d # 0 /\ u + d <= v => u < v
    BY SMT
  <2>3. QED
    BY <1>1, <1>2, <2>1, <2>2
<1>5. x \in Nat /\ x < M * M
  <2>1. \A u, v, y \in Nat : u <= v /\ v < y => u < y
    BY SMT
  <2>2. QED
    BY <1>2, <1>3, <1>4, <2>1
<1>6. x % (M * M) = x
  <2>1. \A u \in Nat, m \in Nat \ {0} : u < m => u % m = u
    BY SMT
  <2>2. QED
    <3> HIDE DEF x
    <3>1. QED
      BY <1>2, <1>5, <2>1
<1>7. QED
  BY <1>6 DEF Scaled

\* A weight's share of the hashes.
LEMMA WeightedShare ==
    ASSUME NEW w \in Seq(Nat), Total(w) > 0, Total(w) <= HashRange,
           NEW i \in 1 .. Len(w),
           NEW share, share = Cardinality({h \in Hash : ChooseWeighted(w, h) = i})
    PROVE  /\ -Total(w) < share * Total(w) - HashRange * w[i]
           /\ share * Total(w) - HashRange * w[i] < Total(w)
<1> DEFINE t == Total(w)
           a == PrefixSums(w)[i - 1]
           b == PrefixSums(w)[i]
<1>1. /\ Len(w) \in Nat /\ Len(w) \in 0 .. Len(w)
      /\ i \in 0 .. Len(w) /\ i - 1 \in 0 .. Len(w) /\ i <= Len(w)
      /\ (i - 1) + 1 = i
  BY LenProperties, SMT
<1>2. t \in Nat /\ a \in Nat /\ b \in Nat /\ w[i] \in Nat
  BY <1>1, PrefixSumsNat, ElementOfSeq DEF Total
<1>3. b = a + w[i]
  BY <1>1, PrefixSumsUnfold
<1>4. b <= t
  BY <1>1, PrefixSumsRise DEF Total
<1>5. {h \in Hash : ChooseWeighted(w, h) = i}
        = {h \in Hash : a <= (h * t) \div HashRange /\ (h * t) \div HashRange < b}
  BY <1>2, ChosenByThreshold, ScaledExactly
<1> HIDE DEF t, a, b
<1>6. t \in Nat \ {0} /\ a <= b /\ b - a = w[i]
  <2>1. t > 0
    BY DEF t
  <2>2. QED
    BY <1>2, <1>3, <2>1, SMT
<1>7. -t < share * t - HashRange * (b - a) /\ share * t - HashRange * (b - a) < t
  BY <1>2, <1>4, <1>5, <1>6, ShareOfStretch
<1>8. QED
  BY <1>6, <1>7 DEF t

\* n weights of 1 sum to n.
LEMMA TotalOfOnes ==
    ASSUME NEW n \in Nat
    PROVE  LET w == [i \in 1 .. n |-> 1]
           IN  w \in Seq(Nat) /\ Len(w) = n /\ Total(w) = n
<1> DEFINE w == [i \in 1 .. n |-> 1]
           G == {k \in 0 .. n : PrefixSums(w)[k] = k}
<1>1. w \in [1 .. n -> Nat]
  <2>1. 1 \in Nat
    BY SMT
  <2>2. QED
    BY <2>1
<1>2. w \in Seq(Nat)
  <2> HIDE DEF w
  <2>1. QED
    BY <1>1, IsASeq
<1>3. Len(w) = n
  <2>1. DOMAIN w = 1 .. n
    OBVIOUS
  <2> HIDE DEF w
  <2>2. QED
    BY <1>2, <2>1, LenProperties, SMT
<1>4. \A i \in 1 .. n : w[i] = 1
  OBVIOUS
<1> HIDE DEF w
<1>5. 0 \in G
  BY <1>2, PrefixSumsUnfold, SMT
<1>6. ASSUME NEW k \in 0 .. n, k + 1 <= n, k \in G
      PROVE  k + 1 \in G
  <2>1. k + 1 \in 0 .. n /\ k + 1 \in 1 .. n
    BY <1>6, SMT
  <2>2. PrefixSums(w)[k + 1] = PrefixSums(w)[k] + w[k + 1]
    BY <1>2, <1>3, <1>6, PrefixSumsUnfold
  <2>3. PrefixSums(w)[k + 1] = k + 1
    BY <1>4, <1>6, <2>1, <2>2
  <2>4. QED
    BY <2>1, <2>3
<1>7. n \in G
  <2> HIDE DEF G
  <2>1. \A k \in 0 .. n : k \in G
    BY <1>5, <1>6, InductionUpTo
  <2>2. n \in 0 .. n
    BY SMT
  <2>3. QED
    BY <2>1, <2>2
<1>8. Total(w) = n
  BY <1>3, <1>7 DEF Total
<1>9. QED
  BY <1>2, <1>3, <1>8 DEF w

\* The share of the hashes without weights.
LEMMA EvenShare ==
    ASSUME NEW n \in Nat \ {0}, n <= HashRange, NEW i \in 1 .. n,
           NEW share, share = Cardinality({h \in Hash : ChooseEvenly(n, h) = i})
    PROVE  /\ -n < share * n - HashRange * 1
           /\ share * n - HashRange * 1 < n
<1>1. i - 1 \in Nat /\ i \in Nat /\ i - 1 <= i /\ i <= n /\ i - (i - 1) = 1
  BY SMT
<1>2. \A h \in Hash : (h * n) \div HashRange \in Nat
  <2>1. \A h \in Hash : h * n \in Nat /\ HashRange \in Nat \ {0}
    BY HashRangeAssumption, SMT DEF Hash
  <2>2. QED
    BY <2>1, QuotientAtLeast
<1>3. \A q \in Nat : q + 1 = i <=> i - 1 <= q /\ q < i
  BY <1>1, SMT
<1>4. {h \in Hash : ChooseEvenly(n, h) = i}
        = {h \in Hash : i - 1 <= (h * n) \div HashRange /\ (h * n) \div HashRange < i}
  BY <1>2, <1>3 DEF ChooseEvenly
<1>5. /\ -n < share * n - HashRange * (i - (i - 1))
      /\ share * n - HashRange * (i - (i - 1)) < n
  BY <1>1, <1>4, ShareOfStretch
<1>6. QED
  BY <1>1, <1>5

------------------------------------------------------------------------------
\* What is looked up is what the file said when it was read.

ReadFrom(lines) == IF lines = NoFile THEN None ELSE TableAfter(lines)

Usable(raw, v, n) ==
    IF v \in DOMAIN raw /\ Len(raw[v]) >= n /\ Total(SubSeq(raw[v], 1, n)) > 0
      THEN SubSeq(raw[v], 1, n) ELSE None

Faithful ==
    /\ g_weightsLoaded => g_nodeRawWeights = ReadFrom(loadedFrom)
    /\ \A u, m : CacheKey(u, m) \in DOMAIN g_ecmpWeightCacheByNodeN =>
         /\ g_weightsLoaded
         /\ g_ecmpWeightCacheByNodeN[CacheKey(u, m)] = Usable(g_nodeRawWeights, u, m)

SInv == IInv /\ Faithful

\* The lines among the first k that give v weights.
LinesFor(lines, v, k) ==
    {j \in 1 .. k : lines[j].node = v /\ WeightsOf(lines[j]) # <<>>}

\* The table has a node's weights from its last line that gives any.
LEMMA LastLineCounts ==
    ASSUME NEW lines \in Seq(Lines), NEW v
    PROVE  LET of == LinesFor(lines, v, Len(lines))
           IN  /\ of = {} => v \notin DOMAIN TableAfter(lines)
               /\ of # {} => \E l \in of : /\ \A j \in of : j <= l
                                           /\ v \in DOMAIN TableAfter(lines)
                                           /\ TableAfter(lines)[v] = WeightsOf(lines[l])
<1> DEFINE Of(k) == LinesFor(lines, v, k)
           T(k) == TablesOf(lines)[k]
           Right(k) == /\ Of(k) = {} => v \notin DOMAIN T(k)
                       /\ Of(k) # {} => \E l \in Of(k) : /\ \A j \in Of(k) : j <= l
                                                         /\ v \in DOMAIN T(k)
                                                         /\ T(k)[v] = WeightsOf(lines[l])
           G == {k \in 0 .. Len(lines) : Right(k)}
<1>1. Len(lines) \in Nat
  BY LenProperties
<1>2. 0 \in G
  <2>1. Of(0) = {}
    <3>1. 1 .. 0 = {}
      BY SMT
    <3>2. QED
      BY <3>1 DEF LinesFor
  <2>2. DOMAIN T(0) = {}
    BY TablesOfUnfolds DEF None
  <2>3. 0 \in 0 .. Len(lines)
    BY <1>1, SMT
  <2>4. QED
    <3> HIDE DEF Of, T
    <3>1. QED
      BY <2>1, <2>2, <2>3
<1>3. ASSUME NEW k \in 0 .. Len(lines), k + 1 <= Len(lines), k \in G
      PROVE  k + 1 \in G
  <2>1. /\ k + 1 \in 0 .. Len(lines) /\ k + 1 \in 1 .. k + 1 /\ k \in Nat
        /\ \A j : j \in 1 .. k + 1 <=> j \in 1 .. k \/ j = k + 1
        /\ \A j \in 1 .. k : j <= k + 1
        /\ k + 1 <= k + 1
    BY <1>1, <1>3, SMT
  <2>2. T(k + 1) = TableWith(T(k), lines[k + 1])
    BY <1>3, TablesOfUnfolds
  <2>3. Right(k)
    BY <1>3
  <2> DEFINE new == WeightsOf(lines[k + 1])
             takes == lines[k + 1].node = v /\ new # <<>>
  <2>4. \A j : j \in Of(k + 1) <=> j \in Of(k) \/ (j = k + 1 /\ takes)
    BY <2>1 DEF LinesFor
  <2>5. \A j \in Of(k) : j <= k + 1
    BY <2>1 DEF LinesFor
  <2>6. CASE takes
    <3>1. v \in DOMAIN T(k + 1) /\ T(k + 1)[v] = new
      <4> HIDE DEF T, new
      <4>1. T(k + 1) = [u \in DOMAIN T(k) \cup {v} |-> IF u = v THEN new ELSE T(k)[u]]
        BY <2>2, <2>6 DEF TableWith, new
      <4>2. QED
        BY <4>1
    <3>2. k + 1 \in Of(k + 1) /\ \A j \in Of(k + 1) : j <= k + 1
      <4> HIDE DEF Of
      <4>1. QED
        BY <2>1, <2>4, <2>5, <2>6
    <3>3. Right(k + 1)
      <4> HIDE DEF Of, T
      <4>1. QED
        BY <3>1, <3>2
    <3>4. QED
      BY <2>1, <3>3
  <2>7. CASE ~takes
    <3>1. Of(k + 1) = Of(k)
      <4> HIDE DEF Of
      <4>1. QED
        BY <2>4, <2>7
    <3>2. /\ v \in DOMAIN T(k + 1) <=> v \in DOMAIN T(k)
          /\ v \in DOMAIN T(k) => T(k + 1)[v] = T(k)[v]
      <4> HIDE DEF T, new
      <4>1. CASE new = <<>>
        BY <2>2, <4>1 DEF TableWith, new
      <4>2. CASE new # <<>>
        <5>1. lines[k + 1].node # v
          BY <2>7, <4>2
        <5>2. T(k + 1) = [u \in DOMAIN T(k) \cup {lines[k + 1].node} |->
                             IF u = lines[k + 1].node THEN new ELSE T(k)[u]]
          BY <2>2, <4>2 DEF TableWith, new
        <5>3. QED
          BY <5>1, <5>2
      <4>3. QED
        BY <4>1, <4>2
    <3>3. Right(k + 1)
      <4> HIDE DEF Of, T
      <4>1. QED
        BY <2>3, <3>1, <3>2
    <3>4. QED
      BY <2>1, <3>3
  <2>8. QED
    BY <2>6, <2>7
<1>4. Right(Len(lines))
  <2> HIDE DEF Right
  <2>1. \A k \in 0 .. Len(lines) : k \in G
    <3> HIDE DEF G
    <3>1. QED
      BY <1>1, <1>2, <1>3, InductionUpTo
  <2>2. Len(lines) \in 0 .. Len(lines)
    BY <1>1, SMT
  <2>3. QED
    BY <2>1, <2>2
<1>5. QED
  BY <1>4 DEF TableAfter

\* Once the file was read, the cache makes no difference.
LEMMA CacheMakesNoDifference ==
    ASSUME Faithful, g_weightsLoaded, NEW v, NEW n
    PROVE  NodeWeights(v, n) = Usable(g_nodeRawWeights, v, n)
<1>1. Raw = g_nodeRawWeights
  BY DEF Raw
<1>2. CASE CacheKey(v, n) \in DOMAIN g_ecmpWeightCacheByNodeN
  BY <1>2 DEF NodeWeights, Faithful
<1>3. CASE CacheKey(v, n) \notin DOMAIN g_ecmpWeightCacheByNodeN
  BY <1>1, <1>3 DEF NodeWeights, Usable
<1>4. QED
  BY <1>2, <1>3

\* A lookup that asks for weights reads the file once and caches what it says.
LEMMA LookupFaithful ==
    ASSUME Faithful, NEW v, NEW n, GetNodeWeights(v, n)
    PROVE  Faithful'
<1> DEFINE key == CacheKey(v, n)
           w == NodeWeights(v, n)
<1>1. CASE key \in DOMAIN g_ecmpWeightCacheByNodeN
  <2>1. UNCHANGED weightVars
    BY <1>1 DEF GetNodeWeights
  <2>2. QED
    BY <2>1 DEF Faithful, weightVars, CacheKey
<1>2. CASE key \notin DOMAIN g_ecmpWeightCacheByNodeN
  <2>1. /\ g_weightsLoaded' = TRUE
        /\ g_nodeRawWeights' = Raw
        /\ loadedFrom' = IF g_weightsLoaded THEN loadedFrom ELSE file
        /\ g_ecmpWeightCacheByNodeN' =
             IF w = None THEN g_ecmpWeightCacheByNodeN
             ELSE [k \in DOMAIN g_ecmpWeightCacheByNodeN \cup {key} |->
                      IF k = key THEN w ELSE g_ecmpWeightCacheByNodeN[k]]
    BY <1>2 DEF GetNodeWeights, LoadedAfterwards
  <2>2. g_nodeRawWeights' = ReadFrom(loadedFrom')
    BY <2>1 DEF Raw, Faithful, ReadFrom, LoadAllNodeWeightsFile
  <2>3. w = Usable(g_nodeRawWeights', v, n)
    BY <1>2, <2>1 DEF NodeWeights, Usable
  <2>4. ASSUME NEW u, NEW m, CacheKey(u, m) \in DOMAIN g_ecmpWeightCacheByNodeN'
        PROVE  g_ecmpWeightCacheByNodeN'[CacheKey(u, m)] = Usable(g_nodeRawWeights', u, m)
    <3>1. CASE CacheKey(u, m) = key
      <4>1. u = v /\ m = n
        BY <3>1 DEF CacheKey
      <4>2. w # None
        <5> HIDE DEF w, key
        <5>1. QED
          BY <1>2, <2>1, <2>4, <3>1
      <4>3. g_ecmpWeightCacheByNodeN'[key] = w
        <5> HIDE DEF w, key
        <5>1. QED
          BY <2>1, <4>2
      <4>4. QED
        <5> HIDE DEF w, key
        <5>1. QED
          BY <2>3, <3>1, <4>1, <4>3
    <3>2. CASE CacheKey(u, m) # key
      <4>1. /\ CacheKey(u, m) \in DOMAIN g_ecmpWeightCacheByNodeN
            /\ g_ecmpWeightCacheByNodeN'[CacheKey(u, m)]
                 = g_ecmpWeightCacheByNodeN[CacheKey(u, m)]
        <5> HIDE DEF w, key
        <5>1. QED
          BY <2>1, <2>4, <3>2
      <4>2. g_weightsLoaded
            /\ g_ecmpWeightCacheByNodeN[CacheKey(u, m)] = Usable(g_nodeRawWeights, u, m)
        BY <4>1 DEF Faithful
      <4>3. g_nodeRawWeights' = g_nodeRawWeights
        BY <2>1, <4>2 DEF Raw
      <4>4. QED
        BY <4>1, <4>2, <4>3
    <3>3. QED
      BY <3>1, <3>2
  <2>5. QED
    BY <2>1, <2>2, <2>4 DEF Faithful, CacheKey
<1>3. QED
  BY <1>1, <1>2

LEMMA InitFaithful == Init => SInv
<1>1. Init => DOMAIN g_ecmpWeightCacheByNodeN = {} /\ ~g_weightsLoaded
  BY DEF Init, None
<1>2. QED
  BY <1>1, InitSafe DEF SInv, Faithful

LEMMA NextFaithful == SInv /\ [Next]_vars => SInv'
<1>1. SUFFICES ASSUME SInv, [Next]_vars PROVE Faithful'
  BY NextSafe DEF SInv
<1>2. CASE UNCHANGED weightVars
  BY <1>1, <1>2 DEF SInv, Faithful, weightVars, CacheKey
<1>3. ASSUME NEW v, NEW p, NEW oif, LookupGlobal(v, p, oif)
      PROVE  Faithful'
  BY <1>1, <1>2, <1>3, LookupFaithful DEF SInv, LookupGlobal, ReadsWeights
<1>4. (\E v \in Node, p \in Packets, oif \in Interface \cup {AnyInterface} :
         LookupGlobal(v, p, oif)) \/ UNCHANGED weightVars
  BY <1>1 DEF Next, vars, EditFile, NotifyInterfaceEvent, AddHostRouteTo,
     AddNetworkRouteTo, AddASExternalRouteTo, RemoveRoute
<1>5. QED
  BY <1>2, <1>3, <1>4

\* What a lookup yields is what the file said: the usable weights of the node's last
\* line, and where there are none equal weights.
LEMMA FileIsFollowed ==
    ASSUME SInv, g_weightsLoaded, NEW v \in Node, NEW n \in Nat, n >= 2
    PROVE  DocumentedWeights(v, n) =
             IF NodeWeights(v, n) = None THEN [i \in 1 .. n |-> 1] ELSE NodeWeights(v, n)
<1> DEFINE lines == IF loadedFrom = NoFile THEN <<>> ELSE loadedFrom
           of == {i \in DOMAIN lines : lines[i].node = v /\ WeightsOf(lines[i]) # <<>>}
           last == CHOOSE i \in of : \A j \in of : j <= i
           w == IF of = {} THEN <<>> ELSE WeightsOf(lines[last])
           raw == g_nodeRawWeights
<1>1. NodeWeights(v, n) = Usable(raw, v, n)
  BY CacheMakesNoDifference DEF SInv
<1>2. /\ of = {} => v \notin DOMAIN raw
      /\ of # {} => v \in DOMAIN raw /\ raw[v] = WeightsOf(lines[last])
  <2>1. raw = ReadFrom(loadedFrom)
    BY DEF SInv, Faithful
  <2>2. CASE loadedFrom = NoFile
    <3>1. raw = None /\ DOMAIN raw = {} /\ DOMAIN lines = {}
      BY <2>1, <2>2 DEF ReadFrom, None
    <3>2. QED
      BY <3>1
  <2>3. CASE loadedFrom # NoFile
    <3>1. loadedFrom \in Seq(Lines) /\ lines = loadedFrom
      BY <2>3, FileTyped DEF SInv, IInv, TypeOK
    <3>2. raw = TableAfter(lines)
      BY <2>1, <2>3 DEF ReadFrom
    <3> HIDE DEF lines, raw
    <3>3. DOMAIN lines = 1 .. Len(lines)
      BY <3>1, LenProperties
    <3>4. of = LinesFor(lines, v, Len(lines))
      BY <3>3 DEF LinesFor
    <3>5. of = {} => v \notin DOMAIN raw
      BY <3>1, <3>2, <3>4, LastLineCounts
    <3>6. ASSUME of # {}
          PROVE  v \in DOMAIN raw /\ raw[v] = WeightsOf(lines[last])
      <4>1. PICK l \in of : /\ \A j \in of : j <= l
                            /\ v \in DOMAIN raw
                            /\ raw[v] = WeightsOf(lines[l])
        BY <3>1, <3>2, <3>4, <3>6, LastLineCounts
      <4>2. of \subseteq Nat
        BY <3>3, SMT
      <4>3. last \in of /\ \A j \in of : j <= last
        <5> HIDE DEF of
        <5>1. QED
          BY <4>1
      <4>4. last = l
        <5>1. \A x, y \in Nat : x <= y /\ y <= x => x = y
          BY SMT
        <5>2. QED
          <6> HIDE DEF of, last
          <6>1. QED
            BY <4>1, <4>2, <4>3, <5>1
      <4>5. QED
        BY <4>1, <4>4
    <3>7. QED
      BY <3>5, <3>6
  <2>4. QED
    BY <2>2, <2>3
<1>3. DocumentedWeights(v, n) =
        IF Len(w) >= n /\ Total(SubSeq(w, 1, n)) > 0 THEN SubSeq(w, 1, n)
        ELSE [i \in 1 .. n |-> 1]
  BY DEF DocumentedWeights
<1> HIDE DEF of, last, raw
<1>4. CASE of = {}
  <2>1. w = <<>> /\ ~(Len(w) >= n)
    <3>1. Len(<<>>) = 0 /\ ~(0 >= n)
      BY EmptySeq, SMT
    <3>2. QED
      BY <1>4, <3>1
  <2>2. NodeWeights(v, n) = None
    BY <1>1, <1>2, <1>4 DEF Usable
  <2>3. QED
    <3> HIDE DEF w
    <3>1. QED
      BY <1>3, <2>1, <2>2
<1>5. CASE of # {}
  <2>1. v \in DOMAIN raw /\ raw[v] = w
    BY <1>2, <1>5
  <2>2. raw[v] \in Seq(Weight)
    BY <2>1 DEF raw, SInv, IInv, TypeOK
  <2> HIDE DEF w
  <2>3. w \in Seq(Weight) /\ Len(w) \in Nat
    BY <2>1, <2>2, LenProperties
  <2>4. CASE Len(w) >= n /\ Total(SubSeq(w, 1, n)) > 0
    <3>1. n \in 0 .. Len(w)
      BY <2>3, <2>4, SMT
    <3>2. SubSeq(w, 1, n) \in Seq(Weight) /\ Len(SubSeq(w, 1, n)) = n
      BY <2>3, <3>1, ElemsSplit
    <3>3. SubSeq(w, 1, n) # None
      <4>1. n # 0 /\ Len(None) = 0
        BY EmptySeq, SMT DEF None
      <4>2. QED
        BY <3>2, <4>1
    <3>4. QED
      BY <1>1, <1>3, <2>1, <2>4, <3>3 DEF Usable
  <2>5. CASE ~(Len(w) >= n /\ Total(SubSeq(w, 1, n)) > 0)
    BY <1>1, <1>3, <2>1, <2>5 DEF Usable
  <2>6. QED
    BY <2>4, <2>5
<1>6. QED
  BY <1>4, <1>5

\* The share of the hashes that choose a next hop is its weight's, up to rounding,
\* for any weights whose sum does not exceed the number of hashes, any file and
\* whatever was looked up before.
THEOREM SharesAreWeights == Spec => []SharesFollowWeights
<1>1. SInv => SharesFollowWeights
  <2>1. SUFFICES ASSUME SInv, g_weightsLoaded, NEW v \in Node, NEW n \in 2 .. MaxRoutes,
                        Total(DocumentedWeights(v, n)) <= HashRange,
                        NEW i \in 1 .. n,
                        NEW share, share = Cardinality({h \in Hash : FlowIndex(v, n, h) = i})
                 PROVE  LET w == DocumentedWeights(v, n)
                            error == share * Total(w) - HashRange * w[i]
                        IN  -Total(w) < error /\ error < Total(w)
    BY DEF SharesFollowWeights
  <2>2. n \in Nat /\ n >= 2 /\ n \in Nat \ {0}
    BY EcmpAssumption, SMT
  <2> DEFINE w == DocumentedWeights(v, n)
             u == NodeWeights(v, n)
  <2>3. w = IF u = None THEN [j \in 1 .. n |-> 1] ELSE u
    BY <2>1, <2>2, FileIsFollowed
  <2>4. -Total(w) < share * Total(w) - HashRange * w[i]
        /\ share * Total(w) - HashRange * w[i] < Total(w)
    <3>1. CASE u = None
      <4>1. w = [j \in 1 .. n |-> 1]
        BY <2>3, <3>1
      <4>2. Total(w) = n /\ w[i] = 1
        <5>1. [j \in 1 .. n |-> 1][i] = 1
          OBVIOUS
        <5>2. Total([j \in 1 .. n |-> 1]) = n
          BY <2>2, TotalOfOnes
        <5> HIDE DEF w
        <5>3. QED
          BY <4>1, <5>1, <5>2
      <4>3. share = Cardinality({h \in Hash : ChooseEvenly(n, h) = i})
        BY <2>1, <3>1 DEF FlowIndex
      <4>4. n <= HashRange
        BY <2>1, <4>2
      <4>5. QED
        <5> HIDE DEF w
        <5>1. QED
          BY <2>2, <4>2, <4>3, <4>4, EvenShare
    <3>2. CASE u # None
      <4>1. w = u
        BY <2>3, <3>2
      <4>2. u \in Seq(Weight) /\ Total(u) > 0
        BY <2>1, <2>2, <3>2, WeightsUsable DEF SInv, IInv
      <4>3. u \in Seq(Nat)
        BY <4>2, WeightIsNat, ElemsInSet, SeqOverElems
      <4>4. Len(u) = n
        <5>1. u = Usable(g_nodeRawWeights, v, n)
          BY <2>1, CacheMakesNoDifference DEF SInv
        <5>2. /\ v \in DOMAIN g_nodeRawWeights
              /\ Len(g_nodeRawWeights[v]) >= n
              /\ u = SubSeq(g_nodeRawWeights[v], 1, n)
          BY <3>2, <5>1 DEF Usable
        <5>3. g_nodeRawWeights[v] \in Seq(Weight)
          BY <2>1, <5>2 DEF SInv, IInv, TypeOK
        <5>4. n \in 0 .. Len(g_nodeRawWeights[v])
          BY <2>2, <5>2, <5>3, LenProperties, SMT
        <5>5. QED
          BY <5>2, <5>3, <5>4, ElemsSplit
      <4>5. share = Cardinality({h \in Hash : ChooseWeighted(u, h) = i})
        BY <2>1, <3>2 DEF FlowIndex
      <4>6. Total(u) <= HashRange
        BY <2>1, <4>1
      <4>7. QED
        <5> HIDE DEF w, u
        <5>1. QED
          BY <4>1, <4>2, <4>3, <4>4, <4>5, <4>6, WeightedShare
    <3>3. QED
      BY <3>1, <3>2
  <2>5. QED
    BY <2>4
<1>2. Spec => []SInv
  BY InitFaithful, NextFaithful, PTL DEF Spec
<1>3. QED
  BY <1>1, <1>2, PTL
==============================================================================
