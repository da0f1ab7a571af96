---------------------------- MODULE SeqSetsProofs ----------------------------
(***************************************************************************)
(* What the operations on queues do to the set of their elements, to their *)
(* order and to their repetitions, and what filtering by a set returns.    *)
(***************************************************************************)
EXTENDS SeqSets, SequenceTheorems, WellFoundedInduction, TLAPS

\* A non-empty set of natural numbers has a least element.
LEMMA NatMinimum ==
    ASSUME NEW T, T \subseteq Nat, T # {}
    PROVE  \E x \in T : \A y \in T : x <= y
<1>1. PICK x \in T : \A y \in T : ~ (<<y, x>> \in OpToRel(<, Nat))
  BY NatLessThanWellFounded, WFMin
<1>2. \A y \in T : ~ (y < x)
  BY <1>1 DEF OpToRel
<1>3. \A y \in T : x <= y
  BY <1>2, SMT
<1>4. QED
  BY <1>3

\* Induction up to n, for membership of a set.
LEMMA InductionUpTo ==
    ASSUME NEW n \in Nat, NEW G, 0 \in G,
           \A i \in 0 .. n : i + 1 <= n /\ i \in G => i + 1 \in G
    PROVE  \A i \in 0 .. n : i \in G
<1>1. SUFFICES ASSUME NEW i \in 0 .. n, i \notin G PROVE FALSE
  OBVIOUS
<1> DEFINE Bad == {j \in 0 .. n : j \notin G}
<1>2. Bad \subseteq Nat /\ Bad # {}
  BY <1>1, SMT
<1>3. PICK x \in Bad : \A y \in Bad : x <= y
  BY <1>2, NatMinimum
<1>4. x # 0 /\ x \in 1 .. n
  BY <1>3, SMT
<1>5. x - 1 \in 0 .. n /\ x - 1 \notin Bad
  BY <1>3, <1>4, SMT
<1>6. x - 1 \in G /\ (x - 1) + 1 \in G
  BY <1>4, <1>5, SMT
<1>7. QED
  BY <1>3, <1>4, <1>6, SMT

\* Products.
LEMMA TimesDistributes ==
    ASSUME NEW a \in Int, NEW b \in Int, NEW t \in Int
    PROVE  /\ (a + b) * t = a * t + b * t
           /\ (a - b) * t = a * t - b * t
           /\ 1 * t = t /\ 0 * t = 0
           /\ a * t \in Int
BY SMT

LEMMA TimesCancels ==
    ASSUME NEW a \in Int, NEW b \in Int, NEW t \in Nat \ {0}
    PROVE  /\ a * t < b * t => a < b
           /\ a <= b => a * t <= b * t
<1>1. a * t < b * t => a < b
  <2>1. SUFFICES ASSUME b <= a PROVE b * t <= a * t
    BY SMT
  <2>2. (a - b) * t >= 0
    BY <2>1, SMT
  <2>3. QED
    BY <2>2, TimesDistributes, SMT
<1>2. a <= b => a * t <= b * t
  <2>1. SUFFICES ASSUME a <= b PROVE a * t <= b * t
    OBVIOUS
  <2>2. (b - a) * t >= 0
    BY <2>1, SMT
  <2>3. QED
    BY <2>2, TimesDistributes, SMT
<1>3. QED
  BY <1>1, <1>2

\* The empty sequence has no elements, and only it has none.
LEMMA ElemsEmpty ==
    ASSUME NEW S, NEW s \in Seq(S)
    PROVE  Elems(s) = {} <=> s = <<>>
<1>1. s # <<>> => Len(s) \in Nat \ {0}
  BY EmptySeq
<1>2. s # <<>> => 1 \in 1 .. Len(s)
  BY <1>1, SMT
<1>3. s # <<>> => s[1] \in Elems(s)
  BY <1>2 DEF Elems
<1>4. Elems(<<>>) = {}
  BY SMT DEF Elems
<1>5. QED
  BY <1>3, <1>4

\* Elements are members of the set the sequence is over.
LEMMA ElemsInSet ==
    ASSUME NEW S, NEW s \in Seq(S)
    PROVE  Elems(s) \subseteq S /\ Len(s) \in Nat
BY LenProperties, ElementOfSeq DEF Elems

\* A sequence over the set of its own elements.
LEMMA SeqOverElems ==
    ASSUME NEW S, NEW s \in Seq(S), NEW T, Elems(s) \subseteq T
    PROVE  s \in Seq(T)
<1>1. Len(s) \in Nat /\ s \in [1 .. Len(s) -> S]
  BY LenProperties
<1>2. \A i \in 1 .. Len(s) : s[i] \in T
  BY DEF Elems
<1>3. s \in [1 .. Len(s) -> T]
  BY <1>1, <1>2
<1>4. QED
  BY <1>1, <1>3, SeqDef

\* Appending adds an element.
LEMMA ElemsAppend ==
    ASSUME NEW S, NEW s \in Seq(S), NEW e \in S
    PROVE  /\ Append(s, e) \in Seq(S)
           /\ Len(Append(s, e)) = Len(s) + 1
           /\ Append(s, e)[Len(s) + 1] = e
           /\ Elems(Append(s, e)) = Elems(s) \cup {e}
<1>1. /\ Append(s, e) \in Seq(S)
      /\ Len(Append(s, e)) = Len(s) + 1
      /\ \A i \in 1 .. Len(s) : Append(s, e)[i] = s[i]
      /\ Append(s, e)[Len(s) + 1] = e
      /\ Len(s) \in Nat
  BY AppendProperties, LenProperties
<1>2. 1 .. Len(s) + 1 = (1 .. Len(s)) \cup {Len(s) + 1}
  BY <1>1, SMT
<1>3. QED
  BY <1>1, <1>2 DEF Elems

\* Taking the head off splits the elements.
LEMMA ElemsHeadTail ==
    ASSUME NEW S, NEW s \in Seq(S), s # <<>>
    PROVE  /\ Head(s) \in S /\ Tail(s) \in Seq(S)
           /\ Len(Tail(s)) = Len(s) - 1 /\ Len(s) \in Nat \ {0}
           /\ Elems(s) = {Head(s)} \cup Elems(Tail(s))
<1>1. /\ Head(s) \in S /\ Tail(s) \in Seq(S)
      /\ Len(Tail(s)) = Len(s) - 1
      /\ \A i \in 1 .. Len(Tail(s)) : Tail(s)[i] = s[i+1]
      /\ Len(s) \in Nat \ {0}
  BY HeadTailProperties, EmptySeq
<1>2. Head(s) = s[1]
  OBVIOUS
<1>3. ASSUME NEW x \in Elems(s) PROVE x \in {Head(s)} \cup Elems(Tail(s))
  <2>1. PICK i \in 1 .. Len(s) : x = s[i]
    BY <1>3 DEF Elems
  <2>2. CASE i = 1
    BY <1>2, <2>1, <2>2
  <2>3. CASE i # 1
    <3>1. i - 1 \in 1 .. Len(Tail(s)) /\ (i - 1) + 1 = i
      BY <1>1, <2>1, <2>3, SMT
    <3>2. Tail(s)[i - 1] = x
      BY <1>1, <2>1, <3>1
    <3>3. QED
      BY <3>1, <3>2 DEF Elems
  <2>4. QED
    BY <2>2, <2>3
<1>4. ASSUME NEW x \in {Head(s)} \cup Elems(Tail(s)) PROVE x \in Elems(s)
  <2>1. CASE x = Head(s)
    <3>1. 1 \in 1 .. Len(s)
      BY <1>1, SMT
    <3>2. QED
      BY <1>2, <2>1, <3>1 DEF Elems
  <2>2. CASE x \in Elems(Tail(s))
    <3>1. PICK i \in 1 .. Len(Tail(s)) : x = Tail(s)[i]
      BY <2>2 DEF Elems
    <3>2. i + 1 \in 1 .. Len(s) /\ x = s[i+1]
      BY <1>1, <3>1, SMT
    <3>3. QED
      BY <3>2 DEF Elems
  <2>3. QED
    BY <1>4, <2>1, <2>2
<1>5. QED
  BY <1>1, <1>3, <1>4

\* Concatenation unites the elements.
LEMMA ElemsConcat ==
    ASSUME NEW S, NEW s \in Seq(S), NEW t \in Seq(S)
    PROVE  /\ s \o t \in Seq(S)
           /\ Len(s \o t) = Len(s) + Len(t)
           /\ Elems(s \o t) = Elems(s) \cup Elems(t)
<1>1. /\ s \o t \in Seq(S)
      /\ Len(s \o t) = Len(s) + Len(t)
      /\ \A i \in 1 .. Len(s) + Len(t) :
            (s \o t)[i] = IF i <= Len(s) THEN s[i] ELSE t[i - Len(s)]
      /\ Len(s) \in Nat /\ Len(t) \in Nat
  BY ConcatProperties, LenProperties
<1>2. ASSUME NEW x \in Elems(s \o t) PROVE x \in Elems(s) \cup Elems(t)
  <2>1. PICK i \in 1 .. Len(s) + Len(t) : x = (s \o t)[i]
    BY <1>1, <1>2 DEF Elems
  <2>2. CASE i <= Len(s)
    <3>1. i \in 1 .. Len(s) /\ x = s[i]
      BY <1>1, <2>1, <2>2, SMT
    <3>2. QED
      BY <3>1 DEF Elems
  <2>3. CASE ~(i <= Len(s))
    <3>1. i - Len(s) \in 1 .. Len(t) /\ x = t[i - Len(s)]
      BY <1>1, <2>1, <2>3, SMT
    <3>2. QED
      BY <3>1 DEF Elems
  <2>4. QED
    BY <2>2, <2>3
<1>3. ASSUME NEW x \in Elems(s) PROVE x \in Elems(s \o t)
  <2>1. PICK i \in 1 .. Len(s) : x = s[i]
    BY <1>3 DEF Elems
  <2>2. i \in 1 .. Len(s \o t) /\ (s \o t)[i] = x
    BY <1>1, <2>1, SMT
  <2>3. QED
    BY <2>2 DEF Elems
<1>4. ASSUME NEW x \in Elems(t) PROVE x \in Elems(s \o t)
  <2>1. PICK i \in 1 .. Len(t) : x = t[i]
    BY <1>4 DEF Elems
  <2>2. i + Len(s) \in 1 .. Len(s \o t) /\ (s \o t)[i + Len(s)] = x
    BY <1>1, <2>1, SMT
  <2>3. QED
    BY <2>2 DEF Elems
<1>5. QED
  BY <1>1, <1>2, <1>3, <1>4

\* Cutting a sequence in two shares the elements out.
LEMMA ElemsSplit ==
    ASSUME NEW S, NEW s \in Seq(S), NEW k \in 0 .. Len(s)
    PROVE  /\ SubSeq(s, 1, k) \in Seq(S) /\ Len(SubSeq(s, 1, k)) = k
           /\ SubSeq(s, k + 1, Len(s)) \in Seq(S)
           /\ Len(SubSeq(s, k + 1, Len(s))) = Len(s) - k
           /\ Elems(SubSeq(s, 1, k)) \cup Elems(SubSeq(s, k + 1, Len(s))) = Elems(s)
<1>1. Len(s) \in Nat /\ k \in Nat /\ k <= Len(s)
  BY LenProperties, SMT
<1>2. /\ \A i \in 1 .. k : s[i] \in S
      /\ \A i \in k + 1 .. Len(s) : s[i] \in S
  <2>1. \A i \in 1 .. k : i \in 1 .. Len(s)
    BY <1>1, SMT
  <2>2. \A i \in k + 1 .. Len(s) : i \in 1 .. Len(s)
    BY <1>1, SMT
  <2>3. QED
    BY <2>1, <2>2, ElementOfSeq
<1>3. SubSeq(s, 1, k) \in Seq(S) /\ Len(SubSeq(s, 1, k)) = k
  <2>1. /\ SubSeq(s, 1, k) \in Seq(S)
        /\ Len(SubSeq(s, 1, k)) = IF 1 <= k THEN k - 1 + 1 ELSE 0
    BY <1>1, <1>2, SubSeqProperties
  <2>2. QED
    BY <1>1, <2>1, SMT
<1>4. /\ SubSeq(s, k + 1, Len(s)) \in Seq(S)
      /\ Len(SubSeq(s, k + 1, Len(s))) = Len(s) - k
  <2>1. k + 1 \in Int /\ Len(s) \in Int
    BY <1>1, SMT
  <2>2. /\ SubSeq(s, k + 1, Len(s)) \in Seq(S)
        /\ Len(SubSeq(s, k + 1, Len(s)))
             = IF k + 1 <= Len(s) THEN Len(s) - (k + 1) + 1 ELSE 0
    BY <1>2, <2>1, SubSeqProperties
  <2>3. QED
    BY <1>1, <2>2, SMT
<1>5. SubSeq(s, 1, k) \o SubSeq(s, k + 1, Len(s)) = s
  <2>1. /\ 1 \in 1 .. Len(s) + 1 /\ k \in 1 - 1 .. Len(s) /\ Len(s) \in k .. Len(s)
    BY <1>1, SMT
  <2>2. SubSeq(s, 1, k) \o SubSeq(s, k + 1, Len(s)) = SubSeq(s, 1, Len(s))
    BY <2>1, ConcatAdjacentSubSeq
  <2>3. QED
    BY <2>2, SubSeqFull
<1>6. QED
  BY <1>3, <1>4, <1>5, ElemsConcat

\* The recursive definition of KeptUpTo has a solution, so it may be unfolded.
LEMMA KeptUpToUnfolds ==
    ASSUME NEW S, NEW s \in Seq(S), NEW T
    PROVE  /\ KeptUpTo(s, T)[0] = <<>>
           /\ \A i \in 0 .. Len(s) : i + 1 <= Len(s) =>
                KeptUpTo(s, T)[i + 1] =
                    IF s[i + 1] \in T THEN Append(KeptUpTo(s, T)[i], s[i + 1])
                                      ELSE KeptUpTo(s, T)[i]
<1> DEFINE Body(f, i) == IF i = 0 THEN <<>>
                         ELSE IF s[i] \in T THEN Append(f[i-1], s[i]) ELSE f[i-1]
           Solved == {n \in 0 .. Len(s) : \E f : f = [i \in 0 .. n |-> Body(f, i)]}
<1>1. Len(s) \in Nat
  BY LenProperties
<1>2. 0 \in Solved
  <2>1. [i \in 0 .. 0 |-> <<>>] = [i \in 0 .. 0 |-> Body([j \in 0 .. 0 |-> <<>>], i)]
    <3>1. \A i \in 0 .. 0 : i = 0
      BY SMT
    <3>2. \A i \in 0 .. 0 : Body([j \in 0 .. 0 |-> <<>>], i) = <<>>
      BY <3>1
    <3>3. QED
      BY <3>2
  <2>2. 0 \in 0 .. Len(s)
    BY <1>1, SMT
  <2>3. QED
    BY <2>1, <2>2
<1>3. ASSUME NEW n \in 0 .. Len(s), n + 1 <= Len(s), n \in Solved
      PROVE  n + 1 \in Solved
  <2>1. PICK f : f = [i \in 0 .. n |-> Body(f, i)]
    BY <1>3
  <2> DEFINE g == [i \in 0 .. n + 1 |->
                    IF i = n + 1 THEN Body(f, i) ELSE f[i]]
  <2>2. \A i \in 0 .. n + 1 : i # n + 1 => i \in 0 .. n
    BY <1>1, SMT
  <2>3. \A i \in 0 .. n + 1 : i # 0 => i - 1 \in 0 .. n + 1 /\ i - 1 # n + 1
    BY <1>1, SMT
  <2>4. \A i \in 0 .. n + 1 : i # 0 => g[i - 1] = f[i - 1]
    BY <2>3
  <2>5. \A i \in 0 .. n + 1 : Body(g, i) = Body(f, i)
    BY <2>4
  <2>6. \A i \in 0 .. n : f[i] = Body(f, i)
    BY <2>1
  <2>7. \A i \in 0 .. n + 1 : g[i] = Body(g, i)
    BY <2>2, <2>5, <2>6
  <2>8. g = [i \in 0 .. n + 1 |-> Body(g, i)]
    <3> HIDE DEF Body
    <3>1. QED
      BY <2>7
  <2>9. n + 1 \in 0 .. Len(s)
    BY <1>1, <1>3, SMT
  <2>10. QED
    <3> HIDE DEF Body, g
    <3>1. QED
      BY <2>8, <2>9
<1>4. Len(s) \in Solved
  <2> HIDE DEF Solved
  <2>1. \A i \in 0 .. Len(s) : i \in Solved
    BY <1>1, <1>2, <1>3, InductionUpTo
  <2>2. QED
    BY <1>1, <2>1, SMT
<1>5. PICK h : h = [i \in 0 .. Len(s) |-> Body(h, i)]
  BY <1>4
<1>6. KeptUpTo(s, T) = [i \in 0 .. Len(s) |-> Body(KeptUpTo(s, T), i)]
  BY <1>5 DEF KeptUpTo
<1>7. \A i \in 0 .. Len(s) : KeptUpTo(s, T)[i] = Body(KeptUpTo(s, T), i)
  <2> HIDE DEF Body
  <2>1. QED
    BY <1>6, Zenon
<1>8. 0 \in 0 .. Len(s)
  BY <1>1, SMT
<1>9. \A i \in 0 .. Len(s) : i + 1 <= Len(s) =>
          i + 1 \in 0 .. Len(s) /\ i + 1 # 0 /\ (i + 1) - 1 = i
  BY <1>1, SMT
<1>10. QED
  BY <1>7, <1>8, <1>9

\* The first n elements, and what has been kept of them.
FirstElems(s, n) == {s[i] : i \in 1 .. n}

LEMMA KeptUpToProperties ==
    ASSUME NEW S, NEW s \in Seq(S), NEW T
    PROVE  \A n \in 0 .. Len(s) :
              /\ KeptUpTo(s, T)[n] \in Seq(S)
              /\ Len(KeptUpTo(s, T)[n]) <= n
              /\ Elems(KeptUpTo(s, T)[n]) = FirstElems(s, n) \cap T
<1> DEFINE K == KeptUpTo(s, T)
           Good == {n \in 0 .. Len(s) :
                      /\ K[n] \in Seq(S)
                      /\ Len(K[n]) <= n
                      /\ Elems(K[n]) = FirstElems(s, n) \cap T}
<1>1. Len(s) \in Nat
  BY LenProperties
<1>2. 0 \in Good
  <2>1. K[0] = <<>>
    BY KeptUpToUnfolds
  <2>2. <<>> \in Seq(S) /\ Len(<<>>) <= 0 /\ 0 \in 0 .. Len(s)
    BY <1>1, EmptySeq, SMT
  <2>3. Elems(<<>>) = {} /\ FirstElems(s, 0) = {}
    <3>1. Elems(<<>>) = {}
      BY <2>2, ElemsEmpty
    <3>2. 1 .. 0 = {}
      BY SMT
    <3>3. QED
      BY <3>1, <3>2 DEF FirstElems
  <2>4. QED
    BY <2>1, <2>2, <2>3
<1>3. ASSUME NEW n \in 0 .. Len(s), n + 1 <= Len(s), n \in Good
      PROVE  n + 1 \in Good
  <2>1. n + 1 \in 1 .. Len(s) /\ n + 1 \in 0 .. Len(s)
    BY <1>1, <1>3, SMT
  <2>2. s[n + 1] \in S
    BY <2>1, ElementOfSeq
  <2>3. FirstElems(s, n + 1) = FirstElems(s, n) \cup {s[n + 1]}
    <3>1. 1 .. n + 1 = (1 .. n) \cup {n + 1}
      BY <1>1, SMT
    <3>2. QED
      BY <3>1 DEF FirstElems
  <2>4. K[n + 1] = IF s[n + 1] \in T THEN Append(K[n], s[n + 1]) ELSE K[n]
    BY <1>3, KeptUpToUnfolds
  <2>5. /\ K[n] \in Seq(S)
        /\ Len(K[n]) <= n
        /\ Elems(K[n]) = FirstElems(s, n) \cap T
        /\ Len(K[n]) \in Nat
    BY <1>3, LenProperties
  <2>6. CASE s[n + 1] \in T
    <3> HIDE DEF K
    <3>1. /\ K[n + 1] \in Seq(S)
          /\ Len(K[n + 1]) = Len(K[n]) + 1
          /\ Elems(K[n + 1]) = Elems(K[n]) \cup {s[n + 1]}
      BY <2>2, <2>4, <2>5, <2>6, ElemsAppend
    <3>2. Len(K[n + 1]) <= n + 1
      BY <2>5, <3>1, SMT
    <3>3. QED
      BY <2>1, <2>3, <2>5, <2>6, <3>1, <3>2
  <2>7. CASE s[n + 1] \notin T
    <3> HIDE DEF K
    <3>1. K[n + 1] = K[n]
      BY <2>4, <2>7
    <3>2. Len(K[n]) <= n + 1
      BY <2>5, SMT
    <3>3. QED
      BY <2>1, <2>3, <2>5, <2>7, <3>1, <3>2
  <2>8. QED
    BY <2>6, <2>7
<1>4. \A i \in 0 .. Len(s) : i \in Good
  <2> HIDE DEF Good
  <2>1. QED
    BY <1>1, <1>2, <1>3, InductionUpTo
<1>5. QED
  BY <1>4

\* Filtering keeps exactly the elements of the set, and makes no sequence longer.
LEMMA FilterProperties ==
    ASSUME NEW S, NEW s \in Seq(S), NEW T
    PROVE  /\ Filter(s, T) \in Seq(S)
           /\ Len(Filter(s, T)) <= Len(s)
           /\ Elems(Filter(s, T)) = Elems(s) \cap T
<1>1. Len(s) \in Nat /\ Len(s) \in 0 .. Len(s)
  BY LenProperties, SMT
<1>2. Elems(s) = FirstElems(s, Len(s))
  BY DEF Elems, FirstElems
<1>3. /\ KeptUpTo(s, T)[Len(s)] \in Seq(S)
      /\ Len(KeptUpTo(s, T)[Len(s)]) <= Len(s)
      /\ Elems(KeptUpTo(s, T)[Len(s)]) = FirstElems(s, Len(s)) \cap T
  BY <1>1, KeptUpToProperties
<1>4. QED
  BY <1>2, <1>3, Zenon DEF Filter

\* Filtering one element more.
LEMMA FilterAppend ==
    ASSUME NEW S, NEW s \in Seq(S), NEW e \in S, NEW T
    PROVE  Filter(Append(s, e), T) =
              IF e \in T THEN Append(Filter(s, T), e) ELSE Filter(s, T)
<1> DEFINE t == Append(s, e)
           Good == {n \in 0 .. Len(s) : KeptUpTo(t, T)[n] = KeptUpTo(s, T)[n]}
<1>1. /\ t \in Seq(S) /\ Len(t) = Len(s) + 1 /\ Len(s) \in Nat
      /\ \A i \in 1 .. Len(s) : t[i] = s[i]
      /\ t[Len(s) + 1] = e
  BY AppendProperties, LenProperties
<1> HIDE DEF t
<1>2. /\ 0 \in 0 .. Len(s) /\ Len(s) \in 0 .. Len(s)
      /\ Len(s) \in 0 .. Len(t) /\ Len(s) + 1 <= Len(t)
      /\ \A n \in 0 .. Len(s) : n + 1 <= Len(s) =>
            /\ n \in 0 .. Len(t) /\ n + 1 <= Len(t)
            /\ n + 1 \in 1 .. Len(s) /\ n + 1 \in 0 .. Len(s)
  BY <1>1, SMT
<1>3. 0 \in Good
  BY <1>1, <1>2, KeptUpToUnfolds
<1>4. ASSUME NEW n \in 0 .. Len(s), n + 1 <= Len(s), n \in Good
      PROVE  n + 1 \in Good
  <2>1. KeptUpTo(t, T)[n] = KeptUpTo(s, T)[n] /\ t[n + 1] = s[n + 1]
    BY <1>1, <1>2, <1>4
  <2>2. KeptUpTo(t, T)[n + 1] = IF t[n + 1] \in T
                                  THEN Append(KeptUpTo(t, T)[n], t[n + 1])
                                  ELSE KeptUpTo(t, T)[n]
    BY <1>1, <1>2, <1>4, KeptUpToUnfolds
  <2>3. KeptUpTo(s, T)[n + 1] = IF s[n + 1] \in T
                                  THEN Append(KeptUpTo(s, T)[n], s[n + 1])
                                  ELSE KeptUpTo(s, T)[n]
    BY <1>4, KeptUpToUnfolds
  <2>4. QED
    BY <1>2, <1>4, <2>1, <2>2, <2>3
<1>5. Len(s) \in Good
  <2> HIDE DEF Good
  <2>1. \A n \in 0 .. Len(s) : n \in Good
    BY <1>1, <1>3, <1>4, InductionUpTo
  <2>2. QED
    BY <1>2, <2>1
<1>6. KeptUpTo(t, T)[Len(s)] = Filter(s, T)
  BY <1>5 DEF Filter
<1>7. KeptUpTo(t, T)[Len(s) + 1] = IF t[Len(s) + 1] \in T
                                     THEN Append(KeptUpTo(t, T)[Len(s)], t[Len(s) + 1])
                                     ELSE KeptUpTo(t, T)[Len(s)]
  BY <1>1, <1>2, KeptUpToUnfolds
<1>8. Filter(t, T) = KeptUpTo(t, T)[Len(s) + 1]
  BY <1>1 DEF Filter
<1>9. QED
  BY <1>1, <1>6, <1>7, <1>8 DEF t


------------------------------------------------------------------------------
\* Sequences in which no element of T comes twice.
Once(s, T) == \A i, j \in 1 .. Len(s) : s[i] = s[j] /\ s[i] \in T => i = j

\* A new element may be appended.
LEMMA OnceAppend ==
    ASSUME NEW S, NEW s \in Seq(S), NEW e \in S, NEW T, Once(s, T),
           e \in T => e \notin Elems(s)
    PROVE  Once(Append(s, e), T)
<1>1. /\ Len(Append(s, e)) = Len(s) + 1
      /\ \A i \in 1 .. Len(s) : Append(s, e)[i] = s[i]
      /\ Append(s, e)[Len(s) + 1] = e
      /\ Len(s) \in Nat
  BY AppendProperties, LenProperties
<1>2. \A i \in 1 .. Len(s) + 1 : i \in 1 .. Len(s) \/ i = Len(s) + 1
  BY <1>1, SMT
<1>3. \A i \in 1 .. Len(s) : s[i] = e => e \notin T
  BY DEF Elems
<1>4. SUFFICES ASSUME NEW i \in 1 .. Len(s) + 1, NEW j \in 1 .. Len(s) + 1,
                      Append(s, e)[i] = Append(s, e)[j], Append(s, e)[i] \in T
               PROVE  i = j
  BY <1>1 DEF Once
<1>5. QED
  BY <1>1, <1>2, <1>3, <1>4 DEF Once

\* The head does not come again in the tail.
LEMMA OnceHeadTail ==
    ASSUME NEW S, NEW s \in Seq(S), s # <<>>, NEW T, Once(s, T)
    PROVE  /\ Once(Tail(s), T)
           /\ Head(s) \in T => Head(s) \notin Elems(Tail(s))
<1>1. /\ Len(Tail(s)) = Len(s) - 1
      /\ \A i \in 1 .. Len(Tail(s)) : Tail(s)[i] = s[i+1]
      /\ Len(s) \in Nat \ {0}
      /\ Head(s) = s[1]
  BY HeadTailProperties, EmptySeq
<1>2. \A i \in 1 .. Len(Tail(s)) : i + 1 \in 1 .. Len(s) /\ i + 1 # 1
  BY <1>1, SMT
<1>3. 1 \in 1 .. Len(s)
  BY <1>1, SMT
<1>4. Once(Tail(s), T)
  <2>1. SUFFICES ASSUME NEW i \in 1 .. Len(Tail(s)), NEW j \in 1 .. Len(Tail(s)),
                        Tail(s)[i] = Tail(s)[j], Tail(s)[i] \in T
                 PROVE  i = j
    BY DEF Once
  <2>2. i + 1 = j + 1
    BY <1>1, <1>2, <2>1 DEF Once
  <2>3. QED
    BY <2>2, SMT
<1>5. ASSUME Head(s) \in T, Head(s) \in Elems(Tail(s)) PROVE FALSE
  <2>1. PICK i \in 1 .. Len(Tail(s)) : Tail(s)[i] = Head(s)
    BY <1>5 DEF Elems
  <2>2. QED
    BY <1>1, <1>2, <1>3, <1>5, <2>1 DEF Once
<1>6. QED
  BY <1>4, <1>5

\* Two sequences without a common element of T.
LEMMA OnceConcat ==
    ASSUME NEW S, NEW s \in Seq(S), NEW t \in Seq(S), NEW T, Once(s, T), Once(t, T),
           \A e \in T : ~(e \in Elems(s) /\ e \in Elems(t))
    PROVE  Once(s \o t, T)
<1>1. /\ Len(s \o t) = Len(s) + Len(t)
      /\ \A i \in 1 .. Len(s) + Len(t) :
            (s \o t)[i] = IF i <= Len(s) THEN s[i] ELSE t[i - Len(s)]
      /\ Len(s) \in Nat /\ Len(t) \in Nat
  BY ConcatProperties, LenProperties
<1>2. \A i \in 1 .. Len(s) + Len(t) :
         /\ i <= Len(s) => i \in 1 .. Len(s)
         /\ ~(i <= Len(s)) => i - Len(s) \in 1 .. Len(t)
  BY <1>1, SMT
<1>3. \A i \in 1 .. Len(s), j \in 1 .. Len(t) : s[i] = t[j] => s[i] \notin T
  BY DEF Elems
<1>4. \A i, j \in 1 .. Len(s) + Len(t) : i - Len(s) = j - Len(s) => i = j
  BY <1>1, SMT
<1>5. SUFFICES ASSUME NEW i \in 1 .. Len(s) + Len(t), NEW j \in 1 .. Len(s) + Len(t),
                      (s \o t)[i] = (s \o t)[j], (s \o t)[i] \in T
               PROVE  i = j
  BY <1>1 DEF Once
<1>6. CASE i <= Len(s) /\ j <= Len(s)
  BY <1>1, <1>2, <1>5, <1>6 DEF Once
<1>7. CASE ~(i <= Len(s)) /\ ~(j <= Len(s))
  <2>1. i - Len(s) = j - Len(s)
    BY <1>1, <1>2, <1>5, <1>7 DEF Once
  <2>2. QED
    BY <1>4, <2>1
<1>8. CASE i <= Len(s) /\ ~(j <= Len(s))
  BY <1>1, <1>2, <1>3, <1>5, <1>8
<1>9. CASE ~(i <= Len(s)) /\ j <= Len(s)
  BY <1>1, <1>2, <1>3, <1>5, <1>9
<1>10. QED
  BY <1>6, <1>7, <1>8, <1>9

\* The two parts of a sequence have no element of T in common.
LEMMA OnceSplit ==
    ASSUME NEW S, NEW s \in Seq(S), NEW k \in 0 .. Len(s), NEW T, Once(s, T)
    PROVE  /\ Once(SubSeq(s, 1, k), T)
           /\ Once(SubSeq(s, k + 1, Len(s)), T)
           /\ \A e \in T : ~(/\ e \in Elems(SubSeq(s, 1, k))
                             /\ e \in Elems(SubSeq(s, k + 1, Len(s))))
<1> DEFINE a == SubSeq(s, 1, k)
           b == SubSeq(s, k + 1, Len(s))
<1>1. /\ Len(s) \in Nat /\ k \in Nat /\ k <= Len(s)
      /\ Len(a) = k /\ Len(b) = Len(s) - k
  BY LenProperties, ElemsSplit, SMT
<1>2. \A i \in 1 .. k : a[i] = s[i]
  BY <1>1, SMT
<1>3. \A i \in 1 .. Len(s) - k : b[i] = s[k + i]
  BY <1>1, SMT
<1> HIDE DEF a, b
<1>4. \A i \in 1 .. k : i \in 1 .. Len(s)
  BY <1>1, SMT
<1>5. \A i \in 1 .. Len(s) - k : k + i \in 1 .. Len(s)
  BY <1>1, SMT
<1>6. Once(a, T)
  BY <1>1, <1>2, <1>4 DEF Once
<1>7. Once(b, T)
  <2>1. \A i, j \in 1 .. Len(s) - k : k + i = k + j => i = j
    BY <1>1, SMT
  <2>2. QED
    BY <1>1, <1>3, <1>5, <2>1 DEF Once
<1>8. \A i \in 1 .. k, j \in 1 .. Len(s) - k : i # k + j
  BY <1>1, SMT
<1>9. ASSUME NEW e \in T, e \in Elems(a), e \in Elems(b) PROVE FALSE
  <2>1. PICK i \in 1 .. k : e = a[i]
    BY <1>1, <1>9 DEF Elems
  <2>2. PICK j \in 1 .. Len(s) - k : e = b[j]
    BY <1>1, <1>9 DEF Elems
  <2>3. s[i] = s[k + j] /\ s[i] \in T
    BY <1>2, <1>3, <2>1, <2>2
  <2>4. QED
    BY <1>4, <1>5, <1>8, <2>3 DEF Once
<1>10. QED
  BY <1>6, <1>7, <1>9 DEF a, b

\* Filtering repeats nothing.
LEMMA OnceFilter ==
    ASSUME NEW S, NEW s \in Seq(S), NEW T, NEW D, Once(s, D)
    PROVE  Once(Filter(s, T), D)
<1> DEFINE K == KeptUpTo(s, T)
           Good == {n \in 0 .. Len(s) : Once(K[n], D)}
<1>1. /\ Len(s) \in Nat /\ 0 \in 0 .. Len(s) /\ Len(s) \in 0 .. Len(s)
      /\ \A n \in 0 .. Len(s) : n + 1 <= Len(s) =>
            /\ n + 1 \in 1 .. Len(s) /\ n + 1 \in 0 .. Len(s)
            /\ \A i \in 1 .. n : i \in 1 .. Len(s) /\ i # n + 1
  BY LenProperties, SMT
<1>2. 0 \in Good
  <2>1. K[0] = <<>>
    BY KeptUpToUnfolds
  <2>2. Once(<<>>, D)
    BY SMT DEF Once
  <2>3. QED
    BY <1>1, <2>1, <2>2
<1>3. ASSUME NEW n \in 0 .. Len(s), n + 1 <= Len(s), n \in Good
      PROVE  n + 1 \in Good
  <2>1. /\ K[n] \in Seq(S) /\ Once(K[n], D)
        /\ Elems(K[n]) = FirstElems(s, n) \cap T
    <3>1. Once(K[n], D)
      BY <1>3
    <3>2. QED
      BY <3>1, KeptUpToProperties
  <2>2. s[n + 1] \in S
    BY <1>1, <1>3, ElementOfSeq
  <2>3. K[n + 1] = IF s[n + 1] \in T THEN Append(K[n], s[n + 1]) ELSE K[n]
    BY <1>3, KeptUpToUnfolds
  <2> HIDE DEF K
  <2>4. s[n + 1] \in D => s[n + 1] \notin Elems(K[n])
    <3>1. SUFFICES ASSUME s[n + 1] \in D, NEW i \in 1 .. n, s[n + 1] = s[i] PROVE FALSE
      BY <2>1 DEF FirstElems
    <3>2. QED
      BY <1>1, <1>3, <3>1 DEF Once
  <2>5. Once(K[n + 1], D)
    BY <2>1, <2>2, <2>3, <2>4, OnceAppend
  <2>6. QED
    BY <1>1, <1>3, <2>5
<1>4. Len(s) \in Good
  <2> HIDE DEF Good
  <2>1. \A n \in 0 .. Len(s) : n \in Good
    BY <1>1, <1>2, <1>3, InductionUpTo
  <2>2. QED
    BY <1>1, <2>1
<1>5. QED
  BY <1>4 DEF Filter

------------------------------------------------------------------------------
\* Sequences whose elements are in order, R being the pairs that may come first
\* and later.

Pairwise(s, R) == \A i, j \in 1 .. Len(s) : i < j => <<s[i], s[j]>> \in R

LEMMA PairwiseAppend ==
    ASSUME NEW S, NEW s \in Seq(S), NEW e \in S, NEW R, Pairwise(s, R),
           \A f \in Elems(s) : <<f, e>> \in R
    PROVE  Pairwise(Append(s, e), R)
<1>1. /\ Len(Append(s, e)) = Len(s) + 1
      /\ \A i \in 1 .. Len(s) : Append(s, e)[i] = s[i]
      /\ Append(s, e)[Len(s) + 1] = e
      /\ Len(s) \in Nat
  BY AppendProperties, LenProperties
<1>2. \A i, j \in 1 .. Len(s) + 1 : i < j =>
         i \in 1 .. Len(s) /\ (j \in 1 .. Len(s) \/ j = Len(s) + 1)
  BY <1>1, SMT
<1>3. \A i \in 1 .. Len(s) : <<s[i], e>> \in R
  BY DEF Elems
<1>4. QED
  BY <1>1, <1>2, <1>3 DEF Pairwise

LEMMA PairwiseHeadTail ==
    ASSUME NEW S, NEW s \in Seq(S), s # <<>>, NEW R, Pairwise(s, R)
    PROVE  /\ Pairwise(Tail(s), R)
           /\ \A g \in Elems(Tail(s)) : <<Head(s), g>> \in R
<1>1. /\ Len(Tail(s)) = Len(s) - 1
      /\ \A i \in 1 .. Len(Tail(s)) : Tail(s)[i] = s[i+1]
      /\ Len(s) \in Nat \ {0}
      /\ Head(s) = s[1]
  BY HeadTailProperties, EmptySeq
<1>2. /\ 1 \in 1 .. Len(s)
      /\ \A i \in 1 .. Len(Tail(s)) : i + 1 \in 1 .. Len(s) /\ 1 < i + 1
      /\ \A i, j \in 1 .. Len(Tail(s)) : i < j => i + 1 < j + 1
  BY <1>1, SMT
<1>3. QED
  BY <1>1, <1>2 DEF Pairwise, Elems

\* Two sequences one after the other.
LEMMA PairwiseConcat ==
    ASSUME NEW S, NEW s \in Seq(S), NEW t \in Seq(S), NEW R,
           Pairwise(s, R), Pairwise(t, R),
           \A f \in Elems(s), g \in Elems(t) : <<f, g>> \in R
    PROVE  Pairwise(s \o t, R)
<1>1. /\ Len(s \o t) = Len(s) + Len(t)
      /\ \A i \in 1 .. Len(s) + Len(t) :
            (s \o t)[i] = IF i <= Len(s) THEN s[i] ELSE t[i - Len(s)]
      /\ Len(s) \in Nat /\ Len(t) \in Nat
  BY ConcatProperties, LenProperties
<1>2. \A i, j \in 1 .. Len(s) + Len(t) : i < j =>
         \/ i <= Len(s) /\ j <= Len(s) /\ i \in 1 .. Len(s) /\ j \in 1 .. Len(s)
         \/ i <= Len(s) /\ ~(j <= Len(s)) /\ i \in 1 .. Len(s) /\ j - Len(s) \in 1 .. Len(t)
         \/ /\ ~(i <= Len(s)) /\ ~(j <= Len(s)) /\ i - Len(s) < j - Len(s)
            /\ i - Len(s) \in 1 .. Len(t) /\ j - Len(s) \in 1 .. Len(t)
  BY <1>1, SMT
<1>3. \A i \in 1 .. Len(s), j \in 1 .. Len(t) : <<s[i], t[j]>> \in R
  BY DEF Elems
<1>4. SUFFICES ASSUME NEW i \in 1 .. Len(s) + Len(t), NEW j \in 1 .. Len(s) + Len(t), i < j
               PROVE  <<(s \o t)[i], (s \o t)[j]>> \in R
  BY <1>1 DEF Pairwise
<1>5. CASE i <= Len(s) /\ j <= Len(s)
  BY <1>1, <1>2, <1>4, <1>5 DEF Pairwise
<1>6. CASE i <= Len(s) /\ ~(j <= Len(s))
  BY <1>1, <1>2, <1>3, <1>4, <1>6
<1>7. CASE ~(i <= Len(s)) /\ ~(j <= Len(s))
  <2>1. <<t[i - Len(s)], t[j - Len(s)]>> \in R
    BY <1>2, <1>4, <1>7 DEF Pairwise
  <2>2. QED
    BY <1>1, <1>7, <2>1
<1>8. QED
  BY <1>2, <1>4, <1>5, <1>6, <1>7

\* Elements picked out by a set keep their order.
LEMMA PairwiseFilter ==
    ASSUME NEW S, NEW s \in Seq(S), NEW T, NEW R, Pairwise(s, R)
    PROVE  Pairwise(Filter(s, T), R)
<1> DEFINE K == KeptUpTo(s, T)
           Good == {n \in 0 .. Len(s) : Pairwise(K[n], R)}
<1>1. /\ Len(s) \in Nat /\ 0 \in 0 .. Len(s) /\ Len(s) \in 0 .. Len(s)
      /\ \A n \in 0 .. Len(s) : n + 1 <= Len(s) =>
            /\ n + 1 \in 1 .. Len(s) /\ n + 1 \in 0 .. Len(s)
            /\ \A i \in 1 .. n : i \in 1 .. Len(s) /\ i < n + 1
  BY LenProperties, SMT
<1>2. 0 \in Good
  <2>1. K[0] = <<>>
    BY KeptUpToUnfolds
  <2>2. Pairwise(<<>>, R)
    BY SMT DEF Pairwise
  <2>3. QED
    BY <1>1, <2>1, <2>2
<1>3. ASSUME NEW n \in 0 .. Len(s), n + 1 <= Len(s), n \in Good
      PROVE  n + 1 \in Good
  <2>1. /\ K[n] \in Seq(S) /\ Pairwise(K[n], R)
        /\ Elems(K[n]) = FirstElems(s, n) \cap T
    <3>1. Pairwise(K[n], R)
      BY <1>3
    <3>2. QED
      BY <3>1, KeptUpToProperties
  <2>2. s[n + 1] \in S
    BY <1>1, <1>3, ElementOfSeq
  <2>3. K[n + 1] = IF s[n + 1] \in T THEN Append(K[n], s[n + 1]) ELSE K[n]
    BY <1>3, KeptUpToUnfolds
  <2> HIDE DEF K
  <2>4. \A f \in Elems(K[n]) : <<f, s[n + 1]>> \in R
    <3>1. SUFFICES ASSUME NEW i \in 1 .. n PROVE <<s[i], s[n + 1]>> \in R
      BY <2>1 DEF FirstElems
    <3>2. QED
      BY <1>1, <1>3, <3>1 DEF Pairwise
  <2>5. Pairwise(K[n + 1], R)
    BY <2>1, <2>2, <2>3, <2>4, PairwiseAppend
  <2>6. QED
    BY <1>1, <1>3, <2>5
<1>4. Len(s) \in Good
  <2> HIDE DEF Good
  <2>1. \A n \in 0 .. Len(s) : n \in Good
    BY <1>1, <1>2, <1>3, InductionUpTo
  <2>2. QED
    BY <1>1, <2>1
<1>5. QED
  BY <1>4 DEF Filter

\* Elements that are not in the set make no difference in front.
LEMMA FilterDropsFront ==
    ASSUME NEW S, NEW s \in Seq(S), NEW T, NEW m \in 0 .. Len(s),
           \A i \in 1 .. m : s[i] \notin T
    PROVE  Filter(s, T) = Filter(SubSeq(s, m + 1, Len(s)), T)
<1> DEFINE t == SubSeq(s, m + 1, Len(s))
           Front == {n \in 0 .. m : KeptUpTo(s, T)[n] = <<>>}
           Rest == {n \in 0 .. Len(t) : KeptUpTo(s, T)[m + n] = KeptUpTo(t, T)[n]}
<1>1. Len(s) \in Nat /\ m \in Nat /\ m <= Len(s)
  BY LenProperties, SMT
<1>2. /\ t \in Seq(S) /\ Len(t) = Len(s) - m /\ Len(t) \in Nat
      /\ \A n \in 1 .. Len(t) : t[n] = s[m + n]
  <2>1. m + 1 \in Int /\ Len(s) \in Int /\ \A i \in m + 1 .. Len(s) : i \in 1 .. Len(s)
    BY <1>1, SMT
  <2>2. \A i \in m + 1 .. Len(s) : s[i] \in S
    BY <2>1, ElementOfSeq
  <2>3. /\ t \in Seq(S)
        /\ Len(t) = IF m + 1 <= Len(s) THEN Len(s) - (m + 1) + 1 ELSE 0
        /\ \A i \in 1 .. Len(s) - (m + 1) + 1 : t[i] = s[m + 1 + i - 1]
    BY <2>1, <2>2, SubSeqProperties
  <2> HIDE DEF t
  <2>4. Len(t) = Len(s) - m /\ Len(t) \in Nat
    BY <1>1, <2>3, SMT
  <2>5. \A n \in 1 .. Len(t) : n \in 1 .. Len(s) - (m + 1) + 1 /\ m + 1 + n - 1 = m + n
    BY <1>1, <2>4, SMT
  <2>6. QED
    BY <2>3, <2>4, <2>5
<1> HIDE DEF t
<1>3. KeptUpTo(s, T)[m] = <<>>
  <2>1. 0 \in Front
    BY <1>1, KeptUpToUnfolds, SMT
  <2>2. ASSUME NEW n \in 0 .. m, n + 1 <= m, n \in Front PROVE n + 1 \in Front
    <3>1. /\ n \in 0 .. Len(s) /\ n + 1 <= Len(s) /\ n + 1 \in 1 .. m
          /\ n + 1 \in 0 .. m
      BY <1>1, <2>2, SMT
    <3>2. KeptUpTo(s, T)[n + 1] = KeptUpTo(s, T)[n]
      BY <3>1, KeptUpToUnfolds
    <3>3. QED
      BY <2>2, <3>1, <3>2
  <2> HIDE DEF Front
  <2>3. \A n \in 0 .. m : n \in Front
    BY <1>1, <2>1, <2>2, InductionUpTo
  <2>4. QED
    BY <1>1, <2>3, SMT DEF Front
<1>4. \A n \in 0 .. Len(t) : n \in Rest
  <2>1. 0 \in Rest
    <3>1. m + 0 = m /\ 0 \in 0 .. Len(t)
      BY <1>1, <1>2, SMT
    <3>2. QED
      BY <1>2, <1>3, <3>1, KeptUpToUnfolds
  <2>2. ASSUME NEW n \in 0 .. Len(t), n + 1 <= Len(t), n \in Rest PROVE n + 1 \in Rest
    <3>1. /\ m + n \in 0 .. Len(s) /\ (m + n) + 1 <= Len(s) /\ m + (n + 1) = (m + n) + 1
          /\ n + 1 \in 1 .. Len(t) /\ n + 1 \in 0 .. Len(t)
      BY <1>1, <1>2, <2>2, SMT
    <3>2. t[n + 1] = s[(m + n) + 1]
      BY <1>2, <3>1
    <3>3. KeptUpTo(s, T)[(m + n) + 1] =
              IF s[(m + n) + 1] \in T THEN Append(KeptUpTo(s, T)[m + n], s[(m + n) + 1])
                                      ELSE KeptUpTo(s, T)[m + n]
      BY <3>1, KeptUpToUnfolds
    <3>4. KeptUpTo(t, T)[n + 1] =
              IF t[n + 1] \in T THEN Append(KeptUpTo(t, T)[n], t[n + 1])
                                ELSE KeptUpTo(t, T)[n]
      BY <1>2, <2>2, KeptUpToUnfolds
    <3>5. KeptUpTo(s, T)[m + n] = KeptUpTo(t, T)[n]
      BY <2>2
    <3>6. QED
      BY <3>1, <3>2, <3>3, <3>4, <3>5
  <2> HIDE DEF Rest
  <2>3. QED
    BY <1>2, <2>1, <2>2, InductionUpTo
<1>5. Len(t) \in 0 .. Len(t) /\ m + Len(t) = Len(s)
  BY <1>1, <1>2, SMT
<1>6. KeptUpTo(s, T)[Len(s)] = KeptUpTo(t, T)[Len(t)]
  BY <1>4, <1>5
<1>7. QED
  BY <1>6, Zenon DEF Filter, t

\* Sets that agree on the elements filter alike.
LEMMA FilterAgrees ==
    ASSUME NEW S, NEW s \in Seq(S), NEW T, NEW U,
           \A e \in Elems(s) : e \in T <=> e \in U
    PROVE  Filter(s, T) = Filter(s, U)
<1> DEFINE Same == {n \in 0 .. Len(s) : KeptUpTo(s, T)[n] = KeptUpTo(s, U)[n]}
<1>1. Len(s) \in Nat /\ Len(s) \in 0 .. Len(s)
  BY LenProperties, SMT
<1>2. 0 \in Same
  BY <1>1, KeptUpToUnfolds, SMT
<1>3. ASSUME NEW n \in 0 .. Len(s), n + 1 <= Len(s), n \in Same PROVE n + 1 \in Same
  <2>1. n + 1 \in 1 .. Len(s) /\ n + 1 \in 0 .. Len(s)
    BY <1>1, <1>3, SMT
  <2>2. s[n + 1] \in T <=> s[n + 1] \in U
    BY <2>1 DEF Elems
  <2>3. KeptUpTo(s, T)[n + 1] =
            IF s[n + 1] \in T THEN Append(KeptUpTo(s, T)[n], s[n + 1])
                              ELSE KeptUpTo(s, T)[n]
    BY <1>3, KeptUpToUnfolds
  <2>4. KeptUpTo(s, U)[n + 1] =
            IF s[n + 1] \in U THEN Append(KeptUpTo(s, U)[n], s[n + 1])
                              ELSE KeptUpTo(s, U)[n]
    BY <1>3, KeptUpToUnfolds
  <2>5. QED
    BY <1>3, <2>1, <2>2, <2>3, <2>4
<1>4. Len(s) \in Same
  <2> HIDE DEF Same
  <2>1. \A n \in 0 .. Len(s) : n \in Same
    BY <1>1, <1>2, <1>3, InductionUpTo
  <2>2. QED
    BY <1>1, <2>1
<1>5. QED
  BY <1>4, Zenon DEF Filter
==============================================================================
