---------------------------- MODULE WeightedChoice ----------------------------
(***************************************************************************)
(* How Ipv4GlobalRouting::LookupGlobal turns the hash of a flow into the   *)
(* index of a next hop: in proportion to a list of weights, or evenly.     *)
(* Indices start at 1.                                                     *)
(***************************************************************************)
EXTENDS Integers, Sequences

CONSTANT HashRange   \* number of values of h32: 2^32 in the code

ASSUME HashRangeAssumption == HashRange \in Nat \ {0}

Hash == 0 .. (HashRange - 1)

\* Sums of the first k weights, k from 0.
PrefixSums(w) ==
    LET acc[k \in 0 .. Len(w)] == IF k = 0 THEN 0 ELSE acc[k - 1] + w[k]
    IN  acc
Total(w) == PrefixSums(w)[Len(w)]

\* "(static_cast<uint64_t>(h32) * total) >> 32": the product has twice the bits
\* of the hash.
Scaled(h, total) == ((h * total) % (HashRange * HashRange)) \div HashRange

\* Mutant of Reaches: the comparison is off by one.
ReachesOrMeets(w, k, r) == r <= PrefixSums(w)[k]

Reaches(w, k, r) == r < PrefixSums(w)[k]

\* The loop over the weights: the first one whose running sum exceeds r, and the
\* last weight if none does.
ChooseWeighted(w, h) ==
    LET r == Scaled(h, Total(w))
        reached == {k \in 1 .. Len(w) : Reaches(w, k, r)}
    IN  IF reached = {} THEN Len(w)
        ELSE CHOOSE k \in reached : \A j \in reached : k <= j

\* Equal shares when there are no usable weights.
ChooseEvenly(n, h) == (h * n) \div HashRange + 1
==============================================================================
