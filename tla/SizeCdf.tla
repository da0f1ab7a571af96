------------------------------- MODULE SizeCdf -------------------------------
(***************************************************************************)
(* Flow sizes of the experiment driver: LoadSizeCdf reads a distribution   *)
(* of sizes and makes it a table of increasing percentages, and            *)
(* SampleSizeFromCdf draws sizes by interpolation in that table.           *)
(*                                                                         *)
(* Percentages are multiples of 100 / Percent; sizes are uint32_t.         *)
(***************************************************************************)
EXTENDS Integers, Sequences, SequencesExt

CONSTANTS
    Percent,      \* the number that stands for 100%
    SizeRange     \* number of values of a uint32_t

ASSUME CdfAssumption == Percent \in Nat \ {0} /\ SizeRange \in Nat \ {0}

------------------------------------------------------------------------------
Clamped(line) ==
    [line EXCEPT !.pct = IF @ < 0 THEN 0 ELSE IF @ > Percent THEN Percent ELSE @]

Before(a, b) == a.pct < b.pct \/ (a.pct = b.pct /\ a.size < b.size)

\* Mutant of Raised: a size below its predecessor's is kept.
NotRaised(size, last) == size

\* "if (s < lastSize) s = lastSize"
Raised(size, last) == IF size < last THEN last ELSE size

\* One turn of the loop.  Of entries with one percentage the smallest size
\* stays, even if that is below the size of the entry before.
Cleaned(cleaned, e) ==
    IF cleaned = <<>> THEN <<e>>
    ELSE LET back == Last(cleaned)
         IN  IF e.pct = back.pct
               THEN IF e.size < back.size
                      THEN [cleaned EXCEPT ![Len(cleaned)].size = e.size]
                      ELSE cleaned
               ELSE Append(cleaned, [size |-> Raised(e.size, back.size), pct |-> e.pct])

\* The table starts at 0% and ends at 100%.
WithEnds(t) ==
    LET front == IF Head(t).pct > 0 THEN <<[size |-> 0, pct |-> 0]>> ELSE <<>>
        back == IF Last(t).pct < Percent THEN <<[Last(t) EXCEPT !.pct = Percent]>> ELSE <<>>
    IN  front \o t \o back

\* std::sort: the lines in an order in which none comes Before an earlier one.
Sorted(lines) ==
    CHOOSE s \in {[i \in DOMAIN lines |-> lines[p[i]]] :
                     p \in Bijection(DOMAIN lines, DOMAIN lines)} :
        \A i, j \in DOMAIN lines : i < j => ~Before(s[j], s[i])

\* What is cleaned after each number of turns.
CleanedUpTo(s) ==
    LET cleaned[i \in 0 .. Len(s)] ==
          IF i = 0 THEN <<>> ELSE Cleaned(cleaned[i - 1], s[i])
    IN  cleaned

Table(lines) ==
    LET s == Sorted([i \in DOMAIN lines |-> Clamped(lines[i])])
    IN  WithEnds(CleanedUpTo(s)[Len(s)])

AtLeastOne(x) == IF x < 1 THEN 1 ELSE x

\* The entry that u falls into: the first one whose percentage it does not
\* exceed, or one more than there are.
EntryOf(t, u) ==
    LET reached == {i \in DOMAIN t : u <= t[i].pct}
    IN  IF reached = {} THEN Len(t) + 1
        ELSE CHOOSE i \in reached : \A j \in reached : i <= j

\* Mutant of Interpolated: the percentage is not taken from the entry before.
InterpolatedFromZero(a, b, u) ==
    LET width == b.pct - a.pct
        s == a.size * width + u * ((b.size - a.size) % SizeRange)
    IN  IF s < width THEN 1 ELSE (2 * s + width) \div (2 * width)

\* Between two entries: s0 + t * (s1 - s0), rounded, the difference unsigned.
Interpolated(a, b, u) ==
    LET width == b.pct - a.pct
        s == a.size * width + (u - a.pct) * ((b.size - a.size) % SizeRange)
    IN  IF s < width THEN 1 ELSE (2 * s + width) \div (2 * width)

SampleSizeFromCdf(t, u) ==
    LET i == EntryOf(t, u)
    IN  IF i = 1 THEN AtLeastOne(t[1].size)
        ELSE IF i > Len(t) THEN AtLeastOne(Last(t).size)
        ELSE Interpolated(t[i - 1], t[i], u)
==============================================================================
