------------------------------- MODULE SeqSets -------------------------------
(***************************************************************************)
(* Sequences looked at as sets, and filtering by a set.                    *)
(***************************************************************************)
EXTENDS Naturals, Sequences

\* The elements of s.
Elems(s) == {s[i] : i \in 1 .. Len(s)}

\* What filtering has kept of the first i elements of s.
KeptUpTo(s, T) ==
    LET f[i \in 0 .. Len(s)] ==
          IF i = 0 THEN <<>>
          ELSE IF s[i] \in T THEN Append(f[i-1], s[i]) ELSE f[i-1]
    IN  f

\* The subsequence of s whose elements are in T.
Filter(s, T) == KeptUpTo(s, T)[Len(s)]
==============================================================================
