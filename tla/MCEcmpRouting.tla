---------------------------- MODULE MCEcmpRouting ----------------------------
(***************************************************************************)
(* Values for checking EcmpRouting.  With 3-bit hashes and weights in      *)
(* place of 32-bit ones, the lines have: a weight of 0 first and, for      *)
(* three candidates, a sum with which hash 6 wraps to 0; weights of which  *)
(* two sum to 0 and the third is too large, and a bad token; too few       *)
(* weights for two candidates; and no weight at all.                       *)
(***************************************************************************)
EXTENDS EcmpRouting

Line(tokens) == [node |-> 1, tokens |-> tokens]

MCLines == {Line(<<0, 4, 7>>), Line(<<0, 0, 9, Bad>>), Line(<<5>>), Line(<<Bad>>)}

\* The hash of a packet at a node whose interfaces have the first of two lists of
\* addresses, and at one with the second.
Packet(ported, first, second) ==
    [dest |-> 1, ported |-> ported,
     h |-> [x \in Node \X Addresses |-> IF x[2] = 1 THEN first ELSE second]]

MCPackets == {Packet(TRUE, 6, 1), Packet(FALSE, 3, 3)}
==============================================================================
