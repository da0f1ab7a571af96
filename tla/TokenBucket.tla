----------------------------- MODULE TokenBucket -----------------------------
(***************************************************************************)
(* ns3::TokenBucket, as EgressTokenManager uses it: one bucket per egress  *)
(* port, refilled lazily, from the time that has passed since the last     *)
(* refill, whenever somebody asks for a token.  Tokens are counted in      *)
(* units of which a packet costs Cost, so that fractional rates are whole  *)
(* numbers; the rounding of the code's doubles is not modelled.            *)
(***************************************************************************)
EXTENDS Integers

CONSTANTS
    Capacity,   \* m_capacity
    Cost,       \* one packet
    Rate,       \* m_pps; 0 when AvgPktSize is 0
    MaxTime     \* bound: simulated time

ASSUME BucketAssumption == Capacity \in Nat /\ Cost \in Nat \ {0} /\ Rate \in Nat
ASSUME MaxTimeAssumption == MaxTime \in Nat

VARIABLES
    m_tokens, m_lastRefill,
    now,            \* Simulator::Now()
    since, spent    \* history: a window and what was spent in it

bucketVars == <<m_tokens, m_lastRefill, now, since, spent>>

AtMost(x, bound) == IF x < bound THEN x ELSE bound

\* Mutant of Refilled: the capacity is ignored.
RefilledWithoutCap == m_tokens + (now - m_lastRefill) * Rate

\* Refill returns early when the rate is 0, which leaves m_tokens as it is.
Refilled == AtMost(m_tokens + (now - m_lastRefill) * Rate, Capacity)

\* Mutant of RefillTime: the time of the refill is not recorded.
RefillTimeKept == m_lastRefill

RefillTime == IF Rate = 0 THEN m_lastRefill ELSE now

BucketInit ==
    /\ m_tokens = Capacity
    /\ m_lastRefill = 0
    /\ now = 0 /\ since = 0 /\ spent = 0

\* TryConsume returns true and the caller keeps the token.
TryConsume ==
    /\ Refilled >= Cost
    /\ m_tokens' = Refilled - Cost
    /\ m_lastRefill' = RefillTime
    /\ spent' = spent + Cost
    /\ UNCHANGED <<now, since>>

\* TryConsume returns false.
Refuse ==
    /\ Refilled < Cost
    /\ m_tokens' = Refilled
    /\ m_lastRefill' = RefillTime
    /\ UNCHANGED <<now, since, spent>>

\* Mutant of Refunded: one unit too many comes back.
RefundedTwice(t) == AtMost(t + Cost + Cost, Capacity + Cost)

Refunded(t) == AtMost(t + Cost, Capacity)

\* TryConsume returns true, it is another port's turn, and TryConsumeTokenFair
\* refunds the token.
ConsumeAndRefund ==
    /\ Refilled >= Cost
    /\ m_tokens' = Refunded(Refilled - Cost)
    /\ m_lastRefill' = RefillTime
    /\ UNCHANGED <<now, since, spent>>

TimePasses ==
    /\ now < MaxTime
    /\ now' = now + 1
    /\ UNCHANGED <<m_tokens, m_lastRefill, since, spent>>

\* History only: a window may begin at any time.
StartWindow ==
    /\ since' = now /\ spent' = 0
    /\ UNCHANGED <<m_tokens, m_lastRefill, now>>

BucketNext == TryConsume \/ Refuse \/ ConsumeAndRefund \/ TimePasses \/ StartWindow

BucketSpec == BucketInit /\ [][BucketNext]_bucketVars

------------------------------------------------------------------------------
\* The level stays between nothing and m_capacity, and m_lastRefill is never in
\* the future.
BucketTypeOK ==
    /\ m_tokens \in 0 .. Capacity
    /\ now \in Nat /\ since \in 0 .. now /\ m_lastRefill \in 0 .. now
    /\ spent \in Nat

\* The rate limit on an egress port: in any interval, however attempts, refusals
\* and refunds interleave, no more is spent than a full bucket and what the
\* interval brings in.
RateBound == spent <= Capacity + (now - since) * Rate

\* Lazy refilling is indistinguishable from a bucket that rises all the time.
Meter == INSTANCE TokenMeter WITH level <- Refilled
MeterSpec == Meter!Spec
==============================================================================
