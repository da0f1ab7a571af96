---------------------------- MODULE LosslessClasses ----------------------------
(***************************************************************************)
(* What the transmit half of a PFC device promises, without its queues and *)
(* timers: packets of several classes are taken, and each is put on the    *)
(* line once, unless its class is stopped at that moment.  Classes are     *)
(* stopped and started again at any time.                                  *)
(***************************************************************************)
EXTENDS Sequences

CONSTANTS
    Class,
    Packet         \* what may be taken; its prio is its class

VARIABLES
    taken,     \* packets taken so far
    pending,   \* those of them that wait
    stopped,   \* the classes that may not send
    sent       \* what has been put on the line, in order

vars == <<taken, pending, stopped, sent>>

Init == taken = {} /\ pending = {} /\ stopped = {} /\ sent = <<>>

Take(p) ==
    /\ p \notin taken
    /\ taken' = taken \cup {p} /\ pending' = pending \cup {p}
    /\ UNCHANGED <<stopped, sent>>

Emit(p) ==
    /\ p \in pending /\ p.prio \notin stopped
    /\ pending' = pending \ {p} /\ sent' = Append(sent, p)
    /\ UNCHANGED <<taken, stopped>>

Stop(c) == stopped' = stopped \cup {c} /\ UNCHANGED <<taken, pending, sent>>

Start(C) == stopped' = stopped \ C /\ UNCHANGED <<taken, pending, sent>>

Next ==
    \/ \E p \in Packet : Take(p)
    \/ \E p \in pending : Emit(p)
    \/ \E c \in Class : Stop(c)
    \/ \E C \in SUBSET Class : Start(C)

Spec == Init /\ [][Next]_vars
==============================================================================
