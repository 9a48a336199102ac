------------------------------ MODULE Semaphore ------------------------------
(***************************************************************************)
(* What the slots of a WorkerPool promise, without retries or processes:   *)
(* every client passes once through a section that holds at most Slots     *)
(* clients.  Those who find it full wait in line, oldest first, and nobody *)
(* overtakes them: a client that leaves hands its place to the first.      *)
(***************************************************************************)
EXTENDS Naturals, Sequences, FiniteSets

CONSTANTS Clients, Slots

VARIABLES
    inside,   \* clients that hold a slot
    outside,  \* clients that have given theirs back
    line      \* clients that wait for one, in the order they came

semVars == <<inside, outside, line>>

Waiting == {line[i] : i \in DOMAIN line}
Fresh == Clients \ (inside \union outside \union Waiting)
Full == Cardinality(inside) >= Slots

Init == inside = {} /\ outside = {} /\ line = <<>>

Enter(c) ==
    /\ c \in Fresh
    /\ ~Full /\ line = <<>>
    /\ inside' = inside \union {c}
    /\ UNCHANGED <<outside, line>>

LineUp(c) ==
    /\ c \in Fresh
    /\ Full
    /\ line' = Append(line, c)
    /\ UNCHANGED <<inside, outside>>

Leave(c) ==
    /\ c \in inside
    /\ line = <<>>
    /\ inside' = inside \ {c}
    /\ outside' = outside \union {c}
    /\ UNCHANGED line

(* The slot passes to the first in line in one step: nobody else can take  *)
(* it.                                                                     *)
HandOver(c) ==
    /\ c \in inside
    /\ line # <<>>
    /\ inside' = (inside \ {c}) \union {Head(line)}
    /\ outside' = outside \union {c}
    /\ line' = Tail(line)

Next == \E c \in Clients : Enter(c) \/ LineUp(c) \/ Leave(c) \/ HandOver(c)

Spec == Init /\ [][Next]_semVars
=============================================================================
