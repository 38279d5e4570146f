---------------------------- MODULE BoundedFifo ----------------------------
(* What SpscQueue promises its two threads: a FIFO queue that never holds   *)
(* more than Bound items.  The state is the history of both ends; a push    *)
(* that is refused leaves it unchanged.                                     *)
EXTENDS Integers, Sequences

CONSTANTS
    Bound,          \* how many items the queue can hold
    Items

VARIABLES
    accepted,       \* items taken by push(), in order
    consumed        \* items returned by pop(), in order

Held == Len(accepted) - Len(consumed)

Init == accepted = << >> /\ consumed = << >>

Push(x) ==
    /\ Held < Bound
    /\ accepted' = Append(accepted, x)
    /\ UNCHANGED consumed

Pop ==
    /\ Held > 0
    /\ consumed' = Append(consumed, accepted[Len(consumed) + 1])
    /\ UNCHANGED accepted

Next == Pop \/ \E x \in Items : Push(x)

Spec == Init /\ [][Next]_<< accepted, consumed >>
============================================================================
