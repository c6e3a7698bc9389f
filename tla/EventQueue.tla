----------------------------- MODULE EventQueue -----------------------------
(***************************************************************************)
(* What the event ring promises: a bounded first-in first-out queue        *)
(* between one producer and one consumer.                                  *)
(***************************************************************************)
EXTENDS Naturals, Sequences

CONSTANTS Event, NoEvent, Capacity

VARIABLES queue,    \* events pushed and not yet popped, oldest first
          out       \* the event the last successful pop returned

Init == queue = << >> /\ out = NoEvent

Push(e) ==
    /\ Len(queue) < Capacity
    /\ queue' = Append(queue, e)
    /\ UNCHANGED out

Pop ==
    /\ queue # << >>
    /\ out' = Head(queue)
    /\ queue' = Tail(queue)

Next == Pop \/ \E e \in Event : Push(e)

Spec == Init /\ [][Next]_<<queue, out>>
=============================================================================
