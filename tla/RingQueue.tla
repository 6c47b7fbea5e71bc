----------------------------- MODULE RingQueue -----------------------------
(***************************************************************************)
(* What oms::RingBuffer<T> promises (include/ring_buffer.h): a bounded     *)
(* FIFO queue that holds at most Capacity - 1 elements, one slot being     *)
(* sacrificed to tell full from empty.  A push is atomic: the element      *)
(* becomes visible at the tail of the queue at once; a pop removes the     *)
(* oldest element.  accepted records every element whose push returned    *)
(* true, popped every element a pop returned, in order.                    *)
(***************************************************************************)
EXTENDS Integers, Sequences

CONSTANTS
  Capacity,   \* capacity_ of the ring (a power of two)
  Items       \* the values pushed

VARIABLES queue, accepted, popped

rqvars == <<queue, accepted, popped>>

Init ==
  /\ queue = << >>
  /\ accepted = << >>
  /\ popped = << >>

\* push(x) that returns true: only while fewer than Capacity - 1 are held.
Push(x) ==
  /\ Len(queue) < Capacity - 1
  /\ queue' = Append(queue, x)
  /\ accepted' = Append(accepted, x)
  /\ UNCHANGED popped

\* pop(&x) that returns true hands out the oldest element.
Pop ==
  /\ queue # << >>
  /\ popped' = Append(popped, Head(queue))
  /\ queue' = Tail(queue)
  /\ UNCHANGED accepted

Next == (\E x \in Items : Push(x)) \/ Pop

Spec == Init /\ [][Next]_rqvars

=============================================================================
