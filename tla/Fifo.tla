---------------------------------- MODULE Fifo ----------------------------------
(***************************************************************************)
(* What a bounded queue promises: first in, first out, never more than its *)
(* capacity, no item lost or duplicated.  A queue that breaks stays broken *)
(* and answers nothing.                                                    *)
(***************************************************************************)
EXTENDS Naturals, Sequences

CONSTANTS Values, Capacity, Broken

VARIABLE items

FifoInit == items = <<>>

Enqueue(v) ==
  /\ items # Broken
  /\ Len(items) < Capacity
  /\ items' = Append(items, v)

Dequeue ==
  /\ items \notin {<<>>, Broken}
  /\ items' = Tail(items)

Break == items' = Broken

FifoNext == Dequeue \/ Break \/ \E v \in Values : Enqueue(v)

FifoSpec == FifoInit /\ [][FifoNext]_items
==============================================================================
