------------------------------ MODULE ByteFifo ------------------------------
(* What the interrupt queues promise: each is a bounded first-in first-out   *)
(* queue.  A step may take the byte at the front and then add one; only when *)
(* the machine goes off is a queue emptied.                                  *)
EXTENDS Naturals, Sequences

CONSTANTS Byte, Queues, Room
VARIABLES fifo, off

FifoInit == fifo = [q \in Queues |-> <<>>] /\ off = FALSE

Adding(s) == {s} \cup { Append(s, b) : b \in Byte }
FifoStep(q) == \/ fifo'[q] \in Adding(fifo[q]) /\ Len(fifo'[q]) <= Room
               \/ fifo[q] # <<>> /\ fifo'[q] \in Adding(Tail(fifo[q]))
FifoOff == off' = TRUE /\ \E q \in Queues : fifo' = [fifo EXCEPT ![q] = <<>>]

FifoNext == FifoOff \/ (off' = off /\ \A q \in Queues : FifoStep(q))
FifoSpec == FifoInit /\ [][FifoNext]_<<fifo, off>>
=============================================================================
