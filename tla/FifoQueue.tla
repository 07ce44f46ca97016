------------------------------ MODULE FifoQueue ------------------------------
(***************************************************************************)
(* cv32e40p_fifo driven by any producer and consumer, and the proof        *)
(* obligation that it is the queue of module BoundedQueue.                 *)
(***************************************************************************)
EXTENDS Fifo, Sequences

VARIABLES
  out,  \* the word the consumer took last
  port  \* history: the inputs of the last cycle, which the FIFO never reads

vars == <<fifoVars, out, port>>

\* The words held, oldest first, are those from the read pointer on.
Contents ==
  [i \in 1 .. status_cnt_q |-> mem_q[(read_pointer_q + i - 1) % DEPTH]]

Queue == INSTANCE BoundedQueue WITH queue <- Contents

\* Out of reset nothing has been asked for.
Idle == [op |-> "transfer", push |-> FALSE, pop |-> FALSE, data |-> Zero]

Init == FifoInit /\ out \in Word /\ port = Idle

\* The consumer samples data_o when it pops a FIFO that is not empty.
Consume(push, pop, data) ==
  IF pop /\ ~empty_o(push) THEN out' \in data_o(push, data) ELSE out' = out

Transfer ==
  \E push, pop \in BOOLEAN, d \in Word :
    /\ FifoCycle(FALSE, FALSE, push, pop, d) /\ Consume(push, pop, d)
    /\ Queue!Asked("transfer", push, pop, d)

Flush ==
  \E push, pop \in BOOLEAN, d \in Word :
    /\ FifoCycle(TRUE, FALSE, push, pop, d) /\ Consume(push, pop, d)
    /\ Queue!Asked("flush", push, pop, d)

\* The prefetch controller raises flush_but_first_i only without a pop.
FlushButFirst ==
  \E push \in BOOLEAN, d \in Word :
    /\ FifoCycle(FALSE, TRUE, push, FALSE, d) /\ Consume(push, FALSE, d)
    /\ Queue!Asked("flush_but_first", push, FALSE, d)

Next == Transfer \/ Flush \/ FlushButFirst

Spec == Init /\ [][Next]_vars

-----------------------------------------------------------------------------
\* The registers stay in their ranges: the count never exceeds DEPTH or falls
\* below 0, whatever is pushed and popped.
TypeOK == FifoTypeOK /\ out \in Word /\ port \in Queue!Ports

\* The pointers and the count agree: the write pointer is status_cnt_q slots
\* ahead of the read pointer, so no write lands on a word still to be read.
PointersAgree ==
  write_pointer_q = (read_pointer_q + status_cnt_q) % DEPTH

\* The ring buffer delivers words in the order they were pushed, loses and
\* repeats none, and a flush drops exactly the words it must, as its inputs ask
\* for: fifo.sv implements the queue.  No request hides behind an equal one
\* before it as a stutter, for an idle cycle may come between them.
ImplementsQueue == Queue!Spec
=============================================================================
