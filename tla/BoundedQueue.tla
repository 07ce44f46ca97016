---------------------------- MODULE BoundedQueue ----------------------------
(***************************************************************************)
(* What cv32e40p_fifo promises its users: a queue of at most DEPTH words   *)
(* that is pushed, popped, emptied, or cut down to its oldest word, once   *)
(* per clock cycle, as its users ask for.  `out` is the word the consumer  *)
(* took last.                                                              *)
(***************************************************************************)
EXTENDS Naturals, Sequences

CONSTANTS
  DEPTH,        \* number of words the queue holds
  Word,         \* the words
  FALL_THROUGH  \* TRUE: a word pushed into the empty queue may leave at once

VARIABLES
  queue,        \* the words held, oldest first
  out,          \* the word popped last
  port          \* what the users asked for in the last cycle

vars == <<queue, out, port>>

Ports == [op : {"transfer", "flush", "flush_but_first"},
          push : BOOLEAN, pop : BOOLEAN, data : Word]

Init == queue = <<>> /\ out \in Word /\ port \in Ports

Asked(op, push, pop, d) ==
  port' = [op |-> op, push |-> push, pop |-> pop, data |-> d]

\* Words reach the consumer in the order they were pushed.  A push onto a
\* full queue and a pop of an empty one have no effect.
Transfer(push, pop, d) ==
  LET accepted == IF push /\ Len(queue) < DEPTH THEN <<d>> ELSE <<>>
      visible  == IF FALL_THROUGH \/ queue # <<>> THEN queue \o accepted ELSE <<>>
      taken    == IF pop /\ visible # <<>> THEN 1 ELSE 0
  IN  /\ queue' = SubSeq(queue \o accepted, taken + 1, Len(queue \o accepted))
      /\ out' = IF taken = 1 THEN visible[1] ELSE out

\* The consumer may still take the oldest word in the cycle of a flush; every
\* word that is not kept is gone, a word pushed in that cycle included.
Flush(push, pop, d) ==
  /\ queue' = <<>>
  /\ out' = IF ~pop THEN out
            ELSE IF queue # <<>> THEN Head(queue)
            ELSE IF FALL_THROUGH /\ push THEN d ELSE out

FlushButFirst ==
  /\ queue' = IF queue = <<>> THEN <<>> ELSE <<Head(queue)>>
  /\ UNCHANGED out

Next ==
  \E push, pop \in BOOLEAN, d \in Word :
    \/ Asked("transfer", push, pop, d) /\ Transfer(push, pop, d)
    \/ Asked("flush", push, pop, d) /\ Flush(push, pop, d)
    \/ Asked("flush_but_first", push, FALSE, d) /\ FlushButFirst

Spec == Init /\ [][Next]_vars
=============================================================================
