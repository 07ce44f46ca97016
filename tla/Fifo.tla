-------------------------------- MODULE Fifo --------------------------------
(***************************************************************************)
(* cv32e40p_fifo: the ring buffer that holds prefetched instruction words. *)
(* Pointers have ADDR_DEPTH bits, so they range over POINTERS = 2**ADDR_   *)
(* DEPTH values, which exceeds DEPTH when DEPTH is not a power of two.     *)
(***************************************************************************)
EXTENDS Integers

CONSTANTS
  DEPTH,        \* parameter DEPTH
  POINTERS,     \* 2**ADDR_DEPTH, the number of values of a pointer
  FALL_THROUGH, \* parameter FALL_THROUGH
  Word,         \* the words that are stored
  Zero          \* the word mem_q is reset to

ASSUME FifoAssumption ==
  /\ DEPTH \in Nat \ {0}
  /\ POINTERS \in Nat /\ DEPTH <= POINTERS
  /\ FALL_THROUGH \in BOOLEAN
  /\ Zero \in Word

VARIABLES read_pointer_q, write_pointer_q, status_cnt_q, mem_q

fifoVars == <<read_pointer_q, write_pointer_q, status_cnt_q, mem_q>>

FifoTypeOK ==
  /\ read_pointer_q \in 0 .. POINTERS - 1
  /\ write_pointer_q \in 0 .. POINTERS - 1
  /\ status_cnt_q \in 0 .. DEPTH
  /\ mem_q \in [0 .. DEPTH - 1 -> Word]

FifoInit ==
  /\ read_pointer_q = 0
  /\ write_pointer_q = 0
  /\ status_cnt_q = 0
  /\ mem_q = [i \in 0 .. DEPTH - 1 |-> Zero]

-----------------------------------------------------------------------------
\* Status flags.

\* Mutant of full_o: full one word too late.
FullTooLate == status_cnt_q = DEPTH + 1

full_o == status_cnt_q = DEPTH
empty_o(push) == status_cnt_q = 0 /\ ~(FALL_THROUGH /\ push)

\* A read beyond the last slot is an out-of-range index: any word may result.
data_o(push, data) ==
  IF FALL_THROUGH /\ status_cnt_q = 0 /\ push THEN {data}
  ELSE IF read_pointer_q < DEPTH THEN {mem_q[read_pointer_q]}
  ELSE Word

\* pointer + 1 in ADDR_DEPTH bits
Incr(p) == IF p + 1 = POINTERS THEN 0 ELSE p + 1

\* The next slot.  FIFO_DEPTH[ADDR_DEPTH-1:0] is 0 for a power of two: then the
\* comparison never holds and the pointer wraps by its width.
Advance(p) == IF DEPTH < POINTERS /\ p = DEPTH - 1 THEN 0 ELSE Incr(p)

-----------------------------------------------------------------------------
\* One clock cycle, by the flush input that wins (unique case).  A write
\* through an out-of-range pointer is ignored.

\* Mutant of WriteMem: a push overwrites a word of the full FIFO.
WriteMemWhenFull(push, data) ==
  mem_q' = IF push THEN [mem_q EXCEPT ![write_pointer_q] = data] ELSE mem_q

WriteMem(push, data) ==
  mem_q' = IF push /\ ~full_o /\ write_pointer_q < DEPTH
           THEN [mem_q EXCEPT ![write_pointer_q] = data]
           ELSE mem_q

FifoTransfer(push, pop, data) ==
  LET pushed == push /\ ~full_o
      popped == pop /\ ~empty_o(push)
      pass   == FALL_THROUGH /\ status_cnt_q = 0 /\ push /\ pop
  IN  /\ WriteMem(push, data)
      /\ write_pointer_q' = IF pushed /\ ~pass THEN Advance(write_pointer_q)
                            ELSE write_pointer_q
      /\ read_pointer_q' = IF popped /\ ~pass THEN Advance(read_pointer_q)
                           ELSE read_pointer_q
      /\ status_cnt_q' = IF pushed <=> popped THEN status_cnt_q
                         ELSE IF pushed THEN status_cnt_q + 1
                         ELSE status_cnt_q - 1

FifoFlush(push, data) ==
  /\ WriteMem(push, data)
  /\ read_pointer_q' = 0
  /\ write_pointer_q' = 0
  /\ status_cnt_q' = 0

\* Mutant of FifoFlushButFirst: the write pointer stays where it was.
FlushKeepsWritePointer(push, data) ==
  LET kept == status_cnt_q > 0
  IN  /\ WriteMem(push, data)
      /\ read_pointer_q' = IF kept THEN read_pointer_q ELSE 0
      /\ write_pointer_q' = IF kept THEN write_pointer_q ELSE 0
      /\ status_cnt_q' = IF kept THEN 1 ELSE 0

FifoFlushButFirst(push, data) ==
  LET kept == status_cnt_q > 0
  IN  /\ WriteMem(push, data)
      /\ read_pointer_q' = IF kept THEN read_pointer_q ELSE 0
      /\ write_pointer_q' = IF kept THEN Incr(read_pointer_q) ELSE 0
      /\ status_cnt_q' = IF kept THEN 1 ELSE 0

FifoCycle(flush, flush_but_first, push, pop, data) ==
  \/ flush /\ FifoFlush(push, data)
  \/ ~flush /\ flush_but_first /\ FifoFlushButFirst(push, data)
  \/ ~flush /\ ~flush_but_first /\ FifoTransfer(push, pop, data)
=============================================================================
