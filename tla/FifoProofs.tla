----------------------------- MODULE FifoProofs -----------------------------
(***************************************************************************)
(* The pointers and the count of the FIFO agree, and the FIFO is the queue *)
(* of module BoundedQueue, for every depth that is a power of two.         *)
(***************************************************************************)
EXTENDS FifoQueue, TLAPS

\* The write pointer is status_cnt_q slots ahead, around the end of the memory:
\* PointersAgree without the modulus.
WriteAhead ==
  write_pointer_q = IF read_pointer_q + status_cnt_q < DEPTH
                      THEN read_pointer_q + status_cnt_q
                      ELSE read_pointer_q + status_cnt_q - DEPTH

-----------------------------------------------------------------------------
\* A word the consumer takes is a word.
LEMMA DataType ==
  ASSUME FifoTypeOK, NEW push \in BOOLEAN, NEW d \in Word
  PROVE  data_o(push, d) \subseteq Word
BY FifoAssumption DEF data_o, FifoTypeOK

\* A cycle keeps the types, whatever the consumer and the producer do.
LEMMA TypeStep ==
  ASSUME FifoTypeOK, NEW flush \in BOOLEAN, NEW first \in BOOLEAN,
         NEW push \in BOOLEAN, NEW pop \in BOOLEAN, NEW d \in Word,
         FifoCycle(flush, first, push, pop, d)
  PROVE  FifoTypeOK'
<1> USE FifoAssumption
<1>1. ASSUME WriteMem(push, d)
      PROVE  mem_q' \in [0 .. DEPTH - 1 -> Word]
  BY <1>1 DEF WriteMem, FifoTypeOK
<1>2. CASE flush /\ FifoFlush(push, d)
  BY <1>1, <1>2 DEF FifoFlush, FifoTypeOK
<1>3. CASE ~flush /\ first /\ FifoFlushButFirst(push, d)
  BY <1>1, <1>3 DEF FifoFlushButFirst, FifoTypeOK, Incr
<1>4. CASE ~flush /\ ~first /\ FifoTransfer(push, pop, d)
  <2>1. /\ read_pointer_q' \in 0 .. POINTERS - 1
        /\ write_pointer_q' \in 0 .. POINTERS - 1
    BY <1>4 DEF FifoTransfer, FifoTypeOK, Advance, Incr
  <2>2. status_cnt_q' \in 0 .. DEPTH
    <3> DEFINE pushed == push /\ ~full_o
               popped == pop /\ ~empty_o(push)
    <3>1. status_cnt_q' = IF pushed <=> popped THEN status_cnt_q
                          ELSE IF pushed THEN status_cnt_q + 1 ELSE status_cnt_q - 1
      BY <1>4 DEF FifoTransfer
    <3>2. /\ pushed => status_cnt_q # DEPTH
          /\ popped /\ ~pushed => status_cnt_q # 0
      BY DEF full_o, empty_o
    <3>3. status_cnt_q \in 0 .. DEPTH
      BY DEF FifoTypeOK
    <3> HIDE DEF pushed, popped
    <3>4. CASE pushed <=> popped
      BY <3>1, <3>3, <3>4
    <3>5. CASE pushed /\ ~popped
      BY <3>1, <3>2, <3>3, <3>5
    <3>6. CASE ~pushed /\ popped
      BY <3>1, <3>2, <3>3, <3>6
    <3> QED BY <3>4, <3>5, <3>6
  <2> QED BY <1>1, <1>4, <2>1, <2>2 DEF FifoTransfer, FifoTypeOK
<1> QED BY <1>2, <1>3, <1>4 DEF FifoCycle

\* Every step of the specification is a cycle of the FIFO.
LEMMA NextIsCycle ==
  ASSUME Next
  PROVE  \E flush, first, push, pop \in BOOLEAN, d \in Word :
           /\ FifoCycle(flush, first, push, pop, d) /\ Consume(push, pop, d)
           /\ port' \in Queue!Ports
<1>0. \A op \in {"transfer", "flush", "flush_but_first"}, push, pop \in BOOLEAN, d \in Word :
         Queue!Asked(op, push, pop, d) => port' \in Queue!Ports
  BY DEF Queue!Ports, Queue!Asked
<1>1. CASE Transfer
  BY <1>0, <1>1 DEF Transfer
<1>2. CASE Flush
  BY <1>0, <1>2 DEF Flush
<1>3. CASE FlushButFirst
  BY <1>0, <1>3 DEF FlushButFirst
<1> QED BY <1>1, <1>2, <1>3 DEF Next

\* The pointers stay in the memory and the count between 0 and its depth, for every
\* depth, whether a power of two or not.
THEOREM TypeCorrect == Spec => []TypeOK
<1>1. Init => TypeOK
  BY FifoAssumption DEF Init, FifoInit, TypeOK, FifoTypeOK, Idle, Queue!Ports
<1>2. TypeOK /\ [Next]_vars => TypeOK'
  <2> SUFFICES ASSUME TypeOK, [Next]_vars PROVE TypeOK'
    OBVIOUS
  <2>1. CASE Next
    <3>1. PICK flush, first, push, pop \in BOOLEAN, d \in Word :
            /\ FifoCycle(flush, first, push, pop, d) /\ Consume(push, pop, d)
            /\ port' \in Queue!Ports
      BY <2>1, NextIsCycle
    <3>2. FifoTypeOK'
      BY <3>1, TypeStep DEF TypeOK
    <3>3. out' \in Word
      BY <3>1, DataType DEF Consume, TypeOK
    <3> QED BY <3>1, <3>2, <3>3 DEF TypeOK
  <2>2. CASE UNCHANGED vars
    BY <2>2 DEF vars, fifoVars, TypeOK, FifoTypeOK
  <2> QED BY <2>1, <2>2
<1> QED BY <1>1, <1>2, PTL DEF Spec

-----------------------------------------------------------------------------
\* One cycle keeps the pointers together, if the pointers wrap at the depth.
LEMMA AheadStep ==
  ASSUME DEPTH = POINTERS, FifoTypeOK, WriteAhead,
         NEW flush \in BOOLEAN, NEW first \in BOOLEAN,
         NEW push \in BOOLEAN, NEW pop \in BOOLEAN, NEW d \in Word,
         FifoCycle(flush, first, push, pop, d)
  PROVE  WriteAhead'
<1> USE FifoAssumption
<1>1. /\ read_pointer_q \in 0 .. DEPTH - 1 /\ write_pointer_q \in 0 .. DEPTH - 1
      /\ status_cnt_q \in 0 .. DEPTH
  BY DEF FifoTypeOK
<1>2. CASE flush /\ FifoFlush(push, d)
  BY <1>2 DEF FifoFlush, WriteAhead
<1>3. CASE ~flush /\ first /\ FifoFlushButFirst(push, d)
  BY <1>1, <1>3 DEF FifoFlushButFirst, WriteAhead, Incr
<1>4. CASE ~flush /\ ~first /\ FifoTransfer(push, pop, d)
  <2>1. \A q \in 0 .. DEPTH - 1 : Advance(q) = IF q + 1 < DEPTH THEN q + 1 ELSE 0
    BY DEF Advance, Incr
  <2> DEFINE pushed == push /\ ~full_o
             popped == pop /\ ~empty_o(push)
             pass   == FALL_THROUGH /\ status_cnt_q = 0 /\ push /\ pop
  <2>2. /\ write_pointer_q' = IF pushed /\ ~pass THEN Advance(write_pointer_q)
                              ELSE write_pointer_q
        /\ read_pointer_q' = IF popped /\ ~pass THEN Advance(read_pointer_q)
                             ELSE read_pointer_q
        /\ status_cnt_q' = IF pushed <=> popped THEN status_cnt_q
                           ELSE IF pushed THEN status_cnt_q + 1 ELSE status_cnt_q - 1
    BY <1>4 DEF FifoTransfer
  <2>3. pass => pushed /\ popped
    BY DEF full_o, empty_o
  <2>4. /\ pushed => status_cnt_q # DEPTH
        /\ popped /\ ~pass => status_cnt_q # 0
    BY DEF full_o, empty_o
  <2> HIDE DEF pushed, popped, pass
  <2>5. CASE pass
    BY <2>2, <2>3, <2>5 DEF WriteAhead
  <2>6. CASE ~pass /\ (pushed <=> popped)
    BY <1>1, <2>1, <2>2, <2>4, <2>6 DEF WriteAhead
  <2>7. CASE ~pass /\ pushed /\ ~popped
    BY <1>1, <2>1, <2>2, <2>4, <2>7 DEF WriteAhead
  <2>8. CASE ~pass /\ ~pushed /\ popped
    BY <1>1, <2>1, <2>2, <2>4, <2>8 DEF WriteAhead
  <2>9. \/ pass
        \/ ~pass /\ (pushed <=> popped)
        \/ ~pass /\ pushed /\ ~popped
        \/ ~pass /\ ~pushed /\ popped
    BY Zenon DEF pushed, popped, pass
  <2> QED BY <2>5, <2>6, <2>7, <2>8, <2>9
<1> QED BY <1>2, <1>3, <1>4 DEF FifoCycle

\* What wraps once around n is a remainder modulo n.
LEMMA WrapIsModulus ==
  ASSUME NEW n \in Nat \ {0}, NEW x \in Nat, x < 2 * n
  PROVE  x % n = IF x < n THEN x ELSE x - n
OBVIOUS

LEMMA AlwaysAhead == DEPTH = POINTERS => (Spec => []WriteAhead)
<1> SUFFICES ASSUME DEPTH = POINTERS PROVE Spec => []WriteAhead
  OBVIOUS
<1>1. Init => WriteAhead
  BY FifoAssumption DEF Init, FifoInit, WriteAhead
<1>2. TypeOK /\ WriteAhead /\ [Next]_vars => WriteAhead'
  <2> SUFFICES ASSUME TypeOK, WriteAhead, [Next]_vars PROVE WriteAhead'
    OBVIOUS
  <2>1. CASE Next
    <3>1. PICK flush, first, push, pop \in BOOLEAN, d \in Word :
            FifoCycle(flush, first, push, pop, d)
      BY <2>1, NextIsCycle
    <3> QED BY <3>1, AheadStep DEF TypeOK
  <2>2. CASE UNCHANGED vars
    BY <2>2 DEF vars, fifoVars, WriteAhead
  <2> QED BY <2>1, <2>2
<1> QED BY <1>1, <1>2, TypeCorrect, PTL DEF Spec

\* Write pointer and read pointer are always status_cnt_q slots apart, so that no push
\* overwrites a word that is still to be read; a flush that keeps the first word breaks
\* this for other depths.
THEOREM PointersTogether == DEPTH = POINTERS => (Spec => []PointersAgree)
<1> SUFFICES ASSUME DEPTH = POINTERS PROVE Spec => []PointersAgree
  OBVIOUS
<1>1. Spec => []WriteAhead
  BY AlwaysAhead
<1>2. TypeOK /\ WriteAhead => PointersAgree
  <2> SUFFICES ASSUME TypeOK, WriteAhead PROVE PointersAgree
    OBVIOUS
  <2> DEFINE ahead == read_pointer_q + status_cnt_q
  <2>1. ahead \in Nat /\ ahead < 2 * DEPTH /\ DEPTH \in Nat \ {0}
    BY FifoAssumption DEF TypeOK, FifoTypeOK
  <2>2. ahead % DEPTH = IF ahead < DEPTH THEN ahead ELSE ahead - DEPTH
    <3> HIDE DEF ahead
    <3> QED BY <2>1, WrapIsModulus
  <2>3. write_pointer_q = IF ahead < DEPTH THEN ahead ELSE ahead - DEPTH
    BY FifoAssumption DEF WriteAhead, TypeOK, FifoTypeOK
  <2> HIDE DEF ahead
  <2>4. write_pointer_q = ahead % DEPTH
    BY <2>2, <2>3, Zenon
  <2> QED BY <2>4 DEF PointersAgree, ahead
<1> QED BY <1>1, <1>2, TypeCorrect, PTL

-----------------------------------------------------------------------------
(* The FIFO implements the queue.                                          *)

\* The i-th word is read from here, around the end of the memory.
Slot(p, i) == IF p + i - 1 < DEPTH THEN p + i - 1 ELSE p + i - 1 - DEPTH

LEMMA ContentsAre ==
  DEPTH = POINTERS /\ FifoTypeOK =>
    Contents = [i \in 1 .. status_cnt_q |-> mem_q[Slot(read_pointer_q, i)]]
<1> SUFFICES ASSUME DEPTH = POINTERS, FifoTypeOK
             PROVE  Contents = [i \in 1 .. status_cnt_q |-> mem_q[Slot(read_pointer_q, i)]]
  OBVIOUS
<1>1. ASSUME NEW i \in 1 .. status_cnt_q
      PROVE  (read_pointer_q + i - 1) % DEPTH = Slot(read_pointer_q, i)
  <2> DEFINE x == read_pointer_q + i - 1
  <2>1. x \in Nat /\ x < 2 * DEPTH /\ DEPTH \in Nat \ {0}
    BY FifoAssumption DEF FifoTypeOK
  <2>2. x % DEPTH = IF x < DEPTH THEN x ELSE x - DEPTH
    <3> HIDE DEF x
    <3> QED BY <2>1, WrapIsModulus
  <2>3. Slot(read_pointer_q, i) = IF x < DEPTH THEN x ELSE x - DEPTH
    BY FifoAssumption DEF Slot, FifoTypeOK
  <2>4. (read_pointer_q + i - 1) % DEPTH = x % DEPTH
    OBVIOUS
  <2> QED BY <2>2, <2>3, <2>4, Zenon
<1> QED BY <1>1 DEF Contents

\* The slots of different words differ, and a pop moves them all by one.
LEMMA SlotFacts ==
  ASSUME DEPTH = POINTERS, NEW p \in 0 .. DEPTH - 1
  PROVE  /\ \A i \in 1 .. DEPTH : Slot(p, i) \in 0 .. DEPTH - 1
         /\ \A i, j \in 1 .. DEPTH : Slot(p, i) = Slot(p, j) => i = j
         /\ Slot(p, 1) = p
         /\ \A i \in 1 .. DEPTH - 1 : Slot(Advance(p), i) = Slot(p, i + 1)
BY FifoAssumption DEF Slot, Advance, Incr

LEMMA ContentsType ==
  ASSUME DEPTH = POINTERS, FifoTypeOK
  PROVE  /\ Contents \in Seq(Word) /\ Len(Contents) = status_cnt_q
         /\ Contents = <<>> <=> status_cnt_q = 0
         /\ \A i \in 1 .. status_cnt_q : Contents[i] = mem_q[Slot(read_pointer_q, i)]
<1>1. status_cnt_q \in Nat /\ 1 .. status_cnt_q \subseteq 1 .. DEPTH
  BY FifoAssumption DEF FifoTypeOK
<1>2. \A i \in 1 .. status_cnt_q : mem_q[Slot(read_pointer_q, i)] \in Word
  BY <1>1, SlotFacts DEF FifoTypeOK
<1> DEFINE F(i) == mem_q[Slot(read_pointer_q, i)]
<1>3. Contents = [i \in 1 .. status_cnt_q |-> F(i)] /\ \A i \in 1 .. status_cnt_q : F(i) \in Word
  BY <1>2, ContentsAre
<1> HIDE DEF F
<1>4. Contents \in Seq(Word) /\ Len(Contents) = status_cnt_q
  BY <1>1, <1>3
<1> QED BY <1>1, <1>3, <1>4 DEF F

\* The words held, in the states of interest: none, any, one.
LEMMA ContentsEmpty ==
  DEPTH = POINTERS /\ FifoTypeOK => (Contents = <<>> <=> status_cnt_q = 0)
BY ContentsType

LEMMA ContentsHead ==
  ASSUME DEPTH = POINTERS, FifoTypeOK, status_cnt_q # 0
  PROVE  Head(Contents) = mem_q[read_pointer_q]
<1>1. 1 \in 1 .. status_cnt_q /\ read_pointer_q \in 0 .. DEPTH - 1
  BY FifoAssumption DEF FifoTypeOK
<1>2. Contents[1] = mem_q[read_pointer_q]
  BY <1>1, ContentsType, SlotFacts
<1>3. Contents # <<>> /\ Contents \in Seq(Word)
  BY ContentsType
<1> HIDE DEF Contents
<1> QED BY <1>2, <1>3

LEMMA ContentsOne ==
  DEPTH = POINTERS /\ FifoTypeOK /\ status_cnt_q = 1 => Contents = <<mem_q[read_pointer_q]>>
<1> SUFFICES ASSUME DEPTH = POINTERS, FifoTypeOK, status_cnt_q = 1
             PROVE  Contents = <<mem_q[read_pointer_q]>>
  OBVIOUS
<1>1. Head(Contents) = mem_q[read_pointer_q]
  BY ContentsHead
<1>2. Contents \in Seq(Word) /\ Len(Contents) = 1
  BY ContentsType
<1> QED BY <1>1, <1>2

\* The words held together with a word that is pushed, from the memory after the push.
LEMMA PushAppends ==
  ASSUME DEPTH = POINTERS, FifoTypeOK, WriteAhead,
         NEW push \in BOOLEAN, NEW d \in Word, WriteMem(push, d)
  PROVE  LET accepted == IF push /\ Len(Contents) < DEPTH THEN <<d>> ELSE <<>>
             all      == Contents \o accepted
             n        == IF push /\ ~full_o THEN status_cnt_q + 1 ELSE status_cnt_q
         IN  /\ all \in Seq(Word) /\ Len(all) = n /\ n \in 0 .. DEPTH
             /\ \A i \in 1 .. n : all[i] = mem_q'[Slot(read_pointer_q, i)]
<1> USE FifoAssumption
<1> DEFINE pushed == push /\ ~full_o
           accepted == IF push /\ Len(Contents) < DEPTH THEN <<d>> ELSE <<>>
           all == Contents \o accepted
           n == IF pushed THEN status_cnt_q + 1 ELSE status_cnt_q
<1> SUFFICES /\ all \in Seq(Word) /\ Len(all) = n /\ n \in 0 .. DEPTH
             /\ \A i \in 1 .. n : all[i] = mem_q'[Slot(read_pointer_q, i)]
  OBVIOUS
<1>1. /\ read_pointer_q \in 0 .. DEPTH - 1 /\ write_pointer_q \in 0 .. DEPTH - 1
      /\ status_cnt_q \in 0 .. DEPTH /\ mem_q \in [0 .. DEPTH - 1 -> Word]
  BY DEF FifoTypeOK
<1>2. accepted = IF pushed THEN <<d>> ELSE <<>>
  BY <1>1, ContentsType DEF full_o
<1>3. CASE pushed
  <2>1. status_cnt_q < DEPTH /\ write_pointer_q = Slot(read_pointer_q, status_cnt_q + 1)
    BY <1>1, <1>3 DEF full_o, WriteAhead, Slot
  <2>2. mem_q' = [mem_q EXCEPT ![write_pointer_q] = d]
    BY <1>1, <1>3 DEF WriteMem
  <2>3. all = Append(Contents, d)
    BY <1>2, <1>3, ContentsType
  <2>4. /\ all \in Seq(Word) /\ Len(all) = status_cnt_q + 1
        /\ \A i \in 1 .. status_cnt_q : all[i] = Contents[i]
        /\ all[status_cnt_q + 1] = d
    BY <1>1, <2>3, ContentsType
  <2> HIDE DEF all
  <2>5. mem_q'[Slot(read_pointer_q, status_cnt_q + 1)] = d
    BY <1>1, <2>1, <2>2
  <2>6. ASSUME NEW i \in 1 .. status_cnt_q
        PROVE  all[i] = mem_q'[Slot(read_pointer_q, i)]
    <3>1. /\ i \in 1 .. DEPTH /\ status_cnt_q + 1 \in 1 .. DEPTH /\ i # status_cnt_q + 1
      BY <1>1, <2>1
    <3>2. Slot(read_pointer_q, i) \in 0 .. DEPTH - 1 /\ Slot(read_pointer_q, i) # write_pointer_q
      <4>1. /\ \A k \in 1 .. DEPTH : Slot(read_pointer_q, k) \in 0 .. DEPTH - 1
            /\ \A k, l \in 1 .. DEPTH :
                 Slot(read_pointer_q, k) = Slot(read_pointer_q, l) => k = l
        BY <1>1, SlotFacts
      <4> HIDE DEF all
      <4> QED BY <2>1, <3>1, <4>1
    <3> QED BY <1>1, <2>2, <2>4, <3>2, ContentsType
  <2>7. \A i \in 1 .. status_cnt_q + 1 : i \in 1 .. status_cnt_q \/ i = status_cnt_q + 1
    BY <1>1
  <2>8. n = status_cnt_q + 1
    BY <1>3
  <2> HIDE DEF n, pushed
  <2> QED BY <1>1, <2>1, <2>4, <2>5, <2>6, <2>7, <2>8
<1>4. CASE ~pushed
  <2>1. mem_q' = mem_q
    BY <1>4 DEF WriteMem
  <2>2. all = Contents /\ n = status_cnt_q
    <3>1. \A s \in Seq(Word) : s \o <<>> = s
      OBVIOUS
    <3>2. accepted = <<>> /\ n = status_cnt_q
      BY <1>2, <1>4
    <3> HIDE DEF accepted
    <3> QED BY <3>1, <3>2, ContentsType
  <2> HIDE DEF all, n
  <2> QED BY <1>1, <2>1, <2>2, ContentsType
<1> QED BY <1>3, <1>4

\* A transfer pops the oldest word, after the push, and delivers it.
LEMMA TransferStep ==
  ASSUME DEPTH = POINTERS, FifoTypeOK, FifoTypeOK', WriteAhead,
         NEW push \in BOOLEAN, NEW pop \in BOOLEAN, NEW d \in Word,
         FifoTransfer(push, pop, d), Consume(push, pop, d)
  PROVE  Queue!Transfer(push, pop, d)
<1> USE FifoAssumption
<1> DEFINE accepted == IF push /\ Len(Contents) < DEPTH THEN <<d>> ELSE <<>>
           all      == Contents \o accepted
           pushed   == push /\ ~full_o
           popped   == pop /\ ~empty_o(push)
           pass     == FALL_THROUGH /\ status_cnt_q = 0 /\ push /\ pop
           n        == IF pushed THEN status_cnt_q + 1 ELSE status_cnt_q
           visible  == IF FALL_THROUGH \/ Contents # <<>> THEN all ELSE <<>>
           taken    == IF pop /\ visible # <<>> THEN 1 ELSE 0
<1>1. /\ all \in Seq(Word) /\ Len(all) = n /\ n \in 0 .. DEPTH
      /\ \A i \in 1 .. n : all[i] = mem_q'[Slot(read_pointer_q, i)]
  BY PushAppends DEF FifoTransfer
<1>2. /\ read_pointer_q' = IF popped /\ ~pass THEN Advance(read_pointer_q) ELSE read_pointer_q
      /\ status_cnt_q' = IF pushed <=> popped THEN status_cnt_q
                         ELSE IF pushed THEN status_cnt_q + 1 ELSE status_cnt_q - 1
  BY DEF FifoTransfer
<1>3. status_cnt_q \in 0 .. DEPTH /\ DEPTH > 0 /\ read_pointer_q \in 0 .. DEPTH - 1
  BY DEF FifoTypeOK
<1>4. /\ pass => popped /\ pushed /\ status_cnt_q = 0
      /\ popped /\ ~pushed => status_cnt_q # 0
      /\ popped /\ ~pass => status_cnt_q # 0
  BY <1>3 DEF full_o, empty_o
<1>5. visible # <<>> <=> ~empty_o(push)
  <2>1. all = <<>> <=> n = 0
    <3> HIDE DEF all, n
    <3> QED BY <1>1
  <2>2. Contents = <<>> <=> status_cnt_q = 0
    BY ContentsType
  <2>3. n = 0 <=> status_cnt_q = 0 /\ ~push
    BY <1>3 DEF full_o
  <2> HIDE DEF all, n
  <2> QED BY <2>1, <2>2, <2>3 DEF empty_o
<1>6. taken = IF popped THEN 1 ELSE 0
  <2> HIDE DEF visible
  <2> QED BY <1>5
<1> HIDE DEF all, accepted
<1>7. status_cnt_q' = n - taken /\ taken \in 0 .. 1
  <2> HIDE DEF taken, pushed, popped, pass
  <2> QED BY <1>2, <1>3, <1>4, <1>6
<1> HIDE DEF taken, pushed, popped, pass, n, visible
<1>8. ASSUME NEW i \in 1 .. n - taken
      PROVE  Slot(read_pointer_q', i) = Slot(read_pointer_q, i + taken)
  <2>1. CASE taken = 0
    BY <1>2, <1>6, <2>1
  <2>2. CASE taken = 1 /\ ~pass
    <3>1. i \in 1 .. DEPTH - 1 /\ read_pointer_q' = Advance(read_pointer_q)
      BY <1>1, <1>2, <1>3, <1>6, <2>2
    <3> QED BY <1>3, <2>2, <3>1, SlotFacts
  <2>3. CASE taken = 1 /\ pass
    <3>1. n = 1
      BY <1>4, <2>3 DEF n
    <3> QED BY <2>3, <3>1
  <2> QED BY <1>7, <2>1, <2>2, <2>3
<1>9. Contents' = SubSeq(all, taken + 1, Len(all))
  <2>1. Contents' = [i \in 1 .. n - taken |-> mem_q'[Slot(read_pointer_q', i)]]
    <3>1. (DEPTH = POINTERS /\ FifoTypeOK =>
             Contents = [i \in 1 .. status_cnt_q |-> mem_q[Slot(read_pointer_q, i)]])'
      BY ContentsAre, PTL
    <3> QED BY <1>7, <3>1
  <2>2. SubSeq(all, taken + 1, n) = [i \in 1 .. n - taken |-> all[i + taken]]
    BY <1>1, <1>7
  <2>3. ASSUME NEW i \in 1 .. n - taken
        PROVE  all[i + taken] = mem_q'[Slot(read_pointer_q', i)]
    <3>1. i + taken \in 1 .. n
      BY <1>1, <1>7
    <3> QED BY <1>1, <1>8, <3>1
  <2> QED BY <1>1, <2>1, <2>2, <2>3
<1>10. out' = IF taken = 1 THEN visible[1] ELSE out
  <2>1. CASE taken = 0
    BY <1>6, <2>1 DEF Consume, popped
  <2>2. CASE taken = 1
    <3>1. out' \in data_o(push, d)
      BY <1>6, <2>2 DEF Consume, popped
    <3>2. visible = all /\ n \in 1 .. DEPTH
      BY <1>1, <1>3, <1>4, <1>5, <1>6, <2>2 DEF visible, popped, n, taken
    <3>3. all[1] = mem_q'[read_pointer_q]
      <4>1. Slot(read_pointer_q, 1) = read_pointer_q
        BY <1>3, SlotFacts
      <4> QED BY <1>1, <3>2, <4>1
    <3>4. popped /\ WriteMem(push, d) /\ mem_q \in [0 .. DEPTH - 1 -> Word]
      BY <1>6, <2>2 DEF FifoTransfer, FifoTypeOK
    <3>5. CASE status_cnt_q = 0
      <4>1. push /\ ~full_o /\ out' = d
        BY <1>3, <3>1, <3>4, <3>5 DEF popped, empty_o, full_o, data_o
      <4>2. write_pointer_q = read_pointer_q
        BY <1>3, <3>5 DEF WriteAhead
      <4>3. mem_q'[read_pointer_q] = d
        BY <1>3, <3>4, <4>1, <4>2 DEF WriteMem
      <4> QED BY <2>2, <3>2, <3>3, <4>1, <4>3
    <3>6. CASE status_cnt_q # 0
      <4>1. out' = mem_q[read_pointer_q]
        BY <1>3, <3>1, <3>6 DEF data_o
      <4>2. ~full_o => write_pointer_q # read_pointer_q
        BY <1>3, <3>6 DEF WriteAhead, full_o
      <4>3. mem_q'[read_pointer_q] = mem_q[read_pointer_q]
        BY <1>3, <3>4, <4>2 DEF WriteMem, FifoTypeOK
      <4> QED BY <2>2, <3>2, <3>3, <4>1, <4>3
    <3> QED BY <3>5, <3>6
  <2> QED BY <1>7, <2>1, <2>2
<1> QED BY <1>9, <1>10 DEF Queue!Transfer, all, accepted, visible, taken

\* A flush empties the queue; one that keeps the first word drops the others.
LEMMA FlushStep ==
  ASSUME DEPTH = POINTERS, FifoTypeOK, FifoTypeOK',
         NEW push \in BOOLEAN, NEW pop \in BOOLEAN, NEW d \in Word,
         FifoFlush(push, d), Consume(push, pop, d)
  PROVE  Queue!Flush(push, pop, d)
<1> USE FifoAssumption
<1>1. (DEPTH = POINTERS /\ FifoTypeOK => (Contents = <<>> <=> status_cnt_q = 0))'
  BY ContentsEmpty, PTL
<1>2. Contents' = <<>>
  BY <1>1 DEF FifoFlush
<1>3. Contents = <<>> <=> status_cnt_q = 0
  BY ContentsType
<1>4. status_cnt_q # 0 => Head(Contents) = mem_q[read_pointer_q]
  BY ContentsHead
<1>5. read_pointer_q < DEPTH
  BY DEF FifoTypeOK
<1> QED BY <1>2, <1>3, <1>4, <1>5 DEF Queue!Flush, Consume, data_o, empty_o

LEMMA FlushButFirstStep ==
  ASSUME DEPTH = POINTERS, FifoTypeOK, FifoTypeOK', WriteAhead,
         NEW push \in BOOLEAN, NEW d \in Word,
         FifoFlushButFirst(push, d), out' = out
  PROVE  Queue!FlushButFirst
<1> USE FifoAssumption
<1>1. (DEPTH = POINTERS /\ FifoTypeOK => (Contents = <<>> <=> status_cnt_q = 0))'
  BY ContentsEmpty, PTL
<1>2. Contents = <<>> <=> status_cnt_q = 0
  BY ContentsType
<1>3. CASE status_cnt_q = 0
  BY <1>1, <1>2, <1>3 DEF FifoFlushButFirst, Queue!FlushButFirst
<1>4. CASE status_cnt_q # 0
  <2>1. status_cnt_q' = 1 /\ read_pointer_q' = read_pointer_q
    BY <1>4 DEF FifoFlushButFirst, FifoTypeOK
  <2>2. (DEPTH = POINTERS /\ FifoTypeOK /\ status_cnt_q = 1
           => Contents = <<mem_q[read_pointer_q]>>)'
    BY ContentsOne, PTL
  <2>3. Contents' = <<mem_q'[read_pointer_q]>>
    BY <2>1, <2>2
  <2>4. mem_q'[read_pointer_q] = mem_q[read_pointer_q]
    BY <1>4 DEF FifoFlushButFirst, FifoTypeOK, WriteMem, WriteAhead, full_o
  <2> QED BY <1>2, <1>4, <2>3, <2>4, ContentsHead DEF Queue!FlushButFirst
<1> QED BY <1>3, <1>4

\* Words leave in the order they were pushed, none lost or repeated, and a flush drops
\* exactly the words it must, each when the inputs ask for it: for every depth that is a power of two, with and without
\* FALL_THROUGH.
THEOREM IsTheQueue == DEPTH = POINTERS => (Spec => ImplementsQueue)
<1> SUFFICES ASSUME DEPTH = POINTERS PROVE Spec => ImplementsQueue
  OBVIOUS
<1>1. Spec => []WriteAhead
  BY AlwaysAhead
<1>2. Init => Queue!Init
  <2> SUFFICES ASSUME Init PROVE Queue!Init
    OBVIOUS
  <2>1. FifoTypeOK /\ status_cnt_q = 0
    BY FifoAssumption DEF Init, FifoInit, FifoTypeOK
  <2>2. port \in Queue!Ports
    BY FifoAssumption DEF Init, Idle, Queue!Ports
  <2> QED BY <2>1, <2>2, ContentsEmpty DEF Init, Queue!Init
<1>3. TypeOK /\ TypeOK' /\ WriteAhead /\ [Next]_vars => [Queue!Next]_Queue!vars
  <2> SUFFICES ASSUME TypeOK, TypeOK', WriteAhead, [Next]_vars
               PROVE  [Queue!Next]_Queue!vars
    OBVIOUS
  <2> USE DEF TypeOK
  <2>1. CASE Transfer
    <3>1. PICK push, pop \in BOOLEAN, d \in Word :
            /\ FifoTransfer(push, pop, d) /\ Consume(push, pop, d)
            /\ Queue!Asked("transfer", push, pop, d)
      BY <2>1 DEF Transfer, FifoCycle
    <3> QED BY <3>1, TransferStep DEF Queue!Next
  <2>2. CASE Flush
    <3>1. PICK push, pop \in BOOLEAN, d \in Word :
            /\ FifoFlush(push, d) /\ Consume(push, pop, d)
            /\ Queue!Asked("flush", push, pop, d)
      BY <2>2 DEF Flush, FifoCycle
    <3> QED BY <3>1, FlushStep DEF Queue!Next
  <2>3. CASE FlushButFirst
    <3>1. PICK push \in BOOLEAN, d \in Word :
            /\ FifoFlushButFirst(push, d) /\ out' = out
            /\ Queue!Asked("flush_but_first", push, FALSE, d)
      BY <2>3 DEF FlushButFirst, FifoCycle, Consume
    <3> QED BY <3>1, FlushButFirstStep DEF Queue!Next
  <2>4. CASE UNCHANGED vars
    BY <2>4 DEF vars, fifoVars, Contents, Queue!vars
  <2> QED BY <2>1, <2>2, <2>3, <2>4 DEF Next
<1> QED BY <1>1, <1>2, <1>3, TypeCorrect, PTL DEF Spec, ImplementsQueue, Queue!Spec
=============================================================================
