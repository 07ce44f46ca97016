--------------------------- MODULE PrefetchProofs ---------------------------
(***************************************************************************)
(* The counters of the prefetch buffer are right, and it hands over the    *)
(* words of the program's path, for every FIFO depth, address space and    *)
(* configuration.                                                          *)
(***************************************************************************)
EXTENDS PrefetchBuffer, TLAPS

\* The inputs of a cycle, and those the environment may choose.
Inputs ==
  [req : BOOLEAN, branch : BOOLEAN, branch_addr : Addr,
   hwlp_jump : BOOLEAN, hwlp_target : Addr,
   fetch_ready : BOOLEAN, trans_ready : BOOLEAN, resp_valid : BOOLEAN]

Legal(i) ==
  /\ i.trans_ready = Obi!trans_ready_o
  /\ i.resp_valid => granted # <<>>
  /\ i.branch => i.req /\ ~i.fetch_ready
  /\ i.hwlp_jump => i.req /\ ~i.branch /\ COREV_PULP /\ awaiting = "line"
  /\ i.fetch_ready => i.req /\ fetch_valid_o(i)
  /\ awaiting = "boot" => ~i.req \/ i.branch

\* A loop jump is pending only until HWLP_END is in, and nothing is flushed
\* while the next word is in line with the one in ID.
PhaseAgrees ==
  /\ awaiting = "line" => flush_cnt_q = 0
  /\ hwlp_flush_after_resp => awaiting = "loop_end"

\* The request the memory sees is the one the OBI interface holds.
WaitingRegistered ==
  waiting = IF obi_state_q = "REGISTERED" THEN {obi_q} ELSE {}

IInv ==
  /\ TypeOK
  /\ OutstandingCounted
  /\ RoomForResponses
  /\ FlushesBounded
  /\ HwlpEndRequested
  /\ PhaseAgrees
  /\ WaitingRegistered

-----------------------------------------------------------------------------
\* Every step is one clock cycle under legal inputs.
LEMMA NextIsCycle ==
  ASSUME Next
  PROVE  \E i \in Inputs, gnt \in BOOLEAN : Legal(i) /\ Cycle(i, gnt)
<1>a. 0 \in Addr
  BY ControllerAssumption DEF Addr
<1>b. Obi!trans_ready_o \in BOOLEAN
  BY DEF Obi!trans_ready_o
<1>1. ASSUME NEW resp \in BOOLEAN, NEW gnt \in BOOLEAN, NEW a \in Addr,
             Branch(a, resp, gnt)
      PROVE  \E i \in Inputs : Legal(i) /\ Cycle(i, gnt)
  <2> DEFINE i == [Quiet(TRUE, FALSE, resp) EXCEPT !.branch = TRUE, !.branch_addr = a]
  <2>1. i \in Inputs
    BY <1>1, <1>a, <1>b DEF Quiet, Inputs
  <2>2. Legal(i)
    BY <1>1 DEF Legal, Branch, Quiet, Returns
  <2>3. Cycle(i, gnt)
    BY <1>1 DEF Branch
  <2> QED BY <2>1, <2>2, <2>3
<1>2. ASSUME NEW resp \in BOOLEAN, NEW gnt \in BOOLEAN, NEW a \in Addr,
             NEW ready \in BOOLEAN, HwlpJump(a, ready, resp, gnt)
      PROVE  \E i \in Inputs : Legal(i) /\ Cycle(i, gnt)
  <2> DEFINE i == [Quiet(TRUE, ready, resp) EXCEPT !.hwlp_jump = TRUE, !.hwlp_target = a]
  <2>1. i \in Inputs
    BY <1>2, <1>a, <1>b DEF Quiet, Inputs
  <2>2. Legal(i)
    BY <1>2 DEF Legal, HwlpJump, Quiet, Returns
  <2>3. Cycle(i, gnt)
    BY <1>2 DEF HwlpJump
  <2> QED BY <2>1, <2>2, <2>3
<1>3. ASSUME NEW resp \in BOOLEAN, NEW gnt \in BOOLEAN, NEW req \in BOOLEAN,
             NEW ready \in BOOLEAN, Fetch(req, ready, resp, gnt)
      PROVE  \E i \in Inputs : Legal(i) /\ Cycle(i, gnt)
  <2> DEFINE i == Quiet(req, ready, resp)
  <2>1. i \in Inputs
    BY <1>3, <1>a, <1>b DEF Quiet, Inputs
  <2>2. Legal(i)
    BY <1>3 DEF Legal, Fetch, Quiet, Returns
  <2>3. Cycle(i, gnt)
    BY <1>3 DEF Fetch
  <2> QED BY <2>1, <2>2, <2>3
<1> QED BY <1>1, <1>2, <1>3 DEF Next

-----------------------------------------------------------------------------
\* What a cycle does to the counts.

\* The controller's outstanding count stays within 0 .. DEPTH; a response only
\* comes when one is owed, and a request only goes out when a slot is left.
LEMMA ControllerCounts ==
  ASSUME IInv, NEW i \in Inputs, NEW gnt \in BOOLEAN, Legal(i), Cycle(i, gnt)
  PROVE  /\ count_up(i) \in BOOLEAN
         /\ i.resp_valid => cnt_q > 0
         /\ count_up(i) => cnt_q < DEPTH
         /\ cnt_q' = cnt_q + (IF count_up(i) THEN 1 ELSE 0)
                           - (IF i.resp_valid THEN 1 ELSE 0)
<1> USE FifoAssumption, BufferAssumption
<1>1. count_up(i) \in BOOLEAN
  BY DEF count_up, trans_valid_o, Inputs
<1>2. cnt_q \in 0 .. DEPTH /\ status_cnt_q \in 0 .. DEPTH /\ granted \in Seq(Addr)
  BY DEF IInv, TypeOK, ControllerTypeOK, FifoTypeOK
<1>3. i.resp_valid => cnt_q > 0
  BY <1>2 DEF IInv, OutstandingCounted, Legal
<1>4. count_up(i) => cnt_q < DEPTH
  BY <1>2 DEF count_up, trans_valid_o, fifo_cnt_masked
<1>5. cnt_q' = next_cnt(i)
  BY DEF Cycle, ControllerCycle
<1>6. i.resp_valid \in BOOLEAN
  BY DEF Inputs
<1>7. cnt_q' = cnt_q + (IF count_up(i) THEN 1 ELSE 0)
                     - (IF i.resp_valid THEN 1 ELSE 0)
  <2>1. CASE count_up(i) /\ i.resp_valid
    BY <2>1, <1>1, <1>2, <1>5, <1>6 DEF next_cnt
  <2>2. CASE count_up(i) /\ ~i.resp_valid
    BY <2>2, <1>1, <1>2, <1>5, <1>6 DEF next_cnt
  <2>3. CASE ~count_up(i) /\ i.resp_valid
    BY <2>3, <1>1, <1>2, <1>3, <1>5, <1>6 DEF next_cnt, CountDown
  <2>4. CASE ~count_up(i) /\ ~i.resp_valid
    BY <2>4, <1>1, <1>2, <1>5, <1>6 DEF next_cnt
  <2> QED BY <2>1, <2>2, <2>3, <2>4, <1>6
<1> QED BY <1>1, <1>3, <1>4, <1>7

\* The responses the memory owes change with the bus: one more per grant, one
\* less per response.
LEMMA MemoryCounts ==
  ASSUME IInv, NEW i \in Inputs, NEW gnt \in BOOLEAN, Legal(i), Cycle(i, gnt),
         trans_addr_o(i) \in Addr
  PROVE  /\ granted' \in Seq(Addr)
         /\ Obi!ObiTypeOK'
         /\ waiting' \in SUBSET Addr
         /\ WaitingRegistered'
         /\ OutstandingCounted'
<1> DEFINE req  == Obi!obi_req_o(trans_valid_o(i))
           addr == Obi!obi_trans_o(trans_addr_o(i))
           left == IF i.resp_valid THEN Tail(granted) ELSE granted
<1>1. granted \in Seq(Addr) /\ Obi!ObiTypeOK /\ cnt_q \in 0 .. DEPTH
  BY DEF IInv, TypeOK, ControllerTypeOK
<1>2. addr \in Addr
  BY <1>1 DEF Obi!obi_trans_o, Obi!ObiTypeOK
<1>3. i.resp_valid => granted # <<>>
  BY DEF Legal
<1>4. /\ left \in Seq(Addr)
      /\ Len(left) = Len(granted) - (IF i.resp_valid THEN 1 ELSE 0)
  BY <1>1, <1>3
<1>5. /\ granted' = IF req /\ gnt THEN Append(left, addr) ELSE left
      /\ waiting' = IF req /\ ~gnt THEN {addr} ELSE {}
  BY DEF Cycle, Memory
<1>6. /\ granted' \in Seq(Addr)
      /\ Len(granted') = Len(left) + (IF req /\ gnt THEN 1 ELSE 0)
  <2> HIDE DEF req, addr, left
  <2>1. CASE req /\ gnt
    BY <2>1, <1>2, <1>4, <1>5
  <2>2. CASE ~(req /\ gnt)
    <3>1. granted' = left
      BY <2>2, <1>5
    <3>2. Len(left) \in Nat
      BY <1>4
    <3> QED BY <2>2, <3>1, <3>2, <1>4
  <2> QED BY <2>1, <2>2
<1>7. waiting' \in SUBSET Addr
  BY <1>2, <1>5
<1>8. Obi!ObiCycle(trans_valid_o(i), trans_addr_o(i), gnt)
  BY DEF Cycle
<1>9. count_up(i) <=> trans_valid_o(i) /\ obi_state_q = "TRANSPARENT"
  BY DEF count_up, Legal, Obi!trans_ready_o
<1> HIDE DEF left
<1>10. /\ Obi!ObiTypeOK'
       /\ WaitingRegistered'
       /\ (IF obi_state_q' = "REGISTERED" THEN 1 ELSE 0) + (IF req /\ gnt THEN 1 ELSE 0)
            = (IF obi_state_q = "REGISTERED" THEN 1 ELSE 0) + (IF count_up(i) THEN 1 ELSE 0)
  <2> USE <1>1, <1>5, <1>9 DEF Obi!ObiTypeOK, Obi!obi_req_o, Obi!obi_trans_o, WaitingRegistered
  <2>1. CASE Obi!Register(trans_valid_o(i), trans_addr_o(i), gnt)
    BY <2>1 DEF Obi!Register
  <2>2. CASE Obi!Release(gnt)
    BY <2>2 DEF Obi!Release
  <2>3. CASE Obi!Hold(trans_valid_o(i), gnt)
    <3>1. obi_state_q' = obi_state_q /\ obi_q' = obi_q
      BY <2>3 DEF Obi!Hold, Obi!obiVars
    <3>2. CASE obi_state_q = "TRANSPARENT"
      BY <2>3, <3>1, <3>2 DEF Obi!Hold
    <3>3. CASE obi_state_q = "REGISTERED"
      BY <2>3, <3>1, <3>3 DEF Obi!Hold
    <3> QED BY <3>2, <3>3
  <2> QED BY <1>8, <2>1, <2>2, <2>3 DEF Obi!ObiCycle
<1>11. OutstandingCounted'
  <2>1. cnt_q' = cnt_q + (IF count_up(i) THEN 1 ELSE 0) - (IF i.resp_valid THEN 1 ELSE 0)
    BY ControllerCounts
  <2>2. cnt_q = Len(granted) + (IF obi_state_q = "REGISTERED" THEN 1 ELSE 0)
    BY DEF IInv, OutstandingCounted
  <2>3. Len(granted) \in Nat /\ Len(left) \in Nat
    BY <1>1, <1>4
  <2> DEFINE up   == IF count_up(i) THEN 1 ELSE 0
             down == IF i.resp_valid THEN 1 ELSE 0
             sent == IF req /\ gnt THEN 1 ELSE 0
             held == IF obi_state_q = "REGISTERED" THEN 1 ELSE 0
             kept == IF obi_state_q' = "REGISTERED" THEN 1 ELSE 0
  <2>4. up \in Int /\ down \in Int /\ sent \in Int /\ held \in Int /\ kept \in Int
    OBVIOUS
  <2>5. kept + sent = held + up /\ Len(granted') = Len(left) + sent
    BY <1>6, <1>10
  <2>6. Len(left) = Len(granted) - down
    BY <1>4
  <2>7. cnt_q' = cnt_q + up - down /\ cnt_q = Len(granted) + held
    BY <2>1, <2>2
  <2> HIDE DEF up, down, sent, held, kept
  <2>8. cnt_q' = Len(granted') + kept
    BY <2>3, <2>4, <2>5, <2>6, <2>7
  <2> QED BY <2>8 DEF OutstandingCounted, kept
<1> QED BY <1>6, <1>7, <1>10, <1>11

\* The FIFO is never pushed when it is full (assertion full_write).
LEMMA PushHasRoom ==
  ASSUME IInv, NEW i \in Inputs, Legal(i), fifo_push_o(i)
  PROVE  status_cnt_q < DEPTH
<1> USE FifoAssumption
<1>1. /\ cnt_q \in 0 .. DEPTH /\ flush_cnt_q \in 0 .. DEPTH
      /\ status_cnt_q \in 0 .. DEPTH /\ granted \in Seq(Addr)
  BY DEF IInv, TypeOK, ControllerTypeOK, FifoTypeOK
<1>2. flush_cnt_q = 0 /\ i.resp_valid
  BY <1>1 DEF fifo_push_o, flushing
<1>3. cnt_q > 0
  BY <1>1, <1>2 DEF IInv, OutstandingCounted, Legal
<1>4. cnt_q - flush_cnt_q <= DEPTH - status_cnt_q
  BY DEF IInv, RoomForResponses
<1> QED BY <1>1, <1>2, <1>3, <1>4

\* The FIFO's fill level after a cycle, from its flush, push and pop inputs.
LEMMA FifoCounts ==
  ASSUME IInv, NEW i \in Inputs, NEW gnt \in BOOLEAN, Legal(i), Cycle(i, gnt)
  PROVE  /\ FifoTypeOK'
         /\ fifo_flush_o(i) => status_cnt_q' = 0
         /\ ~fifo_flush_o(i) /\ fifo_flush_but_first_o(i) => status_cnt_q' = 1
         /\ ~fifo_flush_o(i) /\ ~fifo_flush_but_first_o(i) =>
              status_cnt_q' = status_cnt_q + (IF fifo_push_o(i) THEN 1 ELSE 0)
                                           - (IF fifo_pop_o(i) THEN 1 ELSE 0)
<1> USE FifoAssumption, BufferAssumption
<1> DEFINE push == fifo_push_o(i)
           pop  == fifo_pop_o(i)
<1>1. FifoTypeOK /\ granted \in Seq(Addr)
  BY DEF IInv, TypeOK
<1>2. resp_rdata \in Word
  BY <1>1 DEF resp_rdata
<1>3. push \in BOOLEAN /\ pop \in BOOLEAN
  BY DEF fifo_push_o, fifo_pop_o, Inputs
<1>4. push => status_cnt_q < DEPTH
  BY PushHasRoom
<1>5. pop => status_cnt_q > 0
  BY <1>1 DEF fifo_pop_o, fifo_valid, empty_o, FifoTypeOK
<1>6. fifo_flush_but_first_o(i) => status_cnt_q > 0
  BY <1>1 DEF fifo_flush_but_first_o, fifo_valid, empty_o, FifoTypeOK
<1>7. FifoCycle(fifo_flush_o(i), fifo_flush_but_first_o(i), push, pop, resp_rdata)
  BY DEF Cycle
<1> HIDE DEF push, pop
<1>8. ASSUME WriteMem(push, resp_rdata)
      PROVE  mem_q' \in [0 .. DEPTH - 1 -> Word]
  BY <1>1, <1>2, <1>8 DEF WriteMem, FifoTypeOK
<1>9. CASE fifo_flush_o(i) /\ FifoFlush(push, resp_rdata)
  BY <1>1, <1>8, <1>9 DEF FifoFlush, FifoTypeOK
<1>10. CASE ~fifo_flush_o(i) /\ fifo_flush_but_first_o(i)
              /\ FifoFlushButFirst(push, resp_rdata)
  BY <1>1, <1>6, <1>8, <1>10 DEF FifoFlushButFirst, FifoTypeOK, Incr
<1>11. CASE ~fifo_flush_o(i) /\ ~fifo_flush_but_first_o(i)
              /\ FifoTransfer(push, pop, resp_rdata)
  <2>1. (push /\ ~full_o <=> push) /\ (pop /\ ~empty_o(push) <=> pop)
    BY <1>1, <1>4, <1>5 DEF full_o, empty_o, FifoTypeOK
  <2>2. /\ read_pointer_q' \in 0 .. POINTERS - 1
        /\ write_pointer_q' \in 0 .. POINTERS - 1
        /\ mem_q' \in [0 .. DEPTH - 1 -> Word]
    BY <1>1, <1>8, <1>11 DEF FifoTransfer, FifoTypeOK, Advance, Incr
  <2>3. status_cnt_q' = status_cnt_q + (IF push THEN 1 ELSE 0)
                                     - (IF pop THEN 1 ELSE 0)
    <3>1. status_cnt_q' = IF push <=> pop THEN status_cnt_q
                          ELSE IF push THEN status_cnt_q + 1
                          ELSE status_cnt_q - 1
      BY <1>11, <2>1 DEF FifoTransfer
    <3>2. status_cnt_q \in Nat
      BY <1>1 DEF FifoTypeOK
    <3>3. CASE push /\ pop
      BY <3>1, <3>2, <3>3
    <3>4. CASE push /\ ~pop
      BY <3>1, <3>2, <3>4
    <3>5. CASE ~push /\ pop
      BY <3>1, <3>2, <3>5
    <3>6. CASE ~push /\ ~pop
      BY <3>1, <3>2, <3>6
    <3> QED BY <1>3, <3>3, <3>4, <3>5, <3>6
  <2>4. status_cnt_q' \in 0 .. DEPTH
    BY <1>1, <1>4, <1>5, <2>3 DEF FifoTypeOK
  <2>5. FifoTypeOK'
    BY <2>2, <2>4 DEF FifoTypeOK
  <2> QED BY <1>11, <2>3, <2>5 DEF push, pop
<1> QED BY <1>7, <1>9, <1>10, <1>11 DEF FifoCycle

-----------------------------------------------------------------------------
\* One cycle preserves the invariant.

\* The address of a transaction lies in the address space.
LEMMA TransAddrType ==
  ASSUME IInv, NEW i \in Inputs
  PROVE  trans_addr_o(i) \in Addr
BY ControllerAssumption
   DEF IInv, TypeOK, ControllerTypeOK, trans_addr_o, Inputs, Succ, Addr

\* The counters, the FIFO level and the fetch stage's position, together.
CountersOK ==
  /\ cnt_q \in 0 .. DEPTH
  /\ flush_cnt_q \in 0 .. DEPTH
  /\ hwlp_flush_after_resp \in BOOLEAN
  /\ hwlp_flush_cnt_delayed_q \in 0 .. DEPTH
  /\ RoomForResponses
  /\ FlushesBounded
  /\ HwlpEndRequested
  /\ PhaseAgrees

\* When a word is taken and no other is on its way, the next one is requested in
\* the same cycle: this is what a FIFO of at least two words is for.
LEMMA NextRequested ==
  ASSUME IInv, NEW i \in Inputs, Legal(i), ~i.branch, ~i.hwlp_jump,
         i.fetch_ready, i.resp_valid \/ status_cnt_q > 0,
         status_cnt_q + cnt_q <= 1
  PROVE  count_up(i)
<1> USE FifoAssumption, BufferAssumption
<1>1. /\ cnt_q \in 0 .. DEPTH /\ status_cnt_q \in 0 .. DEPTH
      /\ granted \in Seq(Addr) /\ obi_state_q \in {"TRANSPARENT", "REGISTERED"}
  BY DEF IInv, TypeOK, ControllerTypeOK, FifoTypeOK, Obi!ObiTypeOK
<1>2. cnt_q = Len(granted) + (IF obi_state_q = "REGISTERED" THEN 1 ELSE 0)
  BY DEF IInv, OutstandingCounted
<1>3. i.resp_valid => Len(granted) > 0
  BY <1>1 DEF Legal
<1>4. obi_state_q = "TRANSPARENT" /\ (cnt_q = 0 \/ i.resp_valid)
  BY <1>1, <1>2, <1>3
<1>5. i.req /\ i.trans_ready
  BY <1>4 DEF Legal, Obi!trans_ready_o
<1>6. fifo_cnt_masked(i) + cnt_q < DEPTH
  BY <1>1 DEF fifo_cnt_masked
<1> QED BY <1>4, <1>5, <1>6 DEF count_up, trans_valid_o

\* One cycle keeps the relations between the fill level, the outstanding count
\* and the two flush counts.
LEMMA CountersStep ==
  ASSUME IInv, NEW i \in Inputs, NEW gnt \in BOOLEAN, Legal(i), Cycle(i, gnt)
  PROVE  CountersOK'
<1> USE FifoAssumption, BufferAssumption
<1> DEFINE up   == IF count_up(i) THEN 1 ELSE 0
           down == IF i.resp_valid THEN 1 ELSE 0
           push == IF fifo_push_o(i) THEN 1 ELSE 0
           pop  == IF fifo_pop_o(i) THEN 1 ELSE 0
<1>1. /\ cnt_q \in 0 .. DEPTH /\ flush_cnt_q \in 0 .. DEPTH
      /\ status_cnt_q \in 0 .. DEPTH
      /\ hwlp_flush_after_resp \in BOOLEAN
      /\ hwlp_flush_cnt_delayed_q \in 0 .. DEPTH
      /\ i.branch \in BOOLEAN /\ i.hwlp_jump \in BOOLEAN
      /\ i.resp_valid \in BOOLEAN /\ i.fetch_ready \in BOOLEAN
  BY DEF IInv, TypeOK, ControllerTypeOK, FifoTypeOK, Inputs
<1>2. RoomForResponses /\ FlushesBounded /\ HwlpEndRequested /\ PhaseAgrees
  BY DEF IInv
<1>3. /\ up \in {0, 1} /\ down \in {0, 1}
      /\ i.resp_valid <=> down = 1
      /\ count_up(i) <=> up = 1
      /\ down = 1 => cnt_q > 0
      /\ up = 1 => cnt_q < DEPTH
      /\ cnt_q' = cnt_q + up - down
  BY ControllerCounts
<1> HIDE DEF up, down
<1>4. /\ status_cnt_q' \in 0 .. DEPTH
      /\ fifo_flush_o(i) => status_cnt_q' = 0
      /\ ~fifo_flush_o(i) /\ fifo_flush_but_first_o(i) => status_cnt_q' = 1
      /\ ~fifo_flush_o(i) /\ ~fifo_flush_but_first_o(i) =>
           status_cnt_q' = status_cnt_q + push - pop
      /\ push \in {0, 1} /\ pop \in {0, 1}
      /\ fifo_push_o(i) <=> push = 1
      /\ fifo_pop_o(i) <=> pop = 1
  BY FifoCounts DEF FifoTypeOK
<1> HIDE DEF push, pop
<1>5. /\ flush_cnt_q' = next_flush_cnt(i)
      /\ DelayedFlush(i)
      /\ awaiting' = IF i.branch \/ (i.hwlp_jump /\ fetched(i)) THEN "target"
                     ELSE IF i.hwlp_jump THEN "loop_end"
                     ELSE IF ~fetched(i) THEN awaiting
                     ELSE IF awaiting = "loop_end" THEN "target" ELSE "line"
  BY DEF Cycle, ControllerCycle, FetchStage
<1>6. /\ i.fetch_ready => fetched(i)
      /\ fetched(i) => i.fetch_ready /\ flush_cnt_q = 0 /\ i.req
      /\ i.hwlp_jump => ~i.branch /\ COREV_PULP /\ awaiting = "line"
      /\ i.branch => ~i.fetch_ready
      /\ fetched(i) => status_cnt_q > 0 \/ i.resp_valid
  BY <1>1 DEF Legal, fetched, fetch_valid_o, flushing, fifo_valid, empty_o
<1>7. fifo_valid <=> status_cnt_q > 0
  BY <1>1 DEF fifo_valid, empty_o
<1>8. /\ count_up(i) => (IF i.hwlp_jump \/ i.branch THEN TRUE ELSE status_cnt_q + cnt_q < DEPTH)
      /\ fifo_push_o(i) => flush_cnt_q = 0 /\ i.resp_valid
  BY <1>1 DEF count_up, trans_valid_o, fifo_cnt_masked, fifo_push_o, flushing
<1>9. CASE i.branch
  <2>1. fifo_flush_o(i) /\ hwlp_flush_after_resp' = FALSE /\ hwlp_flush_cnt_delayed_q' = 0
    BY <1>5, <1>9 DEF fifo_flush_o, DelayedFlush
  <2>2. flush_cnt_q' = cnt_q - down /\ awaiting' = "target"
    <3>1. flush_cnt_q' = IF i.resp_valid /\ cnt_q > 0 THEN cnt_q - 1 ELSE cnt_q
      BY <1>5, <1>9 DEF next_flush_cnt
    <3>2. awaiting' = "target"
      BY <1>5, <1>9
    <3> QED BY <1>1, <1>3, <3>1, <3>2
  <2>3. status_cnt_q' = 0
    BY <1>4, <2>1
  <2>4. cnt_q' - flush_cnt_q' = up /\ cnt_q' \in 0 .. DEPTH
    BY <1>1, <1>3, <2>2
  <2>5. flush_cnt_q' \in 0 .. DEPTH
    BY <1>1, <1>3, <2>2
  <2>6. RoomForResponses'
    BY <1>3, <2>3, <2>4 DEF RoomForResponses
  <2>7. FlushesBounded'
    BY <1>3, <2>1, <2>4, <2>5 DEF FlushesBounded
  <2>8. hwlp_flush_after_resp' \in BOOLEAN
    BY <2>1
  <2>9. hwlp_flush_cnt_delayed_q' \in 0 .. DEPTH
    BY <2>1
  <2>10. HwlpEndRequested'
    BY <2>2 DEF HwlpEndRequested
  <2>11. PhaseAgrees'
    BY <2>1, <2>2 DEF PhaseAgrees
  <2> QED
    BY <2>4, <2>5, <2>6, <2>7, <2>8, <2>9, <2>10, <2>11 DEF CountersOK
<1>10. CASE i.hwlp_jump
  <2>1. /\ flush_cnt_q = 0 /\ ~hwlp_flush_after_resp /\ ~i.branch
        /\ awaiting' \in {"loop_end", "target"}
        /\ cnt_q > 0 \/ status_cnt_q > 0
    BY <1>1, <1>2, <1>5, <1>6, <1>10 DEF PhaseAgrees, HwlpEndRequested
  <2>2. CASE status_cnt_q > 0 \/ i.resp_valid
    <3>1. /\ flush_cnt_q' = cnt_q - down
          /\ hwlp_flush_after_resp' = FALSE
          /\ hwlp_flush_cnt_delayed_q' \in 0 .. DEPTH
      BY <1>1, <1>3, <1>5, <1>6, <1>7, <1>10, <2>1, <2>2
         DEF next_flush_cnt, hwlp_flush_resp, DelayedFlush, hwlp_wait_resp_flush,
             hwlp_flush_resp_delayed
    <3>2. status_cnt_q' <= 1
      <4>1. CASE status_cnt_q > 0
        BY <4>1, <1>4, <1>6, <1>7, <1>10, <2>1
           DEF fifo_flush_o, fifo_flush_but_first_o, fifo_pop_o
      <4>2. CASE status_cnt_q = 0
        <5>1. ~fifo_flush_o(i) /\ ~fifo_flush_but_first_o(i) /\ ~fifo_pop_o(i)
          BY <4>2, <1>7, <2>1 DEF fifo_flush_o, fifo_flush_but_first_o, fifo_pop_o
        <5> QED BY <5>1, <4>2, <1>4
      <4> QED BY <4>1, <4>2, <1>1
    <3>3. cnt_q' \in 0 .. DEPTH /\ flush_cnt_q' \in 0 .. DEPTH
          /\ cnt_q' - flush_cnt_q' = up
      BY <1>1, <1>3, <3>1
    <3>4. hwlp_flush_after_resp' \in BOOLEAN
      BY <3>1
    <3>5. RoomForResponses'
      BY <1>3, <1>4, <3>2, <3>3 DEF RoomForResponses
    <3>6. FlushesBounded'
      BY <1>3, <3>1, <3>3 DEF FlushesBounded
    <3>7. HwlpEndRequested' /\ PhaseAgrees'
      BY <2>1, <3>1 DEF HwlpEndRequested, PhaseAgrees
    <3> QED BY <3>1, <3>3, <3>4, <3>5, <3>6, <3>7 DEF CountersOK
  <2>3. CASE status_cnt_q = 0 /\ ~i.resp_valid
    <3>1. /\ flush_cnt_q' = 0
          /\ hwlp_flush_after_resp' = TRUE
          /\ hwlp_flush_cnt_delayed_q' = cnt_q - 1
          /\ awaiting' = "loop_end"
      BY <1>1, <1>5, <1>6, <1>7, <1>10, <2>1, <2>3
         DEF next_flush_cnt, hwlp_flush_resp, DelayedFlush, hwlp_wait_resp_flush,
             hwlp_flush_resp_delayed, CountDown
    <3>2. status_cnt_q' = 0
      <4>1. ~fifo_flush_o(i) /\ ~fifo_flush_but_first_o(i)
              /\ ~fifo_pop_o(i) /\ ~fifo_push_o(i)
        BY <2>3, <1>7, <1>8, <2>1
           DEF fifo_flush_o, fifo_flush_but_first_o, fifo_pop_o
      <4> QED BY <4>1, <2>3, <1>4
    <3> QED
      BY <1>1, <1>3, <1>4, <2>1, <2>3, <3>1, <3>2
         DEF CountersOK, RoomForResponses, FlushesBounded, HwlpEndRequested, PhaseAgrees
  <2> QED BY <2>2, <2>3, <1>1
<1>11. CASE ~i.branch /\ ~i.hwlp_jump
  <2>1. status_cnt_q' = status_cnt_q + push - pop
    BY <1>4, <1>11 DEF fifo_flush_o, fifo_flush_but_first_o
  <2>2. up = 1 => status_cnt_q + cnt_q < DEPTH
    BY <1>3, <1>8, <1>11
  <2>3. CASE hwlp_flush_after_resp
    <3>1. /\ status_cnt_q = 0 /\ flush_cnt_q = 0 /\ hwlp_flush_cnt_delayed_q < cnt_q
          /\ awaiting = "loop_end" /\ pop = 0
      BY <1>2, <1>4, <1>7, <2>3 DEF FlushesBounded, PhaseAgrees, fifo_pop_o
    <3>2. CASE i.resp_valid
      <4>1. /\ flush_cnt_q' = hwlp_flush_cnt_delayed_q
            /\ hwlp_flush_after_resp' = FALSE
            /\ hwlp_flush_cnt_delayed_q' = 0
        BY <1>5, <1>11, <2>3, <3>2
           DEF next_flush_cnt, hwlp_flush_resp, DelayedFlush, hwlp_wait_resp_flush,
               hwlp_flush_resp_delayed
      <4>2. awaiting' \in {"loop_end", "target"}
        BY <1>5, <1>11, <3>1
      <4>3. /\ cnt_q' = cnt_q + up - 1 /\ cnt_q' \in 0 .. DEPTH
            /\ status_cnt_q' \in 0 .. 1
        BY <1>1, <1>3, <1>4, <2>1, <3>1, <3>2
      <4>4. RoomForResponses' /\ flush_cnt_q' \in 0 .. DEPTH
        <5>1. status_cnt_q' <= DEPTH - cnt_q'
          <6>1. CASE up = 1
            BY <1>1, <2>2, <3>1, <4>3, <6>1
          <6>2. CASE up = 0
            BY <1>1, <4>3, <6>2
          <6> QED BY <1>3, <6>1, <6>2
        <5>2. flush_cnt_q' \in 0 .. DEPTH
          BY <1>1, <4>1
        <5> QED BY <4>3, <5>1, <5>2 DEF RoomForResponses
      <4>5. FlushesBounded'
        BY <1>1, <1>3, <3>1, <4>1, <4>3 DEF FlushesBounded
      <4>6. HwlpEndRequested' /\ PhaseAgrees'
        BY <4>1, <4>2 DEF HwlpEndRequested, PhaseAgrees
      <4>7. hwlp_flush_after_resp' \in BOOLEAN /\ hwlp_flush_cnt_delayed_q' \in 0 .. DEPTH
        <5>1. hwlp_flush_after_resp' \in BOOLEAN
          BY <4>1
        <5>2. hwlp_flush_cnt_delayed_q' \in 0 .. DEPTH
          BY <4>1
        <5> QED BY <5>1, <5>2
      <4> QED BY <4>3, <4>4, <4>5, <4>6, <4>7 DEF CountersOK
    <3>3. CASE ~i.resp_valid
      <4>1. /\ flush_cnt_q' = 0
            /\ hwlp_flush_after_resp' = TRUE
            /\ hwlp_flush_cnt_delayed_q' = hwlp_flush_cnt_delayed_q
        BY <1>1, <1>5, <1>11, <2>3, <3>1, <3>3
           DEF next_flush_cnt, hwlp_flush_resp, DelayedFlush, hwlp_wait_resp_flush,
               hwlp_flush_resp_delayed
      <4>2. push = 0 /\ ~fetched(i)
        BY <1>4, <1>6, <1>8, <3>1, <3>3
      <4>3. awaiting' = "loop_end" /\ status_cnt_q' = 0
        BY <1>5, <1>11, <2>1, <3>1, <4>2
      <4>4. cnt_q' = cnt_q + up /\ cnt_q' \in 0 .. DEPTH
        BY <1>1, <1>3, <3>3
      <4>5. RoomForResponses' /\ flush_cnt_q' \in 0 .. DEPTH
        BY <4>1, <4>3, <4>4 DEF RoomForResponses
      <4>6. FlushesBounded'
        BY <1>1, <1>3, <3>1, <4>1, <4>3, <4>4 DEF FlushesBounded
      <4>7. HwlpEndRequested' /\ PhaseAgrees'
        BY <4>1, <4>3 DEF HwlpEndRequested, PhaseAgrees
      <4>8. hwlp_flush_after_resp' \in BOOLEAN /\ hwlp_flush_cnt_delayed_q' \in 0 .. DEPTH
        BY <1>1, <4>1
      <4> QED BY <4>4, <4>5, <4>6, <4>7, <4>8 DEF CountersOK
    <3> QED BY <3>2, <3>3, <1>1
  <2>4. CASE ~hwlp_flush_after_resp
    <3>1. /\ flush_cnt_q' = IF i.resp_valid /\ flush_cnt_q > 0 THEN flush_cnt_q - 1
                            ELSE flush_cnt_q
          /\ hwlp_flush_after_resp' = FALSE
          /\ hwlp_flush_cnt_delayed_q' = hwlp_flush_cnt_delayed_q
      BY <1>1, <1>5, <1>11, <2>4
         DEF next_flush_cnt, hwlp_flush_resp, DelayedFlush, hwlp_wait_resp_flush,
             hwlp_flush_resp_delayed
    <3>2. cnt_q - flush_cnt_q <= DEPTH - status_cnt_q /\ flush_cnt_q <= cnt_q
      BY <1>2 DEF RoomForResponses, FlushesBounded
    <3>3. push = 1 => flush_cnt_q = 0 /\ down = 1
      BY <1>3, <1>4, <1>8
    <3>4. cnt_q' = cnt_q + up - down /\ cnt_q' \in 0 .. DEPTH
      BY <1>1, <1>3
    <3>5. RoomForResponses' /\ flush_cnt_q' \in 0 .. DEPTH /\ flush_cnt_q' <= cnt_q'
      <4>1. CASE flush_cnt_q = 0
        BY <1>1, <1>3, <1>4, <2>1, <2>2, <3>1, <3>2, <3>3, <3>4, <4>1 DEF RoomForResponses
      <4>2. CASE flush_cnt_q > 0
        <5>1. push = 0 /\ flush_cnt_q' = flush_cnt_q - down
          BY <1>1, <1>3, <1>4, <3>1, <3>3, <4>2
        <5> QED
          BY <1>1, <1>3, <1>4, <2>1, <2>2, <3>2, <3>4, <4>2, <5>1 DEF RoomForResponses
      <4> QED BY <4>1, <4>2, <1>1
    <3>6. FlushesBounded'
      BY <3>1, <3>5 DEF FlushesBounded
    <3>7. ASSUME awaiting' = "line"
          PROVE  flush_cnt_q' = 0 /\ (cnt_q' > 0 \/ status_cnt_q' > 0)
      <4>1. CASE fetched(i)
        <5>1. flush_cnt_q = 0 /\ i.fetch_ready /\ (status_cnt_q > 0 \/ i.resp_valid)
          BY <1>6, <4>1
        <5>2. status_cnt_q + cnt_q <= 1 => up = 1
          BY <1>3, <1>11, <5>1, NextRequested
        <5>3. CASE status_cnt_q > 0
          <6>1. pop = 1 /\ (down = 1 => push = 1)
            BY <1>3, <1>4, <1>7, <1>11, <5>1, <5>3 DEF fifo_pop_o, fifo_push_o, flushing
          <6> QED BY <1>1, <1>3, <1>4, <2>1, <3>1, <3>4, <5>1, <5>2, <5>3, <6>1
        <5>4. CASE status_cnt_q = 0
          <6>1. pop = 0 /\ push = 0 /\ down = 1
            BY <1>3, <1>4, <1>7, <5>1, <5>4 DEF fifo_pop_o, fifo_push_o
          <6> QED BY <1>1, <1>3, <2>1, <3>1, <3>4, <5>1, <5>2, <5>4, <6>1
        <5> QED BY <5>3, <5>4, <1>1
      <4>2. CASE ~fetched(i)
        <5>1. awaiting = "line" /\ ~i.fetch_ready
          BY <1>5, <1>6, <1>11, <3>7, <4>2
        <5>2. flush_cnt_q = 0 /\ (cnt_q > 0 \/ status_cnt_q > 0)
          BY <1>1, <1>2, <5>1 DEF HwlpEndRequested, PhaseAgrees
        <5>3. pop = 0 /\ (down = 1 => push = 1)
          BY <1>3, <1>4, <1>11, <5>1, <5>2 DEF fifo_pop_o, fifo_push_o, flushing
        <5> QED BY <1>1, <1>3, <1>4, <2>1, <3>1, <3>4, <5>2, <5>3
      <4> QED BY <4>1, <4>2
    <3>8. HwlpEndRequested' /\ PhaseAgrees'
      BY <3>1, <3>4, <3>7 DEF HwlpEndRequested, PhaseAgrees
    <3>9. hwlp_flush_after_resp' \in BOOLEAN /\ hwlp_flush_cnt_delayed_q' \in 0 .. DEPTH
      BY <1>1, <3>1
    <3> QED BY <3>4, <3>5, <3>6, <3>8, <3>9 DEF CountersOK
  <2> QED BY <2>3, <2>4, <1>1
<1> QED BY <1>9, <1>10, <1>11, <1>1

\* The invariant holds at reset.
LEMMA InitOK == Init => IInv
<1> SUFFICES ASSUME Init PROVE IInv
  OBVIOUS
<1> USE FifoAssumption, ControllerAssumption, BufferAssumption
<1>1. FifoTypeOK /\ ControllerTypeOK /\ Obi!ObiTypeOK
  <2>1. FifoInit /\ ControllerInit /\ Obi!ObiInit
    BY DEF Init
  <2>2. FifoTypeOK
    <3>1. 0 \in 0 .. POINTERS - 1 /\ 0 \in 0 .. DEPTH
      OBVIOUS
    <3>2. read_pointer_q = 0 /\ write_pointer_q = 0 /\ status_cnt_q = 0
      BY <2>1 DEF FifoInit
    <3>3. mem_q \in [0 .. DEPTH - 1 -> Word]
      BY <2>1 DEF FifoInit
    <3> QED BY <3>1, <3>2, <3>3 DEF FifoTypeOK
  <2>3. 0 \in Addr /\ 0 \in 0 .. DEPTH
    BY DEF Addr
  <2>4. ControllerTypeOK
    BY <2>1, <2>3 DEF ControllerInit, ControllerTypeOK
  <2>5. Obi!ObiTypeOK
    BY <2>1, <2>3 DEF Obi!ObiInit, Obi!ObiTypeOK
  <2> QED BY <2>2, <2>4, <2>5
<1>2. granted \in Seq(Addr) /\ waiting \in SUBSET Addr
  BY DEF Init
<1>3. awaiting \in {"boot", "target", "line", "loop_end"}
  BY DEF Init
<1>4. out \in [word : Word, seq : {0, 1}]
  BY DEF Init, Addr
<1>8. PathTypeOK
  <2>1. 0 \in Addr /\ Succ(0) \in Addr
    BY DEF Addr, Succ
  <2> QED BY <2>1 DEF Init, PathTypeOK, Stream!NoChange
<1>5. OutstandingCounted
  BY DEF Init, OutstandingCounted, ControllerInit, Obi!ObiInit
<1>6. RoomForResponses /\ FlushesBounded /\ HwlpEndRequested /\ PhaseAgrees
  BY DEF Init, FifoInit, ControllerInit, RoomForResponses, FlushesBounded,
         HwlpEndRequested, PhaseAgrees
<1>7. WaitingRegistered
  BY DEF Init, Obi!ObiInit, WaitingRegistered
<1> QED BY <1>1, <1>2, <1>3, <1>4, <1>5, <1>6, <1>7, <1>8 DEF IInv, TypeOK

\* One clock cycle keeps the invariant.
LEMMA CycleOK ==
  ASSUME IInv, NEW i \in Inputs, NEW gnt \in BOOLEAN, Legal(i), Cycle(i, gnt)
  PROVE  IInv'
<1>1. trans_addr_o(i) \in Addr
  BY TransAddrType
<1>2. /\ granted' \in Seq(Addr) /\ Obi!ObiTypeOK' /\ waiting' \in SUBSET Addr
      /\ WaitingRegistered' /\ OutstandingCounted'
  BY <1>1, MemoryCounts
<1>3. FifoTypeOK'
  BY FifoCounts
<1>4. CountersOK'
  BY CountersStep
<1>5. ControllerTypeOK'
  <2>1. state_q' \in {"IDLE", "BRANCH_WAIT"}
    <3>1. state_q' = next_state(i) /\ state_q \in {"IDLE", "BRANCH_WAIT"}
      BY DEF Cycle, ControllerCycle, IInv, TypeOK, ControllerTypeOK
    <3> QED BY <3>1 DEF next_state
  <2>2. trans_addr_q' \in Addr
    <3>1. trans_addr_q' = trans_addr_o(i) \/ trans_addr_q' = trans_addr_q
      BY DEF Cycle, ControllerCycle
    <3> QED BY <1>1, <3>1 DEF IInv, TypeOK, ControllerTypeOK
  <2> QED BY <2>1, <2>2, <1>4 DEF ControllerTypeOK, CountersOK
<1>6. awaiting' \in {"boot", "target", "line", "loop_end"}
  BY DEF Cycle, FetchStage, IInv, TypeOK
<1>7. out' \in [word : Word, seq : {0, 1}]
  <2>1. out \in [word : Word, seq : {0, 1}]
    BY DEF IInv, TypeOK
  <2>2. fetch_rdata_o \subseteq Word
    <3>1. resp_rdata \in Word
      BY FifoAssumption, BufferAssumption DEF resp_rdata, IInv, TypeOK
    <3>2. data_o(FALSE, Zero) \subseteq Word
      BY FifoAssumption DEF data_o, IInv, TypeOK, FifoTypeOK
    <3> QED BY <3>1, <3>2 DEF fetch_rdata_o
  <2>3. out' = out \/ \E w \in Word : out' = [word |-> w, seq |-> 1 - out.seq]
    BY <2>2 DEF Cycle, FetchStage
  <2> QED BY <2>1, <2>3
<1>8. PathTypeOK'
  <2>1. PathTypeOK
    BY DEF IInv, TypeOK
  <2>2. 0 \in Addr /\ \A a \in Addr : Succ(a) \in Addr
    BY ControllerAssumption DEF Addr, Succ
  <2>3. i.branch_addr \in Addr /\ i.hwlp_target \in Addr
    BY DEF Inputs
  <2>4. next' \in Addr /\ after' \in Addr
    BY <2>1, <2>2, <2>3 DEF Cycle, FollowPath, PathTypeOK
  <2>5. asked' \in [kind : {"none", "branch", "loop"}, target : Addr]
    BY <2>2, <2>3 DEF Cycle, FollowPath, Stream!ToBranch, Stream!ToLoop, Stream!NoChange
  <2> QED BY <2>4, <2>5 DEF PathTypeOK
<1> QED
  BY <1>2, <1>3, <1>4, <1>5, <1>6, <1>7, <1>8 DEF IInv, TypeOK, CountersOK

\* Every step, stuttering steps included, keeps the invariant.
LEMMA StepOK == IInv /\ [Next]_vars => IInv'
<1> SUFFICES ASSUME IInv, [Next]_vars PROVE IInv'
  OBVIOUS
<1>1. CASE Next
  BY <1>1, NextIsCycle, CycleOK
<1>2. CASE UNCHANGED vars
  BY <1>2 DEF vars, fifoVars, controllerVars, pathVars, IInv, TypeOK, PathTypeOK, FifoTypeOK,
     ControllerTypeOK, Obi!ObiTypeOK, OutstandingCounted, RoomForResponses,
     FlushesBounded, HwlpEndRequested, PhaseAgrees, WaitingRegistered
<1> QED BY <1>1, <1>2

-----------------------------------------------------------------------------
\* Everything the runs check of the counters holds for all parameters.
THEOREM InductiveInvariant == Spec => []IInv
<1>1. Init => IInv
  BY InitOK
<1>2. IInv /\ [Next]_vars => IInv'
  BY StepOK
<1> QED BY <1>1, <1>2, PTL DEF Spec

\* All registers of the prefetch buffer keep their widths: no counter overflows
\* or underflows and no pointer leaves the FIFO.
THEOREM TypeCorrect == Spec => []TypeOK
<1>1. IInv => TypeOK
  BY DEF IInv
<1> QED BY <1>1, InductiveInvariant, PTL

\* cnt_q counts the outstanding transactions exactly.
THEOREM CountExact == Spec => []OutstandingCounted
<1>1. IInv => OutstandingCounted
  BY DEF IInv
<1> QED BY <1>1, InductiveInvariant, PTL

\* The FIFO has a free slot for every response that is still wanted.
THEOREM NeverOverflows == Spec => []RoomForResponses
<1>1. IInv => RoomForResponses
  BY DEF IInv
<1> QED BY <1>1, InductiveInvariant, PTL

\* The flush counters only ever count responses that are outstanding.
THEOREM FlushesOutstanding == Spec => []FlushesBounded
<1>1. IInv => FlushesBounded
  BY DEF IInv
<1> QED BY <1>1, InductiveInvariant, PTL

\* A hardware loop jump never overtakes the request of HWLP_END.
THEOREM HwlpEndFirst == Spec => []HwlpEndRequested
<1>1. IInv => HwlpEndRequested
  BY DEF IInv
<1> QED BY <1>1, InductiveInvariant, PTL

\* The instruction bus never sees a request change or disappear before its grant.
THEOREM BusStable == Spec => RequestStable
<1> DEFINE Stable == waiting # {} =>
             \/ waiting' = waiting
             \/ granted' # <<>> /\ {granted'[Len(granted')]} = waiting
<1>1. ASSUME IInv, Next PROVE Stable
  <2> SUFFICES ASSUME waiting # {} PROVE Stable
    OBVIOUS
  <2>1. obi_state_q = "REGISTERED" /\ waiting = {obi_q} /\ obi_q \in Addr
    BY <1>1 DEF IInv, WaitingRegistered, TypeOK, Obi!ObiTypeOK
  <2>2. PICK i \in Inputs, gnt \in BOOLEAN : Legal(i) /\ Cycle(i, gnt)
    BY <1>1, NextIsCycle
  <2> DEFINE left == IF i.resp_valid THEN Tail(granted) ELSE granted
  <2>3. /\ granted' = IF gnt THEN Append(left, obi_q) ELSE left
        /\ waiting' = IF gnt THEN {} ELSE {obi_q}
    BY <2>1, <2>2 DEF Cycle, Memory, Obi!obi_req_o, Obi!obi_trans_o
  <2>4. left \in Seq(Addr)
    BY <1>1, <2>2 DEF IInv, TypeOK, Legal
  <2> HIDE DEF left
  <2>5. CASE gnt
    <3>1. granted' # <<>> /\ granted'[Len(granted')] = obi_q
      BY <2>1, <2>3, <2>4, <2>5
    <3> QED BY <2>1, <3>1
  <2>6. CASE ~gnt
    BY <2>1, <2>3, <2>6
  <2> QED BY <2>5, <2>6
<1>2. IInv /\ [Next]_vars => [Stable]_vars
  BY <1>1
<1> QED BY <1>2, InductiveInvariant, PTL DEF Spec, RequestStable

-----------------------------------------------------------------------------
(* The words still to be handed over: those in the FIFO, then the          *)
(* responses in flight that will not be flushed, then the addresses the    *)
(* controller will request.                                                *)

Buffered ==
  [k \in 1 .. status_cnt_q |-> mem_q[(read_pointer_q + k - 1) % DEPTH]]

InFlight == granted \o (IF obi_state_q = "REGISTERED" THEN <<obi_q>> ELSE <<>>)

Wanted ==
  IF hwlp_flush_after_resp
    THEN <<Head(InFlight)>>
           \o SubSeq(InFlight, 2 + hwlp_flush_cnt_delayed_q, cnt_q)
    ELSE SubSeq(InFlight, 1 + flush_cnt_q, cnt_q)

ToRequest == IF state_q = "BRANCH_WAIT" THEN trans_addr_q ELSE Succ(trans_addr_q)

-----------------------------------------------------------------------------
(* First the requests in flight: those granted and not yet answered, then  *)
(* the one that waits in the OBI interface.                                *)

LEMMA Flying ==
  IInv => /\ InFlight \in Seq(Addr) /\ Len(InFlight) = cnt_q
          /\ \A k \in 1 .. cnt_q :
               InFlight[k] = IF k <= Len(granted) THEN granted[k] ELSE obi_q
<1> SUFFICES ASSUME IInv
             PROVE  /\ InFlight \in Seq(Addr) /\ Len(InFlight) = cnt_q
                    /\ \A k \in 1 .. cnt_q :
                         InFlight[k] = IF k <= Len(granted) THEN granted[k] ELSE obi_q
  OBVIOUS
<1>1. /\ granted \in Seq(Addr) /\ obi_q \in Addr
      /\ obi_state_q \in {"TRANSPARENT", "REGISTERED"}
      /\ cnt_q = Len(granted) + (IF obi_state_q = "REGISTERED" THEN 1 ELSE 0)
  BY DEF IInv, TypeOK, Obi!ObiTypeOK, OutstandingCounted
<1>2. CASE obi_state_q = "REGISTERED"
  <2>1. InFlight = Append(granted, obi_q)
    BY <1>1, <1>2 DEF InFlight
  <2> QED BY <1>1, <1>2, <2>1
<1>3. CASE obi_state_q = "TRANSPARENT"
  <2>1. \A s \in Seq(Addr) : s \o <<>> = s
    OBVIOUS
  <2>2. InFlight = granted
    BY <1>1, <1>3, <2>1 DEF InFlight
  <2>3. cnt_q = Len(granted)
    BY <1>1, <1>3
  <2> QED BY <1>1, <2>2, <2>3
<1> QED BY <1>1, <1>2, <1>3

\* A response takes the oldest request away, and a transaction the bus interface
\* accepts becomes the youngest.
LEMMA FlyingStep ==
  ASSUME IInv, NEW i \in Inputs, NEW gnt \in BOOLEAN, Legal(i), Cycle(i, gnt)
  PROVE  LET down == IF i.resp_valid THEN 1 ELSE 0
         IN  /\ \A k \in 1 .. cnt_q - down : InFlight'[k] = InFlight[k + down]
             /\ count_up(i) => InFlight'[cnt_q'] = trans_addr_o(i)
             /\ i.resp_valid => resp_rdata = InFlight[1]
<1> DEFINE down == IF i.resp_valid THEN 1 ELSE 0
           left == IF i.resp_valid THEN Tail(granted) ELSE granted
           req  == Obi!obi_req_o(trans_valid_o(i))
           addr == Obi!obi_trans_o(trans_addr_o(i))
<1> SUFFICES /\ \A k \in 1 .. cnt_q - down : InFlight'[k] = InFlight[k + down]
             /\ count_up(i) => InFlight'[cnt_q'] = trans_addr_o(i)
             /\ i.resp_valid => resp_rdata = InFlight[1]
  OBVIOUS
<1>1. /\ granted \in Seq(Addr) /\ obi_q \in Addr
      /\ obi_state_q \in {"TRANSPARENT", "REGISTERED"}
      /\ cnt_q = Len(granted) + (IF obi_state_q = "REGISTERED" THEN 1 ELSE 0)
  BY DEF IInv, TypeOK, Obi!ObiTypeOK, OutstandingCounted
<1>2. Len(granted) \in Nat /\ (i.resp_valid => Len(granted) > 0) /\ down \in {0, 1}
      /\ down <= Len(granted)
  BY <1>1 DEF Legal
<1>3. \A k \in 1 .. cnt_q : InFlight[k] = IF k <= Len(granted) THEN granted[k] ELSE obi_q
  BY Flying
<1>4. IInv'
  BY CycleOK
<1>5. \A k \in 1 .. cnt_q' : InFlight'[k] = IF k <= Len(granted') THEN granted'[k] ELSE obi_q'
  <2>1. (IInv => /\ InFlight \in Seq(Addr) /\ Len(InFlight) = cnt_q
                 /\ \A k \in 1 .. cnt_q :
                      InFlight[k] = IF k <= Len(granted) THEN granted[k] ELSE obi_q)'
    BY Flying, PTL
  <2> QED BY <1>4, <2>1
<1>6. i.resp_valid => resp_rdata = InFlight[1]
  BY <1>1, <1>2, <1>3 DEF resp_rdata
<1>7. /\ left \in Seq(Addr) /\ Len(left) = Len(granted) - down
      /\ \A k \in 1 .. Len(granted) - down : left[k] = granted[k + down]
  BY <1>1, <1>2
<1>8. trans_addr_o(i) \in Addr
  BY TransAddrType
<1>9. addr \in Addr
  BY <1>1, <1>8 DEF Obi!obi_trans_o
<1>10. granted' = IF req /\ gnt THEN Append(left, addr) ELSE left
  BY DEF Cycle, Memory
<1> HIDE DEF left, addr
<1>11. /\ \A k \in 1 .. Len(granted) - down : granted'[k] = granted[k + down]
       /\ Len(granted') = Len(granted) - down + (IF req /\ gnt THEN 1 ELSE 0)
       /\ req /\ gnt => granted'[Len(granted')] = addr
  <2>1. CASE req /\ gnt
    <3>1. granted' = Append(left, addr)
      BY <1>10, <2>1
    <3>2. Len(left) \in Nat /\ \A k \in 1 .. Len(left) : k <= Len(left)
      BY <1>7
    <3>3. \A k \in 1 .. Len(left) : granted'[k] = left[k]
      BY <1>7, <1>9, <3>1
    <3>4. Len(granted') = Len(left) + 1 /\ granted'[Len(left) + 1] = addr
      BY <1>7, <1>9, <3>1
    <3> HIDE DEF req, down
    <3> QED BY <1>7, <2>1, <3>3, <3>4
  <2>2. CASE ~(req /\ gnt)
    <3>1. granted' = left
      BY <1>10, <2>2
    <3> HIDE DEF req, down
    <3> QED BY <1>2, <1>7, <2>2, <3>1
  <2> QED BY <2>1, <2>2
<1>12. /\ cnt_q' = cnt_q + (IF count_up(i) THEN 1 ELSE 0) - down
       /\ cnt_q' = Len(granted') + (IF obi_state_q' = "REGISTERED" THEN 1 ELSE 0)
  BY <1>4, ControllerCounts DEF IInv, OutstandingCounted
<1>13. count_up(i) <=> trans_valid_o(i) /\ obi_state_q = "TRANSPARENT"
  BY DEF count_up, Legal, Obi!trans_ready_o
<1>14. Obi!ObiCycle(trans_valid_o(i), trans_addr_o(i), gnt)
  BY DEF Cycle
<1>15. count_up(i) \in BOOLEAN
  BY ControllerCounts
<1> HIDE DEF down
<1>16. CASE obi_state_q = "TRANSPARENT"
  <2>1. (req <=> count_up(i)) /\ addr = trans_addr_o(i) /\ cnt_q = Len(granted)
    BY <1>1, <1>13, <1>16 DEF Obi!obi_req_o, addr, Obi!obi_trans_o
  <2>2. req /\ ~gnt => obi_state_q' = "REGISTERED" /\ obi_q' = trans_addr_o(i)
    BY <1>14, <1>16, <2>1 DEF Obi!ObiCycle, Obi!Register, Obi!Release, Obi!Hold, req, Obi!obi_req_o
  <2>3. ~(req /\ ~gnt) => obi_state_q' = "TRANSPARENT"
    BY <1>14, <1>16, <2>1 DEF Obi!ObiCycle, Obi!Register, Obi!Release, Obi!Hold, Obi!obiVars, req,
         Obi!obi_req_o
  <2> HIDE DEF req
  <2>4. \A k \in 1 .. cnt_q - down : InFlight'[k] = InFlight[k + down]
    <3> SUFFICES ASSUME NEW k \in 1 .. cnt_q - down PROVE InFlight'[k] = InFlight[k + down]
      OBVIOUS
    <3>1. k \in 1 .. cnt_q' /\ k + down \in 1 .. cnt_q /\ k \in 1 .. Len(granted) - down
      BY <1>2, <1>12, <2>1
    <3>2. k <= Len(granted') /\ k + down <= Len(granted)
      BY <1>2, <1>11, <3>1
    <3> QED BY <1>3, <1>5, <1>11, <3>1, <3>2
  <2>5. count_up(i) => InFlight'[cnt_q'] = trans_addr_o(i)
    <3> SUFFICES ASSUME count_up(i) PROVE InFlight'[cnt_q'] = trans_addr_o(i)
      OBVIOUS
    <3>1. cnt_q' \in 1 .. cnt_q'
      BY <1>2, <1>12, <2>1
    <3>2. CASE gnt
      BY <1>5, <1>11, <1>12, <2>1, <2>3, <3>1, <3>2
    <3>3. CASE ~gnt
      <4>1. Len(granted') \in Nat /\ cnt_q' = Len(granted') + 1 /\ obi_q' = trans_addr_o(i)
        BY <1>2, <1>11, <1>12, <2>1, <2>2, <3>3
      <4> QED BY <1>5, <3>1, <4>1
    <3> QED BY <3>2, <3>3
  <2> QED BY <1>6, <2>4, <2>5
<1>17. CASE obi_state_q = "REGISTERED"
  <2>1. req /\ addr = obi_q /\ ~count_up(i) /\ cnt_q = Len(granted) + 1
    BY <1>1, <1>13, <1>17 DEF Obi!obi_req_o, addr, Obi!obi_trans_o
  <2>2. obi_q' = obi_q /\ (gnt => obi_state_q' = "TRANSPARENT")
                       /\ (~gnt => obi_state_q' = "REGISTERED")
    BY <1>14, <1>17 DEF Obi!ObiCycle, Obi!Register, Obi!Release, Obi!Hold, Obi!obiVars
  <2> HIDE DEF req
  <2> SUFFICES ASSUME NEW k \in 1 .. cnt_q - down PROVE InFlight'[k] = InFlight[k + down]
    BY <1>6, <2>1
  <2>3. k \in 1 .. cnt_q' /\ k + down \in 1 .. cnt_q
    BY <1>2, <1>12, <2>1
  <2>4. CASE k <= Len(granted) - down
    <3>1. k \in 1 .. Len(granted) - down /\ k <= Len(granted') /\ k + down <= Len(granted)
      BY <1>2, <1>11, <2>3, <2>4
    <3> QED BY <1>3, <1>5, <1>11, <2>3, <3>1
  <2>5. CASE k > Len(granted) - down
    <3>1. k = Len(granted) - down + 1 /\ ~(k + down <= Len(granted))
      BY <1>2, <2>1, <2>3, <2>5
    <3>2. InFlight[k + down] = obi_q
      BY <1>3, <2>3, <3>1
    <3>3. CASE gnt
      BY <1>2, <1>5, <1>11, <2>1, <2>3, <3>1, <3>2, <3>3
    <3>4. CASE ~gnt
      <4>1. Len(granted') = Len(granted) - down /\ ~(k <= Len(granted'))
        BY <1>2, <1>11, <2>1, <3>1, <3>4
      <4> QED BY <1>5, <2>2, <2>3, <3>2, <4>1
    <3> QED BY <3>3, <3>4
  <2> QED BY <1>2, <2>3, <2>4, <2>5
<1> QED BY <1>1, <1>16, <1>17

-----------------------------------------------------------------------------
(* The words in the FIFO.                                                  *)

\* The k-th word is in this slot, and the next one goes into the slot after the last.
Slot(p, k) == IF p + k - 1 < DEPTH THEN p + k - 1 ELSE p + k - 1 - DEPTH

WriteAhead == write_pointer_q = Slot(read_pointer_q, status_cnt_q + 1)

LEMMA SlotFacts ==
  ASSUME NEW p \in 0 .. DEPTH - 1
  PROVE  /\ \A k \in 1 .. DEPTH : Slot(p, k) \in 0 .. DEPTH - 1
         /\ \A k, l \in 1 .. DEPTH : Slot(p, k) = Slot(p, l) => k = l
         /\ Slot(p, 1) = p
         /\ Advance(p) \in 0 .. DEPTH - 1
         /\ \A k \in 1 .. DEPTH : Slot(Advance(p), k) = Slot(p, k + 1)
         /\ Slot(p, DEPTH + 1) = p
         /\ \A k \in 1 .. DEPTH : Advance(Slot(p, k)) = Slot(p, k + 1)
BY FifoAssumption, BufferAssumption DEF Slot, Advance, Incr

LEMMA SlotIsModulus ==
  ASSUME NEW p \in 0 .. DEPTH - 1, NEW k \in 1 .. DEPTH
  PROVE  (p + k - 1) % DEPTH = Slot(p, k)
<1> DEFINE x == p + k - 1
<1>1. x \in Nat /\ x < 2 * DEPTH /\ DEPTH \in Nat \ {0}
  BY FifoAssumption
<1>2. \A n \in Nat \ {0}, y \in Nat : y < 2 * n => y % n = IF y < n THEN y ELSE y - n
  OBVIOUS
<1>3. Slot(p, k) = IF x < DEPTH THEN x ELSE x - DEPTH
  BY FifoAssumption DEF Slot
<1>4. (p + k - 1) % DEPTH = x % DEPTH
  OBVIOUS
<1> HIDE DEF x
<1>5. x % DEPTH = IF x < DEPTH THEN x ELSE x - DEPTH
  BY <1>1, <1>2
<1> QED BY <1>3, <1>4, <1>5, Zenon

LEMMA Held ==
  IInv => /\ Buffered \in Seq(Word) /\ Len(Buffered) = status_cnt_q
          /\ \A k \in 1 .. status_cnt_q : Buffered[k] = mem_q[Slot(read_pointer_q, k)]
<1> SUFFICES ASSUME IInv
             PROVE  /\ Buffered \in Seq(Word) /\ Len(Buffered) = status_cnt_q
                    /\ \A k \in 1 .. status_cnt_q : Buffered[k] = mem_q[Slot(read_pointer_q, k)]
  OBVIOUS
<1>1. /\ read_pointer_q \in 0 .. DEPTH - 1 /\ status_cnt_q \in 0 .. DEPTH /\ DEPTH \in Nat
      /\ mem_q \in [0 .. DEPTH - 1 -> Word]
  BY FifoAssumption, BufferAssumption DEF IInv, TypeOK, FifoTypeOK
<1>2. /\ \A k \in 1 .. status_cnt_q : k \in 1 .. DEPTH
      /\ \A k \in 1 .. DEPTH : Slot(read_pointer_q, k) \in 0 .. DEPTH - 1
  BY <1>1, SlotFacts
<1>3. \A k \in 1 .. status_cnt_q :
        (read_pointer_q + k - 1) % DEPTH = Slot(read_pointer_q, k)
  BY <1>1, <1>2, SlotIsModulus
<1>4. Buffered = [k \in 1 .. status_cnt_q |-> mem_q[Slot(read_pointer_q, k)]]
  BY <1>3 DEF Buffered
<1>5. \A k \in 1 .. status_cnt_q : mem_q[Slot(read_pointer_q, k)] \in Word
  BY <1>1, <1>2
<1> DEFINE F(k) == mem_q[Slot(read_pointer_q, k)]
<1>6. Buffered = [k \in 1 .. status_cnt_q |-> F(k)] /\ \A k \in 1 .. status_cnt_q : F(k) \in Word
  BY <1>4, <1>5
<1> HIDE DEF F
<1>7. Buffered \in Seq(Word) /\ Len(Buffered) = status_cnt_q
  BY <1>1, <1>6
<1>8. \A k \in 1 .. status_cnt_q : Buffered[k] = F(k)
  BY <1>6
<1> QED BY <1>7, <1>8 DEF F

\* A pop takes the oldest word away and a pushed one becomes the youngest; a flush that
\* keeps the first word keeps it.
LEMMA HeldStep ==
  ASSUME IInv, WriteAhead,
         NEW i \in Inputs, NEW gnt \in BOOLEAN, Legal(i), Cycle(i, gnt)
  PROVE  /\ WriteAhead'
         /\ ~fifo_flush_o(i) /\ fifo_flush_but_first_o(i) => Buffered'[1] = Buffered[1]
         /\ ~fifo_flush_o(i) /\ ~fifo_flush_but_first_o(i) =>
              LET pop == IF fifo_pop_o(i) THEN 1 ELSE 0
              IN  /\ \A k \in 1 .. status_cnt_q - pop : Buffered'[k] = Buffered[k + pop]
                  /\ fifo_push_o(i) => Buffered'[status_cnt_q'] = resp_rdata
<1> USE FifoAssumption, BufferAssumption
<1> DEFINE pop == IF fifo_pop_o(i) THEN 1 ELSE 0
           push == IF fifo_push_o(i) THEN 1 ELSE 0
<1>1. /\ read_pointer_q \in 0 .. DEPTH - 1 /\ status_cnt_q \in 0 .. DEPTH
      /\ mem_q \in [0 .. DEPTH - 1 -> Word] /\ DEPTH \in Nat
  BY DEF IInv, TypeOK, FifoTypeOK
<1>2. \A k \in 1 .. status_cnt_q : Buffered[k] = mem_q[Slot(read_pointer_q, k)]
  BY Held
<1>3. IInv'
  BY CycleOK
<1>4. \A k \in 1 .. status_cnt_q' : Buffered'[k] = mem_q'[Slot(read_pointer_q', k)]
  <2>1. (IInv => /\ Buffered \in Seq(Word) /\ Len(Buffered) = status_cnt_q
                 /\ \A k \in 1 .. status_cnt_q :
                      Buffered[k] = mem_q[Slot(read_pointer_q, k)])'
    BY Held, PTL
  <2> QED BY <1>3, <2>1
<1>5. /\ push = 1 => status_cnt_q < DEPTH
      /\ push \in {0, 1} /\ (fifo_push_o(i) <=> push = 1)
  BY PushHasRoom
<1>6. /\ pop = 1 => status_cnt_q > 0
      /\ fifo_flush_but_first_o(i) => status_cnt_q > 0
      /\ pop \in {0, 1} /\ (fifo_pop_o(i) <=> pop = 1)
  BY <1>1 DEF fifo_flush_but_first_o, fifo_pop_o, fifo_valid, empty_o
<1>7. WriteMem(fifo_push_o(i), resp_rdata)
  BY DEF Cycle, FifoCycle, FifoFlush, FifoFlushButFirst, FifoTransfer
<1>8. /\ \A k \in 1 .. DEPTH : Slot(read_pointer_q, k) \in 0 .. DEPTH - 1
      /\ \A k, l \in 1 .. DEPTH : Slot(read_pointer_q, k) = Slot(read_pointer_q, l) => k = l
      /\ Slot(read_pointer_q, 1) = read_pointer_q
  BY <1>1, SlotFacts
<1>9. /\ push = 1 => mem_q'[Slot(read_pointer_q, status_cnt_q + 1)] = resp_rdata
      /\ \A k \in 1 .. status_cnt_q :
           mem_q'[Slot(read_pointer_q, k)] = mem_q[Slot(read_pointer_q, k)]
  <2> HIDE DEF push, pop
  <2>1. CASE push = 1
    <3>1. status_cnt_q + 1 \in 1 .. DEPTH
      BY <1>1, <1>5, <2>1
    <3>2. write_pointer_q = Slot(read_pointer_q, status_cnt_q + 1)
      BY DEF WriteAhead
    <3>3. write_pointer_q \in 0 .. DEPTH - 1
      BY <1>8, <3>1, <3>2
    <3>4. mem_q' = [mem_q EXCEPT ![write_pointer_q] = resp_rdata]
      BY <1>1, <1>5, <1>7, <2>1, <3>3 DEF WriteMem, full_o
    <3>5. mem_q'[write_pointer_q] = resp_rdata
      BY <1>1, <3>3, <3>4
    <3>6. ASSUME NEW k \in 1 .. status_cnt_q
          PROVE  mem_q'[Slot(read_pointer_q, k)] = mem_q[Slot(read_pointer_q, k)]
      <4>1. k \in 1 .. DEPTH /\ k # status_cnt_q + 1
        BY <1>1
      <4>2. Slot(read_pointer_q, k) \in 0 .. DEPTH - 1 /\ Slot(read_pointer_q, k) # write_pointer_q
        BY <1>8, <3>1, <3>2, <4>1
      <4> QED BY <1>1, <3>4, <4>2
    <3> QED BY <3>2, <3>5, <3>6
  <2>2. CASE push = 0
    <3>1. mem_q' = mem_q
      BY <1>5, <1>7, <2>2 DEF WriteMem
    <3> QED BY <2>2, <3>1
  <2> QED BY <1>5, <2>1, <2>2
<1>10. FifoCycle(fifo_flush_o(i), fifo_flush_but_first_o(i), fifo_push_o(i), fifo_pop_o(i),
                 resp_rdata)
  BY DEF Cycle
<1>11. CASE fifo_flush_o(i)
  <2>1. read_pointer_q' = 0 /\ write_pointer_q' = 0 /\ status_cnt_q' = 0
    BY <1>10, <1>11 DEF FifoCycle, FifoFlush
  <2> QED BY <1>1, <1>11, <2>1 DEF WriteAhead, Slot
<1>12. CASE ~fifo_flush_o(i) /\ fifo_flush_but_first_o(i)
  <2>1. /\ read_pointer_q' = read_pointer_q /\ write_pointer_q' = Incr(read_pointer_q)
        /\ status_cnt_q' = 1
    BY <1>1, <1>6, <1>10, <1>12 DEF FifoCycle, FifoFlushButFirst
  <2>2. 1 \in 1 .. status_cnt_q /\ 1 \in 1 .. status_cnt_q'
    BY <1>1, <1>6, <1>12, <2>1
  <2>3. WriteAhead'
    BY <1>1, <2>1 DEF WriteAhead, Slot, Incr
  <2>4. Buffered'[1] = Buffered[1]
    BY <1>2, <1>4, <1>9, <2>1, <2>2
  <2> QED BY <1>12, <2>3, <2>4
<1>13. CASE ~fifo_flush_o(i) /\ ~fifo_flush_but_first_o(i)
  <2>1. FifoTransfer(fifo_push_o(i), fifo_pop_o(i), resp_rdata)
    BY <1>10, <1>13 DEF FifoCycle
  <2>2. /\ write_pointer_q' = IF push = 1 THEN Advance(write_pointer_q) ELSE write_pointer_q
        /\ read_pointer_q' = IF pop = 1 THEN Advance(read_pointer_q) ELSE read_pointer_q
    BY <1>1, <1>5, <1>6, <2>1 DEF FifoTransfer, full_o, empty_o
  <2>3. status_cnt_q' = status_cnt_q + push - pop
    BY <1>13, FifoCounts
  <2> HIDE DEF push, pop
  <2>4. \A k \in 1 .. DEPTH : Slot(read_pointer_q', k) = Slot(read_pointer_q, k + pop)
    <3>1. CASE pop = 0
      BY <2>2, <3>1
    <3>2. CASE pop = 1
      BY <1>1, <2>2, <3>2, SlotFacts
    <3> QED BY <1>6, <3>1, <3>2
  <2>5. WriteAhead'
    <3>1. CASE push = 0
      <4>1. status_cnt_q' + 1 \in 1 .. DEPTH + 1 /\ status_cnt_q' + 1 + pop = status_cnt_q + 1
        BY <1>1, <1>6, <2>3, <3>1
      <4>2. CASE pop = 0
        BY <2>2, <2>3, <3>1, <4>1, <4>2, <1>1, <1>6 DEF WriteAhead
      <4>3. CASE pop = 1
        <5>1. status_cnt_q' + 1 \in 1 .. DEPTH
          BY <1>1, <1>6, <2>3, <3>1, <4>3
        <5>2. Slot(read_pointer_q', status_cnt_q' + 1) = Slot(read_pointer_q, status_cnt_q + 1)
          BY <2>4, <4>1, <5>1
        <5> QED BY <2>2, <3>1, <5>2 DEF WriteAhead
      <4> QED BY <1>6, <4>2, <4>3
    <3>2. CASE push = 1
      <4>1. status_cnt_q + 1 \in 1 .. DEPTH
        BY <1>1, <1>5, <3>2
      <4>2. write_pointer_q' = Slot(read_pointer_q, status_cnt_q + 1 + 1)
        BY <1>1, <2>2, <3>2, <4>1, SlotFacts DEF WriteAhead
      <4>3. CASE pop = 0
        <5>1. status_cnt_q' = status_cnt_q + 1 /\ read_pointer_q' = read_pointer_q
          BY <1>1, <2>2, <2>3, <3>2, <4>3
        <5> QED BY <4>2, <5>1 DEF WriteAhead
      <4>4. CASE pop = 1
        <5>1. status_cnt_q' = status_cnt_q
          BY <1>1, <2>3, <3>2, <4>4
        <5>2. Slot(read_pointer_q', status_cnt_q + 1) = Slot(read_pointer_q, status_cnt_q + 1 + 1)
          BY <2>4, <4>1, <4>4
        <5> QED BY <4>2, <5>1, <5>2 DEF WriteAhead
      <4> QED BY <1>6, <4>3, <4>4
    <3> QED BY <1>5, <3>1, <3>2
  <2>6. \A k \in 1 .. status_cnt_q - pop : Buffered'[k] = Buffered[k + pop]
    <3> SUFFICES ASSUME NEW k \in 1 .. status_cnt_q - pop
                 PROVE  Buffered'[k] = Buffered[k + pop]
      OBVIOUS
    <3>1. k \in 1 .. DEPTH /\ k \in 1 .. status_cnt_q' /\ k + pop \in 1 .. status_cnt_q
      BY <1>1, <1>5, <1>6, <2>3
    <3> QED BY <1>2, <1>4, <1>9, <2>4, <3>1
  <2>7. push = 1 => Buffered'[status_cnt_q'] = resp_rdata
    <3> SUFFICES ASSUME push = 1 PROVE Buffered'[status_cnt_q'] = resp_rdata
      OBVIOUS
    <3>1. status_cnt_q' \in 1 .. DEPTH /\ status_cnt_q' + pop = status_cnt_q + 1
      BY <1>1, <1>5, <1>6, <2>3
    <3>2. status_cnt_q' \in 1 .. status_cnt_q'
      BY <3>1
    <3>3. Buffered'[status_cnt_q'] = mem_q'[Slot(read_pointer_q, status_cnt_q + 1)]
      BY <1>4, <2>4, <3>1, <3>2
    <3> QED BY <1>9, <3>3
  <2> QED BY <1>5, <1>13, <2>5, <2>6, <2>7 DEF pop
<1> QED BY <1>11, <1>12, <1>13

-----------------------------------------------------------------------------
(* The words still to be handed over that have been requested.             *)

Words == Buffered \o Wanted

Left ==
  status_cnt_q + (IF hwlp_flush_after_resp THEN cnt_q - hwlp_flush_cnt_delayed_q
                                           ELSE cnt_q - flush_cnt_q)

\* The k-th of them, from the FIFO and the requests in flight.
WordsFrom ==
  /\ Words \in Seq(Word) /\ Len(Words) = Left
  /\ \A k \in 1 .. status_cnt_q : Words[k] = Buffered[k]
  /\ hwlp_flush_after_resp =>
       /\ Words[1] = InFlight[1]
       /\ \A k \in 2 .. Left : Words[k] = InFlight[k + hwlp_flush_cnt_delayed_q]
  /\ ~hwlp_flush_after_resp =>
       \A k \in 1 .. cnt_q - flush_cnt_q : Words[status_cnt_q + k] = InFlight[flush_cnt_q + k]

\* The end of a sequence.
LEMMA SubSeqFacts ==
  ASSUME NEW S, NEW s \in Seq(S), NEW m \in 1 .. Len(s) + 1
  PROVE  /\ SubSeq(s, m, Len(s)) \in Seq(S)
         /\ Len(SubSeq(s, m, Len(s))) = Len(s) - m + 1
         /\ \A k \in 1 .. Len(s) - m + 1 : SubSeq(s, m, Len(s))[k] = s[k + m - 1]
OBVIOUS

LEMMA WordsAre == IInv => WordsFrom
<1> SUFFICES ASSUME IInv PROVE WordsFrom
  OBVIOUS
<1> DEFINE d == hwlp_flush_cnt_delayed_q
<1>1. /\ cnt_q \in 0 .. DEPTH /\ flush_cnt_q \in 0 .. DEPTH /\ status_cnt_q \in 0 .. DEPTH
      /\ hwlp_flush_after_resp \in BOOLEAN /\ d \in 0 .. DEPTH /\ flush_cnt_q <= cnt_q
      /\ hwlp_flush_after_resp => d < cnt_q /\ flush_cnt_q = 0 /\ status_cnt_q = 0
      /\ DEPTH \in Nat
  BY FifoAssumption DEF IInv, TypeOK, ControllerTypeOK, FifoTypeOK, FlushesBounded
<1>2. Buffered \in Seq(Word) /\ Len(Buffered) = status_cnt_q
  BY Held
<1>3. InFlight \in Seq(Word) /\ Len(InFlight) = cnt_q
  <2>1. InFlight \in Seq(Addr) /\ Addr \subseteq Word
    BY Flying, BufferAssumption
  <2>2. \A s \in Seq(Addr) : s \in Seq(Word)
    BY <2>1
  <2> QED BY <2>1, <2>2, Flying
<1>4. CASE hwlp_flush_after_resp
  <2> DEFINE t == SubSeq(InFlight, 2 + d, cnt_q)
             h == <<Head(InFlight)>>
  <2>1. /\ t \in Seq(Word) /\ Len(t) = cnt_q - d - 1
        /\ \A k \in 1 .. cnt_q - d - 1 : t[k] = InFlight[k + d + 1]
    <3>1. 2 + d \in 1 .. Len(InFlight) + 1
      BY <1>1, <1>3, <1>4
    <3>2. /\ SubSeq(InFlight, 2 + d, Len(InFlight)) \in Seq(Word)
          /\ Len(SubSeq(InFlight, 2 + d, Len(InFlight))) = Len(InFlight) - (2 + d) + 1
          /\ \A k \in 1 .. Len(InFlight) - (2 + d) + 1 :
               SubSeq(InFlight, 2 + d, Len(InFlight))[k] = InFlight[k + (2 + d) - 1]
      BY <1>3, <3>1, SubSeqFacts
    <3>3. /\ cnt_q - (2 + d) + 1 = cnt_q - d - 1
          /\ \A k \in 1 .. cnt_q - d - 1 : k + (2 + d) - 1 = k + d + 1
      BY <1>1
    <3> HIDE DEF d
    <3> QED BY <1>3, <3>2, <3>3
  <2>2. h \in Seq(Word) /\ Len(h) = 1 /\ h[1] = InFlight[1]
    BY <1>1, <1>3, <1>4
  <2>3. Wanted = h \o t
    BY <1>4 DEF Wanted
  <2> HIDE DEF t, h
  <2>4. /\ Wanted \in Seq(Word) /\ Len(Wanted) = cnt_q - d
        /\ Wanted[1] = InFlight[1]
        /\ \A k \in 2 .. cnt_q - d : Wanted[k] = InFlight[k + d]
    <3>1. /\ h \o t \in Seq(Word) /\ Len(h \o t) = Len(h) + Len(t)
          /\ \A k \in 1 .. Len(h) : (h \o t)[k] = h[k]
          /\ \A k \in 1 .. Len(t) : (h \o t)[Len(h) + k] = t[k]
      <4>1. h \in Seq(Word) /\ t \in Seq(Word)
        BY <2>1, <2>2
      <4> QED BY <4>1
    <3>2. Len(Wanted) = cnt_q - d
      BY <1>1, <2>1, <2>2, <2>3, <3>1
    <3>3. Wanted[1] = InFlight[1]
      BY <2>2, <2>3, <3>1
    <3>4. ASSUME NEW k \in 2 .. cnt_q - d PROVE Wanted[k] = InFlight[k + d]
      <4>1. k - 1 \in 1 .. cnt_q - d - 1 /\ 1 + (k - 1) = k /\ (k - 1) + d + 1 = k + d
        BY <1>1
      <4>2. Wanted[1 + (k - 1)] = t[k - 1]
        BY <2>1, <2>2, <2>3, <3>1, <4>1
      <4>3. t[k - 1] = InFlight[(k - 1) + d + 1]
        BY <2>1, <4>1
      <4> QED BY <4>1, <4>2, <4>3
    <3> QED BY <2>3, <3>1, <3>2, <3>3, <3>4
  <2>5. Words = Wanted
    <3>1. \A s \in Seq(Word) : <<>> \o s = s
      OBVIOUS
    <3>2. Buffered = <<>>
      BY <1>1, <1>2, <1>4
    <3> QED BY <2>4, <3>1, <3>2 DEF Words
  <2>6. Left = cnt_q - d
    BY <1>1, <1>4 DEF Left
  <2>7. \A k \in 1 .. status_cnt_q : Words[k] = Buffered[k]
    BY <1>1, <1>4
  <2> QED BY <1>4, <2>4, <2>5, <2>6, <2>7 DEF WordsFrom
<1>5. CASE ~hwlp_flush_after_resp
  <2>1. Wanted = SubSeq(InFlight, 1 + flush_cnt_q, cnt_q)
    BY <1>5 DEF Wanted
  <2>2. /\ Wanted \in Seq(Word) /\ Len(Wanted) = cnt_q - flush_cnt_q
        /\ \A k \in 1 .. cnt_q - flush_cnt_q : Wanted[k] = InFlight[flush_cnt_q + k]
    <3>1. 1 + flush_cnt_q \in 1 .. Len(InFlight) + 1
      BY <1>1, <1>3
    <3>2. /\ Wanted \in Seq(Word)
          /\ Len(Wanted) = Len(InFlight) - (1 + flush_cnt_q) + 1
          /\ \A k \in 1 .. Len(InFlight) - (1 + flush_cnt_q) + 1 :
               Wanted[k] = InFlight[k + (1 + flush_cnt_q) - 1]
      BY <1>3, <2>1, <3>1, SubSeqFacts
    <3>3. /\ cnt_q - (1 + flush_cnt_q) + 1 = cnt_q - flush_cnt_q
          /\ \A k \in 1 .. cnt_q - flush_cnt_q : k + (1 + flush_cnt_q) - 1 = flush_cnt_q + k
      BY <1>1
    <3> QED BY <1>3, <3>2, <3>3
  <2>3. /\ Words \in Seq(Word) /\ Len(Words) = Len(Buffered) + Len(Wanted)
        /\ \A k \in 1 .. Len(Buffered) : Words[k] = Buffered[k]
        /\ \A k \in 1 .. Len(Wanted) : Words[Len(Buffered) + k] = Wanted[k]
    <3>1. Buffered \in Seq(Word) /\ Wanted \in Seq(Word) /\ Words = Buffered \o Wanted
      BY <1>2, <2>2 DEF Words
    <3> QED BY <3>1
  <2>4. Left = status_cnt_q + (cnt_q - flush_cnt_q)
    BY <1>5 DEF Left
  <2> QED BY <1>2, <1>5, <2>2, <2>3, <2>4 DEF WordsFrom
<1> QED BY <1>1, <1>4, <1>5

Up(i) == IF count_up(i) THEN 1 ELSE 0
Down(i) == IF i.resp_valid THEN 1 ELSE 0
Taken(i) == IF fetched(i) THEN 1 ELSE 0

\* What is known of the counters in a cycle.
LEMMA Counters ==
  ASSUME IInv, NEW i \in Inputs, NEW gnt \in BOOLEAN, Legal(i), Cycle(i, gnt)
  PROVE  /\ DEPTH \in Nat
         /\ cnt_q \in 0 .. DEPTH /\ flush_cnt_q \in 0 .. DEPTH /\ status_cnt_q \in 0 .. DEPTH
         /\ hwlp_flush_after_resp \in BOOLEAN /\ hwlp_flush_cnt_delayed_q \in 0 .. DEPTH
         /\ flush_cnt_q <= cnt_q
         /\ hwlp_flush_after_resp =>
              /\ hwlp_flush_cnt_delayed_q < cnt_q /\ flush_cnt_q = 0 /\ status_cnt_q = 0
              /\ awaiting = "loop_end"
         /\ Up(i) \in {0, 1} /\ Down(i) \in {0, 1} /\ Taken(i) \in {0, 1}
         /\ (count_up(i) <=> Up(i) = 1) /\ (i.resp_valid <=> Down(i) = 1)
         /\ (fetched(i) <=> Taken(i) = 1) /\ (i.fetch_ready <=> Taken(i) = 1)
         /\ cnt_q' = cnt_q + Up(i) - Down(i) /\ (Down(i) = 1 => cnt_q > 0)
         /\ Taken(i) = 1 => flush_cnt_q = 0 /\ ~i.branch /\ (status_cnt_q > 0 \/ Down(i) = 1)
         /\ i.hwlp_jump => /\ ~i.branch /\ COREV_PULP /\ awaiting = "line" /\ flush_cnt_q = 0
                           /\ ~hwlp_flush_after_resp /\ (cnt_q > 0 \/ status_cnt_q > 0)
         /\ fifo_valid <=> status_cnt_q > 0
<1> USE FifoAssumption
<1>1. /\ cnt_q \in 0 .. DEPTH /\ flush_cnt_q \in 0 .. DEPTH /\ status_cnt_q \in 0 .. DEPTH
      /\ hwlp_flush_after_resp \in BOOLEAN /\ hwlp_flush_cnt_delayed_q \in 0 .. DEPTH
      /\ i.branch \in BOOLEAN /\ i.fetch_ready \in BOOLEAN /\ i.resp_valid \in BOOLEAN
      /\ DEPTH \in Nat
  BY DEF IInv, TypeOK, ControllerTypeOK, FifoTypeOK, Inputs
<1>2. /\ flush_cnt_q <= cnt_q
      /\ hwlp_flush_after_resp =>
           /\ hwlp_flush_cnt_delayed_q < cnt_q /\ flush_cnt_q = 0 /\ status_cnt_q = 0
           /\ awaiting = "loop_end"
  BY DEF IInv, FlushesBounded, PhaseAgrees
<1>3. /\ Up(i) \in {0, 1} /\ (count_up(i) <=> Up(i) = 1)
      /\ Down(i) \in {0, 1} /\ (i.resp_valid <=> Down(i) = 1)
      /\ cnt_q' = cnt_q + Up(i) - Down(i) /\ (Down(i) = 1 => cnt_q > 0)
  BY ControllerCounts DEF Up, Down
<1>4. fifo_valid <=> status_cnt_q > 0
  BY <1>1, BufferAssumption DEF fifo_valid, empty_o
<1>5. /\ i.fetch_ready <=> fetched(i)
      /\ fetched(i) => flush_cnt_q = 0 /\ ~i.branch /\ (fifo_valid \/ i.resp_valid)
  BY <1>1 DEF Legal, fetched, fetch_valid_o, flushing
<1>6. /\ Taken(i) \in {0, 1} /\ (fetched(i) <=> Taken(i) = 1) /\ (i.fetch_ready <=> Taken(i) = 1)
      /\ Taken(i) = 1 => flush_cnt_q = 0 /\ ~i.branch /\ (status_cnt_q > 0 \/ Down(i) = 1)
  BY <1>3, <1>4, <1>5 DEF Taken
<1>7. i.hwlp_jump => /\ ~i.branch /\ COREV_PULP /\ awaiting = "line" /\ flush_cnt_q = 0
                     /\ ~hwlp_flush_after_resp /\ (cnt_q > 0 \/ status_cnt_q > 0)
  BY <1>1 DEF Legal, IInv, PhaseAgrees, HwlpEndRequested
<1> QED BY <1>1, <1>2, <1>3, <1>4, <1>6, <1>7

\* The requests in flight and the words ahead after a cycle, from those before it.
Follows(i) ==
  /\ \A k \in 1 .. cnt_q - Down(i) : InFlight'[k] = InFlight[k + Down(i)]
  /\ Up(i) = 1 => InFlight'[cnt_q'] = trans_addr_o(i)
  /\ Down(i) = 1 => resp_rdata = InFlight[1]

LEMMA FollowsStep ==
  ASSUME IInv, NEW i \in Inputs, NEW gnt \in BOOLEAN, Legal(i), Cycle(i, gnt)
  PROVE  Follows(i) /\ WordsFrom /\ WordsFrom'
<1>1. Follows(i)
  BY FlyingStep, Counters DEF Follows, Down
<1>2. IInv'
  BY CycleOK
<1>3. (IInv => WordsFrom)'
  BY WordsAre, PTL
<1> QED BY <1>1, <1>2, <1>3, WordsAre

\* A branch drops every word; its target may be requested at once.
LEMMA BranchStep ==
  ASSUME IInv, NEW i \in Inputs, NEW gnt \in BOOLEAN, Legal(i), Cycle(i, gnt), i.branch
  PROVE  /\ Left' = Up(i)
         /\ Up(i) = 1 => Words'[1] = trans_addr_o(i)
<1>1. Follows(i) /\ WordsFrom'
  BY FollowsStep
<1>2. fifo_flush_o(i) /\ ~hwlp_flush_after_resp'
  BY DEF Cycle, ControllerCycle, DelayedFlush, fifo_flush_o
<1>3. status_cnt_q' = 0
  BY <1>2, FifoCounts
<1>4. flush_cnt_q' = cnt_q - Down(i)
  <2>1. flush_cnt_q' = IF i.resp_valid /\ cnt_q > 0 THEN cnt_q - 1 ELSE cnt_q
    BY DEF Cycle, ControllerCycle, next_flush_cnt
  <2> QED BY <2>1, Counters
<1>5. /\ DEPTH \in Nat /\ cnt_q \in 0 .. DEPTH /\ Up(i) \in {0, 1} /\ Down(i) \in {0, 1}
      /\ cnt_q' = cnt_q + Up(i) - Down(i) /\ (Down(i) = 1 => cnt_q > 0)
  BY Counters
<1>6. Left' = Up(i)
  BY <1>2, <1>3, <1>4, <1>5 DEF Left
<1>7. ASSUME Up(i) = 1 PROVE Words'[1] = trans_addr_o(i)
  <2>1. 1 \in 1 .. cnt_q' - flush_cnt_q' /\ flush_cnt_q' + 1 = cnt_q' /\ status_cnt_q' + 1 = 1
    BY <1>3, <1>4, <1>5, <1>7
  <2>2. Words'[status_cnt_q' + 1] = InFlight'[flush_cnt_q' + 1]
    BY <1>1, <1>2, <2>1 DEF WordsFrom
  <2> QED BY <1>1, <1>7, <2>1, <2>2 DEF Follows
<1> QED BY <1>6, <1>7

\* A loop jump keeps the first word, HWLP_END, unless it is taken now.
LEMMA JumpStep ==
  ASSUME IInv, WriteAhead,
         NEW i \in Inputs, NEW gnt \in BOOLEAN, Legal(i), Cycle(i, gnt), i.hwlp_jump
  PROVE  /\ Left' = 1 - Taken(i) + Up(i)
         /\ Taken(i) = 0 => Words'[1] = Words[1]
         /\ Up(i) = 1 => Words'[Left'] = trans_addr_o(i)
<1>1. Follows(i) /\ WordsFrom /\ WordsFrom'
  BY FollowsStep
<1>2. /\ DEPTH \in Nat /\ cnt_q \in 0 .. DEPTH /\ status_cnt_q \in 0 .. DEPTH
      /\ Up(i) \in {0, 1} /\ Down(i) \in {0, 1} /\ Taken(i) \in {0, 1}
      /\ (i.fetch_ready <=> Taken(i) = 1) /\ (i.resp_valid <=> Down(i) = 1)
      /\ cnt_q' = cnt_q + Up(i) - Down(i) /\ (Down(i) = 1 => cnt_q > 0)
      /\ Taken(i) = 1 => status_cnt_q > 0 \/ Down(i) = 1
      /\ ~i.branch /\ COREV_PULP /\ awaiting = "line" /\ flush_cnt_q = 0
      /\ ~hwlp_flush_after_resp /\ (cnt_q > 0 \/ status_cnt_q > 0)
      /\ fifo_valid <=> status_cnt_q > 0
  BY Counters
<1>3. /\ \A k \in 1 .. status_cnt_q : Words[k] = Buffered[k]
      /\ \A k \in 1 .. cnt_q : Words[status_cnt_q + k] = InFlight[k]
  BY <1>1, <1>2 DEF WordsFrom
<1>4. flush_cnt_q' = next_flush_cnt(i) /\ DelayedFlush(i)
  BY DEF Cycle, ControllerCycle
<1>5. CASE status_cnt_q > 0 \/ Down(i) = 1
  <2>1. ~hwlp_flush_after_resp' /\ flush_cnt_q' = cnt_q - Down(i)
    BY <1>2, <1>4, <1>5 DEF next_flush_cnt, hwlp_flush_resp, DelayedFlush, hwlp_wait_resp_flush,
         hwlp_flush_resp_delayed
  <2>2. /\ status_cnt_q' = 1 - Taken(i)
        /\ Taken(i) = 0 => Buffered'[1] = Words[1]
    <3>1. CASE status_cnt_q > 0 /\ Taken(i) = 1
      <4>1. fifo_flush_o(i)
        BY <1>2, <3>1 DEF fifo_flush_o, fifo_pop_o
      <4> QED BY <3>1, <4>1, FifoCounts
    <3>2. CASE status_cnt_q > 0 /\ Taken(i) = 0
      <4>1. ~fifo_flush_o(i) /\ fifo_flush_but_first_o(i)
        BY <1>2, <3>2 DEF fifo_flush_o, fifo_flush_but_first_o, fifo_pop_o
      <4>2. status_cnt_q' = 1 /\ Buffered'[1] = Buffered[1]
        BY <4>1, FifoCounts, HeldStep
      <4>3. Words[1] = Buffered[1]
        BY <1>2, <1>3, <3>2
      <4> QED BY <3>2, <4>2, <4>3
    <3>3. CASE status_cnt_q = 0
      <4>1. /\ ~fifo_flush_o(i) /\ ~fifo_flush_but_first_o(i) /\ ~fifo_pop_o(i)
            /\ fifo_push_o(i) <=> Taken(i) = 0
        BY <1>2, <1>5, <3>3 DEF fifo_flush_o, fifo_flush_but_first_o, fifo_pop_o, fifo_push_o,
             flushing
      <4>2. status_cnt_q' = IF fifo_push_o(i) THEN 1 ELSE 0
        BY <3>3, <4>1, FifoCounts
      <4>3. status_cnt_q' = 1 - Taken(i)
        BY <1>2, <4>1, <4>2
      <4>4. Taken(i) = 0 => Buffered'[1] = resp_rdata
        BY <4>1, <4>3, HeldStep
      <4>5. resp_rdata = InFlight[1] /\ 1 \in 1 .. cnt_q /\ status_cnt_q + 1 = 1
        BY <1>1, <1>2, <1>5, <3>3 DEF Follows
      <4>6. Words[status_cnt_q + 1] = InFlight[1]
        BY <1>3, <4>5
      <4> QED BY <4>3, <4>4, <4>5, <4>6
    <3> QED BY <1>2, <3>1, <3>2, <3>3
  <2>3. Left' = 1 - Taken(i) + Up(i)
    BY <1>2, <2>1, <2>2 DEF Left
  <2>4. Taken(i) = 0 => Words'[1] = Words[1]
    BY <1>1, <1>2, <2>2 DEF WordsFrom
  <2>5. ASSUME Up(i) = 1 PROVE Words'[Left'] = trans_addr_o(i)
    <3>1. /\ 1 \in 1 .. cnt_q' - flush_cnt_q' /\ flush_cnt_q' + 1 = cnt_q'
          /\ status_cnt_q' + 1 = Left'
      BY <1>2, <2>1, <2>2, <2>3, <2>5
    <3>2. Words'[status_cnt_q' + 1] = InFlight'[flush_cnt_q' + 1]
      BY <1>1, <2>1, <3>1 DEF WordsFrom
    <3> QED BY <1>1, <2>5, <3>1, <3>2 DEF Follows
  <2> QED BY <2>3, <2>4, <2>5
<1>6. CASE status_cnt_q = 0 /\ Down(i) = 0
  <2>1. /\ hwlp_flush_after_resp' /\ hwlp_flush_cnt_delayed_q' = cnt_q - 1
        /\ Taken(i) = 0
    BY <1>2, <1>4, <1>6 DEF DelayedFlush, hwlp_wait_resp_flush, CountDown
  <2>2. status_cnt_q' = 0
    <3>1. ~fifo_flush_o(i) /\ ~fifo_flush_but_first_o(i) /\ ~fifo_pop_o(i) /\ ~fifo_push_o(i)
      BY <1>2, <1>6 DEF fifo_flush_o, fifo_flush_but_first_o, fifo_pop_o, fifo_push_o
    <3> QED BY <1>6, <3>1, FifoCounts
  <2>3. Left' = 1 + Up(i)
    BY <1>2, <1>6, <2>1, <2>2 DEF Left
  <2>4. Words'[1] = Words[1]
    <3>1. 1 \in 1 .. cnt_q - Down(i) /\ 1 \in 1 .. cnt_q /\ 1 + Down(i) = 1 /\ status_cnt_q + 1 = 1
      BY <1>2, <1>6
    <3>2. InFlight'[1] = InFlight[1 + Down(i)] /\ Words[status_cnt_q + 1] = InFlight[1]
      BY <1>1, <1>3, <3>1 DEF Follows
    <3>3. Words'[1] = InFlight'[1]
      BY <1>1, <2>1 DEF WordsFrom
    <3> QED BY <3>1, <3>2, <3>3
  <2>5. ASSUME Up(i) = 1 PROVE Words'[Left'] = trans_addr_o(i)
    <3>1. Left' \in 2 .. Left' /\ Left' + hwlp_flush_cnt_delayed_q' = cnt_q'
      BY <1>2, <1>6, <2>1, <2>3, <2>5
    <3>2. Words'[Left'] = InFlight'[Left' + hwlp_flush_cnt_delayed_q']
      BY <1>1, <2>1, <3>1 DEF WordsFrom
    <3> QED BY <1>1, <2>5, <3>1, <3>2 DEF Follows
  <2> QED BY <1>2, <2>1, <2>3, <2>4, <2>5
<1> QED BY <1>2, <1>5, <1>6

\* Otherwise the words move up by the one that is taken, and a request that is accepted
\* adds one at the end.
LEMMA PlainStep ==
  ASSUME IInv, WriteAhead,
         NEW i \in Inputs, NEW gnt \in BOOLEAN, Legal(i), Cycle(i, gnt),
         ~i.branch, ~i.hwlp_jump
  PROVE  /\ Left' = Left + Up(i) - Taken(i)
         /\ \A k \in 1 .. Left - Taken(i) : Words'[k] = Words[k + Taken(i)]
         /\ Up(i) = 1 => Words'[Left'] = trans_addr_o(i)
<1> DEFINE n == status_cnt_q
           c == cnt_q
           f == flush_cnt_q
           d == hwlp_flush_cnt_delayed_q
           push == IF fifo_push_o(i) THEN 1 ELSE 0
           pop  == IF fifo_pop_o(i) THEN 1 ELSE 0
<1>1. Follows(i) /\ WordsFrom /\ WordsFrom'
  BY FollowsStep
<1>2. /\ DEPTH \in Nat
      /\ c \in 0 .. DEPTH /\ f \in 0 .. DEPTH /\ n \in 0 .. DEPTH
      /\ hwlp_flush_after_resp \in BOOLEAN /\ d \in 0 .. DEPTH /\ f <= c
      /\ hwlp_flush_after_resp => d < c /\ f = 0 /\ n = 0
      /\ Up(i) \in {0, 1} /\ Down(i) \in {0, 1} /\ Taken(i) \in {0, 1}
      /\ (i.resp_valid <=> Down(i) = 1) /\ (i.fetch_ready <=> Taken(i) = 1)
      /\ c' = c + Up(i) - Down(i) /\ (Down(i) = 1 => c > 0)
      /\ Taken(i) = 1 => f = 0 /\ (n > 0 \/ Down(i) = 1)
      /\ fifo_valid <=> n > 0
  BY Counters
<1>3. ~fifo_flush_o(i) /\ ~fifo_flush_but_first_o(i)
  BY DEF fifo_flush_o, fifo_flush_but_first_o
<1>4. /\ n' = n + push - pop
      /\ \A k \in 1 .. n - pop : Buffered'[k] = Buffered[k + pop]
      /\ push = 1 => Buffered'[n'] = resp_rdata
      /\ push \in {0, 1} /\ pop \in {0, 1}
  BY <1>3, FifoCounts, HeldStep
<1>5. /\ push = 1 <=> Down(i) = 1 /\ f = 0 /\ (n > 0 \/ Taken(i) = 0)
      /\ pop = 1 <=> n > 0 /\ Taken(i) = 1
  BY <1>2 DEF fifo_push_o, fifo_pop_o, flushing
<1>6. /\ f' = IF hwlp_flush_after_resp /\ Down(i) = 1 THEN d
              ELSE IF Down(i) = 1 /\ f > 0 THEN f - 1 ELSE f
      /\ hwlp_flush_after_resp' <=> hwlp_flush_after_resp /\ Down(i) = 0
      /\ hwlp_flush_after_resp' => d' = d
  <2>1. flush_cnt_q' = next_flush_cnt(i) /\ DelayedFlush(i)
    BY DEF Cycle, ControllerCycle
  <2>2. f' = IF hwlp_flush_after_resp /\ Down(i) = 1 THEN d
             ELSE IF Down(i) = 1 /\ f > 0 THEN f - 1 ELSE f
    BY <1>2, <2>1 DEF next_flush_cnt, hwlp_flush_resp, hwlp_flush_resp_delayed
  <2>3. /\ hwlp_flush_after_resp' <=> hwlp_flush_after_resp /\ Down(i) = 0
        /\ hwlp_flush_after_resp' => d' = d
    <3>1. CASE hwlp_flush_after_resp /\ Down(i) = 1
      <4>1. hwlp_flush_after_resp' = FALSE
        BY <1>2, <2>1, <3>1 DEF DelayedFlush, hwlp_wait_resp_flush, hwlp_flush_resp_delayed
      <4>2. Down(i) # 0
        BY <3>1
      <4> QED BY <4>1, <4>2
    <3>2. CASE ~(hwlp_flush_after_resp /\ Down(i) = 1)
      BY <1>2, <2>1, <3>2 DEF DelayedFlush, hwlp_wait_resp_flush, hwlp_flush_resp_delayed
    <3> QED BY <3>1, <3>2
  <2> QED BY <2>2, <2>3
<1> HIDE DEF push, pop
<1>7. Left' = Left + Up(i) - Taken(i)
  <2>1. CASE hwlp_flush_after_resp
    BY <1>2, <1>4, <1>5, <1>6, <2>1 DEF Left
  <2>2. CASE ~hwlp_flush_after_resp
    BY <1>2, <1>4, <1>5, <1>6, <2>2 DEF Left
  <2> QED BY <2>1, <2>2
<1>8. CASE hwlp_flush_after_resp /\ Down(i) = 1
  <2>1. /\ ~hwlp_flush_after_resp' /\ f' = d /\ n = 0 /\ f = 0 /\ n' = 1 - Taken(i) /\ pop = 0
        /\ Left = c - d /\ c' - f' = Left - 1 + Up(i)
        /\ push = 1 - Taken(i)
    BY <1>2, <1>4, <1>5, <1>6, <1>8 DEF Left
  <2>2. ASSUME NEW k \in 1 .. Left - Taken(i)
        PROVE  Words'[k] = Words[k + Taken(i)]
    <3>1. CASE k <= n'
      <4>1. k = 1 /\ Taken(i) = 0 /\ k \in 1 .. n' /\ n' = 1 /\ push = 1
        BY <1>2, <2>1, <3>1
      <4>2. Words'[1] = Buffered'[1] /\ Buffered'[1] = resp_rdata
        BY <1>1, <1>4, <4>1 DEF WordsFrom
      <4>3. Words[1] = InFlight[1] /\ resp_rdata = InFlight[1]
        BY <1>1, <1>8 DEF WordsFrom, Follows
      <4> QED BY <4>1, <4>2, <4>3
    <3>2. CASE k > n'
      <4>1. /\ k - n' \in 1 .. c' - f' /\ n' + (k - n') = k
            /\ f' + (k - n') = k - n' + d /\ k - n' + d \in 1 .. c - Down(i)
            /\ k - n' + d + Down(i) = k + Taken(i) + d
            /\ k + Taken(i) \in 2 .. Left
        BY <1>2, <1>8, <2>1, <3>2
      <4>2. Words'[n' + (k - n')] = InFlight'[f' + (k - n')]
        BY <1>1, <2>1, <4>1 DEF WordsFrom
      <4>3. InFlight'[k - n' + d] = InFlight[k - n' + d + Down(i)]
        BY <1>1, <4>1 DEF Follows
      <4>4. Words[k + Taken(i)] = InFlight[k + Taken(i) + d]
        BY <1>1, <1>8, <4>1 DEF WordsFrom
      <4> QED BY <4>1, <4>2, <4>3, <4>4
    <3> QED BY <1>2, <2>1, <3>1, <3>2
  <2>3. ASSUME Up(i) = 1 PROVE Words'[Left'] = trans_addr_o(i)
    <3>1. /\ c' - f' \in 1 .. c' - f' /\ n' + (c' - f') = Left' /\ f' + (c' - f') = c'
      BY <1>2, <1>7, <1>8, <2>1, <2>3
    <3>2. Words'[n' + (c' - f')] = InFlight'[f' + (c' - f')]
      BY <1>1, <2>1, <3>1 DEF WordsFrom
    <3> QED BY <1>1, <2>3, <3>1, <3>2 DEF Follows
  <2> QED BY <1>7, <2>2, <2>3
<1>9. CASE hwlp_flush_after_resp /\ Down(i) = 0
  <2>1. /\ hwlp_flush_after_resp' /\ d' = d /\ Taken(i) = 0 /\ Left = c - d
        /\ Left' = Left + Up(i)
    BY <1>2, <1>6, <1>7, <1>9 DEF Left
  <2>2. ASSUME NEW k \in 1 .. Left - Taken(i)
        PROVE  Words'[k] = Words[k + Taken(i)]
    <3>0. k + Taken(i) = k /\ k \in 1 .. Left
      BY <1>2, <2>1
    <3>1. CASE k = 1
      <4>1. 1 \in 1 .. c - Down(i) /\ 1 + Down(i) = 1
        BY <1>2, <1>9
      <4>2. Words'[1] = InFlight'[1] /\ Words[1] = InFlight[1]
        BY <1>1, <1>9, <2>1 DEF WordsFrom
      <4>3. InFlight'[1] = InFlight[1 + Down(i)]
        BY <1>1, <4>1 DEF Follows
      <4> QED BY <3>0, <3>1, <4>1, <4>2, <4>3
    <3>2. CASE k # 1
      <4>1. /\ k \in 2 .. Left /\ k \in 2 .. Left' /\ k + d \in 1 .. c - Down(i)
            /\ k + d + Down(i) = k + d
        BY <1>2, <1>9, <2>1, <3>0, <3>2
      <4>2. Words'[k] = InFlight'[k + d'] /\ Words[k] = InFlight[k + d]
        BY <1>1, <1>9, <2>1, <4>1 DEF WordsFrom
      <4>3. InFlight'[k + d] = InFlight[k + d + Down(i)]
        BY <1>1, <4>1 DEF Follows
      <4> QED BY <2>1, <3>0, <4>1, <4>2, <4>3
    <3> QED BY <3>1, <3>2
  <2>3. ASSUME Up(i) = 1 PROVE Words'[Left'] = trans_addr_o(i)
    <3>1. Left' \in 2 .. Left' /\ Left' + d' = c'
      BY <1>2, <1>9, <2>1, <2>3
    <3>2. Words'[Left'] = InFlight'[Left' + d']
      BY <1>1, <2>1, <3>1 DEF WordsFrom
    <3> QED BY <1>1, <2>3, <3>1, <3>2 DEF Follows
  <2> QED BY <1>7, <2>2, <2>3
<1>10. CASE ~hwlp_flush_after_resp
  <2>1. ~hwlp_flush_after_resp' /\ Left = n + (c - f) /\ Left' = n' + (c' - f')
    BY <1>6, <1>10 DEF Left
  <2>2. /\ f > 0 => push = 0 /\ pop = 0 /\ Taken(i) = 0 /\ f' = f - Down(i)
        /\ f = 0 => f' = 0 /\ push - pop = Down(i) - Taken(i)
        /\ c' - f' \in Nat /\ n' \in Nat
        /\ f' = 0 \/ push = 0
    BY <1>2, <1>4, <1>5, <1>6, <1>10
  <2>3. ASSUME NEW k \in 1 .. Left - Taken(i)
        PROVE  Words'[k] = Words[k + Taken(i)]
    <3>1. CASE k <= n - pop
      <4>1. /\ k \in 1 .. n - pop /\ k \in 1 .. n' /\ k + pop \in 1 .. n
            /\ pop = Taken(i)
        BY <1>2, <1>4, <1>5, <3>1
      <4>2. Words'[k] = Buffered'[k] /\ Words[k + pop] = Buffered[k + pop]
        BY <1>1, <4>1 DEF WordsFrom
      <4> QED BY <1>4, <4>1, <4>2
    <3>2. CASE k > n - pop /\ k <= n'
      <4>1. /\ k = n' /\ k \in 1 .. n' /\ push = 1 /\ f = 0 /\ Down(i) = 1 /\ 1 \in 1 .. c - f
            /\ k + Taken(i) = n + 1 /\ f + 1 = 1
        BY <1>2, <1>4, <1>5, <2>2, <3>2
      <4>2. Words'[k] = resp_rdata
        BY <1>1, <1>4, <4>1 DEF WordsFrom
      <4>3. Words[n + 1] = InFlight[f + 1] /\ resp_rdata = InFlight[1]
        BY <1>1, <1>10, <4>1 DEF WordsFrom, Follows
      <4> QED BY <4>1, <4>2, <4>3
    <3>3. CASE k > n'
      <4>1. /\ k - n' \in 1 .. c' - f' /\ n' + (k - n') = k
            /\ f' + (k - n') \in 1 .. c - Down(i)
            /\ k + Taken(i) - n \in 1 .. c - f
            /\ n + (k + Taken(i) - n) = k + Taken(i)
            /\ f + (k + Taken(i) - n) = f' + (k - n') + Down(i)
        <5>1. k \in Int /\ k <= n + (c - f) - Taken(i) /\ k >= 1 /\ n' = n + push - pop
          BY <1>2, <1>4, <2>1
        <5>2. CASE f = 0
          <6>1. f' = 0 /\ n' = n + Down(i) - Taken(i) /\ n' \in Nat
            BY <1>2, <1>4, <2>2, <5>1, <5>2
          <6> QED BY <1>2, <3>3, <5>1, <5>2, <6>1
        <5>3. CASE f > 0
          <6>1. f' = f - Down(i) /\ n' = n /\ Taken(i) = 0
            BY <1>2, <1>4, <2>2, <5>1, <5>3
          <6> QED BY <1>2, <3>3, <5>1, <5>3, <6>1
        <5> QED BY <1>2, <5>2, <5>3
      <4>2. Words'[n' + (k - n')] = InFlight'[f' + (k - n')]
        BY <1>1, <2>1, <4>1 DEF WordsFrom
      <4>3. InFlight'[f' + (k - n')] = InFlight[f' + (k - n') + Down(i)]
        BY <1>1, <4>1 DEF Follows
      <4>4. Words[n + (k + Taken(i) - n)] = InFlight[f + (k + Taken(i) - n)]
        BY <1>1, <1>10, <4>1 DEF WordsFrom
      <4> QED BY <4>1, <4>2, <4>3, <4>4
    <3> QED BY <1>2, <1>4, <2>2, <3>1, <3>2, <3>3
  <2>4. ASSUME Up(i) = 1 PROVE Words'[Left'] = trans_addr_o(i)
    <3>1. c' - f' \in 1 .. c' - f' /\ n' + (c' - f') = Left' /\ f' + (c' - f') = c'
      BY <1>2, <2>1, <2>2, <2>4
    <3>2. Words'[n' + (c' - f')] = InFlight'[f' + (c' - f')]
      BY <1>1, <2>1, <3>1 DEF WordsFrom
    <3> QED BY <1>1, <2>4, <3>1, <3>2 DEF Follows
  <2> QED BY <1>7, <2>3, <2>4
<1> QED BY <1>2, <1>8, <1>9, <1>10

\* The fetch stage is handed the first of the words.
LEMMA Delivered ==
  ASSUME IInv, NEW i \in Inputs, NEW gnt \in BOOLEAN, Legal(i), Cycle(i, gnt)
  PROVE  /\ fetched(i) => Left > 0 /\ out' = [word |-> Words[1], seq |-> 1 - out.seq]
         /\ ~fetched(i) => out' = out
<1> USE FifoAssumption, BufferAssumption
<1>1. Follows(i) /\ WordsFrom
  BY FollowsStep
<1>2. ASSUME fetched(i)
      PROVE  Left > 0 /\ out' = [word |-> Words[1], seq |-> 1 - out.seq]
  <2>1. /\ DEPTH \in Nat /\ cnt_q \in 0 .. DEPTH /\ status_cnt_q \in 0 .. DEPTH
        /\ flush_cnt_q = 0 /\ (status_cnt_q > 0 \/ Down(i) = 1) /\ (Down(i) = 1 => cnt_q > 0)
        /\ hwlp_flush_after_resp \in BOOLEAN /\ hwlp_flush_cnt_delayed_q \in 0 .. DEPTH
        /\ hwlp_flush_after_resp => hwlp_flush_cnt_delayed_q < cnt_q /\ status_cnt_q = 0
        /\ fifo_valid <=> status_cnt_q > 0
    BY <1>2, Counters
  <2>2. Left > 0
    BY <2>1 DEF Left
  <2>3. fetch_rdata_o = {Words[1]}
    <3>1. CASE status_cnt_q > 0
      <4>1. 1 \in 1 .. status_cnt_q /\ read_pointer_q \in 0 .. DEPTH - 1
        BY <2>1, <3>1 DEF IInv, TypeOK, FifoTypeOK
      <4>2. Buffered[1] = mem_q[Slot(read_pointer_q, 1)] /\ Words[1] = Buffered[1]
        BY <1>1, <4>1, Held DEF WordsFrom
      <4>3. Slot(read_pointer_q, 1) = read_pointer_q
        BY <4>1, SlotFacts
      <4>4. fetch_rdata_o = {mem_q[read_pointer_q]}
        BY <2>1, <3>1, <4>1 DEF fetch_rdata_o, data_o
      <4> QED BY <4>2, <4>3, <4>4
    <3>2. CASE status_cnt_q = 0
      <4>1. fetch_rdata_o = {resp_rdata} /\ resp_rdata = InFlight[1]
        BY <1>1, <2>1, <3>2 DEF fetch_rdata_o, Follows
      <4>2. Words[1] = InFlight[1]
        <5>1. CASE hwlp_flush_after_resp
          BY <1>1, <5>1 DEF WordsFrom
        <5>2. CASE ~hwlp_flush_after_resp
          <6>1. 1 \in 1 .. cnt_q - flush_cnt_q /\ status_cnt_q + 1 = 1 /\ flush_cnt_q + 1 = 1
            BY <2>1, <3>2
          <6>2. Words[status_cnt_q + 1] = InFlight[flush_cnt_q + 1]
            BY <1>1, <5>2, <6>1 DEF WordsFrom
          <6> QED BY <6>1, <6>2
        <5> QED BY <5>1, <5>2
      <4> QED BY <4>1, <4>2
    <3> QED BY <2>1, <3>1, <3>2
  <2> QED BY <1>2, <2>2, <2>3 DEF Cycle, FetchStage
<1>3. ASSUME ~fetched(i) PROVE out' = out
  BY <1>3 DEF Cycle, FetchStage
<1> QED BY <1>2, <1>3

-----------------------------------------------------------------------------
(* The words requested lie on the program's path.                          *)

\* Each word follows the one before it, except the target of a loop jump, which follows
\* HWLP_END; the controller goes on from the last one.  In BRANCH_WAIT it goes on from a
\* target, so that no word but HWLP_END is ahead.
Path ==
  /\ WriteAhead
  /\ \A k \in 1 .. Left : Words[k] \in Addr
  /\ \A k \in 1 .. Left - 1 :
       ~(k = 1 /\ awaiting = "loop_end") => Words[k + 1] = Succ(Words[k])
  /\ state_q = "IDLE" /\ Left > 0 => trans_addr_q = Words[Left]
  /\ state_q = "BRANCH_WAIT" => Left = IF awaiting = "loop_end" THEN 1 ELSE 0
  /\ awaiting = "loop_end" => Left > 0 /\ (Left = 1 => state_q = "BRANCH_WAIT")

LEMMA LeftType ==
  IInv => /\ Left \in Nat /\ trans_addr_q \in Addr /\ state_q \in {"IDLE", "BRANCH_WAIT"}
          /\ awaiting = "line" => Left > 0
<1> SUFFICES ASSUME IInv
             PROVE  /\ Left \in Nat /\ trans_addr_q \in Addr
                    /\ state_q \in {"IDLE", "BRANCH_WAIT"}
                    /\ awaiting = "line" => Left > 0
  OBVIOUS
<1>1. /\ cnt_q \in 0 .. DEPTH /\ flush_cnt_q \in 0 .. DEPTH /\ status_cnt_q \in 0 .. DEPTH
      /\ hwlp_flush_after_resp \in BOOLEAN /\ hwlp_flush_cnt_delayed_q \in 0 .. DEPTH
      /\ DEPTH \in Nat /\ trans_addr_q \in Addr /\ state_q \in {"IDLE", "BRANCH_WAIT"}
  BY FifoAssumption DEF IInv, TypeOK, ControllerTypeOK, FifoTypeOK
<1>2. /\ flush_cnt_q <= cnt_q
      /\ hwlp_flush_after_resp => hwlp_flush_cnt_delayed_q < cnt_q /\ awaiting = "loop_end"
      /\ awaiting = "line" => cnt_q > flush_cnt_q \/ status_cnt_q > 0
  BY DEF IInv, FlushesBounded, PhaseAgrees, HwlpEndRequested
<1>3. CASE hwlp_flush_after_resp
  BY <1>1, <1>2, <1>3 DEF Left
<1>4. CASE ~hwlp_flush_after_resp
  BY <1>1, <1>2, <1>4 DEF Left
<1> QED BY <1>1, <1>3, <1>4

\* How the controller goes on from a cycle.
LEMMA ControllerStep ==
  ASSUME IInv, NEW i \in Inputs, NEW gnt \in BOOLEAN, Legal(i), Cycle(i, gnt)
  PROVE  /\ Up(i) = 1 => trans_addr_q' = trans_addr_o(i)
         /\ i.branch \/ i.hwlp_jump => trans_addr_q' = trans_addr_o(i)
         /\ Up(i) = 0 /\ ~i.branch /\ ~i.hwlp_jump => trans_addr_q' = trans_addr_q
         /\ i.branch => trans_addr_o(i) = i.branch_addr
         /\ i.hwlp_jump /\ ~i.branch /\ state_q = "IDLE" => trans_addr_o(i) = i.hwlp_target
         /\ ~i.branch /\ ~i.hwlp_jump => trans_addr_o(i) = ToRequest
         /\ Up(i) = 1 => state_q' = "IDLE"
         /\ Up(i) = 0 /\ (i.branch \/ i.hwlp_jump) => state_q' = "BRANCH_WAIT"
         /\ Up(i) = 0 /\ ~i.branch /\ ~i.hwlp_jump => state_q' = state_q
<1>1. Up(i) \in {0, 1} /\ (count_up(i) <=> Up(i) = 1)
  BY Counters
<1>2. state_q \in {"IDLE", "BRANCH_WAIT"}
  BY LeftType
<1>3. /\ state_q' = next_state(i)
      /\ trans_addr_q' = IF i.branch \/ i.hwlp_jump \/ count_up(i)
                         THEN trans_addr_o(i) ELSE trans_addr_q
  BY DEF Cycle, ControllerCycle
<1>4. /\ Up(i) = 1 => trans_addr_q' = trans_addr_o(i)
      /\ i.branch \/ i.hwlp_jump => trans_addr_q' = trans_addr_o(i)
      /\ Up(i) = 0 /\ ~i.branch /\ ~i.hwlp_jump => trans_addr_q' = trans_addr_q
  BY <1>1, <1>3
<1>5. /\ i.branch => trans_addr_o(i) = i.branch_addr
      /\ i.hwlp_jump /\ ~i.branch /\ state_q = "IDLE" => trans_addr_o(i) = i.hwlp_target
      /\ ~i.branch /\ ~i.hwlp_jump => trans_addr_o(i) = ToRequest
  BY <1>2 DEF trans_addr_o, ToRequest
<1>6. /\ Up(i) = 1 => state_q' = "IDLE"
      /\ Up(i) = 0 /\ (i.branch \/ i.hwlp_jump) => state_q' = "BRANCH_WAIT"
      /\ Up(i) = 0 /\ ~i.branch /\ ~i.hwlp_jump => state_q' = state_q
  BY <1>1, <1>2, <1>3 DEF next_state
<1> QED BY <1>4, <1>5, <1>6

\* One cycle keeps the words on the path.
LEMMA PathStep ==
  ASSUME IInv, Path, NEW i \in Inputs, NEW gnt \in BOOLEAN, Legal(i), Cycle(i, gnt)
  PROVE  Path'
<1>1. /\ Left \in Nat /\ trans_addr_q \in Addr /\ state_q \in {"IDLE", "BRANCH_WAIT"}
      /\ awaiting = "line" => Left > 0
      /\ trans_addr_o(i) \in Addr
  BY LeftType, TransAddrType
<1>2. Up(i) \in {0, 1} /\ Taken(i) \in {0, 1} /\ (fetched(i) <=> Taken(i) = 1)
  BY Counters
<1>3. WriteAhead'
  BY HeldStep DEF Path
<1>4. awaiting' = IF i.branch \/ (i.hwlp_jump /\ fetched(i)) THEN "target"
                  ELSE IF i.hwlp_jump THEN "loop_end"
                  ELSE IF ~fetched(i) THEN awaiting
                  ELSE IF awaiting = "loop_end" THEN "target" ELSE "line"
  BY DEF Cycle, FetchStage
<1>5. CASE i.branch
  <2>1. /\ Left' = Up(i) /\ (Up(i) = 1 => Words'[1] = trans_addr_o(i)) /\ awaiting' = "target"
        /\ trans_addr_q' = trans_addr_o(i)
        /\ state_q' = IF Up(i) = 1 THEN "IDLE" ELSE "BRANCH_WAIT"
    BY <1>2, <1>4, <1>5, BranchStep, ControllerStep
  <2> QED BY <1>1, <1>2, <1>3, <2>1 DEF Path
<1>6. CASE i.hwlp_jump /\ ~i.branch
  <2>1. awaiting = "line" /\ state_q = "IDLE" /\ Left > 0
    BY <1>1, <1>6, Counters DEF Path
  <2>2. /\ Left' = 1 - Taken(i) + Up(i)
        /\ Taken(i) = 0 => Words'[1] = Words[1]
        /\ Up(i) = 1 => Words'[Left'] = trans_addr_o(i)
        /\ awaiting' = IF Taken(i) = 1 THEN "target" ELSE "loop_end"
        /\ trans_addr_q' = trans_addr_o(i)
        /\ state_q' = IF Up(i) = 1 THEN "IDLE" ELSE "BRANCH_WAIT"
    BY <1>2, <1>4, <1>6, JumpStep, ControllerStep DEF Path
  <2>3. Words[1] \in Addr
    BY <1>1, <2>1 DEF Path
  <2>4. CASE Taken(i) = 1
    BY <1>1, <1>2, <1>3, <2>2, <2>4 DEF Path
  <2>5. CASE Taken(i) = 0
    BY <1>1, <1>2, <1>3, <2>2, <2>3, <2>5 DEF Path
  <2> QED BY <1>2, <2>4, <2>5
<1>7. CASE ~i.hwlp_jump /\ ~i.branch
  <2>1. /\ Left' = Left + Up(i) - Taken(i)
        /\ \A k \in 1 .. Left - Taken(i) : Words'[k] = Words[k + Taken(i)]
        /\ Up(i) = 1 => Words'[Left'] = trans_addr_o(i)
    BY <1>7, PlainStep DEF Path
  <2>2. awaiting' = IF Taken(i) = 0 THEN awaiting
                    ELSE IF awaiting = "loop_end" THEN "target" ELSE "line"
    BY <1>2, <1>4, <1>7
  <2>3. /\ Up(i) = 1 => trans_addr_q' = trans_addr_o(i) /\ state_q' = "IDLE"
        /\ Up(i) = 0 => trans_addr_q' = trans_addr_q /\ state_q' = state_q
        /\ trans_addr_o(i) = ToRequest
    BY <1>7, ControllerStep
  <2>4. Taken(i) = 1 => Left > 0
    BY <1>2, Delivered
  <2>5. ASSUME NEW k \in 1 .. Left' PROVE Words'[k] \in Addr
    <3>1. CASE k \in 1 .. Left - Taken(i)
      <4>1. k + Taken(i) \in 1 .. Left
        BY <1>1, <1>2, <3>1
      <4> QED BY <2>1, <3>1, <4>1 DEF Path
    <3>2. CASE k = Left' /\ Up(i) = 1
      BY <1>1, <2>1, <3>2
    <3> QED BY <1>1, <1>2, <2>1, <3>1, <3>2
  <2>6. ASSUME NEW k \in 1 .. Left' - 1, ~(k = 1 /\ awaiting' = "loop_end")
        PROVE  Words'[k + 1] = Succ(Words'[k])
    <3>1. /\ k \in 1 .. Left - Taken(i) /\ k + Taken(i) \in 1 .. Left
          /\ ~(k + Taken(i) = 1 /\ awaiting = "loop_end")
      BY <1>1, <1>2, <2>1, <2>2, <2>6
    <3>2. CASE k + 1 \in 1 .. Left - Taken(i)
      <4>1. k + Taken(i) \in 1 .. Left - 1 /\ (k + 1) + Taken(i) = (k + Taken(i)) + 1
        BY <1>1, <1>2, <3>1, <3>2
      <4>2. Words[(k + Taken(i)) + 1] = Succ(Words[k + Taken(i)])
        BY <3>1, <4>1 DEF Path
      <4> QED BY <2>1, <3>1, <3>2, <4>1, <4>2
    <3>3. CASE k + 1 = Left' /\ Up(i) = 1
      <4>1. k + Taken(i) = Left /\ Left > 0
        BY <1>1, <1>2, <2>1, <3>1, <3>3
      <4>2. state_q = "IDLE" /\ trans_addr_q = Words[Left]
        BY <1>1, <3>1, <4>1 DEF Path
      <4>3. trans_addr_o(i) = Succ(Words[Left])
        BY <2>3, <4>2 DEF ToRequest
      <4> QED BY <2>1, <3>1, <3>3, <4>1, <4>3
    <3> QED BY <1>1, <1>2, <2>1, <2>6, <3>1, <3>2, <3>3
  <2>7. ASSUME state_q' = "IDLE", Left' > 0 PROVE trans_addr_q' = Words'[Left']
    <3>1. CASE Up(i) = 1
      BY <2>1, <2>3, <3>1
    <3>2. CASE Up(i) = 0
      <4>1. Left' \in 1 .. Left - Taken(i) /\ Left' + Taken(i) = Left /\ Left > 0
        BY <1>1, <1>2, <2>1, <2>7, <3>2
      <4> QED BY <2>1, <2>3, <2>7, <3>2, <4>1 DEF Path
    <3> QED BY <1>2, <3>1, <3>2
  <2>8. ASSUME state_q' = "BRANCH_WAIT"
        PROVE  Left' = IF awaiting' = "loop_end" THEN 1 ELSE 0
    <3>1. Up(i) = 0 /\ state_q = "BRANCH_WAIT" /\ Left = IF awaiting = "loop_end" THEN 1 ELSE 0
      BY <1>2, <2>3, <2>8 DEF Path
    <3> QED BY <1>1, <1>2, <2>1, <2>2, <2>4, <3>1
  <2>9. ASSUME awaiting' = "loop_end"
        PROVE  Left' > 0 /\ (Left' = 1 => state_q' = "BRANCH_WAIT")
    <3>1. Taken(i) = 0 /\ awaiting = "loop_end" /\ Left > 0 /\ (Left = 1 => state_q = "BRANCH_WAIT")
      BY <1>2, <2>2, <2>9 DEF Path
    <3> QED BY <1>1, <1>2, <2>1, <2>3, <3>1
  <2> QED BY <1>3, <2>5, <2>6, <2>7, <2>8, <2>9 DEF Path
<1> QED BY <1>5, <1>6, <1>7

-----------------------------------------------------------------------------
(* The next two words the prefetch buffer will hand over are those of the  *)
(* path that the fetch stage has asked for.                                *)

First == IF Left > 0 THEN Words[1] ELSE ToRequest

Second ==
  IF Left > 1 THEN Words[2] ELSE IF Left = 1 THEN ToRequest ELSE Succ(ToRequest)

LEMMA SuccIsFollowing ==
  ASSUME NEW a \in Addr
  PROVE  a \in Stream!Place /\ Succ(a) = Stream!Following(a) /\ Succ(a) \in Addr
<1>1. WORDS \in Nat \ {0} /\ a \in Nat /\ a < WORDS
  BY ControllerAssumption DEF Addr
<1>2. \A m \in Nat \ {0}, x \in Nat :
        /\ x < m => x % m = x
        /\ m % m = 0
  OBVIOUS
<1>3. Succ(a) = (a + 1) % WORDS
  <2>1. CASE a + 1 = WORDS
    BY <1>1, <1>2, <2>1 DEF Succ
  <2>2. CASE a + 1 # WORDS
    <3>1. a + 1 \in Nat /\ a + 1 < WORDS
      BY <1>1, <2>2
    <3>2. (a + 1) % WORDS = a + 1
      BY <1>1, <1>2, <3>1
    <3> QED BY <2>2, <3>2 DEF Succ
  <2> QED BY <2>1, <2>2
<1> QED BY <1>1, <1>3 DEF Stream!Place, Stream!Following, Succ, Addr

\* Before the branch to the boot address nothing is fetched.
OnPath == awaiting # "boot" => First = next /\ Second = after

\* A cycle without a change of flow hands over the first word, if any.
LEMMA PlainStream ==
  ASSUME IInv, Path, NEW i \in Inputs, NEW gnt \in BOOLEAN, Legal(i), Cycle(i, gnt),
         ~i.branch, ~i.hwlp_jump
  PROVE  IF fetched(i) THEN First' = Second /\ Second' = Succ(Second)
         ELSE First' = First /\ Second' = Second
<1>1. /\ Left \in Nat /\ state_q \in {"IDLE", "BRANCH_WAIT"}
      /\ Up(i) \in {0, 1} /\ Taken(i) \in {0, 1} /\ (fetched(i) <=> Taken(i) = 1)
  BY LeftType, Counters
<1>2. /\ Left' = Left + Up(i) - Taken(i)
      /\ \A k \in 1 .. Left - Taken(i) : Words'[k] = Words[k + Taken(i)]
      /\ Up(i) = 1 => Words'[Left'] = ToRequest
  BY PlainStep, ControllerStep DEF Path
<1>3. /\ Up(i) = 1 => ToRequest' = Succ(ToRequest)
      /\ Up(i) = 0 => ToRequest' = ToRequest
  BY ControllerStep DEF ToRequest
<1>4. CASE Taken(i) = 1
  <2>1. Left > 0
    BY <1>1, <1>4, Delivered
  <2>2. CASE Left = 1
    BY <1>1, <1>2, <1>3, <1>4, <2>2 DEF First, Second
  <2>3. CASE Left = 2
    <3>1. state_q = "IDLE" /\ trans_addr_q = Words[2]
      BY <1>1, <2>3 DEF Path
    <3>2. ToRequest = Succ(Words[2])
      BY <3>1 DEF ToRequest
    <3>3. First' = Words[2] /\ Second' = ToRequest
      <4>1. 1 \in 1 .. Left - Taken(i) /\ 1 + Taken(i) = 2
        BY <1>4, <2>3
      <4>2. Words'[1] = Words[2]
        BY <1>2, <4>1
      <4> QED BY <1>1, <1>2, <1>3, <1>4, <2>3, <4>2 DEF First, Second
    <3> QED BY <1>1, <1>4, <2>3, <3>2, <3>3 DEF Second
  <2>4. CASE Left > 2
    <3>1. /\ 1 \in 1 .. Left - Taken(i) /\ 2 \in 1 .. Left - Taken(i) /\ 2 \in 1 .. Left - 1
          /\ 1 + Taken(i) = 2 /\ 2 + Taken(i) = 3 /\ 2 + 1 = 3 /\ Left' > 1
      BY <1>1, <1>2, <1>4, <2>4
    <3>2. Words'[1] = Words[2] /\ Words'[2] = Words[3]
      BY <1>2, <3>1
    <3>3. Words[2 + 1] = Succ(Words[2])
      BY <3>1 DEF Path
    <3>4. Second = Words[2] /\ First' = Words'[1] /\ Second' = Words'[2]
      <4>1. Left' \in Nat /\ Left' > 1
        BY <1>1, <1>2, <2>4, <3>1
      <4> QED BY <1>1, <2>4, <4>1 DEF First, Second
    <3>5. Words'[2] = Succ(Words[2])
      BY <3>1, <3>2, <3>3
    <3> QED BY <1>1, <1>4, <3>2, <3>4, <3>5
  <2> QED BY <1>1, <2>1, <2>2, <2>3, <2>4
<1>5. CASE Taken(i) = 0
  <2>1. \A k \in 1 .. Left : Words'[k] = Words[k]
    BY <1>1, <1>2, <1>5
  <2>2. CASE Left = 0
    BY <1>1, <1>2, <1>3, <1>5, <2>2 DEF First, Second
  <2>3. CASE Left = 1
    <3>1. Words'[1] = Words[1]
      BY <2>1, <2>3
    <3> QED BY <1>1, <1>2, <1>3, <1>5, <2>3, <3>1 DEF First, Second
  <2>4. CASE Left > 1
    <3>1. Words'[1] = Words[1] /\ Words'[2] = Words[2]
      BY <1>1, <2>1, <2>4
    <3> QED BY <1>1, <1>2, <1>5, <2>4, <3>1 DEF First, Second
  <2> QED BY <1>1, <2>2, <2>3, <2>4
<1> QED BY <1>1, <1>4, <1>5

\* A branch goes on with its target, a loop jump does after one more word.
LEMMA TargetStream ==
  ASSUME IInv, Path, NEW i \in Inputs, NEW gnt \in BOOLEAN, Legal(i), Cycle(i, gnt),
         i.branch \/ i.hwlp_jump
  PROVE  LET target == IF i.branch THEN i.branch_addr ELSE i.hwlp_target
         IN  IF i.branch \/ fetched(i) THEN First' = target /\ Second' = Succ(target)
             ELSE First' = First /\ Second' = target
<1> DEFINE target == IF i.branch THEN i.branch_addr ELSE i.hwlp_target
<1>1. /\ Left \in Nat /\ state_q \in {"IDLE", "BRANCH_WAIT"}
      /\ Up(i) \in {0, 1} /\ Taken(i) \in {0, 1} /\ (fetched(i) <=> Taken(i) = 1)
  BY LeftType, Counters
<1>2. trans_addr_o(i) = target
  <2>1. CASE i.branch
    BY <2>1, ControllerStep
  <2>2. CASE i.hwlp_jump /\ ~i.branch
    <3>1. state_q = "IDLE"
      BY <1>1, <2>2, Counters, LeftType DEF Path
    <3> QED BY <2>2, <3>1, ControllerStep
  <2> QED BY <2>1, <2>2
<1> HIDE DEF target
<1>3. ToRequest' = IF Up(i) = 1 THEN Succ(target) ELSE target
  BY <1>1, <1>2, ControllerStep DEF ToRequest
<1>4. CASE i.branch
  <2>1. Left' = Up(i) /\ (Up(i) = 1 => Words'[1] = target)
    BY <1>2, <1>4, BranchStep
  <2> QED BY <1>1, <1>3, <1>4, <2>1 DEF First, Second, target
<1>5. CASE i.hwlp_jump /\ ~i.branch
  <2>1. /\ Left' = 1 - Taken(i) + Up(i)
        /\ Taken(i) = 0 => Words'[1] = Words[1]
        /\ Up(i) = 1 => Words'[Left'] = target
        /\ Left > 0
    BY <1>2, <1>5, JumpStep, Counters, LeftType DEF Path
  <2>2. CASE Taken(i) = 1
    <3>1. First' = target /\ Second' = Succ(target)
      BY <1>1, <1>3, <2>1, <2>2 DEF First, Second
    <3> QED BY <1>1, <1>5, <2>2, <3>1 DEF target
  <2>3. CASE Taken(i) = 0
    <3>1. First' = First /\ Second' = target
      BY <1>1, <1>3, <2>1, <2>3 DEF First, Second
    <3> QED BY <1>1, <1>5, <2>3, <3>1 DEF target
  <2> QED BY <1>1, <2>2, <2>3
<1> QED BY <1>4, <1>5

\* Words are only fetched, and loops only jump, once the core has booted.
LEMMA Booted ==
  ASSUME IInv, NEW i \in Inputs, NEW gnt \in BOOLEAN, Legal(i), Cycle(i, gnt)
  PROVE  fetched(i) \/ i.hwlp_jump => awaiting # "boot"
BY Counters DEF Legal, Inputs

\* Whatever the buffer holds and requests goes on to be the path asked for: a branch or a
\* loop jump redirects both, a word taken brings both one word further.
LEMMA OnPathStep ==
  ASSUME IInv, Path, OnPath, NEW i \in Inputs, NEW gnt \in BOOLEAN, Legal(i), Cycle(i, gnt)
  PROVE  OnPath'
<1>1. /\ i.branch => next' = i.branch_addr /\ after' = Succ(i.branch_addr) /\ ~fetched(i)
      /\ i.hwlp_jump => ~i.branch
  BY Counters DEF Cycle, FollowPath
<1>2. CASE i.branch
  BY <1>1, <1>2, TargetStream DEF OnPath
<1>3. CASE i.hwlp_jump
  <2>1. First = next /\ Second = after
    BY <1>3, Booted DEF OnPath
  <2>2. IF fetched(i) THEN next' = i.hwlp_target /\ after' = Succ(i.hwlp_target)
        ELSE next' = next /\ after' = i.hwlp_target
    BY <1>1, <1>3 DEF Cycle, FollowPath
  <2> QED BY <1>1, <1>3, <2>1, <2>2, TargetStream DEF OnPath
<1>4. CASE ~i.branch /\ ~i.hwlp_jump
  <2>1. IF fetched(i) THEN next' = after /\ after' = Succ(after)
        ELSE next' = next /\ after' = after
    BY <1>4 DEF Cycle, FollowPath
  <2>2. IF fetched(i) THEN First' = Second /\ Second' = Succ(Second)
        ELSE First' = First /\ Second' = Second
    BY <1>4, PlainStream
  <2>3. awaiting = "boot" => awaiting' = "boot"
    BY <1>4, Booted DEF Cycle, FetchStage
  <2> QED BY <2>1, <2>2, <2>3 DEF OnPath
<1> QED BY <1>2, <1>3, <1>4

\* A word that is taken is the next one of the path.
LEMMA CycleIsStream ==
  ASSUME IInv, Path, OnPath, NEW i \in Inputs, NEW gnt \in BOOLEAN, Legal(i), Cycle(i, gnt)
  PROVE  [Stream!Next]_Stream!vars
<1>1. IF fetched(i) THEN out' = [word |-> next, seq |-> 1 - out.seq] ELSE out' = out
  <2>1. fetched(i) => out' = [word |-> First, seq |-> 1 - out.seq] /\ First = next
    BY Delivered, Booted DEF First, OnPath
  <2>2. ~fetched(i) => out' = out
    BY Delivered
  <2> QED BY <2>1, <2>2
<1>2. i.branch => ~fetched(i) /\ ~i.hwlp_jump
  BY Counters
<1>3. /\ i.branch_addr \in Addr /\ i.hwlp_target \in Addr
      /\ next \in Addr /\ after \in Addr
  BY DEF Inputs, IInv, TypeOK, PathTypeOK
<1>4. \A a \in Addr : a \in Stream!Place /\ Succ(a) = Stream!Following(a)
  BY SuccIsFollowing
<1>5. CASE i.branch
  <2>1. Stream!Branch(i.branch_addr)
    BY <1>1, <1>2, <1>3, <1>4, <1>5
       DEF Cycle, FollowPath, Stream!Branch, Stream!ContinueAt
  <2> QED BY <1>3, <1>4, <2>1 DEF Stream!Next
<1>6. CASE ~i.branch /\ i.hwlp_jump
  <2>1. Stream!LoopJump(i.hwlp_target) \/ Stream!LoopJumpFetch(i.hwlp_target)
    BY <1>1, <1>3, <1>4, <1>6
       DEF Cycle, FollowPath, Stream!LoopJump, Stream!LoopJumpFetch, Stream!Deliver,
           Stream!ContinueAt
  <2> QED BY <1>3, <1>4, <2>1 DEF Stream!Next
<1>7. CASE ~i.branch /\ ~i.hwlp_jump
  <2>1. Stream!Fetch \/ Stream!Wait
    BY <1>1, <1>3, <1>4, <1>7
       DEF Cycle, FollowPath, Stream!Fetch, Stream!Wait, Stream!Deliver, Stream!ContinueAt
  <2> QED BY <2>1 DEF Stream!Next
<1> QED BY <1>5, <1>6, <1>7

\* The fetch stage receives exactly the words of the path that its branches and loop jumps
\* describe, in order, whatever the grants, responses and stalls: for every depth, address
\* space and setting of PULP_OBI and COREV_PULP.
THEOREM HandsOverThePath == Spec => ImplementsStream
<1>1. Init => Path /\ OnPath /\ Stream!Init
  <2> SUFFICES ASSUME Init PROVE Path /\ OnPath /\ Stream!Init
    OBVIOUS
  <2>1. /\ Left = 0 /\ state_q = "IDLE" /\ awaiting = "boot" /\ trans_addr_q = 0
        /\ read_pointer_q = 0 /\ write_pointer_q = 0 /\ status_cnt_q = 0
    BY DEF Init, FifoInit, ControllerInit, Left
  <2>2. Path
    BY <2>1, FifoAssumption DEF Path, WriteAhead, Slot
  <2>3. 0 \in Stream!Place /\ Succ(0) = Stream!Following(0)
    <3>1. 0 \in Addr
      BY ControllerAssumption DEF Addr
    <3> QED BY <3>1, SuccIsFollowing
  <2>4. /\ asked = Stream!NoChange /\ next = 0 /\ after = Succ(0)
        /\ out = [word |-> 0, seq |-> 0]
    BY DEF Init
  <2> QED BY <2>1, <2>2, <2>3, <2>4 DEF OnPath, Stream!Init
<1>2. IInv /\ Path /\ OnPath /\ [Next]_vars
        => Path' /\ OnPath' /\ [Stream!Next]_Stream!vars
  <2> SUFFICES ASSUME IInv, Path, OnPath, [Next]_vars
               PROVE  Path' /\ OnPath' /\ [Stream!Next]_Stream!vars
    OBVIOUS
  <2>1. CASE Next
    BY <2>1, NextIsCycle, PathStep, OnPathStep, CycleIsStream
  <2>2. CASE UNCHANGED vars
    <3>1. Words' = Words /\ Left' = Left /\ ToRequest' = ToRequest
      BY <2>2 DEF vars, fifoVars, controllerVars, Words, Buffered, Wanted, InFlight, Left,
         ToRequest
    <3>2. UNCHANGED <<fifoVars, controllerVars, awaiting, out, pathVars>>
      BY <2>2 DEF vars
    <3> QED
      BY <3>1, <3>2 DEF fifoVars, controllerVars, pathVars, Path, WriteAhead, OnPath, First,
         Second, Stream!vars
  <2> QED BY <2>1, <2>2
<1> QED BY <1>1, <1>2, InductiveInvariant, PTL DEF Spec, ImplementsStream, Stream!Spec
=============================================================================
