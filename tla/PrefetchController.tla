------------------------- MODULE PrefetchController -------------------------
(***************************************************************************)
(* cv32e40p_prefetch_controller: requests consecutive instruction words,   *)
(* redirects the stream on a branch or a hardware-loop jump, and counts    *)
(* the outstanding transactions and how many of their responses belong to  *)
(* the abandoned path.  The signals are operators of the inputs `i` of a   *)
(* cycle:                                                                  *)
(*   i.req, i.branch, i.branch_addr, i.hwlp_jump, i.hwlp_target,           *)
(*   i.fetch_ready    from the fetch stage                                 *)
(*   i.trans_ready, i.resp_valid                 from the bus interface    *)
(* An address is the number of an aligned word, modulo WORDS.              *)
(***************************************************************************)
EXTENDS Fifo

CONSTANTS
  WORDS,       \* number of words of the address space (2**30)
  PULP_OBI,    \* parameter: wait for a response before the next request
  COREV_PULP   \* parameter: hardware loops are present

ASSUME ControllerAssumption ==
  /\ WORDS \in Nat \ {0, 1}
  /\ PULP_OBI \in BOOLEAN /\ COREV_PULP \in BOOLEAN

VARIABLES
  state_q, cnt_q, flush_cnt_q, trans_addr_q,
  hwlp_flush_after_resp, hwlp_flush_cnt_delayed_q

controllerVars == <<state_q, cnt_q, flush_cnt_q, trans_addr_q,
                    hwlp_flush_after_resp, hwlp_flush_cnt_delayed_q>>

Addr == 0 .. WORDS - 1
Succ(a) == IF a + 1 = WORDS THEN 0 ELSE a + 1

\* The counters have FIFO_ADDR_DEPTH + 1 bits.
CountDown(c) == IF c = 0 THEN 2 * POINTERS - 1 ELSE c - 1

ControllerTypeOK ==
  /\ state_q \in {"IDLE", "BRANCH_WAIT"}
  /\ cnt_q \in 0 .. DEPTH
  /\ flush_cnt_q \in 0 .. DEPTH
  /\ trans_addr_q \in Addr
  /\ hwlp_flush_after_resp \in BOOLEAN
  /\ hwlp_flush_cnt_delayed_q \in 0 .. DEPTH

ControllerInit ==
  /\ state_q = "IDLE"
  /\ cnt_q = 0
  /\ flush_cnt_q = 0
  /\ trans_addr_q = 0
  /\ hwlp_flush_after_resp = FALSE
  /\ hwlp_flush_cnt_delayed_q = 0

-----------------------------------------------------------------------------
\* Transaction requests.

fifo_valid == ~empty_o(FALSE)

\* Mutant of fifo_cnt_masked: masked without a flow change.
FifoIgnored(i) == IF i.req THEN 0 ELSE status_cnt_q

fifo_cnt_masked(i) == IF i.branch \/ i.hwlp_jump THEN 0 ELSE status_cnt_q

\* Mutants of trans_valid_o: one request too many; one request at a time.
RequestBeyondDepth(i) == i.req /\ fifo_cnt_masked(i) + cnt_q <= DEPTH
OneAtATime(i) == i.req /\ fifo_cnt_masked(i) + cnt_q < DEPTH /\ cnt_q = 0

trans_valid_o(i) ==
  /\ i.req
  /\ fifo_cnt_masked(i) + cnt_q < DEPTH
  /\ PULP_OBI => cnt_q = 0 \/ i.resp_valid

\* Mutant of count_up: counts a request the bus interface did not accept.
CountUnaccepted(i) == trans_valid_o(i)

count_up(i) == trans_valid_o(i) /\ i.trans_ready

busy_o(i) == cnt_q # 0 \/ trans_valid_o(i)

\* Mutant of trans_addr_o: a target that waits wins over a newer branch.
StaleTarget(i) ==
  IF state_q = "BRANCH_WAIT" THEN trans_addr_q
  ELSE IF i.branch THEN i.branch_addr
  ELSE IF i.hwlp_jump THEN i.hwlp_target
  ELSE Succ(trans_addr_q)

\* A branch wins over a hardware loop; BRANCH_WAIT replays the target that the
\* bus interface has not accepted yet.
trans_addr_o(i) ==
  IF i.branch THEN i.branch_addr
  ELSE IF state_q = "BRANCH_WAIT" THEN trans_addr_q
  ELSE IF i.hwlp_jump THEN i.hwlp_target
  ELSE Succ(trans_addr_q)

next_state(i) ==
  IF state_q = "IDLE" /\ (i.branch \/ i.hwlp_jump) /\ ~count_up(i) THEN "BRANCH_WAIT"
  ELSE IF state_q = "BRANCH_WAIT" /\ count_up(i) THEN "IDLE"
  ELSE state_q

-----------------------------------------------------------------------------
\* Fetch interface and FIFO management.

flushing(i) == i.branch \/ flush_cnt_q > 0

fetch_valid_o(i) == (fifo_valid \/ i.resp_valid) /\ ~flushing(i)

fifo_push_o(i) ==
  i.resp_valid /\ (fifo_valid \/ ~i.fetch_ready) /\ ~flushing(i)

fifo_pop_o(i) == fifo_valid /\ i.fetch_ready

\* HWLP_END, if it waits in the FIFO, survives the flush of a loop jump.
fifo_flush_o(i) ==
  i.branch \/ (COREV_PULP /\ i.hwlp_jump /\ fifo_valid /\ fifo_pop_o(i))

fifo_flush_but_first_o(i) ==
  COREV_PULP /\ i.hwlp_jump /\ fifo_valid /\ ~fifo_pop_o(i)

\* HWLP_END has been returned: all outstanding transactions are to be flushed.
hwlp_flush_resp(i) == COREV_PULP /\ i.hwlp_jump /\ (fifo_valid \/ i.resp_valid)

\* HWLP_END is the oldest outstanding transaction: flush the others after it.
hwlp_wait_resp_flush(i) ==
  COREV_PULP /\ i.hwlp_jump /\ ~fifo_valid /\ ~i.resp_valid

hwlp_flush_resp_delayed(i) == hwlp_flush_after_resp /\ i.resp_valid

-----------------------------------------------------------------------------
\* Counters.

next_cnt(i) ==
  IF count_up(i) <=> i.resp_valid THEN cnt_q
  ELSE IF count_up(i) THEN cnt_q + 1
  ELSE CountDown(cnt_q)

\* Mutants of next_flush_cnt: a response in the cycle of the branch is counted;
\* flushed responses are not counted down.
FlushAlsoResponse(i) ==
  IF i.branch \/ hwlp_flush_resp(i) THEN cnt_q
  ELSE IF hwlp_flush_resp_delayed(i) THEN hwlp_flush_cnt_delayed_q
  ELSE IF i.resp_valid /\ flush_cnt_q > 0 THEN flush_cnt_q - 1
  ELSE flush_cnt_q

FlushForEver(i) ==
  IF i.branch \/ hwlp_flush_resp(i)
    THEN IF i.resp_valid /\ cnt_q > 0 THEN cnt_q - 1 ELSE cnt_q
  ELSE IF hwlp_flush_resp_delayed(i) THEN hwlp_flush_cnt_delayed_q
  ELSE flush_cnt_q

next_flush_cnt(i) ==
  IF i.branch \/ hwlp_flush_resp(i)
    THEN IF i.resp_valid /\ cnt_q > 0 THEN cnt_q - 1 ELSE cnt_q
  ELSE IF hwlp_flush_resp_delayed(i) THEN hwlp_flush_cnt_delayed_q
  ELSE IF i.resp_valid /\ flush_cnt_q > 0 THEN flush_cnt_q - 1
  ELSE flush_cnt_q

DelayedFlush(i) ==
  IF ~i.branch /\ hwlp_wait_resp_flush(i)
    THEN /\ hwlp_flush_after_resp' = TRUE
         /\ hwlp_flush_cnt_delayed_q' = CountDown(cnt_q)
  ELSE IF i.branch \/ hwlp_flush_resp_delayed(i)
    THEN /\ hwlp_flush_after_resp' = FALSE
         /\ hwlp_flush_cnt_delayed_q' = 0
  ELSE UNCHANGED <<hwlp_flush_after_resp, hwlp_flush_cnt_delayed_q>>

ControllerCycle(i) ==
  /\ state_q' = next_state(i)
  /\ cnt_q' = next_cnt(i)
  /\ flush_cnt_q' = next_flush_cnt(i)
  /\ trans_addr_q' = IF i.branch \/ i.hwlp_jump \/ count_up(i)
                     THEN trans_addr_o(i) ELSE trans_addr_q
  /\ DelayedFlush(i)
=============================================================================
