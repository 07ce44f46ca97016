----------------------------- MODULE HwloopRegs -----------------------------
(***************************************************************************)
(* cv32e40p_hwloop_regs: start, end and counter of the hardware loops.     *)
(***************************************************************************)
EXTENDS Naturals

Loop == {0, 1}

VARIABLES hwlp_start, hwlp_end, hwlp_counter

hwlpVars == <<hwlp_start, hwlp_end, hwlp_counter>>

HwloopInit ==
  /\ hwlp_start = [k \in Loop |-> 0]
  /\ hwlp_end = [k \in Loop |-> 0]
  /\ hwlp_counter = [k \in Loop |-> 0]

\* Instruction n = [loop, start, end, count] sets up a loop (we), the loops
\* dec_cnt are counted down if valid; setting up has priority.
HwloopCycle(we, n, dec_cnt, valid) ==
  /\ hwlp_start' = IF we THEN [hwlp_start EXCEPT ![n.loop] = n.start] ELSE hwlp_start
  /\ hwlp_end' = IF we THEN [hwlp_end EXCEPT ![n.loop] = n.end] ELSE hwlp_end
  /\ hwlp_counter' =
       [k \in Loop |->
         IF we /\ k = n.loop THEN n.count
         ELSE IF k \in dec_cnt /\ valid THEN hwlp_counter[k] - 1
         ELSE hwlp_counter[k]]
=============================================================================
