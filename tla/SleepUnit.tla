----------------------------- MODULE SleepUnit ------------------------------
(***************************************************************************)
(* cv32e40p_sleep_unit without PULP cluster: the clock of the core runs    *)
(* once fetching is enabled, while a unit is busy or something wakes the   *)
(* core.  Its registers are on the free running clock.                     *)
(***************************************************************************)
VARIABLES fetch_enable_q, core_busy_q

sleepVars == <<fetch_enable_q, core_busy_q>>

SleepInit == fetch_enable_q = FALSE /\ core_busy_q = FALSE

\* Mutant: sleep does not await the instructions being fetched.
core_busy_without_fetch(if_busy, ctrl_busy, lsu_busy, apu_busy) ==
  ctrl_busy \/ lsu_busy \/ apu_busy

core_busy(if_busy, ctrl_busy, lsu_busy, apu_busy) ==
  if_busy \/ ctrl_busy \/ lsu_busy \/ apu_busy

clock_en(wake) == fetch_enable_q /\ (wake \/ core_busy_q)

SleepCycle(fetch_enable, if_busy, ctrl_busy, lsu_busy, apu_busy) ==
  /\ fetch_enable_q' = (fetch_enable \/ fetch_enable_q)
  /\ core_busy_q' = core_busy(if_busy, ctrl_busy, lsu_busy, apu_busy)
=============================================================================
