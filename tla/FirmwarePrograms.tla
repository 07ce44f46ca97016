-------------------------- MODULE FirmwarePrograms --------------------------
(***************************************************************************)
(* Programs of the example test bench and of the self-test library as      *)
(* sequences of 32-bit instructions: the hardware loop test, the part of   *)
(* the self-test that exercises CSRs, and two main functions.  Values that *)
(* no branch, loop or CSR depends on are left out: such an instruction is  *)
(* plain.                                                                  *)
(***************************************************************************)
EXTENDS Integers, Sequences, SequencesExt

CONSTANTS PatternBound,   \* bound: test patterns tried, for the 32 of the source
          LoopBound       \* bound: larger loop counts are cut to this

Plain(n) == [k \in 1..n |-> [op |-> "plain"]]
Repeat(n, s) == FlattenSeq([k \in 1..n |-> s])
Cut(n) == IF n > LoopBound THEN LoopBound ELSE n

Ecall == <<[op |-> "trap", cause |-> 11]>>
Ebreak == <<[op |-> "trap", cause |-> 3]>>

----------------------------------------------------------------------------
(* hwlp.h.  The operand of an lp instruction that stands for an address is *)
(* in bytes from that instruction.                                         *)

T0(v) == <<[op |-> "t0", value |-> Cut(v)]>>
lp_starti(l, bytes) == <<[op |-> "start", loop |-> l, words |-> bytes \div 4]>>
lp_endi(l, bytes) == <<[op |-> "end", loop |-> l, words |-> bytes \div 4]>>
lp_counti(l, n) == <<[op |-> "counti", loop |-> l, count |-> Cut(n)]>>
lp_count_t0(l) == <<[op |-> "count", loop |-> l]>>
lp_setupi(l, n, bytes) ==
  <<[op |-> "setupi", loop |-> l, count |-> Cut(n), words |-> bytes \div 4]>>
lp_setup_t0(l, bytes) == <<[op |-> "setup", loop |-> l, words |-> bytes \div 4]>>

HWLP_TEST0 == lp_setupi(1, 10, 16) \o Plain(5)
HWLP_TEST1 == lp_setupi(1, 10, 44) \o Plain(4) \o lp_setupi(0, 20, 12) \o Plain(7)
HWLP_TEST2 == lp_setupi(1, 100, 44) \o Plain(4) \o lp_setupi(0, 200, 12) \o Plain(7)
HWLP_TEST3 == Plain(2) \o lp_setupi(1, 102, 60) \o Plain(5) \o lp_setupi(0, 21, 20) \o Plain(17)
HWLP_TEST4 == T0(0) \o lp_setup_t0(1, 24) \o lp_setupi(0, 21, 12) \o Plain(6)
HWLP_TEST5 ==
  T0(0) \o Plain(2) \o lp_starti(1, 16) \o lp_counti(1, 12) \o lp_endi(1, 100)
  \o lp_starti(0, 52) \o T0(100) \o lp_count_t0(0) \o lp_endi(0, 76) \o T0(1024) \o Plain(25)
  \o lp_setup_t0(1, 24) \o lp_setupi(0, 21, 12) \o Plain(9)
HWLP_TEST6 == T0(0) \o lp_setupi(1, 10, 24) \o lp_setupi(0, 20, 12) \o Plain(7)

hwlp_test ==
  Ecall \o HWLP_TEST0 \o Ebreak \o HWLP_TEST1 \o Ecall \o HWLP_TEST2 \o Ebreak
  \o Plain(1) \o Ebreak \o HWLP_TEST3 \o Ecall \o Ecall \o HWLP_TEST4 \o Ecall
  \o HWLP_TEST5 \o Plain(1) \o HWLP_TEST6

----------------------------------------------------------------------------
(* The self-test: r reads a CSR into c, w writes c and p a test pattern.   *)

r(csr) == <<[op |-> "csrr", csr |-> csr]>>
w(csr) == <<[op |-> "csrw", csr |-> csr, pattern |-> FALSE]>>
p(csr) == <<[op |-> "csrw", csr |-> csr, pattern |-> TRUE]>>
rwr(csr) == r(csr) \o w(csr) \o r(csr)
rpr(csr) == r(csr) \o p(csr) \o r(csr)
Each(F(_), csrs) == FlattenSeq([k \in DOMAIN csrs |-> F(csrs[k])])
From(first, n) == [k \in 1..n |-> first + k - 1]

Counters == r(\hC00) \o r(\hC01) \o r(\hC02)
rprpr(csr) == rpr(csr) \o p(csr) \o r(csr)
HpmCounters3to17 == Each(rprpr, From(\hC03, 15))
HpmCounters18to31 == Each(rprpr, From(\hC12, 14))
HpmCounters == Repeat(PatternBound, HpmCounters3to17 \o HpmCounters18to31)
MachineCsrs ==
  p(\hC1F) \o p(\hC1F) \o rwr(\h300) \o r(\h305) \o rwr(\h341) \o rwr(\h342)
  \o r(\hC10) \o r(\h014) \o r(\hF14)
DebugCsrs == Each(rwr, From(\h7B0, 4))
UserCsrs == Each(rwr, <<\h000, \h005>> \o From(\h040, 5))
PmpCsrs == Repeat(PatternBound, Each(rpr, From(\h3A0, 4) \o From(\h3B0, 16)))
LoopCsrs == Each(rwr, From(\h7C0, 3) \o From(\h7C4, 3))
TriggerCsrs == Each(rwr, From(\h7A0, 2))
PerfCounters780to78F == Each(rprpr, From(\h780, 16))
PerfCounters790to79F == Each(rprpr, From(\h790, 16))
PerfCounters ==
  Repeat(PatternBound, PerfCounters780to78F \o PerfCounters790to79F \o lp_counti(0, LoopBound))
Hints == Plain(15) \o Plain(1)          \* the last one is fence.i
Misaligned == Plain(6) \o Plain(3) \o Plain(6)

self_test ==
  Counters \o HpmCounters \o MachineCsrs \o DebugCsrs \o UserCsrs \o PmpCsrs \o LoopCsrs
  \o TriggerCsrs \o PerfCounters \o Hints \o Misaligned

----------------------------------------------------------------------------
hello_world == Plain(1)                 \* printf

(* fails is incremented without having been initialised. *)
sbst == Plain(1) \o <<[op |-> "fails"]>>

Program ==
  [hwlp_test |-> hwlp_test, self_test |-> self_test, hello_world |-> hello_world, sbst |-> sbst]
=============================================================================
