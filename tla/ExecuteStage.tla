---------------------------- MODULE ExecuteStage ----------------------------
(***************************************************************************)
(* The execution stage of a core with an FPU, from the operands an         *)
(* instruction reads in ID to the register file its result is written to:  *)
(* cv32e40p_ex_stage with its APU dispatcher, the ready signals of ALU,    *)
(* multiplier and load/store unit, the ID/EX and EX/WB registers, and the  *)
(* forwarding and stall logic of the controller.                           *)
(*                                                                         *)
(* A value is known by the register whose current value it is: a value     *)
(* [rd, cur] is the newest one the program computed for rd iff cur.        *)
(* Every signal is an operator of the inputs of a cycle:                   *)
(*   gnt, resp  data memory: grant, response                               *)
(*   fpu        grant of, or result of, an operation of several cycles     *)
(*   div        the divider is in its last step                            *)
(*   flush      the controller does not decode (branch taken, interrupt,   *)
(*              debug request): the instruction in ID is dropped           *)
(***************************************************************************)
EXTENDS ApuDispatcher, Sequences

CONSTANTS
  COREV_PULP,  \* parameter: the extensions, and clock gating of the write ports
  Insn         \* the instructions programs consist of

\* rs: source registers; alu_rd: destination of the ALU, the multiplier or the
\* FPU (of a post-increment access: its address register); lsu_rd: destination of a
\* load; mis: an access that needs two transactions.
InsnOf ==
  [op : {"none", "alu", "div", "mulh", "csr", "jalr", "branch", "apu", "load", "store"},
   rs : SUBSET Reg, alu_rd : Dest, lsu_rd : Dest, lat : 0 .. 3, mis : BOOLEAN]

Bubble ==
  [op |-> "none", rs |-> {}, alu_rd |-> None, lsu_rd |-> None, lat |-> 0, mis |-> FALSE]

ASSUME ExecuteAssumption ==
  /\ COREV_PULP \in BOOLEAN
  /\ Insn \subseteq InsnOf
  /\ \A n \in Insn :
       /\ n.op # "none"
       /\ n.op \in {"alu", "div", "mulh", "csr", "jalr", "apu"} <=>
            n.alu_rd # None /\ n.op \notin {"load", "store"}
       /\ n.op = "load" <=> n.lsu_rd # None
       /\ n.op = "apu" <=> n.lat \in Lat
       /\ n.mis => n.op \in {"load", "store"}
       /\ n.op = "load" => n.alu_rd # n.lsu_rd

VARIABLES
  id,                  \* IF/ID: insn (kept when it leaves) and instr_valid_id
  jump_done_q,         \* controller: the jalr in ID has jumped
  ex,                  \* ID/EX: the instruction in EX
  regfile_waddr_ex,    \* ID/EX: register of the last load
  data_misaligned_ex,  \* ID/EX: EX performs the second transaction
  mulh_CS, div_CS,     \* FSMs of multiplier and divider
  cnt_q,               \* load/store unit: outstanding transactions
  wb,                  \* EX/WB: value of the load in WB, rd = None if ~regfile_we_lsu
  fpu,                 \* FPU: operations under way, oldest first
  apu_rvalid_q,        \* a result of the FPU was memorised
  apu_result_q,
  rf                   \* register file: is the value of r its current one?

vars == <<apuVars, id, jump_done_q, ex, regfile_waddr_ex, data_misaligned_ex,
          mulh_CS, div_CS, cnt_q, wb, fpu, apu_rvalid_q, apu_result_q, rf>>

\* An operation of the FPU does not set the write enable of the ALU port.
regfile_alu_we(n) == n.op # "apu" /\ n.alu_rd # None

NoValue == [rd |-> None, cur |-> FALSE]

Init ==
  /\ ApuInit
  /\ id = [insn |-> Bubble, valid |-> FALSE]
  /\ jump_done_q = FALSE
  /\ ex = Bubble /\ regfile_waddr_ex = x0 /\ data_misaligned_ex = FALSE
  /\ mulh_CS = "IDLE_MULT" /\ div_CS = "IDLE"
  /\ cnt_q = 0 /\ wb = NoValue
  /\ fpu = <<>> /\ apu_rvalid_q = FALSE /\ apu_result_q = NoValue
  /\ rf = [r \in Reg |-> TRUE]

-----------------------------------------------------------------------------
\* Load/store unit (LoadStoreUnit has its data path).

data_req_ex == ex.op \in {"load", "store"}
\* Mutant: one outstanding transaction too many.
trans_valid_beyond == data_req_ex /\ cnt_q < 3

trans_valid == data_req_ex /\ cnt_q < 2

count_up(i) == trans_valid /\ i.gnt

lsu_ready_ex(i) ==
  \/ ~data_req_ex
  \/ cnt_q = 0 /\ count_up(i)
  \/ cnt_q = 1 /\ i.resp /\ count_up(i)
  \/ cnt_q > 1 /\ i.resp

wb_ready(i) == cnt_q = 0 \/ i.resp

data_misaligned == ex.mis /\ ~data_misaligned_ex

\* Multiplier and divider.
mult_ready ==
  IF ex.op = "mulh" THEN mulh_CS = "FINISH" ELSE mulh_CS = "IDLE_MULT"

mult_multicycle == mulh_CS \in {"STEP0", "STEP1", "STEP2"}
mulh_active == mulh_CS # "IDLE_MULT"

alu_ready == IF ex.op = "div" THEN div_CS = "FINISH" ELSE div_CS = "IDLE"

-----------------------------------------------------------------------------
\* The FPU answers in order; an operation of one cycle in the cycle of its
\* request, one of two cycles in the next cycle.

req == [en |-> ex.op = "apu", lat |-> ex.lat, waddr |-> ex.alu_rd]

apu_gnt(i) == req.lat = 3 => i.fpu
accepted(i) == valid_req(req) /\ apu_gnt(i)

apu_rvalid(i) ==
  IF fpu = <<>> THEN accepted(i) /\ req.lat = 1
  ELSE Head(fpu).lat = 2 \/ i.fpu

Requested == [rd |-> ex.alu_rd, cur |-> TRUE]

fpu_result ==
  IF fpu = <<>> THEN Requested ELSE [rd |-> Head(fpu).rd, cur |-> Head(fpu).cur]

is_decoding(i) == id.valid /\ ~i.flush

read_dep_for_jalr(i) == is_decoding(i) /\ dep_for_jalr(req, id.insn.rs)

\* Mutant: a post-increment access does not keep the port.
write_port_needed_no_increment(i) ==
  \/ data_misaligned \/ data_misaligned_ex
  \/ ex.op = "mulh" /\ mulh_active
  \/ id.insn.op = "jalr" /\ regfile_alu_we(ex) /\ ~read_dep_for_jalr(i)

\* Mutant: a MULH does not keep the port.
write_port_needed_no_mulh(i) ==
  \/ data_misaligned \/ data_misaligned_ex
  \/ (trans_valid \/ i.resp) /\ regfile_alu_we(ex)
  \/ id.insn.op = "jalr" /\ regfile_alu_we(ex) /\ ~read_dep_for_jalr(i)

\* Who has priority over the result of an operation of several cycles.
write_port_needed(i) ==
  \/ data_misaligned \/ data_misaligned_ex
  \/ (trans_valid \/ i.resp) /\ regfile_alu_we(ex)
  \/ ex.op = "mulh" /\ mulh_active
  \/ id.insn.op = "jalr" /\ regfile_alu_we(ex) /\ ~read_dep_for_jalr(i)

apu_valid(i) ==
  ~(apu_multicycle /\ write_port_needed(i)) /\ (apu_rvalid(i) \/ apu_rvalid_q)

apu_result == IF apu_rvalid_q THEN apu_result_q ELSE fpu_result

apu_waddr(i) == apu_waddr_o(req, apu_valid(i))

apu_stall(i) == stall_o(req, apu_gnt(i))

-----------------------------------------------------------------------------
\* Write ports of the register file: [rd, value], rd = None if not enabled.

apu_on_alu_port(i) == apu_valid(i) /\ (apu_singlecycle \/ apu_multicycle)

wb_contention(i) == apu_on_alu_port(i) /\ regfile_alu_we(ex)

AluValue == [rd |-> ex.alu_rd, cur |-> alu_ready /\ mult_ready]

NoWrite == [rd |-> None, value |-> NoValue]

regfile_alu_fw(i) ==
  IF apu_on_alu_port(i) THEN [rd |-> apu_waddr(i), value |-> apu_result]
  ELSE IF regfile_alu_we(ex) THEN [rd |-> ex.alu_rd, value |-> AluValue]
  ELSE NoWrite

regfile_alu_we_power(i) ==
  \/ ~COREV_PULP
  \/ apu_on_alu_port(i)
  \/ mult_ready /\ alu_ready /\ lsu_ready_ex(i)

LoadValue(i) ==
  [wb EXCEPT !.cur = wb.cur /\ wb_ready(i) /\ ~data_misaligned_ex]

regfile_wb(i) ==
  IF wb.rd # None THEN [rd |-> wb.rd, value |-> LoadValue(i)]
  ELSE IF apu_valid(i) /\ ~apu_on_alu_port(i)
    THEN [rd |-> apu_waddr(i), value |-> apu_result]
  ELSE NoWrite

regfile_wb_power(i) ==
  wb.rd # None /\ COREV_PULP => ~data_misaligned_ex /\ wb_ready(i)

ex_ready(i) ==
  \/ /\ ~apu_stall(i) /\ alu_ready /\ mult_ready
     /\ lsu_ready_ex(i) /\ wb_ready(i) /\ ~wb_contention(i)
  \/ ex.op = "branch"

ex_valid(i) ==
  /\ apu_valid(i) \/ ~req.en
  /\ alu_ready /\ mult_ready /\ lsu_ready_ex(i) /\ wb_ready(i)

-----------------------------------------------------------------------------
\* Stalls and forwarding for the instruction in ID.

dests(n) == {n.alu_rd, n.lsu_rd} \ {None}

\* Mutant: a load in EX only stalls its readers.
load_stall_raw_only(i) ==
  /\ \/ data_req_ex /\ ex.lsu_rd # None
     \/ ~wb_ready(i) /\ regfile_wb(i).rd # None
  /\ regfile_waddr_ex \in id.insn.rs

load_stall(i) ==
  /\ \/ data_req_ex /\ ex.lsu_rd # None
     \/ ~wb_ready(i) /\ regfile_wb(i).rd # None
  /\ \/ regfile_waddr_ex \in id.insn.rs
     \/ /\ is_decoding(i) /\ ~data_misaligned
        /\ regfile_alu_we(id.insn) /\ regfile_waddr_ex = id.insn.alu_rd

\* Mutant: the jump does not wait for a result in EX.
jr_stall_not_for_ex(i) ==
  /\ id.insn.op = "jalr"
  /\ \/ regfile_wb(i).rd \in id.insn.rs
     \/ ex.lsu_rd # None /\ regfile_waddr_ex \in id.insn.rs
     \/ read_dep_for_jalr(i)

\* Mutant: the register of a load that left EX is still compared.
jr_stall_after_load(i) ==
  /\ id.insn.op = "jalr"
  /\ \/ regfile_wb(i).rd \in id.insn.rs
     \/ regfile_waddr_ex \in id.insn.rs
     \/ regfile_alu_fw(i).rd \in id.insn.rs
     \/ read_dep_for_jalr(i)

jr_stall(i) ==
  /\ id.insn.op = "jalr"
  /\ \/ regfile_wb(i).rd \in id.insn.rs
     \/ ex.lsu_rd # None /\ regfile_waddr_ex \in id.insn.rs
     \/ regfile_alu_fw(i).rd \in id.insn.rs
     \/ read_dep_for_jalr(i)

apu_dep_stall(i) ==
  /\ is_decoding(i)
  /\ \/ dep(req, apu_valid(i), id.insn.rs)
     \/ dep(req, apu_valid(i), dests(id.insn)) /\ id.insn.op # "apu"

csr_apu_stall ==
  id.insn.op = "csr" /\ ((req.en /\ req.lat \in {2, 3}) \/ active)

id_ready(i) ==
  /\ ~data_misaligned /\ ~jr_stall(i) /\ ~load_stall(i)
  /\ ~apu_dep_stall(i) /\ ~csr_apu_stall
  /\ ex_ready(i)

issues(i) == is_decoding(i) /\ id_ready(i)

jumps(i) ==
  is_decoding(i) /\ id.insn.op = "jalr" /\ ~jr_stall(i) /\ ~jump_done_q

IsValueOf(r, v) == v.cur /\ v.rd = r

\* The value an operand gets is the current one of its register.
operand_fw_current(i, r) ==
  IF regfile_alu_fw(i).rd = r THEN IsValueOf(r, regfile_alu_fw(i).value)
  ELSE IF regfile_wb(i).rd = r THEN IsValueOf(r, regfile_wb(i).value)
  ELSE rf[r]

-----------------------------------------------------------------------------
(* One clock cycle.                                                        *)

Possible(b) == IF b THEN BOOLEAN ELSE {FALSE}

Input ==
  [gnt : Possible(trans_valid),
   resp : Possible(cnt_q > 0),
   fpu : Possible(IF fpu = <<>> THEN valid_req(req) /\ req.lat = 3 ELSE Head(fpu).lat = 3),
   div : Possible(div_CS = "DIVIDE"),
   flush : Possible(id.valid)]

\* The registers of which the program computes a new value now.
Renewed(i) == IF issues(i) THEN dests(id.insn) ELSE {}

\* A value of an older instruction for one of them is no longer current.
Aged(i, v) == [v EXCEPT !.cur = v.cur /\ v.rd \notin Renewed(i)]

IfId(i) ==
  IF i.flush \/ (id_ready(i) /\ jumps(i)) THEN id' = [id EXCEPT !.valid = FALSE]
  ELSE IF id_ready(i)
    THEN id' \in {[insn |-> n, valid |-> TRUE] : n \in Insn} \cup
                   {[id EXCEPT !.valid = FALSE]}
  ELSE id' = id

IdEx(i) ==
  /\ ex' = IF data_misaligned
             THEN IF ex_ready(i) THEN [ex EXCEPT !.alu_rd = None] ELSE ex
           ELSE IF mult_multicycle THEN ex
           ELSE IF issues(i) THEN id.insn
           ELSE IF ex_ready(i) THEN Bubble
           ELSE IF ex.op = "csr" THEN [ex EXCEPT !.alu_rd = None]
           ELSE ex
  /\ data_misaligned_ex' = IF data_misaligned THEN ex_ready(i)
                           ELSE data_misaligned_ex /\ ~ex_ready(i)
  /\ regfile_waddr_ex' = IF issues(i) /\ id.insn.lsu_rd # None THEN id.insn.lsu_rd
                         ELSE regfile_waddr_ex

ExWb(i) ==
  wb' = IF ex_valid(i)
          THEN IF ex.lsu_rd = None THEN NoValue
               ELSE Aged(i, [rd |-> ex.lsu_rd, cur |-> TRUE])
        ELSE IF wb_ready(i) THEN NoValue
        ELSE Aged(i, wb)

MultiplierDivider(i) ==
  /\ mulh_CS' = CASE mulh_CS = "IDLE_MULT" -> IF ex.op = "mulh" THEN "STEP0" ELSE mulh_CS
                  [] mulh_CS = "STEP0" -> "STEP1"
                  [] mulh_CS = "STEP1" -> "STEP2"
                  [] mulh_CS = "STEP2" -> "FINISH"
                  [] mulh_CS = "FINISH" -> IF ex_ready(i) THEN "IDLE_MULT" ELSE mulh_CS
  /\ div_CS' = CASE div_CS = "IDLE" -> IF ex.op = "div" THEN "DIVIDE" ELSE div_CS
                 [] div_CS = "DIVIDE" -> IF i.div THEN "FINISH" ELSE div_CS
                 [] div_CS = "FINISH" -> IF ex_ready(i) THEN "IDLE" ELSE div_CS

ResultMemorization(i) ==
  IF apu_rvalid(i) /\ apu_multicycle /\ write_port_needed(i)
    THEN apu_rvalid_q' = TRUE /\ apu_result_q' = Aged(i, fpu_result)
    ELSE /\ apu_rvalid_q' = (apu_rvalid_q /\ write_port_needed(i))
         /\ apu_result_q' = Aged(i, apu_result_q)

FpuCycle(i) ==
  LET left == IF fpu # <<>> /\ apu_rvalid(i) THEN Tail(fpu) ELSE fpu
      new  == IF accepted(i) /\ ~(fpu = <<>> /\ apu_rvalid(i))
                THEN <<[rd |-> ex.alu_rd, cur |-> TRUE, lat |-> ex.lat]>> ELSE <<>>
  IN  fpu' = [k \in 1 .. Len(left \o new) |-> Aged(i, (left \o new)[k])]

\* Port b, of the ALU, has priority.
RegisterFile(i) ==
  LET b == regfile_alu_fw(i)
      a == regfile_wb(i)
  IN  rf' = [r \in Reg |->
               /\ r \notin Renewed(i)
               /\ IF b.rd = r /\ regfile_alu_we_power(i) THEN IsValueOf(r, b.value)
                  ELSE IF a.rd = r /\ regfile_wb_power(i) THEN IsValueOf(r, a.value)
                  ELSE rf[r]]

Cycle(i) ==
  /\ IfId(i)
  /\ jump_done_q' = ((jump_done_q \/ jumps(i)) /\ ~id_ready(i))
  /\ IdEx(i)
  /\ ExWb(i)
  /\ MultiplierDivider(i)
  /\ cnt_q' = IF count_up(i) <=> i.resp THEN cnt_q
              ELSE IF count_up(i) THEN cnt_q + 1 ELSE cnt_q - 1
  /\ ApuCycle(req, apu_gnt(i), apu_valid(i))
  /\ ResultMemorization(i)
  /\ FpuCycle(i)
  /\ RegisterFile(i)

Next == \E i \in Input : Cycle(i)
=============================================================================
