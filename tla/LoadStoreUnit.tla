---------------------------- MODULE LoadStoreUnit ----------------------------
(***************************************************************************)
(* cv32e40p_load_store_unit with the ID/EX and EX/WB registers it works    *)
(* on: splits accesses that cross a word, aligns and extends data, and     *)
(* keeps EX and WB in lock step with at most DEPTH outstanding             *)
(* transactions.  Every signal is an operator of the inputs i.gnt and      *)
(* i.resp_valid of the data bus (OBI, TRANS_STABLE = 1: wires).            *)
(***************************************************************************)
EXTENDS DataAccess, Sequences

CONSTANT PULP_OBI  \* parameter: wait for a response before the next request

ASSUME LoadStoreAssumption ==
  /\ WORDS \in Nat \ {0, 1}
  /\ PULP_OBI \in BOOLEAN
  /\ Access \subseteq AccessOf(ByteAddr)
  /\ NoAccess \notin AccessOf(Nat)

DEPTH == 2  \* maximum number of outstanding transactions

VARIABLES
  ex,                   \* ID/EX: the access in EX, or NoAccess (~data_req_ex)
  data_misaligned_ex,   \* ID/EX: it performs its second transaction
  cnt_q,                \* outstanding transactions
  ctrl_q,               \* data_type_q, rdata_offset_q, data_sign_ext_q, data_we_q
  rdata_q,              \* first part of a misaligned load
  regfile_we_lsu,       \* EX/WB: a load waits in WB
  regfile_waddr_lsu,    \* EX/WB: its register
  mem,                  \* data memory
  granted,              \* data memory: data of the responses still to come
  out                   \* register file: what the load port wrote last

lsuVars == <<ex, data_misaligned_ex, cnt_q, ctrl_q, rdata_q,
             regfile_we_lsu, regfile_waddr_lsu, mem, granted, out>>

NoWord == [k \in Lane |-> 0]

LsuInit ==
  /\ ex = NoAccess
  /\ data_misaligned_ex = FALSE
  /\ cnt_q = 0
  /\ ctrl_q = [type |-> "word", offset |-> 0, sign |-> "zero", we |-> FALSE]
  /\ rdata_q = NoWord
  /\ regfile_we_lsu = FALSE
  /\ regfile_waddr_lsu \in Reg
  /\ granted = <<>>
  /\ out = [rd |-> regfile_waddr_lsu, value |-> NoWord, seq |-> 0]

-----------------------------------------------------------------------------
\* Address phase.

data_req_ex == ex # NoAccess
data_addr_int == Address(ex)
offset == data_addr_int % 4

data_misaligned_o ==
  /\ data_req_ex /\ ~data_misaligned_ex
  /\ \/ ex.type = "word" /\ offset # 0
     \/ ex.type = "half" /\ offset = 3

\* Mutant: the second transaction writes one byte too many.
data_be_one_more ==
  IF data_misaligned_ex THEN 0 .. (IF ex.type = "word" THEN offset ELSE 0)
  ELSE {k \in Lane : offset <= k /\ k < offset + Size(ex.type)}

data_be ==
  IF data_misaligned_ex THEN 0 .. (IF ex.type = "word" THEN offset - 1 ELSE 0)
  ELSE {k \in Lane : offset <= k /\ k < offset + Size(ex.type)}

data_wdata == [k \in Lane |-> ex.wdata[(k + 4 - offset) % 4]]

\* Mutant: one outstanding transaction too many.
trans_valid_beyond(i) ==
  /\ data_req_ex
  /\ cnt_q <= DEPTH
  /\ PULP_OBI => cnt_q = 0 \/ i.resp_valid

trans_valid(i) ==
  /\ data_req_ex
  /\ cnt_q < DEPTH
  /\ PULP_OBI => cnt_q = 0 \/ i.resp_valid

\* Mutant: a request counts before the memory grants it.
count_up_ungranted(i) == trans_valid(i)

count_up(i) == trans_valid(i) /\ i.gnt

busy_o(i) == cnt_q # 0 \/ trans_valid(i)

-----------------------------------------------------------------------------
\* Handshake with the pipeline.

lsu_ready_wb(i) == cnt_q = 0 \/ i.resp_valid

\* Mutant: EX forgets that the access it holds owns the second slot.
lsu_ready_ex_stuck(i) ==
  \/ ~data_req_ex
  \/ cnt_q = 0 /\ count_up(i)
  \/ cnt_q = 1 /\ i.resp_valid /\ count_up(i)

\* Mutant: EX does not wait for the grant.
lsu_ready_ex_ungranted(i) ==
  \/ ~data_req_ex
  \/ cnt_q = 0 /\ trans_valid(i)
  \/ cnt_q = 1 /\ i.resp_valid /\ count_up(i)
  \/ cnt_q > 1 /\ i.resp_valid

lsu_ready_ex(i) ==
  \/ ~data_req_ex
  \/ cnt_q = 0 /\ count_up(i)
  \/ cnt_q = 1 /\ i.resp_valid /\ count_up(i)
  \/ cnt_q > 1 /\ i.resp_valid

ctrl_update(i) == lsu_ready_ex(i) /\ data_req_ex

-----------------------------------------------------------------------------
\* Read data: aligned and extended by the control registers of WB.

data_rdata_ext(r) ==
  LET o     == ctrl_q.offset
      wide  == [k \in Lane |-> IF o = 0 THEN r[k]
                               ELSE IF k + o < 4 THEN rdata_q[k + o] ELSE r[k + o - 4]]
      upper == IF o = 3 THEN r[0] ELSE r[o + 1]
      lower == IF o = 3 THEN rdata_q[3] ELSE r[o]
  IN  IF ctrl_q.type = "word" THEN wide
      ELSE IF ctrl_q.type = "half"
        THEN [k \in Lane |-> IF k = 0 THEN lower ELSE IF k = 1 THEN upper
                             ELSE Fill(ctrl_q.sign, upper)]
      ELSE [k \in Lane |-> IF k = 0 THEN r[o] ELSE Fill(ctrl_q.sign, r[o])]

resp_rdata == IF granted = <<>> THEN NoWord ELSE Head(granted)

rdata_next(i) ==
  IF i.resp_valid /\ ~ctrl_q.we
    THEN IF data_misaligned_ex \/ data_misaligned_o THEN resp_rdata
         ELSE data_rdata_ext(resp_rdata)
    ELSE rdata_q

-----------------------------------------------------------------------------
(* One clock cycle.  ready_i: the other units of EX and the APU let EX     *)
(* advance.  issue: the access ID hands over if EX takes it.               *)

ex_ready(i) == lsu_ready_ex(i) /\ lsu_ready_wb(i) /\ i.ready

\* For its second transaction the access gets the first address plus 4.
SecondTransaction ==
  [ex EXCEPT !.base = IF ex.useincr THEN data_addr_int ELSE ex.base,
             !.incr = 4, !.useincr = TRUE]

IdEx(i) ==
  IF data_misaligned_o
    THEN IF ex_ready(i) THEN ex' = SecondTransaction /\ data_misaligned_ex' = TRUE
         ELSE UNCHANGED <<ex, data_misaligned_ex>>
  ELSE IF ex_ready(i) THEN ex' = i.issue /\ data_misaligned_ex' = FALSE
  ELSE UNCHANGED <<ex, data_misaligned_ex>>

ExWb(i) ==
  IF data_req_ex /\ lsu_ready_ex(i) /\ lsu_ready_wb(i) /\ i.units_ready
    THEN /\ regfile_we_lsu' = ~ex.we
         /\ regfile_waddr_lsu' = IF ex.we THEN regfile_waddr_lsu ELSE ex.rd
    ELSE /\ regfile_we_lsu' = (regfile_we_lsu /\ ~lsu_ready_wb(i))
         /\ UNCHANGED regfile_waddr_lsu

\* The write that counts: in earlier cycles the port may write other values to
\* the same register (COREV_PULP = 0), which dependent instructions stall for.
WriteBack(i) ==
  IF regfile_we_lsu /\ lsu_ready_wb(i) /\ ~data_misaligned_ex
    THEN out' = [rd |-> regfile_waddr_lsu, value |-> data_rdata_ext(resp_rdata),
                 seq |-> 1 - out.seq]
    ELSE UNCHANGED out

DataMemory(i) ==
  LET word == data_addr_int \div 4
      left == IF i.resp_valid THEN Tail(granted) ELSE granted
      read == [k \in Lane |-> mem[4 * word + k]]
  IN  IF trans_valid(i) /\ i.gnt
        THEN /\ granted' = Append(left, IF ex.we THEN NoWord ELSE read)
             /\ mem' = IF ex.we
                       THEN [a \in ByteAddr |->
                               IF a \div 4 = word /\ a % 4 \in data_be
                               THEN data_wdata[a % 4] ELSE mem[a]]
                       ELSE mem
        ELSE granted' = left /\ UNCHANGED mem

LsuCycle(i) ==
  /\ cnt_q' = IF count_up(i) <=> i.resp_valid THEN cnt_q
              ELSE IF count_up(i) THEN cnt_q + 1 ELSE cnt_q - 1
  /\ ctrl_q' = IF ctrl_update(i)
               THEN [type |-> ex.type, offset |-> offset, sign |-> ex.sign, we |-> ex.we]
               ELSE ctrl_q
  /\ rdata_q' = rdata_next(i)
  /\ IdEx(i)
  /\ ExWb(i)
  /\ WriteBack(i)
  /\ DataMemory(i)
=============================================================================
