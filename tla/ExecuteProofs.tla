--------------------------- MODULE ExecuteProofs ---------------------------
(***************************************************************************)
(* The execution stage hands every instruction the newest operands: the    *)
(* invariants of Execute hold for every set of registers, every program    *)
(* and every timing of data memory, FPU and divider.                       *)
(***************************************************************************)
EXTENDS Execute, SequenceTheorems, TLAPS

-----------------------------------------------------------------------------
(* The inductive invariant: first what the registers of the stage say of   *)
(* each other.                                                             *)

\* What ID/EX holds is an instruction, perhaps one that has written its ALU result.
ExShape ==
  /\ ex.op \in {"none", "branch"} => ex.alu_rd = None
  /\ ex.op = "apu" => ex.alu_rd # None /\ ex.lat \in Lat
  /\ ex.op = "load" <=> ex.lsu_rd # None
  /\ ex.mis => ex.op \in {"load", "store"}
  /\ ex.op = "load" => ex.alu_rd # ex.lsu_rd

UnitsOfEx ==
  /\ mulh_CS # "IDLE_MULT" => ex.op = "mulh"
  /\ div_CS # "IDLE" => ex.op = "div"

\* In its second transaction an access has written its address register, and WB
\* holds its own first half, or nothing.
SecondTransaction ==
  data_misaligned_ex => ex.mis /\ ex.alu_rd = None /\ wb.rd \in {None, ex.lsu_rd}

\* regfile_waddr_ex is the register of the load in EX, or else of the one in WB.
LoadRegister ==
  /\ ex.lsu_rd # None => regfile_waddr_ex = ex.lsu_rd
  /\ wb.rd # None /\ ex.lsu_rd = None => regfile_waddr_ex = wb.rd

\* The FPU has at most one operation, whose result is memorised at most once; the
\* slot for a second one is never used.
OneOutstanding ==
  /\ addr_waiting = None
  /\ \/ addr_inflight = None /\ fpu = <<>> /\ ~apu_rvalid_q
     \/ /\ addr_inflight # None /\ Len(fpu) = 1 /\ ~apu_rvalid_q
        /\ fpu[1].rd = addr_inflight /\ fpu[1].lat = apu_lat /\ apu_lat \in {2, 3}
     \/ /\ addr_inflight # None /\ fpu = <<>> /\ apu_rvalid_q
        /\ apu_result_q.rd = addr_inflight /\ apu_lat = 3

\* A CSR instruction is alone with the FPU.
CsrAlone == ex.op = "csr" => addr_inflight = None

(* Then where the newest value of a register is.                           *)

\* Some instruction will still write r.
Pending(r) == r \in dests(ex) \/ wb.rd = r \/ addr_inflight = r

RfCurrent == \A r \in Reg : Pending(r) \/ rf[r]

\* EX is to write r after WB and the FPU have: as a load or as an operation of the
\* FPU, which alone do not wait for older results for their register.
Supersedes(r) == ex.lsu_rd = r \/ (ex.op = "apu" /\ ex.alu_rd = r)

LoadCurrent == wb.rd \in Reg => wb.cur \/ Supersedes(wb.rd)

ApuCurrent ==
  addr_inflight \in Reg => apu_result.cur \/ (ex.op = "apu" /\ ex.alu_rd = addr_inflight)

\* A result of two cycles that meets a load at the write port is lost; EX still
\* has the operation and requests it again.
ApuRepeats ==
  addr_inflight # None /\ apu_lat = 2 /\ wb.rd # None =>
    ex.op = "apu" /\ ex.alu_rd = addr_inflight

Structure ==
  /\ TypeOK /\ ExShape /\ UnitsOfEx /\ SecondTransaction /\ LoadRegister
  /\ OneOutstanding /\ CsrAlone

Currency == RfCurrent /\ LoadCurrent /\ ApuCurrent /\ ApuRepeats

IInv == Structure /\ Currency

-----------------------------------------------------------------------------
(* Lemmas on the signals of a cycle.                                       *)

\* What ID can hold.
LEMMA InsnShape ==
  ASSUME NEW n \in Insn
  PROVE  /\ n \in InsnOf /\ n.op # "none"
         /\ n.op = "branch" => n.alu_rd = None
         /\ n.op = "apu" => n.alu_rd # None /\ n.lat \in Lat
         /\ n.op = "load" <=> n.lsu_rd # None
         /\ n.mis => n.op \in {"load", "store"}
         /\ n.op = "load" => n.alu_rd # n.lsu_rd
BY ExecuteAssumption DEF InsnOf

LEMMA InputType ==
  ASSUME NEW i \in Input
  PROVE  /\ {i.gnt, i.resp, i.fpu, i.div, i.flush} \subseteq BOOLEAN
         /\ i.gnt => trans_valid
         /\ i.resp => cnt_q > 0
         /\ i.fpu => IF fpu = <<>> THEN valid_req(req) /\ req.lat = 3 ELSE Head(fpu).lat = 3
         /\ i.div => div_CS = "DIVIDE"
BY DEF Input, Possible

\* The dispatcher of an operation in EX, when at most one is under way.
LEMMA Dispatch ==
  ASSUME Structure, NEW i \in Input
  PROVE  /\ active <=> addr_inflight # None
         /\ accepted(i) => ex.op = "apu" /\ (addr_inflight # None => ex.lat = 2 /\ apu_lat = 2)
         /\ ex.op = "apu" /\ ~apu_stall(i) => accepted(i)
         /\ ex.op # "apu" => ~apu_stall(i)
         /\ ex.op = "apu" => ~write_port_needed(i)
<1> USE DEF Structure
<1>1. addr_waiting = None
  BY DEF OneOutstanding
<1>2. active <=> addr_inflight # None
  BY <1>1 DEF active, valid_inflight, valid_waiting
<1>3. accepted(i) => ex.op = "apu" /\ (addr_inflight # None => ex.lat = 2 /\ apu_lat = 2)
  <2> SUFFICES ASSUME accepted(i)
               PROVE  ex.op = "apu" /\ (addr_inflight # None => ex.lat = 2 /\ apu_lat = 2)
    OBVIOUS
  <2>1. ex.op = "apu" /\ ~stall_type(req)
    BY DEF accepted, valid_req, req
  <2>2. ex.lat \in {1, 2, 3}
    BY <2>1 DEF ExShape, Lat
  <2>3. addr_inflight # None => apu_lat \in {2, 3}
    BY DEF OneOutstanding
  <2>4. addr_inflight # None => ~(ex.lat \in {1, 3} \/ (ex.lat = 2 /\ apu_lat = 3))
    BY <1>2, <2>1 DEF stall_type, req
  <2> QED BY <2>1, <2>2, <2>3, <2>4
<1>4. ~stall_full
  BY <1>1 DEF stall_full, valid_waiting
<1>5. ex.op = "apu" /\ ~apu_stall(i) => accepted(i)
  BY <1>4 DEF apu_stall, stall_o, accepted, valid_req, req
<1>6. ex.op # "apu" => ~apu_stall(i)
  BY <1>4 DEF apu_stall, stall_o, valid_req, stall_type, req
<1>7. ex.op = "apu" => ~write_port_needed(i)
  BY DEF write_port_needed, ExShape, SecondTransaction, UnitsOfEx, data_misaligned,
         mulh_active, regfile_alu_we
<1> QED BY <1>2, <1>3, <1>5, <1>6, <1>7

LEMMA Singleton ==
  ASSUME NEW S, NEW s \in Seq(S), Len(s) = 1
  PROVE  s # <<>> /\ s[1] \in S /\ Head(s) = s[1] /\ Tail(s) = <<>> /\ s = <<s[1]>>
<1>1. s # <<>> /\ s[1] \in S /\ Head(s) = s[1]
  BY EmptySeq, ElementOfSeq
<1>2. Tail(s) = <<>>
  <2>1. Tail(s) \in Seq(S) /\ Len(Tail(s)) = 0
    BY <1>1, HeadTailProperties
  <2> QED BY <2>1, EmptySeq
<1>3. s = <<s[1]>>
  BY <1>1, SeqEqual
<1> QED BY <1>1, <1>2, <1>3

\* What the FPU delivers: to an operation of one cycle at once, otherwise to the one
\* under way.
LEMMA Delivery ==
  ASSUME Structure, NEW i \in Input
  PROVE  /\ addr_inflight = None =>
              /\ apu_valid(i) <=> accepted(i) /\ ex.lat = 1
              /\ apu_rvalid(i) <=> accepted(i) /\ ex.lat = 1
              /\ apu_valid(i) => /\ apu_waddr(i) = ex.alu_rd /\ apu_result = Requested
                                 /\ apu_on_alu_port(i)
         /\ addr_inflight # None =>
              /\ apu_result.rd = addr_inflight
              /\ apu_valid(i) => apu_waddr(i) = addr_inflight
              /\ apu_on_alu_port(i) <=> apu_valid(i) /\ apu_lat = 3
              /\ apu_lat = 2 => apu_valid(i)
<1> USE DEF Structure
<1>1. /\ addr_waiting = None /\ (active <=> addr_inflight # None)
      /\ ~returned_waiting(apu_valid(i))
  BY Dispatch DEF OneOutstanding, returned_waiting, valid_waiting
<1>2. CASE addr_inflight = None
  <2>1. fpu = <<>> /\ ~apu_rvalid_q
    BY <1>2 DEF OneOutstanding
  <2>2. apu_rvalid(i) <=> accepted(i) /\ ex.lat = 1
    BY <2>1 DEF apu_rvalid, req
  <2>3. apu_valid(i) <=> accepted(i) /\ ex.lat = 1
    BY <2>1, <2>2, Dispatch DEF apu_valid
  <2>4. ASSUME apu_valid(i)
        PROVE  apu_waddr(i) = ex.alu_rd /\ apu_result = Requested /\ apu_on_alu_port(i)
    <3>1. valid_req(req)
      BY <2>3, <2>4 DEF accepted
    <3>2. returned_req(req, apu_valid(i)) /\ ~returned_inflight(apu_valid(i))
      BY <1>1, <1>2, <2>4, <3>1 DEF returned_req, returned_inflight, valid_inflight
    <3>3. apu_waddr(i) = ex.alu_rd
      BY <1>1, <3>2 DEF apu_waddr, apu_waddr_o, req
    <3>4. apu_result = Requested
      BY <2>1 DEF apu_result, fpu_result
    <3> QED BY <1>1, <1>2, <2>4, <3>3, <3>4 DEF apu_on_alu_port, apu_singlecycle
  <2> QED BY <1>2, <2>2, <2>3, <2>4
<1>3. CASE addr_inflight # None
  <2>1. apu_result.rd = addr_inflight
    <3>1. CASE apu_rvalid_q
      BY <1>3, <3>1 DEF OneOutstanding, apu_result
    <3>2. CASE ~apu_rvalid_q
      BY <1>3, <3>2, Singleton DEF OneOutstanding, apu_result, fpu_result, TypeOK
    <3> QED BY <3>1, <3>2
  <2>2. apu_valid(i) => apu_waddr(i) = addr_inflight
    BY <1>1, <1>3 DEF apu_waddr, apu_waddr_o, returned_inflight, valid_inflight, valid_waiting
  <2>3. apu_on_alu_port(i) <=> apu_valid(i) /\ apu_lat = 3
    BY <1>1, <1>3 DEF apu_on_alu_port, apu_singlecycle, apu_multicycle
  <2>4. apu_lat = 2 => apu_valid(i)
    <3> SUFFICES ASSUME apu_lat = 2 PROVE apu_valid(i)
      OBVIOUS
    <3>1. fpu # <<>> /\ Head(fpu).lat = 2
      BY <1>3, Singleton DEF OneOutstanding, TypeOK
    <3> QED BY <3>1 DEF apu_valid, apu_multicycle, apu_rvalid
  <2> QED BY <1>3, <2>1, <2>2, <2>3, <2>4
<1> QED BY <1>2, <1>3

\* The operation in EX is sent to the FPU for more than this cycle; the one under way
\* is not delivered yet.
started(i) == accepted(i) /\ ~(addr_inflight = None /\ ex.lat = 1)
kept(i) == addr_inflight # None /\ ~apu_valid(i)

LEMMA Exclusive ==
  ASSUME Structure, NEW i \in Input
  PROVE  /\ ~(started(i) /\ kept(i))
         /\ started(i) => ex.op = "apu" /\ ex.lat \in {2, 3} /\ ex.alu_rd # None
         /\ kept(i) => apu_lat = 3 /\ ~valid_req(req) /\ (ex.op = "apu" => apu_stall(i))
<1> USE DEF Structure
<1>1. started(i) => ex.op = "apu" /\ ex.lat \in {2, 3} /\ ex.alu_rd # None
  BY Dispatch DEF started, ExShape, Lat
<1>2. kept(i) => apu_lat = 3
  BY Delivery DEF kept, OneOutstanding
<1>3. kept(i) => ~valid_req(req)
  <2> SUFFICES ASSUME addr_inflight # None, apu_lat = 3, ex.op = "apu" PROVE stall_type(req)
    BY <1>2 DEF kept, valid_req, req
  <2>1. ex.lat \in {1, 2, 3}
    BY DEF ExShape, Lat
  <2> QED BY <2>1, Dispatch DEF stall_type, req
<1>4. kept(i) /\ ex.op = "apu" => apu_stall(i)
  BY <1>3 DEF apu_stall, stall_o, valid_req, req
<1> QED BY <1>1, <1>2, <1>3, <1>4 DEF started, accepted

LEMMA InflightStep ==
  ASSUME Structure, NEW i \in Input, Cycle(i)
  PROVE  /\ addr_waiting' = None
         /\ addr_inflight' = IF started(i) THEN ex.alu_rd
                             ELSE IF kept(i) THEN addr_inflight ELSE None
         /\ started(i) => apu_lat' = ex.lat
         /\ kept(i) => apu_lat' = 3
         /\ apu_lat' \in 0 .. 3
<1> USE DEF Structure
<1>1. ApuCycle(req, apu_gnt(i), apu_valid(i))
  BY DEF Cycle
<1>2. /\ addr_waiting = None /\ ~returned_waiting(apu_valid(i))
      /\ returned_inflight(apu_valid(i)) <=> addr_inflight # None /\ apu_valid(i)
  BY DEF OneOutstanding, returned_waiting, returned_inflight, valid_waiting, valid_inflight
<1>3. returned_req(req, apu_valid(i)) <=> addr_inflight = None /\ accepted(i) /\ ex.lat = 1
  BY Delivery, Dispatch DEF returned_req, accepted
<1>4. (valid_req(req) /\ apu_gnt(i) /\ ~returned_req(req, apu_valid(i))) <=> started(i)
  BY <1>3 DEF started, accepted
<1>5. addr_inflight' = IF started(i) THEN ex.alu_rd
                       ELSE IF kept(i) THEN addr_inflight ELSE None
  BY <1>1, <1>2, <1>4 DEF ApuCycle, kept, req
<1>6. addr_waiting' = None
  <2>1. started(i) /\ addr_inflight # None => apu_valid(i)
    BY Exclusive DEF kept
  <2> QED BY <1>1, <1>2, <1>4, <2>1 DEF ApuCycle, valid_inflight
<1>7. apu_lat' = IF valid_req(req) THEN ex.lat ELSE apu_lat
  BY <1>1 DEF ApuCycle, req
<1>8. apu_lat' \in 0 .. 3
  BY <1>7 DEF TypeOK, InsnOf
<1> QED BY <1>5, <1>6, <1>7, <1>8, Exclusive DEF started, accepted

FpuOp == [rd : Dest, cur : BOOLEAN, lat : Lat]

\* A value on its way ages with the instructions that are issued.
LEMMA AgedValue ==
  ASSUME NEW i \in Input, NEW v, v \in Value \/ v \in FpuOp
  PROVE  /\ Aged(i, v).rd = v.rd
         /\ Aged(i, v).cur <=> v.cur /\ v.rd \notin Renewed(i)
         /\ v \in Value => Aged(i, v) \in Value
         /\ v \in FpuOp => Aged(i, v) \in FpuOp /\ Aged(i, v).lat = v.lat
BY DEF Aged, Value, FpuOp

LEMMA FpuStep ==
  ASSUME Structure, NEW i \in Input, Cycle(i)
  PROVE  /\ started(i) =>
              /\ fpu' = <<Aged(i, [rd |-> ex.alu_rd, cur |-> TRUE, lat |-> ex.lat])>>
              /\ ~apu_rvalid_q'
         /\ ~started(i) /\ ~kept(i) => fpu' = <<>> /\ ~apu_rvalid_q'
         /\ kept(i) =>
              \/ /\ fpu # <<>> /\ ~apu_rvalid_q
                 /\ fpu' = <<Aged(i, fpu[1])>> /\ ~apu_rvalid_q'
              \/ /\ fpu' = <<>> /\ apu_rvalid_q'
                 /\ apu_result_q' = Aged(i, apu_result)
<1> USE DEF Structure
<1> DEFINE left == IF fpu # <<>> /\ apu_rvalid(i) THEN Tail(fpu) ELSE fpu
           op   == [rd |-> ex.alu_rd, cur |-> TRUE, lat |-> ex.lat]
           new  == IF accepted(i) /\ ~(fpu = <<>> /\ apu_rvalid(i)) THEN <<op>> ELSE <<>>
<1>1. fpu' = [k \in 1 .. Len(left \o new) |-> Aged(i, (left \o new)[k])]
  BY DEF Cycle, FpuCycle
<1>2. fpu = <<>> \/ (fpu = <<fpu[1]>> /\ addr_inflight # None /\ ~apu_rvalid_q /\ Tail(fpu) = <<>>)
  BY Singleton DEF OneOutstanding, TypeOK
<1>3. left \in {<<>>, <<fpu[1]>>} /\ (left = <<>> \/ ~apu_rvalid(i))
  BY <1>2
<1>4. ASSUME NEW v
      PROVE  [k \in 1 .. Len(<<v>>) |-> Aged(i, <<v>>[k])] = <<Aged(i, v)>>
  OBVIOUS
<1>5. [k \in 1 .. Len(<<>>) |-> Aged(i, <<>>[k])] = <<>>
  OBVIOUS
<1>6. ResultMemorization(i)
  BY DEF Cycle
<1>append. ASSUME NEW a, NEW b, NEW v, (a = <<>> /\ b = <<v>>) \/ (a = <<v>> /\ b = <<>>)
      PROVE  a \o b = <<v>>
  <2>1. <<v>> \in Seq({v})
    OBVIOUS
  <2>2. <<v>> \o <<>> = <<v>> /\ <<>> \o <<v>> = <<v>>
    BY <2>1, ConcatEmptySeq, Zenon
  <2> QED BY <1>append, <2>2, Zenon
<1>7. CASE started(i)
  <2>1. accepted(i) /\ ~write_port_needed(i)
    BY <1>7, Dispatch, Exclusive DEF started
  <2>2. CASE addr_inflight = None
    <3>1. fpu = <<>> /\ ~apu_rvalid(i) /\ ~apu_rvalid_q
      BY <1>7, <2>2, Delivery DEF started, OneOutstanding
    <3>2. left = <<>> /\ new = <<op>>
      BY <2>1, <3>1
    <3> HIDE DEF left, new, op
    <3>3. fpu' = <<Aged(i, op)>>
      BY <1>1, <1>4, <1>append, <3>2
    <3> QED BY <1>6, <1>7, <2>1, <3>1, <3>3, Exclusive DEF ResultMemorization, op
  <2>3. CASE addr_inflight # None
    <3>1. apu_lat = 2
      BY <2>1, <2>3, Dispatch
    <3>2. fpu # <<>> /\ Head(fpu).lat = 2 /\ ~apu_rvalid_q
      BY <2>3, <3>1, Singleton DEF OneOutstanding, TypeOK
    <3>3. apu_rvalid(i)
      BY <3>2 DEF apu_rvalid
    <3>4. left = <<>> /\ new = <<op>>
      BY <1>3, <2>1, <3>2, <3>3
    <3> HIDE DEF left, new, op
    <3>5. fpu' = <<Aged(i, op)>>
      BY <1>1, <1>4, <1>append, <3>4
    <3> QED BY <1>6, <1>7, <2>1, <3>2, <3>5, Exclusive DEF ResultMemorization, op
  <2> QED BY <2>2, <2>3
<1>8. CASE ~started(i) /\ ~kept(i)
  <2>1. CASE addr_inflight = None
    <3>1. fpu = <<>> /\ ~apu_rvalid_q
      BY <2>1 DEF OneOutstanding
    <3>2. (accepted(i) => apu_rvalid(i)) /\ (apu_rvalid(i) => ~write_port_needed(i))
      BY <1>8, <2>1, Delivery, Dispatch DEF started
    <3>3. left \o new = <<>>
      BY <3>1, <3>2
    <3>4. fpu' = <<>>
      BY <1>1, <1>5, <3>3
    <3> QED BY <1>6, <1>8, <3>1, <3>2, <3>4 DEF ResultMemorization
  <2>2. CASE addr_inflight # None
    <3>1. apu_valid(i) /\ ~accepted(i)
      BY <1>8, <2>2 DEF kept, started
    <3>2. left \o new = <<>>
      BY <1>2, <1>3, <3>1 DEF apu_valid
    <3>3. fpu' = <<>>
      BY <1>1, <1>5, <3>2
    <3>4. apu_rvalid_q => apu_multicycle
      BY DEF OneOutstanding, apu_multicycle
    <3>5. ~(apu_multicycle /\ write_port_needed(i))
      BY <3>1 DEF apu_valid
    <3> QED BY <1>6, <1>8, <3>3, <3>4, <3>5 DEF ResultMemorization
  <2> QED BY <2>1, <2>2
<1>9. CASE kept(i)
  <2>1. addr_inflight # None /\ apu_multicycle /\ ~accepted(i) /\ ~started(i)
    BY <1>9, Exclusive DEF kept, accepted, apu_multicycle
  <2>2. write_port_needed(i) \/ (~apu_rvalid(i) /\ ~apu_rvalid_q)
    BY <1>9, <2>1 DEF kept, apu_valid
  <2>3. new = <<>>
    BY <2>1
  <2>4. CASE fpu # <<>> /\ apu_rvalid(i)
    <3>empty. left = <<>>
      BY <1>3, <2>4
    <3>1. fpu' = <<>>
      <4> HIDE DEF left, new
      <4> QED BY <1>1, <1>5, <2>3, <3>empty
    <3>2. apu_result = fpu_result
      BY <1>2, <2>4 DEF apu_result
    <3> QED BY <1>6, <1>9, <2>1, <2>2, <2>4, <3>1, <3>2 DEF ResultMemorization
  <2>5. CASE fpu # <<>> /\ ~apu_rvalid(i)
    <3>1. left = <<fpu[1]>>
      BY <1>2, <2>5
    <3>2. fpu' = <<Aged(i, fpu[1])>>
      <4> HIDE DEF left, new
      <4> QED BY <1>1, <1>4, <1>append, <2>3, <3>1
    <3> QED BY <1>2, <1>6, <1>9, <2>1, <2>5, <3>2 DEF ResultMemorization
  <2>6. CASE fpu = <<>>
    <3>1. apu_rvalid_q
      BY <2>1, <2>6 DEF OneOutstanding
    <3>2. ~apu_rvalid(i)
      BY <2>1, <2>6 DEF apu_rvalid
    <3>3. left \o new = <<>>
      BY <2>3, <2>6
    <3>4. fpu' = <<>>
      BY <1>1, <1>5, <3>3
    <3> QED BY <1>6, <1>9, <2>1, <2>2, <3>1, <3>2, <3>4 DEF ResultMemorization, apu_result
  <2> QED BY <2>4, <2>5, <2>6
<1> QED BY <1>7, <1>8, <1>9

\* The result under way keeps its register; it is the newest value of it unless an
\* instruction with that destination is issued.
LEMMA OutstandingStep ==
  ASSUME Structure, NEW i \in Input, Cycle(i)
  PROVE  /\ OneOutstanding'
         /\ addr_inflight' # None =>
              (apu_result.cur' <=> (started(i) \/ apu_result.cur) /\ addr_inflight' \notin Renewed(i))
         /\ addr_inflight' \in Dest /\ addr_waiting' \in Dest
         /\ fpu' \in Seq(FpuOp) /\ apu_rvalid_q' \in BOOLEAN /\ apu_result_q' \in Value
<1> USE DEF Structure
<1>1. /\ ex.alu_rd \in Dest /\ addr_inflight \in Dest /\ apu_result_q \in Value
      /\ fpu_result \in Value /\ apu_result \in Value /\ (fpu # <<>> => fpu[1] \in FpuOp)
  <2>1. fpu # <<>> => fpu[1] \in FpuOp /\ Head(fpu) = fpu[1]
    BY Singleton DEF OneOutstanding, TypeOK, FpuOp
  <2> QED BY <2>1 DEF TypeOK, InsnOf, fpu_result, Requested, apu_result, Value, FpuOp, Dest
<1>2. apu_result_q' \in Value /\ apu_rvalid_q' \in BOOLEAN
  <2>1. ResultMemorization(i)
    BY DEF Cycle
  <2>2. apu_result_q' \in Value
    BY <1>1, <2>1, AgedValue DEF ResultMemorization
  <2>3. apu_rvalid_q' \in BOOLEAN
    BY <2>1 DEF ResultMemorization
  <2> QED BY <2>2, <2>3
<1>3. CASE started(i)
  <2> DEFINE op == [rd |-> ex.alu_rd, cur |-> TRUE, lat |-> ex.lat]
  <2>1. op \in FpuOp
    BY <1>1, <1>3, Exclusive DEF FpuOp, Lat
  <2>2. /\ fpu' = <<Aged(i, op)>> /\ ~apu_rvalid_q' /\ addr_inflight' = ex.alu_rd
        /\ addr_inflight' # None /\ addr_waiting' = None /\ apu_lat' = ex.lat /\ apu_lat' \in {2, 3}
    BY <1>3, FpuStep, InflightStep, Exclusive
  <2>3. /\ Aged(i, op).rd = ex.alu_rd /\ Aged(i, op).lat = ex.lat /\ Aged(i, op) \in FpuOp
        /\ Aged(i, op).cur <=> ex.alu_rd \notin Renewed(i)
    BY <2>1, AgedValue
  <2> HIDE DEF op
  <2>4. Len(fpu') = 1 /\ fpu'[1] = Aged(i, op) /\ fpu' # <<>> /\ Head(fpu') = Aged(i, op)
    BY <2>2
  <2>5. apu_result'.cur <=> ex.alu_rd \notin Renewed(i)
    BY <2>2, <2>3, <2>4 DEF apu_result, fpu_result
  <2> QED BY <1>1, <1>2, <1>3, <2>2, <2>3, <2>4, <2>5 DEF OneOutstanding, Dest
<1>4. CASE ~started(i) /\ ~kept(i)
  <2>1. fpu' = <<>> /\ ~apu_rvalid_q' /\ addr_inflight' = None /\ addr_waiting' = None
    BY <1>4, FpuStep, InflightStep
  <2>2. fpu' \in Seq(FpuOp)
    BY <2>1
  <2> QED BY <1>2, <2>1, <2>2 DEF OneOutstanding, Dest
<1>5. CASE kept(i)
  <2>1. /\ addr_inflight' = addr_inflight /\ addr_waiting' = None /\ addr_inflight # None
        /\ apu_lat = 3 /\ apu_lat' = 3 /\ ~started(i)
    BY <1>5, InflightStep, Exclusive DEF kept
  <2>2. CASE fpu # <<>> /\ ~apu_rvalid_q /\ fpu' = <<Aged(i, fpu[1])>> /\ ~apu_rvalid_q'
    <3>1. /\ fpu[1].rd = addr_inflight /\ fpu[1].lat = 3 /\ fpu[1] \in FpuOp
          /\ Head(fpu) = fpu[1]
      BY <1>1, <2>1, <2>2, Singleton DEF OneOutstanding, TypeOK
    <3>2. /\ Aged(i, fpu[1]).rd = addr_inflight /\ Aged(i, fpu[1]).lat = 3
          /\ Aged(i, fpu[1]) \in FpuOp
          /\ Aged(i, fpu[1]).cur <=> fpu[1].cur /\ addr_inflight \notin Renewed(i)
      BY <3>1, AgedValue
    <3>3. apu_result.cur <=> fpu[1].cur
      BY <2>2, <3>1 DEF apu_result, fpu_result
    <3>4. /\ Len(fpu') = 1 /\ fpu'[1] = Aged(i, fpu[1]) /\ fpu' # <<>>
          /\ Head(fpu') = Aged(i, fpu[1])
      BY <2>2
    <3>5. apu_result'.cur <=> Aged(i, fpu[1]).cur
      BY <2>2, <3>4 DEF apu_result, fpu_result
    <3> QED BY <1>1, <1>2, <2>1, <2>2, <3>2, <3>3, <3>4, <3>5 DEF OneOutstanding, Dest
  <2>3. CASE fpu' = <<>> /\ apu_rvalid_q' /\ apu_result_q' = Aged(i, apu_result)
    <3>1. apu_result.rd = addr_inflight
      BY <2>1, Delivery
    <3>2. /\ Aged(i, apu_result).rd = addr_inflight
          /\ Aged(i, apu_result).cur <=> apu_result.cur /\ addr_inflight \notin Renewed(i)
      BY <1>1, <3>1, AgedValue
    <3>3. apu_result' = Aged(i, apu_result)
      BY <2>3 DEF apu_result
    <3> QED BY <1>1, <1>2, <2>1, <2>3, <3>2, <3>3 DEF OneOutstanding, Dest
  <2> QED BY <1>5, <2>2, <2>3, FpuStep
<1> QED BY <1>3, <1>4, <1>5

-----------------------------------------------------------------------------
(* Lemmas on the pipeline registers.                                       *)

\* EX is ready only when its units are; an instruction of EX that writes the register
\* file through the ALU port has it then to itself.
LEMMA ReadyUnits ==
  ASSUME Structure, NEW i \in Input, ex_ready(i)
  PROVE  /\ ~mult_multicycle
         /\ ex.op # "branch" => /\ alu_ready /\ mult_ready /\ lsu_ready_ex(i) /\ wb_ready(i)
                               /\ ~wb_contention(i)
         /\ ex.op = "apu" => accepted(i)
BY Dispatch DEF Structure, ex_ready, mult_multicycle, mult_ready, UnitsOfEx

\* The access of EX keeps the write port until it is done, so that ex_valid_o and
\* ex_ready_o agree on it.
LEMMA AccessOnce ==
  ASSUME Structure, NEW i \in Input, data_req_ex
  PROVE  ex_valid(i) <=> ex_ready(i)
<1> USE DEF Structure
<1>1. ex.op \in {"load", "store"} /\ ~apu_stall(i) /\ ~req.en /\ ~accepted(i)
  BY Dispatch DEF data_req_ex, req
<1>2. ASSUME lsu_ready_ex(i), wb_contention(i)
      PROVE  FALSE
  <2>1. trans_valid \/ i.resp
    BY <1>2, InputType DEF lsu_ready_ex, count_up
  <2>2. apu_valid(i) /\ addr_inflight # None
    BY <1>1, <1>2, Delivery DEF wb_contention, apu_on_alu_port
  <2>3. apu_multicycle
    BY <1>2, <2>2, Delivery DEF wb_contention, apu_multicycle
  <2> QED BY <1>2, <2>1, <2>2, <2>3 DEF wb_contention, apu_valid, write_port_needed
<1> QED BY <1>1, <1>2 DEF ex_valid, ex_ready

\* What EX takes as feedback through the write port is its own.
LEMMA Feedback ==
  ASSUME Structure, NEW i \in Input, data_misaligned \/ mult_multicycle
  PROVE  ~apu_on_alu_port(i)
<1> USE DEF Structure
<1>1. write_port_needed(i)
  BY DEF write_port_needed, mult_multicycle, mulh_active, UnitsOfEx
<1>2. ex.op # "apu"
  BY DEF data_misaligned, mult_multicycle, UnitsOfEx, ExShape
<1> QED BY <1>1, <1>2, Delivery, Dispatch DEF apu_on_alu_port, apu_valid, apu_multicycle

LEMMA Issue ==
  ASSUME Structure, NEW i \in Input, issues(i)
  PROVE  /\ is_decoding(i) /\ id.insn \in Insn /\ ex_ready(i) /\ ~data_misaligned
         /\ ~load_stall(i) /\ ~apu_dep_stall(i) /\ ~csr_apu_stall /\ ~jr_stall(i)
         /\ ~mult_multicycle
BY ReadyUnits DEF Structure, TypeOK, issues, is_decoding, id_ready

\* ID/EX.
LEMMA ExStep ==
  ASSUME Structure, NEW i \in Input, Cycle(i)
  PROVE  /\ issues(i) => ex' = id.insn
         /\ ~issues(i) /\ ex_ready(i) =>
              ex' = IF data_misaligned THEN [ex EXCEPT !.alu_rd = None] ELSE Bubble
         /\ ~ex_ready(i) =>
              ex' = ex \/ (ex.op = "csr" /\ ex' = [ex EXCEPT !.alu_rd = None])
<1>1. IdEx(i)
  BY DEF Cycle
<1>2. ASSUME ex_ready(i) PROVE ~mult_multicycle
  BY <1>2, ReadyUnits
<1>3. issues(i) => ~data_misaligned /\ ex_ready(i)
  BY Issue
<1> QED BY <1>1, <1>2, <1>3 DEF IdEx

\* EX/WB.
LEMMA WbStep ==
  ASSUME Structure, NEW i \in Input, Cycle(i)
  PROVE  /\ wb' \in Value
         /\ ex_valid(i) => wb'.rd = ex.lsu_rd
         /\ ex_valid(i) /\ ex.lsu_rd # None => (wb'.cur <=> ex.lsu_rd \notin Renewed(i))
         /\ ~ex_valid(i) /\ wb_ready(i) => wb'.rd = None
         /\ ~ex_valid(i) /\ ~wb_ready(i) =>
              wb'.rd = wb.rd /\ (wb'.cur <=> wb.cur /\ wb.rd \notin Renewed(i))
<1>1. ExWb(i)
  BY DEF Cycle
<1>2. NoValue \in Value /\ [rd |-> ex.lsu_rd, cur |-> TRUE] \in Value /\ wb \in Value
  BY DEF NoValue, Value, Structure, TypeOK, InsnOf, Dest
<1>3. /\ Aged(i, wb) \in Value /\ Aged(i, wb).rd = wb.rd
      /\ Aged(i, wb).cur <=> wb.cur /\ wb.rd \notin Renewed(i)
  BY <1>2, AgedValue
<1>4. /\ Aged(i, [rd |-> ex.lsu_rd, cur |-> TRUE]) \in Value
      /\ Aged(i, [rd |-> ex.lsu_rd, cur |-> TRUE]).rd = ex.lsu_rd
      /\ Aged(i, [rd |-> ex.lsu_rd, cur |-> TRUE]).cur <=> ex.lsu_rd \notin Renewed(i)
  BY <1>2, AgedValue
<1>5. NoValue.rd = None
  BY DEF NoValue
<1> QED BY <1>1, <1>2, <1>3, <1>4, <1>5 DEF ExWb

-----------------------------------------------------------------------------
(* A cycle keeps the structure of the stage.                               *)

LEMMA TypeStep ==
  ASSUME Structure, NEW i \in Input, Cycle(i)
  PROVE  TypeOK'
<1> USE DEF Structure
<1>1. /\ id' \in [insn : Insn \cup {Bubble}, valid : BOOLEAN]
      /\ id'.valid => id'.insn # Bubble
  <2>1. IfId(i)
    BY DEF Cycle
  <2>2. Bubble \notin Insn
    BY InsnShape DEF Bubble
  <2>3. \/ id' = [id EXCEPT !.valid = FALSE]
        \/ \E n \in Insn : id' = [insn |-> n, valid |-> TRUE]
        \/ id' = id
    BY <2>1 DEF IfId
  <2>4. /\ id \in [insn : Insn \cup {Bubble}, valid : BOOLEAN]
        /\ id.valid => id.insn # Bubble
    BY DEF TypeOK
  <2>5. CASE id' = [id EXCEPT !.valid = FALSE]
    BY <2>4, <2>5
  <2>6. CASE \E n \in Insn : id' = [insn |-> n, valid |-> TRUE]
    BY <2>2, <2>6
  <2> QED BY <2>3, <2>4, <2>5, <2>6
<1>2. jump_done_q' \in BOOLEAN
  BY DEF Cycle
<1>3. ex' \in InsnOf
  <2>1. Bubble \in InsnOf
    BY DEF Bubble, InsnOf, Dest
  <2>2. ex \in InsnOf /\ [ex EXCEPT !.alu_rd = None] \in InsnOf
    BY DEF TypeOK, InsnOf, Dest
  <2>3. issues(i) => id.insn \in InsnOf
    BY Issue, InsnShape
  <2> QED BY <2>1, <2>2, <2>3, ExStep
<1>4. regfile_waddr_ex' \in Reg \cup {x0}
  <2>1. issues(i) => id.insn.lsu_rd \in Dest
    BY Issue, InsnShape DEF InsnOf
  <2> QED BY <2>1 DEF Cycle, IdEx, TypeOK, Dest
<1>5. data_misaligned_ex' \in BOOLEAN
  <2>1. ex_ready(i) \in BOOLEAN
    BY DEF ex_ready
  <2> QED BY <2>1 DEF Cycle, IdEx, TypeOK
<1>6. /\ mulh_CS' \in {"IDLE_MULT", "STEP0", "STEP1", "STEP2", "FINISH"}
      /\ div_CS' \in {"IDLE", "DIVIDE", "FINISH"}
  BY DEF Cycle, MultiplierDivider, TypeOK
<1>7. cnt_q' \in 0 .. 2
  <2>1. cnt_q' = IF count_up(i) <=> i.resp THEN cnt_q
                 ELSE IF count_up(i) THEN cnt_q + 1 ELSE cnt_q - 1
    BY DEF Cycle
  <2>2. (count_up(i) => cnt_q < 2) /\ (i.resp => cnt_q > 0) /\ cnt_q \in 0 .. 2
    BY InputType DEF count_up, trans_valid, TypeOK
  <2> QED BY <2>1, <2>2
<1>8. rf' \in [Reg -> BOOLEAN]
  BY DEF Cycle, RegisterFile
<1>9. apu_lat' \in 0 .. 3
  BY InflightStep
<1> QED BY <1>1, <1>2, <1>3, <1>4, <1>5, <1>6, <1>7, <1>8, <1>9, WbStep, OutstandingStep
        DEF TypeOK, FpuOp

LEMMA StructureStep ==
  ASSUME Structure, NEW i \in Input, Cycle(i)
  PROVE  Structure'
<1> USE DEF Structure
<1>1. issues(i) => id.insn \in Insn
  BY Issue
<1>2. ex \in InsnOf /\ ex.alu_rd \in Dest
  BY DEF TypeOK, InsnOf
<1>3. ExShape'
  <2>1. CASE issues(i)
    BY <1>1, <2>1, ExStep, InsnShape DEF ExShape
  <2>2. CASE ~issues(i)
    BY <1>2, <2>2, ExStep DEF ExShape, Bubble, InsnOf, data_misaligned
  <2> QED BY <2>1, <2>2
<1>4. UnitsOfEx'
  <2>1. MultiplierDivider(i)
    BY DEF Cycle
  <2>2. ASSUME ex_ready(i)
        PROVE  mulh_CS' = "IDLE_MULT" /\ div_CS' = "IDLE"
    BY <2>1, <2>2, ReadyUnits DEF MultiplierDivider, UnitsOfEx, mult_ready, alu_ready, TypeOK
  <2>3. ASSUME ~ex_ready(i)
        PROVE  ex'.op = ex.op
    BY <1>2, <2>3, ExStep DEF InsnOf
  <2>4. /\ mulh_CS' # "IDLE_MULT" => ex.op = "mulh"
        /\ div_CS' # "IDLE" => ex.op = "div"
    BY <2>1 DEF MultiplierDivider, UnitsOfEx, TypeOK
  <2> QED BY <2>2, <2>3, <2>4 DEF UnitsOfEx
<1>5. SecondTransaction'
  <2> SUFFICES ASSUME data_misaligned_ex'
               PROVE  ex'.mis /\ ex'.alu_rd = None /\ wb'.rd \in {None, ex'.lsu_rd}
    BY DEF SecondTransaction
  <2>1. data_misaligned_ex' = IF data_misaligned THEN ex_ready(i)
                              ELSE data_misaligned_ex /\ ~ex_ready(i)
    BY DEF Cycle, IdEx
  <2>2. CASE data_misaligned
    <3>1. ex_ready(i) /\ data_req_ex /\ ex.mis
      BY <2>1, <2>2 DEF data_misaligned, data_req_ex, ExShape
    <3>2. ex' = [ex EXCEPT !.alu_rd = None]
      BY <2>2, <3>1, ExStep, Issue
    <3>3. wb'.rd = ex.lsu_rd
      BY <3>1, AccessOnce, WbStep
    <3> QED BY <1>2, <3>1, <3>2, <3>3 DEF InsnOf
  <2>3. CASE ~data_misaligned
    <3>1. data_misaligned_ex /\ ~ex_ready(i)
      BY <2>1, <2>3
    <3>2. ex.mis /\ ex.alu_rd = None /\ wb.rd \in {None, ex.lsu_rd} /\ data_req_ex
      BY <3>1 DEF SecondTransaction, data_req_ex, ExShape
    <3>3. ex' = ex
      BY <3>1, <3>2, ExStep DEF data_req_ex
    <3>4. wb'.rd \in {None, wb.rd}
      BY <3>1, <3>2, AccessOnce, WbStep
    <3> QED BY <3>2, <3>3, <3>4
  <2> QED BY <2>2, <2>3
<1>6. LoadRegister'
  <2>1. regfile_waddr_ex' = IF issues(i) /\ id.insn.lsu_rd # None THEN id.insn.lsu_rd
                            ELSE regfile_waddr_ex
    BY DEF Cycle, IdEx
  <2>2. ASSUME ~issues(i)
        PROVE  ex'.lsu_rd \in {None, ex.lsu_rd}
    BY <1>2, <2>2, ExStep DEF Bubble, InsnOf
  <2>3. ASSUME wb'.rd # None
        PROVE  \/ ex_valid(i) /\ wb'.rd = ex.lsu_rd
               \/ ~ex_valid(i) /\ ~wb_ready(i) /\ wb'.rd = wb.rd
    BY <2>3, WbStep
  <2>4. ASSUME ~wb_ready(i), ex.lsu_rd # None
        PROVE  ex'.lsu_rd = ex.lsu_rd /\ ~issues(i)
    <3>1. ex.op = "load" /\ ~ex_ready(i)
      BY <2>4 DEF ExShape, ex_ready
    <3> QED BY <3>1, ExStep, Issue
  <2> QED BY <2>1, <2>2, <2>3, <2>4, ExStep DEF LoadRegister
<1>7. CsrAlone'
  <2> SUFFICES ASSUME ex'.op = "csr"
               PROVE  ~started(i) /\ addr_inflight = None
    BY InflightStep DEF CsrAlone, kept
  <2>1. CASE issues(i)
    <3>1. id.insn.op = "csr" /\ ~csr_apu_stall
      BY <2>1, ExStep, Issue
    <3> QED BY <3>1, Dispatch, Exclusive DEF csr_apu_stall, req
  <2>2. CASE ~issues(i)
    <3>1. ex.op = "csr"
      BY <1>2, <2>2, ExStep DEF Bubble, InsnOf, data_misaligned, ExShape
    <3> QED BY <3>1, Exclusive DEF CsrAlone
  <2> QED BY <2>1, <2>2
<1> QED BY <1>3, <1>4, <1>5, <1>6, <1>7, TypeStep, OutstandingStep

-----------------------------------------------------------------------------
(* A cycle keeps track of the newest values.                               *)

\* An operation that leaves EX for the FPU is under way, or its result is on the
\* ALU port.
LEMMA LeavingApu ==
  ASSUME Structure, NEW i \in Input, ex.op = "apu", ex_ready(i)
  PROVE  \/ started(i)
         \/ /\ addr_inflight = None /\ apu_on_alu_port(i)
            /\ apu_waddr(i) = ex.alu_rd /\ apu_result = Requested
BY ReadyUnits, Delivery DEF started

\* A load or store that leaves EX is in WB.
LEMMA LeavingLoad ==
  ASSUME Structure, NEW i \in Input, Cycle(i), ex.lsu_rd # None
  PROVE  IF ex_ready(i) THEN wb'.rd = ex.lsu_rd ELSE ex' = ex
<1>1. ex.op = "load" /\ data_req_ex
  BY DEF Structure, ExShape, data_req_ex
<1> QED BY <1>1, AccessOnce, WbStep, ExStep

LEMMA LoadCurrentStep ==
  ASSUME IInv, NEW i \in Input, Cycle(i)
  PROVE  LoadCurrent'
<1> USE DEF IInv, Currency
<1> SUFFICES ASSUME wb'.rd \in Reg, ~wb'.cur
             PROVE  ex'.lsu_rd = wb'.rd \/ (ex'.op = "apu" /\ ex'.alu_rd = wb'.rd)
  BY DEF LoadCurrent, Supersedes
<1> DEFINE r == wb'.rd
<1>1. r # None
  BY RegAssumption
<1>2. ASSUME r \in Renewed(i)
      PROVE  /\ issues(i) /\ ex' = id.insn
             /\ \/ id.insn.lsu_rd = r \/ (id.insn.op = "apu" /\ id.insn.alu_rd = r)
                \/ regfile_alu_we(id.insn) /\ id.insn.alu_rd = r
  BY <1>1, <1>2, ExStep DEF Renewed, dests, regfile_alu_we
<1>3. CASE ex_valid(i)
  <2>1. r = ex.lsu_rd /\ r \in Renewed(i)
    BY <1>1, <1>3, WbStep
  <2>2. data_req_ex /\ regfile_waddr_ex = r
    BY <1>1, <2>1 DEF Structure, ExShape, data_req_ex, LoadRegister
  <2>3. ~(regfile_alu_we(id.insn) /\ id.insn.alu_rd = r)
    BY <1>1, <1>2, <2>1, <2>2, Issue DEF load_stall
  <2> QED BY <1>2, <2>1, <2>3
<1>4. CASE ~ex_valid(i)
  <2>1. /\ ~wb_ready(i) /\ wb.rd = r
        /\ ~wb.cur \/ r \in Renewed(i)
    BY <1>1, <1>4, WbStep
  <2>2. CASE r \in Renewed(i)
    <3>1. ex.op = "branch"
      BY <1>2, <2>1, <2>2, Issue DEF ex_ready
    <3>2. regfile_waddr_ex = r
      BY <1>1, <2>1, <3>1 DEF Structure, ExShape, LoadRegister
    <3>3. regfile_wb(i).rd # None
      BY <1>1, <2>1 DEF regfile_wb
    <3>4. ~(regfile_alu_we(id.insn) /\ id.insn.alu_rd = r)
      BY <1>2, <2>1, <2>2, <3>2, <3>3, Issue DEF load_stall
    <3> QED BY <1>2, <2>2, <3>4
  <2>3. CASE r \notin Renewed(i)
    <3>1. ex.lsu_rd = r \/ (ex.op = "apu" /\ ex.alu_rd = r)
      BY <2>1, <2>3 DEF LoadCurrent, Supersedes
    <3>2. ex.op \in {"load", "apu"} /\ ~ex_ready(i)
      BY <1>1, <2>1, <3>1 DEF Structure, ExShape, ex_ready
    <3>3. ex' = ex
      BY <3>2, ExStep
    <3> QED BY <3>1, <3>3
  <2> QED BY <2>2, <2>3
<1> QED BY <1>3, <1>4

LEMMA ApuCurrentStep ==
  ASSUME IInv, NEW i \in Input, Cycle(i)
  PROVE  ApuCurrent'
<1> USE DEF IInv, Currency
<1> SUFFICES ASSUME addr_inflight' \in Reg, ~apu_result.cur'
             PROVE  ex'.op = "apu" /\ ex'.alu_rd = addr_inflight'
  BY DEF ApuCurrent
<1> DEFINE r == addr_inflight'
<1>1. /\ r # None
      /\ (~started(i) /\ ~apu_result.cur) \/ r \in Renewed(i)
      /\ IF started(i) THEN r = ex.alu_rd ELSE kept(i) /\ r = addr_inflight
  BY RegAssumption, OutstandingStep, InflightStep
<1>2. CASE r \in Renewed(i)
  <2>1. issues(i) /\ ex' = id.insn /\ r \in dests(id.insn)
    BY <1>2, ExStep DEF Renewed
  <2>2. dep(req, apu_valid(i), dests(id.insn))
    <3>1. CASE started(i)
      <4>1. valid_req(req) /\ ~returned_req(req, apu_valid(i)) /\ req.waddr = r
        BY <1>1, <3>1, Delivery, Dispatch DEF started, accepted, returned_req, req
      <4> QED BY <2>1, <4>1 DEF dep
    <3>2. CASE ~started(i)
      BY <1>1, <2>1, <3>2 DEF dep, kept, returned_inflight
    <3> QED BY <3>1, <3>2
  <2>3. id.insn.op = "apu"
    BY <2>1, <2>2, Issue DEF apu_dep_stall
  <2> QED BY <2>1, <2>3, Issue, InsnShape DEF dests
<1>3. CASE r \notin Renewed(i)
  <2>1. kept(i) /\ r = addr_inflight /\ ex.op = "apu" /\ ex.alu_rd = r
    BY <1>1, <1>3 DEF ApuCurrent
  <2>2. ~ex_ready(i)
    BY <2>1, Exclusive DEF ex_ready
  <2> QED BY <2>1, <2>2, ExStep
<1> QED BY <1>2, <1>3

LEMMA ApuRepeatsStep ==
  ASSUME IInv, NEW i \in Input, Cycle(i)
  PROVE  ApuRepeats'
<1> USE DEF IInv
<1> SUFFICES ASSUME addr_inflight' # None, apu_lat' = 2, wb'.rd # None
             PROVE  ex'.op = "apu" /\ ex'.alu_rd = addr_inflight'
  BY DEF ApuRepeats
<1>1. started(i) /\ ex.op = "apu" /\ addr_inflight' = ex.alu_rd
  BY InflightStep, Exclusive
<1>2. ~wb_ready(i)
  BY <1>1, WbStep DEF Structure, ExShape
<1>3. ~ex_ready(i)
  BY <1>1, <1>2 DEF ex_ready
<1> QED BY <1>1, <1>3, ExStep

\* What the ALU port carries for r is the newest value, or EX is to write r later.
LEMMA AluPort ==
  ASSUME IInv, NEW i \in Input, NEW r \in Reg, regfile_alu_fw(i).rd = r
  PROVE  \/ IsValueOf(r, regfile_alu_fw(i).value)
         \/ ex.op = "apu" /\ ex.alu_rd = r /\ ~ex_ready(i)
         \/ regfile_alu_we(ex) /\ ex.alu_rd = r /\ ~ex_ready(i) /\ ex.op # "csr"
<1> USE DEF IInv, Currency
<1>1. r # None
  BY RegAssumption
<1>2. CASE apu_on_alu_port(i)
  <2>1. /\ apu_waddr(i) = r /\ apu_valid(i)
        /\ regfile_alu_fw(i).value = apu_result
    BY <1>2 DEF regfile_alu_fw, apu_on_alu_port
  <2>2. CASE addr_inflight = None
    <3>1. apu_result = [rd |-> r, cur |-> TRUE]
      BY <2>1, <2>2, Delivery DEF Requested
    <3> QED BY <2>1, <3>1 DEF IsValueOf
  <2>3. CASE addr_inflight # None
    <3>1. addr_inflight = r /\ apu_result.rd = r /\ apu_lat = 3
      BY <1>2, <2>1, <2>3, Delivery
    <3>2. ex.op = "apu" => ~ex_ready(i)
      BY <3>1, <2>3, ReadyUnits, Dispatch
    <3>3. apu_result.cur \/ (ex.op = "apu" /\ ex.alu_rd = r)
      BY <3>1 DEF ApuCurrent
    <3> QED BY <2>1, <3>1, <3>2, <3>3 DEF IsValueOf
  <2> QED BY <2>2, <2>3
<1>3. CASE ~apu_on_alu_port(i)
  <2>1. /\ regfile_alu_we(ex) /\ ex.alu_rd = r
        /\ regfile_alu_fw(i).value = [rd |-> r, cur |-> alu_ready /\ mult_ready]
    BY <1>1, <1>3 DEF regfile_alu_fw, NoWrite, AluValue
  <2>2. ex_ready(i) \/ ex.op = "csr" => alu_ready /\ mult_ready
    BY <1>1, <2>1, ReadyUnits
       DEF Structure, ExShape, UnitsOfEx, alu_ready, mult_ready
  <2>3. CASE alu_ready /\ mult_ready
    <3>1. regfile_alu_fw(i).value = [rd |-> r, cur |-> TRUE]
      BY <2>1, <2>3 DEF alu_ready, mult_ready
    <3> QED BY <3>1 DEF IsValueOf
  <2> QED BY <2>1, <2>2, <2>3
<1> QED BY <1>2, <1>3

\* Where the value of r is that nothing but EX may still write: in the register file
\* unless a port carries it.
LEMMA OnItsWay ==
  ASSUME IInv, NEW i \in Input, NEW r \in Reg,
         ~(started(i) /\ ex.alu_rd = r), ~(kept(i) /\ addr_inflight = r), ex.lsu_rd # r,
         r \in dests(ex) => ex_ready(i) \/ ex.op = "csr",
         regfile_alu_fw(i).rd # r, regfile_wb(i).rd # r
  PROVE  rf[r]
<1> USE DEF IInv, Currency
<1>1. r # None
  BY RegAssumption
<1>2. wb.rd # r
  BY <1>1 DEF regfile_wb
<1>3. r \notin dests(ex)
  <2> SUFFICES ASSUME ex.alu_rd = r PROVE FALSE
    BY DEF dests
  <2>1. ex_ready(i) \/ ex.op = "csr"
    BY <1>1 DEF dests
  <2>2. CASE ex.op = "apu"
    BY <2>1, <2>2, LeavingApu DEF regfile_alu_fw
  <2>3. CASE ex.op # "apu"
    <3>1. regfile_alu_we(ex)
      BY <1>1, <2>3 DEF regfile_alu_we
    <3>2. apu_on_alu_port(i) /\ wb_contention(i)
      BY <3>1 DEF regfile_alu_fw, wb_contention
    <3>3. ex.op = "csr"
      BY <1>1, <2>1, <3>2, ReadyUnits DEF Structure, ExShape
    <3>4. addr_inflight = None
      BY <3>3 DEF Structure, CsrAlone
    <3> QED BY <2>3, <3>2, <3>4, Delivery, Dispatch DEF apu_on_alu_port
  <2> QED BY <2>2, <2>3
<1>4. addr_inflight # r
  <2> SUFFICES ASSUME addr_inflight = r PROVE FALSE
    OBVIOUS
  <2>1. apu_valid(i) /\ apu_waddr(i) = r
    BY <1>1, Delivery DEF kept
  <2>2. ~apu_on_alu_port(i)
    BY <2>1 DEF regfile_alu_fw
  <2>3. wb.rd # None
    BY <2>1, <2>2 DEF regfile_wb
  <2>4. apu_lat = 2
    BY <1>1, <2>1, <2>2, Delivery DEF Structure, OneOutstanding
  <2>5. ex.op = "apu" /\ ex.alu_rd = r
    BY <1>1, <2>3, <2>4 DEF ApuRepeats
  <2> QED BY <1>1, <1>3, <2>5 DEF dests
<1> QED BY <1>2, <1>3, <1>4 DEF RfCurrent, Pending

\* The same of the port of WB, if the ALU port does not carry r.
LEMMA WbPort ==
  ASSUME IInv, NEW i \in Input, NEW r \in Reg,
         regfile_wb(i).rd = r, regfile_alu_fw(i).rd # r,
         wb.rd = r => wb_ready(i),
         ex.lsu_rd # r, ~(started(i) /\ ex.alu_rd = r),
         ex.op = "apu" /\ ex.alu_rd = r => ex_ready(i)
  PROVE  IsValueOf(r, regfile_wb(i).value) /\ regfile_wb_power(i)
<1> USE DEF IInv, Currency
<1>1. r # None
  BY RegAssumption
<1>2. ~(ex.op = "apu" /\ ex.alu_rd = r)
  BY LeavingApu DEF regfile_alu_fw
<1>3. CASE wb.rd # None
  <2>1. wb.rd = r /\ regfile_wb(i).value = LoadValue(i)
    BY <1>1, <1>3 DEF regfile_wb
  <2>2. wb_ready(i) /\ ~data_misaligned_ex /\ wb.cur
    BY <1>1, <1>2, <2>1 DEF Structure, SecondTransaction, LoadCurrent, Supersedes
  <2>3. wb \in [rd : Dest, cur : BOOLEAN]
    BY DEF Structure, TypeOK, Value
  <2>4. wb_ready(i) \in BOOLEAN /\ data_misaligned_ex \in BOOLEAN
    BY InputType DEF wb_ready, Structure, TypeOK
  <2>5. LoadValue(i).rd = r /\ LoadValue(i).cur
    BY <2>1, <2>2, <2>3, <2>4 DEF LoadValue
  <2> QED BY <2>1, <2>2, <2>5 DEF IsValueOf, regfile_wb_power
<1>4. CASE wb.rd = None
  <2>1. /\ apu_valid(i) /\ ~apu_on_alu_port(i) /\ apu_waddr(i) = r
        /\ regfile_wb(i).value = apu_result
    BY <1>1, <1>4 DEF regfile_wb, NoWrite
  <2>2. addr_inflight = r /\ apu_result.rd = r
    BY <2>1, Delivery DEF Structure
  <2>3. apu_result.cur
    BY <1>2, <2>2 DEF ApuCurrent
  <2> QED BY <1>4, <2>1, <2>2, <2>3 DEF IsValueOf, regfile_wb_power
<1> QED BY <1>3, <1>4

LEMMA RfCurrentStep ==
  ASSUME IInv, NEW i \in Input, Cycle(i)
  PROVE  RfCurrent'
<1> USE DEF IInv
<1> SUFFICES ASSUME NEW r \in Reg, ~(Pending(r)')
             PROVE  rf'[r]
  BY DEF RfCurrent
<1>1. r \notin dests(ex') /\ wb'.rd # r /\ addr_inflight' # r /\ r # None
  BY RegAssumption DEF Pending, dests
<1>2. r \notin Renewed(i)
  BY <1>1, ExStep DEF Renewed
<1>3. rf'[r] <=> IF regfile_alu_fw(i).rd = r /\ regfile_alu_we_power(i)
                   THEN IsValueOf(r, regfile_alu_fw(i).value)
                 ELSE IF regfile_wb(i).rd = r /\ regfile_wb_power(i)
                   THEN IsValueOf(r, regfile_wb(i).value)
                 ELSE rf[r]
  BY <1>2 DEF Cycle, RegisterFile
<1>4. /\ ~(started(i) /\ ex.alu_rd = r) /\ ~(kept(i) /\ addr_inflight = r)
      /\ ex.lsu_rd # r
      /\ r \in dests(ex) => ex_ready(i) \/ ex.op = "csr"
  BY <1>1, InflightStep, Exclusive, LeavingLoad, ExStep DEF dests
<1>5. CASE regfile_alu_fw(i).rd = r
  <2>1. IsValueOf(r, regfile_alu_fw(i).value)
    BY <1>1, <1>4, <1>5, AluPort DEF dests
  <2>2. regfile_alu_we_power(i)
    <3> SUFFICES ASSUME ~apu_on_alu_port(i) PROVE mult_ready /\ alu_ready /\ lsu_ready_ex(i)
      BY DEF regfile_alu_we_power
    <3>1. regfile_alu_we(ex) /\ ex.alu_rd = r
      BY <1>1, <1>5 DEF regfile_alu_fw, NoWrite
    <3>2. ex_ready(i) \/ ex.op = "csr"
      BY <1>1, <1>4, <3>1 DEF dests
    <3> QED BY <1>1, <3>1, <3>2, ReadyUnits
            DEF Structure, ExShape, UnitsOfEx, alu_ready, mult_ready, lsu_ready_ex, data_req_ex
  <2> QED BY <1>3, <1>5, <2>1, <2>2
<1>6. CASE regfile_alu_fw(i).rd # r /\ regfile_wb(i).rd = r
  <2>1. wb.rd = r => wb_ready(i)
    BY <1>1, WbStep DEF ex_valid
  <2>2. ex.op = "apu" /\ ex.alu_rd = r => ex_ready(i)
    BY <1>1, <1>4 DEF dests
  <2> QED BY <1>3, <1>4, <1>6, <2>1, <2>2, WbPort
<1>7. CASE regfile_alu_fw(i).rd # r /\ regfile_wb(i).rd # r
  <2>1. rf[r]
    BY <1>4, <1>7, OnItsWay
  <2> QED BY <1>3, <1>7, <2>1
<1> QED BY <1>5, <1>6, <1>7

-----------------------------------------------------------------------------
(* The theorems.                                                           *)

\* Where every register's newest value is, which results are under way and what the
\* stage is doing never come apart, for every set of registers and instructions and
\* whatever memory, FPU, divider and the controller's flushes do.
THEOREM InductiveInvariant == Spec => []IInv
<1>1. Init => IInv
  <2> SUFFICES ASSUME Init PROVE IInv
    OBVIOUS
  <2>1. TypeOK
    <3>1. Bubble \in InsnOf /\ NoValue \in Value
      BY DEF Bubble, InsnOf, Dest, NoValue, Value
    <3>2. fpu \in Seq([rd : Dest, cur : BOOLEAN, lat : Lat])
      BY DEF Init
    <3>3. rf \in [Reg -> BOOLEAN]
      BY DEF Init
    <3>4. id \in [insn : Insn \cup {Bubble}, valid : BOOLEAN] /\ ~id.valid
      BY DEF Init
    <3>5. wb \in Value /\ apu_result_q \in Value /\ ex \in InsnOf
      BY <3>1 DEF Init
    <3>6. addr_inflight \in Dest /\ addr_waiting \in Dest /\ apu_lat \in 0 .. 3
      BY DEF Init, ApuInit, Dest
    <3>7. /\ jump_done_q \in BOOLEAN /\ data_misaligned_ex \in BOOLEAN
          /\ apu_rvalid_q \in BOOLEAN
      BY Zenon DEF Init
    <3>8. /\ mulh_CS \in {"IDLE_MULT", "STEP0", "STEP1", "STEP2", "FINISH"}
          /\ div_CS \in {"IDLE", "DIVIDE", "FINISH"}
      BY DEF Init
    <3>9. cnt_q \in 0 .. 2 /\ regfile_waddr_ex \in Reg \cup {x0}
      BY DEF Init
    <3> QED BY <3>2, <3>3, <3>4, <3>5, <3>6, <3>7, <3>8, <3>9, Zenon DEF TypeOK
  <2>2. ExShape /\ UnitsOfEx /\ SecondTransaction /\ LoadRegister /\ OneOutstanding /\ CsrAlone
    BY DEF Init, ApuInit, ExShape, UnitsOfEx, SecondTransaction, LoadRegister,
           OneOutstanding, CsrAlone, Bubble, NoValue
  <2>3. RfCurrent /\ LoadCurrent /\ ApuCurrent /\ ApuRepeats
    BY RegAssumption DEF Init, ApuInit, RfCurrent, LoadCurrent, ApuCurrent, ApuRepeats, NoValue
  <2> QED BY <2>1, <2>2, <2>3 DEF IInv, Structure, Currency
<1>2. IInv /\ [Next]_vars => IInv'
  <2> SUFFICES ASSUME IInv, [Next]_vars PROVE IInv'
    OBVIOUS
  <2>1. CASE Next
    <3>1. PICK i \in Input : Cycle(i)
      BY <2>1 DEF Next
    <3>2. Structure'
      BY <3>1, StructureStep DEF IInv
    <3> QED BY <3>1, <3>2, RfCurrentStep, LoadCurrentStep, ApuCurrentStep, ApuRepeatsStep
            DEF IInv, Currency
  <2>2. CASE UNCHANGED vars
    BY <2>2 DEF vars, apuVars, IInv, Structure, Currency, TypeOK, ExShape, UnitsOfEx,
                SecondTransaction, LoadRegister, OneOutstanding, CsrAlone, RfCurrent, Pending,
                LoadCurrent, Supersedes, ApuCurrent, ApuRepeats, dests, apu_result, fpu_result,
                Requested
  <2> QED BY <2>1, <2>2
<1> QED BY <1>1, <1>2, PTL DEF Spec

\* The types; at most two data transactions are outstanding.
THEOREM TypeCorrect == Spec => []TypeOK
BY InductiveInvariant, PTL DEF IInv, Structure

\* An instruction leaves ID with the newest value of each of its registers, read from
\* the register file or forwarded from EX, WB or the FPU.
THEOREM OperandsNewest == Spec => []OperandsCurrent
<1>1. IInv => OperandsCurrent
  <2> SUFFICES ASSUME IInv, NEW i \in Input, issues(i), NEW r \in id.insn.rs
               PROVE  operand_fw_current(i, r)
    BY DEF OperandsCurrent
  <2> USE DEF IInv
  <2>1. r \in Reg /\ r # None
    BY RegAssumption, Issue, InsnShape DEF InsnOf
  <2>2. ex_ready(i) /\ ~load_stall(i) /\ ~apu_dep_stall(i) /\ is_decoding(i)
    BY Issue
  <2>3. ex.lsu_rd # r
    BY <2>1, <2>2 DEF load_stall, Structure, ExShape, LoadRegister, data_req_ex
  <2>4. ~dep(req, apu_valid(i), id.insn.rs)
    BY <2>2 DEF apu_dep_stall
  <2>5. ~(started(i) /\ ex.alu_rd = r)
    BY <2>4, Delivery, Dispatch DEF dep, started, accepted, returned_req, req
  <2>6. ~(kept(i) /\ addr_inflight = r)
    BY <2>4 DEF dep, kept, returned_inflight
  <2>7. CASE regfile_alu_fw(i).rd = r
    <3>1. IsValueOf(r, regfile_alu_fw(i).value)
      BY <2>1, <2>2, <2>7, AluPort
    <3> QED BY <2>7, <3>1 DEF operand_fw_current
  <2>8. CASE regfile_alu_fw(i).rd # r /\ regfile_wb(i).rd = r
    <3>1. ASSUME wb.rd = r
          PROVE  wb_ready(i)
      <4> SUFFICES ASSUME ~wb_ready(i) PROVE FALSE
        OBVIOUS
      <4>1. ex.op = "branch"
        BY <2>2 DEF ex_ready
      <4>2. regfile_waddr_ex = r
        BY <2>1, <3>1, <4>1 DEF Structure, ExShape, LoadRegister
      <4> QED BY <2>1, <2>2, <2>8, <4>2 DEF load_stall
    <3>2. IsValueOf(r, regfile_wb(i).value)
      BY <2>1, <2>2, <2>3, <2>5, <2>8, <3>1, WbPort
    <3> QED BY <2>8, <3>2 DEF operand_fw_current
  <2>9. CASE regfile_alu_fw(i).rd # r /\ regfile_wb(i).rd # r
    <3>1. rf[r]
      BY <2>1, <2>2, <2>3, <2>5, <2>6, <2>9, OnItsWay
    <3> QED BY <2>9, <3>1 DEF operand_fw_current
  <2> QED BY <2>7, <2>8, <2>9
<1> QED BY <1>1, InductiveInvariant, PTL

\* A jalr jumps to the newest value of its register, which it reads without
\* forwarding.
THEOREM JumpTargetNewest == Spec => []JumpTargetCurrent
<1>1. IInv => JumpTargetCurrent
  <2> SUFFICES ASSUME IInv, NEW i \in Input, jumps(i), NEW r \in id.insn.rs
               PROVE  rf[r]
    BY DEF JumpTargetCurrent
  <2> USE DEF IInv, Currency
  <2>1. /\ is_decoding(i) /\ id.insn.op = "jalr" /\ ~jr_stall(i) /\ id.insn \in Insn
    BY DEF jumps, is_decoding, Structure, TypeOK
  <2>2. r \in Reg /\ r # None
    BY <2>1, RegAssumption, InsnShape DEF InsnOf
  <2>3. ~(ex.op = "apu" /\ ex.alu_rd = r) /\ addr_inflight # r /\ ~read_dep_for_jalr(i)
    BY <2>1 DEF jr_stall, read_dep_for_jalr, dep_for_jalr, req
  <2>4. wb.rd # r
    BY <2>1, <2>2 DEF jr_stall, regfile_wb
  <2>5. ex.lsu_rd # r
    BY <2>1, <2>2 DEF jr_stall, Structure, LoadRegister
  <2>6. ex.alu_rd # r
    <3> SUFFICES ASSUME ex.alu_rd = r PROVE FALSE
      OBVIOUS
    <3>1. regfile_alu_we(ex) /\ ex.op # "apu"
      BY <2>2, <2>3 DEF regfile_alu_we
    <3>2. write_port_needed(i)
      BY <2>1, <2>3, <3>1 DEF write_port_needed
    <3>3. ~apu_on_alu_port(i)
      BY <3>1, <3>2, Delivery, Dispatch DEF apu_on_alu_port, apu_valid, apu_multicycle
    <3>4. regfile_alu_fw(i).rd = r
      BY <3>1, <3>3 DEF regfile_alu_fw
    <3> QED BY <2>1, <3>4 DEF jr_stall
  <2> QED BY <2>2, <2>3, <2>4, <2>5, <2>6 DEF RfCurrent, Pending, dests
<1> QED BY <1>1, InductiveInvariant, PTL

\* A load or store enters WB exactly when it leaves EX.
THEOREM AccessesLeaveOnce == Spec => []AccessLeavesOnce
<1>1. IInv => AccessLeavesOnce
  BY AccessOnce DEF IInv, AccessLeavesOnce
<1> QED BY <1>1, InductiveInvariant, PTL

\* No result of the FPU is taken for an intermediate result of EX.
THEOREM OwnFeedback == Spec => []FeedbackIsOwn
<1>1. IInv => FeedbackIsOwn
  BY Feedback DEF IInv, FeedbackIsOwn
<1> QED BY <1>1, InductiveInvariant, PTL
=============================================================================
