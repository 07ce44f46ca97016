--------------------------- MODULE LoadStoreProofs ---------------------------
(***************************************************************************)
(* The invariants of LoadStore, for every memory, every program of loads   *)
(* and stores and both settings of PULP_OBI; and that, seen from the       *)
(* program, its memory is an AtomicMemory.                                 *)
(***************************************************************************)
EXTENDS LoadStore, SequenceTheorems, TLAPS

\* The inputs of a clock cycle.
Input ==
  [ready : BOOLEAN, units_ready : BOOLEAN, gnt : BOOLEAN, resp_valid : BOOLEAN,
   issue : Access \cup {NoAccess}]

Inv == TypeOK /\ PipelineCounted /\ RequestStable

-----------------------------------------------------------------------------
\* The address adder wraps inside the memory.
LEMMA AddressInMemory ==
  ASSUME NEW acc \in AccessOf(Nat)
  PROVE  Address(acc) \in ByteAddr
<1>1. acc.base \in Nat /\ acc.incr \in Nat
  BY DEF AccessOf
<1> DEFINE a == IF acc.useincr THEN acc.base + acc.incr ELSE acc.base
<1> DEFINE n == 4 * WORDS
<1>2. a \in Nat
  BY <1>1
<1>3. n \in Nat /\ n > 0
  BY LoadStoreAssumption
<1>4. Address(acc) = a % n
  BY DEF Address
<1> HIDE DEF a, n
<1>5. a % n \in 0 .. n - 1
  BY <1>2, <1>3
<1> QED BY <1>4, <1>5 DEF ByteAddr, n

\* Every step of the specification is a clock cycle with some input, in which
\* the other units are ready exactly when EX may advance.
LEMMA NextIsCycle ==
  ASSUME Next
  PROVE  \E i \in Input : Cycle(i) /\ i.units_ready = i.ready
<1>1. PICK ready \in BOOLEAN, gnt \in BOOLEAN, resp \in BOOLEAN :
        \/ \E acc \in Access : IssueAccess(acc, ready, gnt, resp)
        \/ NoIssue(ready, gnt, resp)
  BY DEF Next
<1>2. \A acc \in Access \cup {NoAccess} :
        /\ In(ready, gnt, resp, acc) \in Input
        /\ In(ready, gnt, resp, acc).units_ready = In(ready, gnt, resp, acc).ready
  BY DEF In, Input
<1>3. CASE \E acc \in Access : IssueAccess(acc, ready, gnt, resp)
  BY <1>2, <1>3 DEF IssueAccess
<1>4. CASE NoIssue(ready, gnt, resp)
  BY <1>2, <1>4 DEF NoIssue
<1> QED BY <1>1, <1>3, <1>4

\* The data the load port sees is a word.
LEMMA ReadDataType ==
  ASSUME TypeOK
  PROVE  resp_rdata \in Word /\ \A r \in Word : data_rdata_ext(r) \in Word
<1>1. resp_rdata \in Word
  <2>1. CASE granted = <<>>
    BY <2>1 DEF resp_rdata, NoWord, Word, Lane, Byte
  <2>2. CASE granted # <<>>
    BY <2>2, HeadTailProperties DEF TypeOK, resp_rdata
  <2> QED BY <2>1, <2>2
<1>2. ASSUME NEW r \in Word PROVE data_rdata_ext(r) \in Word
  <2>1. \A k \in 0 .. 3 : r[k] \in 0 .. 255 /\ rdata_q[k] \in 0 .. 255
    BY DEF TypeOK, Word, Lane, Byte
  <2>2. ctrl_q.offset \in 0 .. 3
    BY DEF TypeOK, Lane
  <2>3. \A s, top : Fill(s, top) \in 0 .. 255
    BY DEF Fill
  <2> DEFINE o == ctrl_q.offset
  <2> DEFINE upper == IF o = 3 THEN r[0] ELSE r[o + 1]
  <2> DEFINE lower == IF o = 3 THEN rdata_q[3] ELSE r[o]
  <2>4. upper \in 0 .. 255 /\ lower \in 0 .. 255 /\ r[o] \in 0 .. 255
    BY <2>1, <2>2
  <2>5. CASE ctrl_q.type = "word"
    <3>1. data_rdata_ext(r) =
            [k \in Lane |-> IF o = 0 THEN r[k]
                            ELSE IF k + o < 4 THEN rdata_q[k + o] ELSE r[k + o - 4]]
      BY <2>5 DEF data_rdata_ext
    <3>2. \A k \in 0 .. 3 : (IF o = 0 THEN r[k]
                             ELSE IF k + o < 4 THEN rdata_q[k + o] ELSE r[k + o - 4])
                              \in 0 .. 255
      BY <2>1, <2>2
    <3> QED BY <3>1, <3>2 DEF Word, Lane, Byte
  <2>6. CASE ctrl_q.type = "half"
    <3>1. data_rdata_ext(r) =
            [k \in Lane |-> IF k = 0 THEN lower ELSE IF k = 1 THEN upper
                            ELSE Fill(ctrl_q.sign, upper)]
      BY <2>6 DEF data_rdata_ext
    <3> HIDE DEF upper, lower
    <3> QED BY <2>3, <2>4, <3>1 DEF Word, Lane, Byte
  <2>7. CASE ctrl_q.type \notin {"word", "half"}
    <3>1. data_rdata_ext(r) =
            [k \in Lane |-> IF k = 0 THEN r[o] ELSE Fill(ctrl_q.sign, r[o])]
      BY <2>7 DEF data_rdata_ext
    <3> QED BY <2>3, <2>4, <3>1 DEF Word, Lane, Byte
  <2> QED BY <2>5, <2>6, <2>7
<1> QED BY <1>1, <1>2

-----------------------------------------------------------------------------
\* One clock cycle keeps the types.
LEMMA TypeStep ==
  ASSUME Inv, NEW i \in Input, Cycle(i)
  PROVE  TypeOK'
<1> USE DEF Input
<1>1. LsuCycle(i) /\ TypeOK
  BY DEF Cycle, Inv
<1>2. data_req_ex => ex \in AccessOf(Nat) /\ data_addr_int \in ByteAddr /\ offset \in Lane
  <2> SUFFICES ASSUME data_req_ex
               PROVE  ex \in AccessOf(Nat) /\ data_addr_int \in ByteAddr /\ offset \in Lane
    OBVIOUS
  <2>1. ex \in AccessOf(Nat)
    BY <1>1 DEF data_req_ex, TypeOK
  <2>2. data_addr_int \in ByteAddr
    BY <2>1, AddressInMemory DEF data_addr_int
  <2>3. WORDS \in Nat
    BY LoadStoreAssumption
  <2> QED BY <2>1, <2>2, <2>3 DEF offset, Lane, ByteAddr
<1>3. ex' \in AccessOf(Nat) \cup {NoAccess} /\ data_misaligned_ex' \in BOOLEAN
  <2>1. Access \subseteq AccessOf(Nat)
    BY LoadStoreAssumption DEF AccessOf, ByteAddr
  <2>2. CASE data_misaligned_o /\ ex_ready(i)
    <3>1. data_req_ex
      BY <2>2 DEF data_misaligned_o
    <3>2. data_addr_int \in Nat /\ ex.base \in Nat
      BY <1>2, <3>1, LoadStoreAssumption DEF ByteAddr, AccessOf
    <3>3. SecondTransaction \in AccessOf(Nat)
      BY <1>2, <3>1, <3>2 DEF SecondTransaction, AccessOf
    <3> QED BY <1>1, <2>2, <3>3 DEF LsuCycle, IdEx
  <2>3. CASE ~data_misaligned_o /\ ex_ready(i)
    BY <1>1, <2>1, <2>3 DEF LsuCycle, IdEx
  <2>4. CASE ~ex_ready(i)
    BY <1>1, <2>4 DEF LsuCycle, IdEx, TypeOK
  <2> QED BY <2>2, <2>3, <2>4
<1>4. cnt_q' \in 0 .. DEPTH
  BY <1>1 DEF Cycle, Inv, LsuCycle, TypeOK, PipelineCounted, count_up, trans_valid, DEPTH
<1>5. ctrl_q' \in [type : {"word", "half", "byte"}, offset : Lane,
                   sign : {"zero", "ones", "sign"}, we : BOOLEAN]
  <2>1. CASE ctrl_update(i)
    <3>1. data_req_ex
      BY <2>1 DEF ctrl_update
    <3> QED BY <1>1, <1>2, <2>1, <3>1 DEF LsuCycle, AccessOf
  <2>2. CASE ~ctrl_update(i)
    BY <1>1, <2>2 DEF LsuCycle, TypeOK
  <2> QED BY <2>1, <2>2
<1>6. rdata_q' \in Word
  BY <1>1, ReadDataType DEF LsuCycle, rdata_next, TypeOK
<1>7. regfile_we_lsu' \in BOOLEAN /\ regfile_waddr_lsu' \in Reg
  <2>1. CASE data_req_ex
    BY <1>1, <1>2, <2>1 DEF LsuCycle, ExWb, TypeOK, AccessOf
  <2>2. CASE ~data_req_ex
    BY <1>1, <2>2 DEF LsuCycle, ExWb, TypeOK
  <2> QED BY <2>1, <2>2
<1>8. mem' \in [ByteAddr -> Byte] /\ granted' \in Seq(Word)
  <2> DEFINE left == IF i.resp_valid THEN Tail(granted) ELSE granted
  <2>1. left \in Seq(Word)
    <3>1. i.resp_valid => granted # <<>>
      BY DEF Cycle
    <3> QED BY <1>1, <3>1, HeadTailProperties DEF TypeOK
  <2>2. CASE trans_valid(i) /\ i.gnt
    <3> DEFINE word == data_addr_int \div 4
    <3> DEFINE read == [k \in Lane |-> mem[4 * word + k]]
    <3>1. data_req_ex
      BY <2>2 DEF trans_valid
    <3>2. \A k \in Lane : 4 * word + k \in ByteAddr
      <4>1. WORDS \in Nat /\ data_addr_int \in 0 .. 4 * WORDS - 1
        BY <1>2, <3>1, LoadStoreAssumption DEF ByteAddr
      <4> QED BY <4>1 DEF ByteAddr, Lane
    <3>3. read \in Word
      BY <1>1, <3>2 DEF Word, TypeOK
    <3>4. NoWord \in Word
      BY DEF NoWord, Word, Lane, Byte
    <3>5. granted' = Append(left, IF ex.we THEN NoWord ELSE read)
      BY <1>1, <2>2 DEF LsuCycle, DataMemory
    <3> HIDE DEF left, read
    <3>6. granted' \in Seq(Word)
      BY <2>1, <3>3, <3>4, <3>5
    <3>7. ex.wdata \in Word
      BY <1>2, <3>1 DEF AccessOf
    <3>8. \A k \in Lane : data_wdata[k] \in Byte
      <4>1. offset \in 0 .. 3
        BY <1>2, <3>1 DEF Lane
      <4> QED BY <3>7, <4>1 DEF data_wdata, Word, Lane
    <3>9. \A a \in ByteAddr : a % 4 \in Lane
      BY LoadStoreAssumption DEF ByteAddr, Lane
    <3>10. \/ mem' = mem
           \/ mem' = [a \in ByteAddr |-> IF a \div 4 = word /\ a % 4 \in data_be
                                         THEN data_wdata[a % 4] ELSE mem[a]]
      BY <1>1, <2>2 DEF LsuCycle, DataMemory
    <3> HIDE DEF word
    <3> QED BY <1>1, <3>6, <3>8, <3>9, <3>10 DEF TypeOK
  <2>3. CASE ~(trans_valid(i) /\ i.gnt)
    BY <1>1, <2>1, <2>3 DEF LsuCycle, DataMemory, TypeOK
  <2> QED BY <2>2, <2>3
<1>9. out' \in [rd : Reg, value : Word, seq : {0, 1}]
  <2>1. CASE out' = [rd |-> regfile_waddr_lsu, value |-> data_rdata_ext(resp_rdata),
                     seq |-> 1 - out.seq]
    <3>1. data_rdata_ext(resp_rdata) \in Word
      BY <1>1, ReadDataType
    <3>2. 1 - out.seq \in {0, 1} /\ regfile_waddr_lsu \in Reg
      BY <1>1 DEF TypeOK
    <3> QED BY <2>1, <3>1, <3>2
  <2>2. CASE out' = out
    BY <1>1, <2>2 DEF TypeOK
  <2> QED BY <1>1, <2>1, <2>2 DEF LsuCycle, WriteBack
<1> QED BY <1>3, <1>4, <1>5, <1>6, <1>7, <1>8, <1>9 DEF TypeOK

\* One clock cycle keeps the count of the responses still owed, and the lock
\* step of EX and WB with it.
LEMMA CountedStep ==
  ASSUME Inv, NEW i \in Input, Cycle(i)
  PROVE  PipelineCounted'
<1> USE DEF Input
<1>1. LsuCycle(i) /\ TypeOK /\ PipelineCounted
  BY DEF Cycle, Inv
<1>2. cnt_q \in {0, 1, 2}
  BY <1>1 DEF TypeOK, DEPTH
<1>3. i.resp_valid => cnt_q > 0
  <2>1. i.resp_valid => granted # <<>>
    BY DEF Cycle
  <2>2. granted # <<>> => Len(granted) > 0
    BY <1>1, HeadTailProperties DEF TypeOK
  <2> QED BY <1>1, <2>1, <2>2 DEF PipelineCounted
<1>4. cnt_q' = IF count_up(i) <=> i.resp_valid THEN cnt_q
               ELSE IF count_up(i) THEN cnt_q + 1 ELSE cnt_q - 1
  BY <1>1 DEF LsuCycle
<1>5. cnt_q' = Len(granted')
  <2> DEFINE left == IF i.resp_valid THEN Tail(granted) ELSE granted
  <2>1. left \in Seq(Word) /\ Len(left) = IF i.resp_valid THEN cnt_q - 1 ELSE cnt_q
    <3>1. CASE i.resp_valid
      <4>1. granted # <<>>
        BY <3>1 DEF Cycle
      <4> QED BY <1>1, <3>1, <4>1, HeadTailProperties DEF TypeOK, PipelineCounted
    <3>2. CASE ~i.resp_valid
      BY <1>1, <3>2 DEF TypeOK, PipelineCounted
    <3> QED BY <3>1, <3>2
  <2>2. CASE count_up(i)
    <3>1. PICK w : granted' = Append(left, w)
      BY <1>1, <2>2 DEF LsuCycle, DataMemory, count_up
    <3> HIDE DEF left
    <3>2. Len(granted') = Len(left) + 1
      BY <2>1, <3>1
    <3> QED BY <1>2, <1>4, <2>1, <2>2, <3>2
  <2>3. CASE ~count_up(i)
    <3>1. granted' = left
      BY <1>1, <2>3 DEF LsuCycle, DataMemory, count_up
    <3> QED BY <1>2, <1>4, <2>1, <2>3, <3>1
  <2> QED BY <2>2, <2>3
<1>6. regfile_we_lsu' => cnt_q' > 0
  <2>1. CASE data_req_ex /\ lsu_ready_ex(i) /\ lsu_ready_wb(i)
    <3>1. cnt_q = 2 => ~count_up(i)
      BY DEF count_up, trans_valid, DEPTH
    <3>2. \/ cnt_q = 0 /\ count_up(i) /\ ~i.resp_valid
          \/ cnt_q = 1 /\ count_up(i) /\ i.resp_valid
          \/ cnt_q = 2 /\ ~count_up(i) /\ i.resp_valid
      BY <1>2, <1>3, <2>1, <3>1 DEF lsu_ready_ex, lsu_ready_wb, data_req_ex
    <3> QED BY <1>4, <3>2
  <2>2. CASE ~(data_req_ex /\ lsu_ready_ex(i) /\ lsu_ready_wb(i))
    <3>1. regfile_we_lsu' => ~lsu_ready_wb(i)
      BY <1>1, <2>2 DEF LsuCycle, ExWb
    <3> QED BY <1>2, <1>4, <3>1 DEF lsu_ready_wb
  <2> QED BY <2>1, <2>2
<1>7. cnt_q' = 2 => data_req_ex'
  <2> SUFFICES ASSUME cnt_q' = 2 PROVE data_req_ex'
    OBVIOUS
  <2>1. cnt_q = 2 => data_req_ex /\ ~lsu_ready_ex(i)
    <3> HAVE cnt_q = 2
    <3>1. ~count_up(i) /\ ~i.resp_valid /\ data_req_ex
      BY <1>1, <1>4 DEF PipelineCounted, count_up, trans_valid, DEPTH
    <3> QED BY <3>1 DEF lsu_ready_ex
  <2>2. cnt_q # 2 => data_req_ex /\ ~lsu_ready_ex(i)
    <3> HAVE cnt_q # 2
    <3>1. cnt_q = 1 /\ count_up(i) /\ ~i.resp_valid
      BY <1>2, <1>4
    <3> QED BY <3>1 DEF lsu_ready_ex, count_up, trans_valid
  <2>3. data_req_ex /\ ~lsu_ready_ex(i)
    BY <2>1, <2>2
  <2>4. ex' = ex
    BY <1>1, <2>3 DEF LsuCycle, IdEx, ex_ready
  <2> QED BY <2>3, <2>4 DEF data_req_ex
<1> QED BY <1>5, <1>6, <1>7 DEF PipelineCounted

\* A request that was not granted is on the bus again in the next cycle.
LEMMA StableStep ==
  ASSUME Inv, NEW i \in Input, Cycle(i)
  PROVE  RequestStable'
<1> USE DEF Input
<1> SUFFICES ASSUME ~PULP_OBI, waiting' # {}
             PROVE  data_req_ex' /\ cnt_q' < DEPTH /\ waiting' = {request'}
  BY DEF RequestStable
<1>1. LsuCycle(i) /\ TypeOK
  BY DEF Cycle, Inv
<1>2. trans_valid(i) /\ ~i.gnt /\ waiting' = {request}
  BY DEF Cycle
<1>3. cnt_q \in {0, 1} /\ data_req_ex /\ ~count_up(i)
  BY <1>1, <1>2 DEF trans_valid, count_up, TypeOK, DEPTH
<1>4. ~lsu_ready_ex(i)
  BY <1>3 DEF lsu_ready_ex
<1>5. ex' = ex /\ data_misaligned_ex' = data_misaligned_ex
  BY <1>1, <1>4 DEF LsuCycle, IdEx, ex_ready
<1>6. cnt_q' < DEPTH
  BY <1>1, <1>3 DEF LsuCycle, DEPTH
<1>7. request' = request
  BY <1>5 DEF request, data_be, data_wdata, offset, data_addr_int, Address, Size
<1> QED BY <1>2, <1>3, <1>5, <1>6, <1>7 DEF data_req_ex

-----------------------------------------------------------------------------
\* The invariant holds at reset.
LEMMA InitOK ==
  ASSUME Init
  PROVE  Inv
<1>1. NoWord \in Word
  BY DEF NoWord, Word, Lane, Byte
<1>2. TypeOK
  <2>1. granted \in Seq(Word) /\ mem \in [ByteAddr -> Byte]
    BY ResetMemoryAssumption DEF Init, LsuInit
  <2>2. ctrl_q \in [type : {"word", "half", "byte"}, offset : Lane,
                   sign : {"zero", "ones", "sign"}, we : BOOLEAN]
    BY DEF Init, LsuInit, Lane
  <2>3. out \in [rd : Reg, value : Word, seq : {0, 1}]
    BY <1>1 DEF Init, LsuInit
  <2>4. ex \in AccessOf(Nat) \cup {NoAccess} /\ data_misaligned_ex \in BOOLEAN
    BY DEF Init, LsuInit
  <2>5. cnt_q \in 0 .. DEPTH
    BY DEF Init, LsuInit, DEPTH
  <2>6. rdata_q \in Word /\ regfile_we_lsu \in BOOLEAN /\ regfile_waddr_lsu \in Reg
    BY <1>1 DEF Init, LsuInit
  <2> QED BY <2>1, <2>2, <2>3, <2>4, <2>5, <2>6 DEF TypeOK
<1>3. PipelineCounted
  BY DEF Init, LsuInit, PipelineCounted
<1>4. RequestStable
  BY DEF Init, RequestStable
<1> QED BY <1>2, <1>3, <1>4 DEF Inv

\* Every step, stuttering steps included, keeps the invariant.
LEMMA StepOK ==
  ASSUME Inv, [Next]_vars
  PROVE  Inv'
<1>1. CASE Next
  <2>1. PICK i \in Input : Cycle(i)
    BY <1>1, NextIsCycle
  <2> QED BY <2>1, TypeStep, CountedStep, StableStep DEF Inv
<1>2. CASE UNCHANGED vars
  <2>1. TypeOK'
    BY <1>2 DEF Inv, TypeOK, vars, lsuVars
  <2>2. PipelineCounted'
    BY <1>2 DEF Inv, PipelineCounted, data_req_ex, vars, lsuVars
  <2>3. RequestStable'
    BY <1>2 DEF Inv, RequestStable, data_req_ex, request, data_be, data_wdata, offset,
                data_addr_int, Address, Size, vars, lsuVars
  <2> QED BY <2>1, <2>2, <2>3 DEF Inv
<1> QED BY <1>1, <1>2

\* The three invariants hold together in every reachable state.
THEOREM InductiveInvariant == Spec => []Inv
<1> QED BY InitOK, StepOK, PTL DEF Spec

\* Every register of the load/store unit keeps its type; cnt_q never exceeds the
\* two transactions its width and the handshakes are made for.
THEOREM TypeCorrect == Spec => []TypeOK
<1>1. Inv => TypeOK
  BY DEF Inv
<1> QED BY <1>1, InductiveInvariant, PTL

\* cnt_q is exactly the number of responses the data memory still owes, a load
\* in WB always has one to wait for, and two are only ever outstanding while EX
\* holds the access of the second.
THEOREM CountExact == Spec => []PipelineCounted
<1>1. Inv => PipelineCounted
  BY DEF Inv
<1> QED BY <1>1, InductiveInvariant, PTL

\* A data request that waits for its grant stays on the bus unchanged, although
\* no register of the bus interface holds it.
THEOREM BusStable == Spec => []RequestStable
<1>1. Inv => RequestStable
  BY DEF Inv
<1> QED BY <1>1, InductiveInvariant, PTL

-----------------------------------------------------------------------------
(* Where the bytes of an access lie.                                       *)

\* The address of the word the second transaction of an access at s goes to,
\* and the k-th byte of an access.
Beyond(s) == (s + 4) % (4 * WORDS)
Place(s, k) == (s + k) % (4 * WORDS)

\* Addresses wrap once around the memory.
LEMMA Wraps ==
  ASSUME NEW n \in Nat \ {0}, NEW x \in 0 .. 2 * n - 1
  PROVE  x % n = IF x < n THEN x ELSE x - n
<1>1. CASE x < n
  BY <1>1
<1>2. CASE x >= n
  <2>1. x = 1 * n + (x - n) /\ x - n \in 0 .. n - 1
    BY <1>2
  <2> QED BY <2>1, <1>2
<1> QED BY <1>1, <1>2

\* So do the bytes of an access.
LEMMA Behind ==
  ASSUME NEW s \in ByteAddr, NEW k \in 0 .. 4
  PROVE  (s + k) % (4 * WORDS) = IF s + k < 4 * WORDS THEN s + k ELSE s + k - 4 * WORDS
<1> DEFINE n == 4 * WORDS
<1> DEFINE x == s + k
<1>1. n \in Nat \ {0} /\ x \in 0 .. 2 * n - 1
  BY LoadStoreAssumption DEF ByteAddr
<1>2. x % n = IF x < n THEN x ELSE x - n
  <2> HIDE DEF n, x
  <2> QED BY <1>1, Wraps
<1>3. s \in Nat /\ k \in Nat /\ WORDS \in Nat
  BY LoadStoreAssumption DEF ByteAddr
<1> QED BY <1>2, <1>3

\* An access touches the word of its first byte and, past lane 3, the next one,
\* each of its bytes at the lane the data bus shows it on.
LEMMA Places ==
  ASSUME NEW s \in ByteAddr, NEW k \in Lane
  PROVE  /\ Place(s, k) \in ByteAddr
         /\ Beyond(s) \in ByteAddr
         /\ Beyond(s) % 4 = s % 4
         /\ Place(s, k) \div 4 = IF (s % 4) + k < 4 THEN s \div 4 ELSE Beyond(s) \div 4
         /\ Place(s, k) % 4 = IF (s % 4) + k < 4 THEN (s % 4) + k ELSE (s % 4) + k - 4
         /\ s \div 4 # Beyond(s) \div 4
<1> DEFINE n == 4 * WORDS
<1>1. WORDS \in Nat /\ WORDS >= 2 /\ s \in 0 .. n - 1 /\ k \in 0 .. 3
  BY LoadStoreAssumption DEF ByteAddr, Lane
<1>2. Place(s, k) = IF s + k < n THEN s + k ELSE s + k - n
  <2>1. k \in 0 .. 4
    BY DEF Lane
  <2> QED BY <2>1, Behind, Zenon DEF Place
<1>3. Beyond(s) = IF s + 4 < n THEN s + 4 ELSE s + 4 - n
  BY Behind DEF Beyond
<1>4. /\ Place(s, k) \div 4 = IF (s % 4) + k < 4 THEN s \div 4 ELSE Beyond(s) \div 4
      /\ Place(s, k) % 4 = IF (s % 4) + k < 4 THEN (s % 4) + k ELSE (s % 4) + k - 4
  BY <1>1, <1>2, <1>3
<1>5. Beyond(s) % 4 = s % 4 /\ s \div 4 # Beyond(s) \div 4
  BY <1>1, <1>3
<1> QED BY <1>1, <1>2, <1>3, <1>4, <1>5 DEF ByteAddr

\* The bytes of an access are the addresses at most its size behind its first.
LEMMA Distance ==
  ASSUME NEW s \in ByteAddr, NEW a \in ByteAddr
  PROVE  LET d == (a + 4 * WORDS - s) % (4 * WORDS)
         IN  /\ d \in Nat
             /\ \A k \in Lane : a = Place(s, k) <=> d = k
<1> DEFINE n == 4 * WORDS
<1> DEFINE d == (a + 4 * WORDS - s) % (4 * WORDS)
<1>1. WORDS \in Nat /\ WORDS >= 2 /\ s \in 0 .. n - 1 /\ a \in 0 .. n - 1
  BY LoadStoreAssumption DEF ByteAddr
<1>2. d = IF a < s THEN a + n - s ELSE a - s
  <2> DEFINE x == a + n - s
  <2> HIDE DEF n
  <2>1. n \in Nat \ {0} /\ x \in 0 .. 2 * n - 1
    BY <1>1 DEF n
  <2>2. x % n = IF x < n THEN x ELSE x - n
    <3> HIDE DEF x
    <3> QED BY <2>1, Wraps
  <2>3. d = x % n
    BY DEF n
  <2> QED BY <1>1, <2>1, <2>2, <2>3
<1>3. ASSUME NEW k \in Lane PROVE a = Place(s, k) <=> d = k
  <2>1. Place(s, k) = IF s + k < n THEN s + k ELSE s + k - n
    <3>1. k \in 0 .. 4
      BY DEF Lane
    <3> QED BY <3>1, Behind, Zenon DEF Place
  <2> HIDE DEF d
  <2> QED BY <1>1, <1>2, <2>1 DEF Lane
<1>4. d \in Nat
  <2> HIDE DEF d
  <2> QED BY <1>1, <1>2
<1> QED BY <1>3, <1>4

-----------------------------------------------------------------------------
(* What the transactions of the access in EX have done so far.             *)

WordAt(m, w) == [k \in Lane |-> m[4 * w + k]]

\* An access of this type at this lane needs two transactions.
Crosses(type, o) == (type = "word" /\ o # 0) \/ (type = "half" /\ o = 3)

\* The k-th byte of the access in EX is part of the transaction it performs.
OfThisTransaction(k) == data_misaligned_ex <=> (Start % 4) + k >= 4

\* The memory has granted the transaction of the k-th byte.
InPlace(k) ==
  IF OfThisTransaction(k) THEN cnt_q = 2 ELSE data_misaligned_ex

\* The bytes of a store whose transaction is granted are in memory; the words a
\* load has read are on their way in front of it or in rdata_q.
Transfers ==
  /\ data_misaligned_ex =>
       data_req_ex /\ Crosses(ex.type, Start % 4) /\ ctrl_q.we = ex.we
  /\ data_req_ex /\ ~data_misaligned_ex => ex \in Access
  /\ data_req_ex /\ ex.we =>
       \A k \in 0 .. Size(ex.type) - 1 : InPlace(k) => mem[Place(Start, k)] = ex.wdata[k]
  /\ data_req_ex /\ ~ex.we =>
       /\ cnt_q = 2 => granted[2] = WordAt(mem, data_addr_int \div 4)
       /\ data_misaligned_ex =>
            WordAt(mem, Start \div 4) = IF cnt_q = 0 THEN rdata_q ELSE granted[1]

\* The address on the bus is that of the transaction in hand.
LEMMA Begins ==
  ASSUME TypeOK, data_req_ex
  PROVE  /\ ex \in AccessOf(Nat)
         /\ Start \in ByteAddr
         /\ data_addr_int = IF data_misaligned_ex THEN Beyond(Start) ELSE Start
         /\ offset = Start % 4
         /\ data_misaligned_o <=> ~data_misaligned_ex /\ Crosses(ex.type, Start % 4)
<1> DEFINE a == data_addr_int
<1>1. ex \in AccessOf(Nat)
  BY DEF TypeOK, data_req_ex
<1>2. a \in ByteAddr
  BY <1>1, AddressInMemory DEF data_addr_int
<1>3. CASE data_misaligned_ex
  <2> DEFINE n == 4 * WORDS
  <2> DEFINE x == a + n - 4
  <2>1. WORDS \in Nat /\ WORDS >= 2 /\ a \in 0 .. n - 1
    BY <1>2, LoadStoreAssumption DEF ByteAddr
  <2>2. Start = IF a < 4 THEN a + n - 4 ELSE a - 4
    <3>1. x % n = IF x < n THEN x ELSE x - n
      <4>1. n \in Nat \ {0} /\ x \in 0 .. 2 * n - 1
        BY <2>1
      <4> HIDE DEF n, x
      <4> QED BY <4>1, Wraps
    <3>2. Start = x % n
      BY <1>3 DEF Start
    <3> HIDE DEF a
    <3> QED BY <2>1, <3>1, <3>2
  <2>3. Start \in ByteAddr
    <3> HIDE DEF a
    <3> QED BY <2>1, <2>2 DEF ByteAddr
  <2>4. Beyond(Start) = IF Start + 4 < n THEN Start + 4 ELSE Start + 4 - n
    <3>1. 4 \in 0 .. 4
      OBVIOUS
    <3> QED BY <2>3, <3>1, Behind, Zenon DEF Beyond
  <2>5. a = Beyond(Start)
    <3> HIDE DEF a
    <3> QED BY <2>1, <2>2, <2>4
  <2>6. Beyond(Start) % 4 = Start % 4
    <3>1. 0 \in Lane
      BY DEF Lane
    <3> QED BY <2>3, <3>1, Places
  <2> QED BY <1>1, <1>3, <2>3, <2>5, <2>6 DEF offset, data_misaligned_o
<1>4. CASE ~data_misaligned_ex
  <2>1. Start = a
    BY <1>4 DEF Start
  <2> QED BY <1>1, <1>2, <1>4, <2>1 DEF offset, data_misaligned_o, Crosses
<1> QED BY <1>3, <1>4

\* The cycles of an access in EX: what the handshakes allow.
LEMMA Handshake ==
  ASSUME Inv, NEW i \in Input, Cycle(i), data_req_ex
  PROVE  /\ ex_ready(i) =>
              /\ cnt_q' = 1 /\ lsu_ready_ex(i) /\ lsu_ready_wb(i)
              /\ \/ cnt_q = 0 /\ count_up(i) /\ ~i.resp_valid
                 \/ cnt_q = 1 /\ count_up(i) /\ i.resp_valid
                 \/ cnt_q = 2 /\ ~count_up(i) /\ i.resp_valid
         /\ ~ex_ready(i) =>
              /\ ~lsu_ready_ex(i)
              /\ \/ cnt_q \in {0, 1, 2} /\ ~count_up(i) /\ ~i.resp_valid /\ cnt_q' = cnt_q
                 \/ cnt_q = 1 /\ ~count_up(i) /\ i.resp_valid /\ cnt_q' = 0
                 \/ cnt_q = 1 /\ count_up(i) /\ ~i.resp_valid /\ cnt_q' = 2
<1> USE DEF Input
<1>1. LsuCycle(i) /\ TypeOK /\ PipelineCounted /\ i.ready
  BY DEF Cycle, Inv
<1>2. cnt_q \in {0, 1, 2}
  BY <1>1 DEF TypeOK, DEPTH
<1>3. cnt_q = 0 => ~i.resp_valid
  <2>1. granted # <<>> => Len(granted) > 0
    BY <1>1, HeadTailProperties DEF TypeOK
  <2> QED BY <1>1, <2>1 DEF Cycle, PipelineCounted
<1>4. cnt_q = 2 => ~count_up(i)
  BY DEF count_up, trans_valid, DEPTH
<1>5. cnt_q' = IF count_up(i) <=> i.resp_valid THEN cnt_q
               ELSE IF count_up(i) THEN cnt_q + 1 ELSE cnt_q - 1
  BY <1>1 DEF LsuCycle
<1>6. ex_ready(i) <=> lsu_ready_ex(i)
  BY <1>1 DEF ex_ready, lsu_ready_ex, lsu_ready_wb
<1>7. lsu_ready_ex(i) <=> \/ cnt_q = 0 /\ count_up(i)
                          \/ cnt_q = 1 /\ i.resp_valid /\ count_up(i)
                          \/ cnt_q = 2 /\ i.resp_valid
  BY <1>2 DEF lsu_ready_ex
<1>8. CASE ex_ready(i)
  <2>1. \/ cnt_q = 0 /\ count_up(i) /\ ~i.resp_valid
        \/ cnt_q = 1 /\ count_up(i) /\ i.resp_valid
        \/ cnt_q = 2 /\ ~count_up(i) /\ i.resp_valid
    BY <1>3, <1>4, <1>6, <1>7, <1>8
  <2>2. lsu_ready_ex(i) /\ lsu_ready_wb(i)
    BY <1>8 DEF ex_ready
  <2> QED BY <1>5, <1>8, <2>1, <2>2
<1>9. CASE ~ex_ready(i)
  <2>1. ~lsu_ready_ex(i)
    BY <1>6, <1>9
  <2>2. \/ cnt_q \in {0, 1, 2} /\ ~count_up(i) /\ ~i.resp_valid
        \/ cnt_q = 1 /\ ~count_up(i) /\ i.resp_valid
        \/ cnt_q = 1 /\ count_up(i) /\ ~i.resp_valid
    BY <1>2, <1>3, <1>4, <1>7, <2>1
  <2> QED BY <1>5, <1>9, <2>1, <2>2
<1> QED BY <1>8, <1>9

\* The responses still to come after a cycle of an access in EX.
LEMMA Answers ==
  ASSUME Inv, NEW i \in Input, Cycle(i), data_req_ex, ~ex.we
  PROVE  LET read == WordAt(mem, data_addr_int \div 4)
             left == IF i.resp_valid THEN Tail(granted) ELSE granted
         IN  granted' = IF count_up(i) THEN Append(left, read) ELSE left
BY DEF Cycle, LsuCycle, DataMemory, count_up, WordAt

-----------------------------------------------------------------------------
(* Stores.                                                                 *)

\* A memory that differs from m in bytes of a store only is as good as m to
\* that store; once it holds all of them, the store is complete.
LEMMA PartlyStored ==
  ASSUME NEW m \in [ByteAddr -> Byte], NEW n \in [ByteAddr -> Byte],
         NEW s \in ByteAddr, NEW type \in {"word", "half", "byte"}, NEW data \in Word,
         \A a \in ByteAddr :
           (\A k \in 0 .. Size(type) - 1 : a # Place(s, k)) => n[a] = m[a]
  PROVE  /\ Stored(n, s, type, data) = Stored(m, s, type, data)
         /\ (\A k \in 0 .. Size(type) - 1 : n[Place(s, k)] = data[k])
              => n = Stored(m, s, type, data)
<1> DEFINE d(a) == (a + 4 * WORDS - s) % (4 * WORDS)
<1> DEFINE size == Size(type)
<1>1. size \in 1 .. 4 /\ \A k \in 0 .. size - 1 : k \in Lane
  BY DEF Size, Lane
<1>2. \A a \in ByteAddr : d(a) \in Nat /\ \A k \in Lane : a = Place(s, k) <=> d(a) = k
  BY Distance
<1>3. \A mm : Stored(mm, s, type, data) =
                [a \in ByteAddr |-> IF d(a) < size THEN data[d(a)] ELSE mm[a]]
  BY DEF Stored
<1> HIDE DEF d, size
<1>4. ASSUME NEW a \in ByteAddr, ~(d(a) < size)
      PROVE  n[a] = m[a]
  <2>1. \A k \in 0 .. size - 1 : a # Place(s, k)
    <3> TAKE k \in 0 .. size - 1
    <3>1. k \in Lane /\ k < size
      BY <1>1
    <3> QED BY <1>2, <1>4, <3>1
  <2> QED BY <2>1 DEF size
<1>5. Stored(n, s, type, data) = Stored(m, s, type, data)
  BY <1>3, <1>4
<1>6. ASSUME \A k \in 0 .. size - 1 : n[Place(s, k)] = data[k]
      PROVE  n = Stored(m, s, type, data)
  <2>1. ASSUME NEW a \in ByteAddr, d(a) < size
        PROVE  n[a] = data[d(a)]
    <3>1. d(a) \in 0 .. size - 1
      BY <1>1, <1>2, <2>1
    <3>2. a = Place(s, d(a))
      BY <1>1, <1>2, <3>1
    <3> QED BY <1>6, <3>1, <3>2
  <2> QED BY <1>3, <1>4, <2>1
<1> QED BY <1>5, <1>6 DEF size

\* A granted transaction writes the bytes of the store that belong to it, and no
\* others.
LEMMA StoreWrites ==
  ASSUME Inv, Transfers, NEW i \in Input, Cycle(i), data_req_ex, ex.we, count_up(i)
  PROVE  /\ \A k \in 0 .. Size(ex.type) - 1 :
              mem'[Place(Start, k)] =
                IF OfThisTransaction(k) THEN ex.wdata[k] ELSE mem[Place(Start, k)]
         /\ \A a \in ByteAddr :
              (\A k \in 0 .. Size(ex.type) - 1 : a # Place(Start, k)) => mem'[a] = mem[a]
<1> DEFINE word == data_addr_int \div 4
<1> DEFINE o == Start % 4
<1> DEFINE size == Size(ex.type)
<1>1. /\ ex \in AccessOf(Nat) /\ Start \in ByteAddr /\ offset = o
      /\ data_addr_int = IF data_misaligned_ex THEN Beyond(Start) ELSE Start
  BY Begins DEF Inv
<1>2. mem' = [a \in ByteAddr |-> IF a \div 4 = word /\ a % 4 \in data_be
                                 THEN data_wdata[a % 4] ELSE mem[a]]
  BY DEF Cycle, LsuCycle, DataMemory, count_up
<1>3. o \in 0 .. 3 /\ Start \in Nat
  BY <1>1, LoadStoreAssumption DEF ByteAddr
<1>4. ex.type \in {"word", "half", "byte"}
  BY <1>1 DEF AccessOf
<1>5. size = IF ex.type = "word" THEN 4 ELSE IF ex.type = "half" THEN 2 ELSE 1
  BY DEF Size
<1>6. data_misaligned_ex => \/ ex.type = "word" /\ o # 0
                            \/ ex.type = "half" /\ o = 3
  BY DEF Transfers, Crosses
<1>7. data_be = IF data_misaligned_ex THEN 0 .. (IF ex.type = "word" THEN o - 1 ELSE 0)
                ELSE {k \in Lane : o <= k /\ k < o + size}
  BY <1>1 DEF data_be
<1>8. \A l \in Lane : data_wdata[l] = ex.wdata[(l + 4 - o) % 4]
  BY <1>1 DEF data_wdata
<1>9. \A k \in Lane : OfThisTransaction(k) <=> (data_misaligned_ex <=> o + k >= 4)
  BY DEF OfThisTransaction
<1>10. \A k \in Lane :
         /\ Place(Start, k) \in ByteAddr
         /\ Place(Start, k) \div 4 = IF o + k < 4 THEN Start \div 4 ELSE Beyond(Start) \div 4
         /\ Place(Start, k) % 4 = IF o + k < 4 THEN o + k ELSE o + k - 4
         /\ Start \div 4 # Beyond(Start) \div 4
  BY <1>1, Places
<1>11. word = IF data_misaligned_ex THEN Beyond(Start) \div 4 ELSE Start \div 4
  BY <1>1
<1> HIDE DEF word, o, size
<1>12. ASSUME NEW k \in 0 .. size - 1
       PROVE  mem'[Place(Start, k)] =
                IF OfThisTransaction(k) THEN ex.wdata[k] ELSE mem[Place(Start, k)]
  <2> DEFINE p == Place(Start, k)
  <2>1. k \in Lane /\ k \in 0 .. 3 /\ k < size
    BY <1>4, <1>5 DEF Lane
  <2>2. p \in ByteAddr
    BY <1>10, <2>1
  <2>3. p \div 4 = word <=> OfThisTransaction(k)
    BY <1>3, <1>9, <1>10, <1>11, <2>1
  <2>4. p % 4 = IF o + k < 4 THEN o + k ELSE o + k - 4
    BY <1>10, <2>1
  <2>5. p % 4 \in Lane
    BY <1>3, <2>1, <2>4 DEF Lane
  <2>6. OfThisTransaction(k) => p % 4 \in data_be
    <3> HAVE OfThisTransaction(k)
    <3>1. data_misaligned_ex <=> o + k >= 4
      BY <1>9, <2>1
    <3>2. CASE data_misaligned_ex
      BY <1>3, <1>4, <1>5, <1>6, <1>7, <2>1, <2>4, <3>1, <3>2
    <3>3. CASE ~data_misaligned_ex
      BY <1>3, <1>5, <1>7, <2>1, <2>4, <2>5, <3>1, <3>3
    <3> QED BY <3>2, <3>3
  <2>7. data_wdata[p % 4] = ex.wdata[k]
    <3>1. ((p % 4) + 4 - o) % 4 = k
      BY <1>3, <2>1, <2>4
    <3> QED BY <1>8, <2>5, <3>1
  <2>8. mem'[p] = IF p \div 4 = word /\ p % 4 \in data_be THEN data_wdata[p % 4] ELSE mem[p]
    BY <1>2, <2>2
  <2> QED BY <2>3, <2>6, <2>7, <2>8
<1>13. ASSUME NEW a \in ByteAddr, mem'[a] # mem[a]
       PROVE  \E k \in 0 .. size - 1 : a = Place(Start, k)
  <2>1. a \div 4 = word /\ a % 4 \in data_be
    BY <1>2, <1>13
  <2>2. a \in Nat /\ a = 4 * (a \div 4) + (a % 4) /\ a % 4 \in 0 .. 3
    BY LoadStoreAssumption DEF ByteAddr
  <2> DEFINE k == IF data_misaligned_ex THEN (a % 4) + 4 - o ELSE (a % 4) - o
  <2>3. k \in 0 .. size - 1 /\ k \in 0 .. 3 /\ (o + k < 4 <=> ~data_misaligned_ex)
    <3>1. CASE data_misaligned_ex
      BY <1>3, <1>4, <1>5, <1>6, <1>7, <2>1, <2>2, <3>1
    <3>2. CASE ~data_misaligned_ex
      BY <1>3, <1>4, <1>5, <1>7, <2>1, <2>2, <3>2 DEF Lane
    <3> QED BY <3>1, <3>2
  <2>4. k \in Lane
    BY <2>3 DEF Lane
  <2>5. o + k = IF data_misaligned_ex THEN (a % 4) + 4 ELSE a % 4
    BY <1>3, <2>2
  <2> HIDE DEF k
  <2>6. Place(Start, k) \in ByteAddr /\ Place(Start, k) \div 4 = word
        /\ Place(Start, k) % 4 = a % 4
    BY <1>3, <1>10, <1>11, <2>2, <2>3, <2>4, <2>5
  <2>7. Place(Start, k) = a
    <3> DEFINE p == Place(Start, k)
    <3>1. p \in Nat
      BY <2>6, LoadStoreAssumption DEF ByteAddr
    <3> HIDE DEF p
    <3>2. p = 4 * (p \div 4) + (p % 4)
      BY <3>1
    <3> QED BY <2>1, <2>2, <2>6, <3>2 DEF p
  <2> QED BY <2>3, <2>7
<1> QED BY <1>12, <1>13 DEF size

\* A store leaves, in every cycle, the memory as the program sees it alone, and
\* the bytes whose transaction has been granted are in it.
LEMMA StoreStep ==
  ASSUME Inv, Transfers, NEW i \in Input, Cycle(i), data_req_ex, ex.we
  PROVE  /\ \A k \in 0 .. Size(ex.type) - 1 :
              InPlace(k) \/ (count_up(i) /\ OfThisTransaction(k))
                => mem'[Place(Start, k)] = ex.wdata[k]
         /\ Stored(mem', Start, ex.type, ex.wdata) = Stored(mem, Start, ex.type, ex.wdata)
         /\ (\A k \in 0 .. Size(ex.type) - 1 : mem'[Place(Start, k)] = ex.wdata[k])
              => mem' = Stored(mem, Start, ex.type, ex.wdata)
<1>1. ex \in AccessOf(Nat) /\ Start \in ByteAddr
  BY Begins DEF Inv
<1>2. ex.type \in {"word", "half", "byte"} /\ ex.wdata \in Word
  BY <1>1 DEF AccessOf
<1>3. mem \in [ByteAddr -> Byte] /\ mem' \in [ByteAddr -> Byte]
  BY TypeStep DEF Inv, TypeOK
<1>4. \A k \in 0 .. Size(ex.type) - 1 : InPlace(k) => mem[Place(Start, k)] = ex.wdata[k]
  BY DEF Transfers
<1>5. CASE count_up(i)
  <2>1. \A k \in 0 .. Size(ex.type) - 1 :
          mem'[Place(Start, k)] =
            IF OfThisTransaction(k) THEN ex.wdata[k] ELSE mem[Place(Start, k)]
    BY <1>5, StoreWrites
  <2>2. \A a \in ByteAddr :
          (\A k \in 0 .. Size(ex.type) - 1 : a # Place(Start, k)) => mem'[a] = mem[a]
    BY <1>5, StoreWrites
  <2>3. \A k \in 0 .. Size(ex.type) - 1 :
          InPlace(k) \/ (count_up(i) /\ OfThisTransaction(k))
            => mem'[Place(Start, k)] = ex.wdata[k]
    BY <1>4, <2>1
  <2> QED BY <1>1, <1>2, <1>3, <2>2, <2>3, PartlyStored
<1>6. CASE ~count_up(i)
  <2>1. mem' = mem
    BY <1>6 DEF Cycle, LsuCycle, DataMemory, count_up
  <2>2. \A a \in ByteAddr :
          (\A k \in 0 .. Size(ex.type) - 1 : a # Place(Start, k)) => mem'[a] = mem[a]
    BY <2>1
  <2> QED BY <1>1, <1>2, <1>3, <1>4, <1>6, <2>1, <2>2, PartlyStored
<1> QED BY <1>5, <1>6

-----------------------------------------------------------------------------
(* Loads.                                                                  *)

\* The bytes of an access, as the words of its transactions show them.
LEMMA BytesOfWords ==
  ASSUME NEW m, NEW s \in ByteAddr, NEW k \in Lane
  PROVE  ByteAt(m, s, k) = IF (s % 4) + k < 4 THEN WordAt(m, s \div 4)[(s % 4) + k]
                           ELSE WordAt(m, Beyond(s) \div 4)[(s % 4) + k - 4]
<1> DEFINE o == s % 4
<1> DEFINE p == Place(s, k)
<1> DEFINE w == IF o + k < 4 THEN s \div 4 ELSE Beyond(s) \div 4
<1> DEFINE l == IF o + k < 4 THEN o + k ELSE o + k - 4
<1>1. s \in Nat /\ o \in 0 .. 3 /\ k \in 0 .. 3
  BY LoadStoreAssumption DEF ByteAddr, Lane
<1>2. p \in Nat /\ p \div 4 = w /\ p % 4 = l
  <2>1. p \in ByteAddr /\ p \div 4 = w /\ p % 4 = l
    BY Places
  <2> QED BY <2>1, LoadStoreAssumption DEF ByteAddr
<1>3. l \in Lane
  BY <1>1 DEF Lane
<1>4. ByteAt(m, s, k) = m[p]
  BY DEF ByteAt, Place
<1>5. p = 4 * w + l
  <2> HIDE DEF p, w, l
  <2>1. p = 4 * (p \div 4) + (p % 4)
    BY <1>2
  <2> QED BY <1>2, <2>1
<1>6. WordAt(m, w)[l] = m[4 * w + l]
  <2> HIDE DEF w, l
  <2> QED BY <1>3 DEF WordAt
<1> QED BY <1>1, <1>4, <1>5, <1>6

\* Behind the last response of a load, the load port shows what the load reads
\* from the memory m its words came from.
LEMMA Assembles ==
  TypeOK =>
    \A m : \A s \in ByteAddr :
      /\ ctrl_q.offset = s % 4
      /\ resp_rdata = WordAt(m, (IF Crosses(ctrl_q.type, s % 4) THEN Beyond(s) ELSE s) \div 4)
      /\ Crosses(ctrl_q.type, s % 4) => rdata_q = WordAt(m, s \div 4)
      => data_rdata_ext(resp_rdata) = Loaded(m, s, ctrl_q.type, ctrl_q.sign)
<1> SUFFICES
      ASSUME TypeOK, NEW m, NEW s \in ByteAddr, ctrl_q.offset = s % 4,
             resp_rdata =
               WordAt(m, (IF Crosses(ctrl_q.type, s % 4) THEN Beyond(s) ELSE s) \div 4),
             Crosses(ctrl_q.type, s % 4) => rdata_q = WordAt(m, s \div 4)
      PROVE  data_rdata_ext(resp_rdata) = Loaded(m, s, ctrl_q.type, ctrl_q.sign)
  OBVIOUS
<1> DEFINE o == s % 4
<1> DEFINE first == WordAt(m, s \div 4)
<1> DEFINE second == WordAt(m, Beyond(s) \div 4)
<1> DEFINE r == resp_rdata
<1> DEFINE byte(k) == ByteAt(m, s, k)
<1>1. o \in 0 .. 3 /\ ctrl_q.type \in {"word", "half", "byte"} /\ ctrl_q.offset = o
  BY LoadStoreAssumption DEF ByteAddr, TypeOK
<1>2. \A k \in 0 .. 3 : byte(k) = IF o + k < 4 THEN first[o + k] ELSE second[o + k - 4]
  BY BytesOfWords DEF Lane
<1>3. r = IF Crosses(ctrl_q.type, o) THEN second ELSE first
  OBVIOUS
<1>4. Crosses(ctrl_q.type, o) => rdata_q = first
  OBVIOUS
<1>5. Loaded(m, s, ctrl_q.type, ctrl_q.sign) =
        [k \in Lane |-> IF k < Size(ctrl_q.type) THEN byte(k)
                        ELSE Fill(ctrl_q.sign, byte(Size(ctrl_q.type) - 1))]
  BY DEF Loaded
<1> HIDE DEF o, first, second, r, byte
<1>6. CASE ctrl_q.type = "word"
  <2>1. data_rdata_ext(r) =
          [k \in Lane |-> IF o = 0 THEN r[k]
                          ELSE IF k + o < 4 THEN rdata_q[k + o] ELSE r[k + o - 4]]
    BY <1>1, <1>6 DEF data_rdata_ext
  <2>2. \A k \in 0 .. 3 : byte(k) = IF o = 0 THEN r[k]
                          ELSE IF k + o < 4 THEN rdata_q[k + o] ELSE r[k + o - 4]
    <3> TAKE k \in 0 .. 3
    <3>1. CASE o = 0
      BY <1>2, <1>3, <1>6, <3>1 DEF Crosses
    <3>2. CASE o # 0
      <4>1. r = second /\ rdata_q = first
        BY <1>3, <1>4, <1>6, <3>2 DEF Crosses
      <4>2. byte(k) = IF o + k < 4 THEN first[o + k] ELSE second[o + k - 4]
        BY <1>2
      <4>3. byte(k) = IF k + o < 4 THEN first[k + o] ELSE second[k + o - 4]
        BY <1>1, <4>2
      <4> QED BY <3>2, <4>1, <4>3
    <3> QED BY <3>1, <3>2
  <2>3. \A k \in Lane : k \in 0 .. 3 /\ k < Size(ctrl_q.type)
    BY <1>6 DEF Lane, Size
  <2> QED BY <1>5, <2>1, <2>2, <2>3 DEF r
<1>7. CASE ctrl_q.type = "half"
  <2> DEFINE upper == IF o = 3 THEN r[0] ELSE r[o + 1]
  <2> DEFINE lower == IF o = 3 THEN rdata_q[3] ELSE r[o]
  <2>1. data_rdata_ext(r) = [k \in Lane |-> IF k = 0 THEN lower ELSE IF k = 1 THEN upper
                                            ELSE Fill(ctrl_q.sign, upper)]
    BY <1>1, <1>7 DEF data_rdata_ext
  <2>2. byte(0) = lower /\ byte(1) = upper
    <3>1. 0 \in 0 .. 3 /\ 1 \in 0 .. 3
      OBVIOUS
    <3>2. byte(0) = IF o + 0 < 4 THEN first[o + 0] ELSE second[o + 0 - 4]
      BY <1>2, <3>1
    <3>3. byte(1) = IF o + 1 < 4 THEN first[o + 1] ELSE second[o + 1 - 4]
      BY <1>2, <3>1
    <3>4. CASE o = 3
      <4>1. r = second /\ rdata_q = first
        BY <1>3, <1>4, <1>7, <3>4 DEF Crosses
      <4> QED BY <3>2, <3>3, <3>4, <4>1
    <3>5. CASE o # 3
      <4>1. r = first
        BY <1>3, <1>7, <3>5 DEF Crosses
      <4>2. o + 0 = o /\ o + 0 < 4 /\ o + 1 < 4
        BY <1>1, <3>5
      <4> QED BY <3>2, <3>3, <3>5, <4>1, <4>2
    <3> QED BY <3>4, <3>5
  <2>3. Size(ctrl_q.type) = 2
    BY <1>7 DEF Size
  <2> HIDE DEF upper, lower
  <2>4. \A k \in Lane : k \in {0, 1, 2, 3}
    BY DEF Lane
  <2>5. \A k \in Lane : (IF k = 0 THEN lower ELSE IF k = 1 THEN upper
                         ELSE Fill(ctrl_q.sign, upper)) =
                        (IF k < Size(ctrl_q.type) THEN byte(k)
                         ELSE Fill(ctrl_q.sign, byte(Size(ctrl_q.type) - 1)))
    BY <2>2, <2>3, <2>4
  <2> QED BY <1>5, <2>1, <2>5 DEF r
<1>8. CASE ctrl_q.type = "byte"
  <2>1. data_rdata_ext(r) =
          [k \in Lane |-> IF k = 0 THEN r[o] ELSE Fill(ctrl_q.sign, r[o])]
    BY <1>1, <1>8 DEF data_rdata_ext
  <2>2. byte(0) = r[o]
    <3>1. 0 \in 0 .. 3 /\ o + 0 = o /\ o + 0 < 4
      BY <1>1
    <3>2. r = first
      BY <1>3, <1>8 DEF Crosses
    <3> QED BY <1>2, <3>1, <3>2
  <2>3. Size(ctrl_q.type) = 1
    BY <1>8 DEF Size
  <2>4. \A k \in Lane : k \in {0, 1, 2, 3}
    BY DEF Lane
  <2>5. \A k \in Lane : (IF k = 0 THEN r[o] ELSE Fill(ctrl_q.sign, r[o])) =
                        (IF k < Size(ctrl_q.type) THEN byte(k)
                         ELSE Fill(ctrl_q.sign, byte(Size(ctrl_q.type) - 1)))
    BY <2>2, <2>3, <2>4
  <2> QED BY <1>5, <2>1, <2>5 DEF r
<1> QED BY <1>1, <1>6, <1>7, <1>8

-----------------------------------------------------------------------------
(* Every cycle keeps Transfers.                                            *)

\* The address of the second transaction, moved back by four, is the first again.
LEMMA BeyondAndBack ==
  ASSUME NEW s \in ByteAddr
  PROVE  (Beyond(s) + 4 * WORDS - 4) % (4 * WORDS) = s
<1> DEFINE n == 4 * WORDS
<1> DEFINE b == Beyond(s)
<1> DEFINE x == b + n - 4
<1>1. WORDS \in Nat /\ WORDS >= 2 /\ s \in 0 .. n - 1
  BY LoadStoreAssumption DEF ByteAddr
<1>2. b = IF s + 4 < n THEN s + 4 ELSE s + 4 - n
  <2>1. 4 \in 0 .. 4
    OBVIOUS
  <2> QED BY <2>1, Behind, Zenon DEF Beyond
<1> HIDE DEF b
<1>3. x % n = IF x < n THEN x ELSE x - n
  <2>1. n \in Nat \ {0} /\ x \in 0 .. 2 * n - 1
    BY <1>1, <1>2
  <2> HIDE DEF n, x
  <2> QED BY <2>1, Wraps
<1>4. x % n = s
  BY <1>1, <1>2, <1>3
<1> QED BY <1>4 DEF b

\* An access that stays in EX, or moves on to its second transaction, is still
\* the same access.
LEMMA SameAccess ==
  ASSUME Inv, Transfers, NEW i \in Input, Cycle(i), data_req_ex,
         data_misaligned_o \/ ~ex_ready(i)
  PROVE  /\ data_req_ex' /\ Start' = Start
         /\ ex'.we = ex.we /\ ex'.type = ex.type /\ ex'.sign = ex.sign
         /\ ex'.wdata = ex.wdata /\ ex'.rd = ex.rd
         /\ ex_ready(i) => data_misaligned_ex' /\ ~data_misaligned_ex
         /\ ~ex_ready(i) => /\ ex' = ex /\ data_misaligned_ex' = data_misaligned_ex
                            /\ data_addr_int' = data_addr_int
<1>1. LsuCycle(i)
  BY DEF Cycle
<1>2. ex \in AccessOf(Nat) /\ Start \in ByteAddr
  BY Begins DEF Inv
<1>3. CASE ex_ready(i)
  <2>1. ex' = SecondTransaction /\ data_misaligned_ex' = TRUE
    BY <1>1, <1>3 DEF LsuCycle, IdEx
  <2>2. ~data_misaligned_ex /\ Start = data_addr_int
    BY <1>3 DEF data_misaligned_o, Start
  <2>3. ex \in Access
    BY <2>2 DEF Transfers
  <2>4. ex.base \in ByteAddr
    BY <2>3, LoadStoreAssumption DEF AccessOf
  <2>5. ~ex.useincr => ex.base = Start
    <3> HAVE ~ex.useincr
    <3>1. Start = ex.base % (4 * WORDS)
      BY <2>2 DEF data_addr_int, Address
    <3>2. WORDS \in Nat /\ WORDS >= 2 /\ ex.base \in 0 .. 4 * WORDS - 1
      BY <2>4, LoadStoreAssumption DEF ByteAddr
    <3> DEFINE n == 4 * WORDS
    <3> DEFINE x == ex.base
    <3>3. x % n = IF x < n THEN x ELSE x - n
      <4>1. n \in Nat \ {0} /\ x \in 0 .. 2 * n - 1
        BY <3>2
      <4> HIDE DEF n, x
      <4> QED BY <4>1, Wraps
    <3> QED BY <3>1, <3>2, <3>3
  <2>6. /\ ex'.base = Start /\ ex'.incr = 4 /\ ex'.useincr = TRUE
        /\ ex'.we = ex.we /\ ex'.type = ex.type /\ ex'.sign = ex.sign
        /\ ex'.wdata = ex.wdata /\ ex'.rd = ex.rd /\ ex' \in AccessOf(Nat)
    <3>1. Start \in Nat
      BY <1>2, LoadStoreAssumption DEF ByteAddr
    <3> QED BY <1>2, <2>1, <2>2, <2>5, <3>1 DEF SecondTransaction, AccessOf
  <2>7. data_addr_int' = Beyond(Start)
    BY <2>6 DEF data_addr_int, Address, Beyond
  <2>8. Start' = (Beyond(Start) + 4 * WORDS - 4) % (4 * WORDS)
    BY <2>1, <2>7 DEF Start
  <2>9. Start' = Start
    BY <1>2, <2>8, BeyondAndBack
  <2>10. data_req_ex'
    BY <2>6, LoadStoreAssumption DEF data_req_ex
  <2> QED BY <1>3, <2>1, <2>2, <2>6, <2>9, <2>10
<1>4. CASE ~ex_ready(i)
  <2>1. ex' = ex /\ data_misaligned_ex' = data_misaligned_ex
    BY <1>1, <1>4 DEF LsuCycle, IdEx
  <2>2. data_addr_int' = data_addr_int
    BY <2>1 DEF data_addr_int
  <2>3. Start' = Start
    BY <2>1, <2>2 DEF Start
  <2> QED BY <1>4, <2>1, <2>2, <2>3 DEF data_req_ex
<1> QED BY <1>3, <1>4

\* EX takes the next access, or none, in a cycle it is ready.
LEMMA NextAccess ==
  ASSUME Inv, Transfers, NEW i \in Input, Cycle(i),
         ~data_misaligned_o, ex_ready(i) \/ ~data_req_ex
  PROVE  /\ ~data_misaligned_ex' /\ cnt_q' \in {0, 1}
         /\ ex_ready(i) => ex' = i.issue
         /\ ~ex_ready(i) => ex' = ex /\ ~data_misaligned_ex
<1> USE DEF Input
<1>1. LsuCycle(i) /\ TypeOK /\ PipelineCounted
  BY DEF Cycle, Inv
<1>2. ~data_req_ex => ~data_misaligned_ex
  BY DEF Transfers
<1>3. ~data_misaligned_ex' /\ (ex_ready(i) => ex' = i.issue)
      /\ (~ex_ready(i) => ex' = ex /\ ~data_misaligned_ex)
  BY <1>1, <1>2 DEF LsuCycle, IdEx
<1>4. CASE data_req_ex
  BY <1>3, <1>4, Handshake
<1>5. CASE ~data_req_ex
  <2>1. ~count_up(i)
    BY <1>5 DEF count_up, trans_valid
  <2>2. cnt_q \in {0, 1}
    BY <1>1, <1>5 DEF TypeOK, PipelineCounted, DEPTH
  <2>3. cnt_q' \in 0 .. 2
    BY TypeStep DEF TypeOK, DEPTH
  <2>4. cnt_q' = IF i.resp_valid THEN cnt_q - 1 ELSE cnt_q
    BY <1>1, <2>1 DEF LsuCycle
  <2> QED BY <1>3, <2>2, <2>3, <2>4
<1> QED BY <1>4, <1>5

\* A load does not write, and when it leaves EX, or moves on to its second
\* transaction, its word is the one response still to come.
LEMMA LoadLeaves ==
  ASSUME Inv, Transfers, NEW i \in Input, Cycle(i), data_req_ex, ~ex.we
  PROVE  /\ mem' = mem
         /\ ex_ready(i) => granted' = <<WordAt(mem, data_addr_int \div 4)>>
<1> DEFINE read == WordAt(mem, data_addr_int \div 4)
<1> DEFINE left == IF i.resp_valid THEN Tail(granted) ELSE granted
<1>1. granted \in Seq(Word) /\ Len(granted) = cnt_q /\ granted' \in Seq(Word)
  BY TypeStep DEF Inv, TypeOK, PipelineCounted
<1>2. mem' = mem
  BY DEF Cycle, LsuCycle, DataMemory
<1>3. ASSUME ex_ready(i)
      PROVE  granted' = <<read>>
  <2>1. granted' = IF count_up(i) THEN Append(left, read) ELSE left
    BY Answers
  <2>2. \/ cnt_q = 0 /\ count_up(i) /\ ~i.resp_valid
        \/ cnt_q = 1 /\ count_up(i) /\ i.resp_valid
        \/ cnt_q = 2 /\ ~count_up(i) /\ i.resp_valid
    BY <1>3, Handshake
  <2>3. CASE cnt_q = 2
    <3>1. granted' = Tail(granted)
      BY <2>1, <2>2, <2>3
    <3>2. Len(granted') = 1 /\ granted'[1] = granted[2]
      <4>1. granted # <<>> /\ Len(granted) = 2
        BY <1>1, <2>3
      <4>2. /\ Len(Tail(granted)) = Len(granted) - 1
            /\ \A j \in 1 .. Len(Tail(granted)) : Tail(granted)[j] = granted[j + 1]
        BY <1>1, <4>1, HeadTailProperties
      <4>3. Len(Tail(granted)) = 1 /\ 1 \in 1 .. Len(Tail(granted)) /\ 1 + 1 = 2
        BY <4>1, <4>2
      <4>4. Tail(granted)[1] = granted[1 + 1]
        BY <4>2, <4>3
      <4> QED BY <3>1, <4>3, <4>4
    <3>3. granted[2] = read
      BY <2>3 DEF Transfers
    <3> HIDE DEF read
    <3> QED BY <1>1, <3>2, <3>3
  <2>4. CASE cnt_q # 2
    <3>1. left = <<>>
      BY <1>1, <2>2, <2>4
    <3>2. granted' = Append(<<>>, read)
      BY <2>1, <2>2, <2>4, <3>1
    <3> HIDE DEF read
    <3> QED BY <3>2
  <2> QED BY <2>3, <2>4
<1> QED BY <1>2, <1>3

\* While a load stays in EX, the words it has read stay where they are, or move
\* on with the response.
LEMMA LoadStays ==
  ASSUME Inv, Transfers, NEW i \in Input, Cycle(i), data_req_ex, ~ex.we, ~ex_ready(i)
  PROVE  /\ cnt_q' = 2 => granted'[2] = WordAt(mem, data_addr_int \div 4)
         /\ data_misaligned_ex =>
              WordAt(mem, Start \div 4) = IF cnt_q' = 0 THEN rdata_q' ELSE granted'[1]
<1> DEFINE read == WordAt(mem, data_addr_int \div 4)
<1> DEFINE left == IF i.resp_valid THEN Tail(granted) ELSE granted
<1>1. granted \in Seq(Word) /\ Len(granted) = cnt_q /\ granted' \in Seq(Word)
      /\ Len(granted') = cnt_q'
  BY TypeStep, CountedStep DEF Inv, TypeOK, PipelineCounted
<1>2. granted' = IF count_up(i) THEN Append(left, read) ELSE left
  BY Answers
<1>3. /\ cnt_q = 2 => granted[2] = read
      /\ data_misaligned_ex =>
           WordAt(mem, Start \div 4) = IF cnt_q = 0 THEN rdata_q ELSE granted[1]
      /\ data_misaligned_ex => ~ctrl_q.we
  BY DEF Transfers
<1>4. rdata_q' = rdata_next(i)
  BY DEF Cycle, LsuCycle
<1>5. CASE cnt_q \in {0, 1, 2} /\ ~count_up(i) /\ ~i.resp_valid /\ cnt_q' = cnt_q
  <2>1. granted' = granted /\ rdata_q' = rdata_q
    BY <1>2, <1>4, <1>5 DEF rdata_next
  <2> QED BY <1>3, <1>5, <2>1
<1>6. CASE cnt_q = 1 /\ ~count_up(i) /\ i.resp_valid /\ cnt_q' = 0
  <2>1. resp_rdata = granted[1]
    <3>1. granted # <<>>
      BY <1>1, <1>6
    <3> QED BY <1>1, <3>1 DEF resp_rdata
  <2>2. data_misaligned_ex => rdata_q' = granted[1]
    BY <1>3, <1>4, <1>6, <2>1 DEF rdata_next
  <2> QED BY <1>3, <1>6, <2>2
<1>7. CASE cnt_q = 1 /\ count_up(i) /\ ~i.resp_valid /\ cnt_q' = 2
  <2>1. granted' = Append(granted, read)
    BY <1>2, <1>7
  <2> HIDE DEF read
  <2>2. granted'[2] = read /\ granted'[1] = granted[1]
    BY <1>1, <1>7, <2>1
  <2> QED BY <1>3, <1>7, <2>2 DEF read
<1> QED BY <1>5, <1>6, <1>7, Handshake

\* Every cycle keeps what has been transferred in its place.
LEMMA TransfersStep ==
  ASSUME Inv, Transfers, NEW i \in Input, Cycle(i)
  PROVE  Transfers'
<1>1. CASE ~data_misaligned_o /\ (ex_ready(i) \/ ~data_req_ex)
  <2>1. ~data_misaligned_ex' /\ cnt_q' # 2
    BY <1>1, NextAccess
  <2>2. data_req_ex' => ex' \in Access
    <3>1. CASE ex_ready(i)
      <4>1. ex' = i.issue
        BY <1>1, <3>1, NextAccess
      <4> QED BY <4>1 DEF Input, data_req_ex
    <3>2. CASE ~ex_ready(i)
      <4>1. ex' = ex
        BY <1>1, <3>2, NextAccess
      <4> QED BY <1>1, <3>2, <4>1 DEF data_req_ex
    <3> QED BY <3>1, <3>2
  <2>3. \A k : ~InPlace(k)'
    BY <2>1 DEF InPlace
  <2> QED BY <2>1, <2>2, <2>3 DEF Transfers
<1>2. CASE data_misaligned_o \/ (~ex_ready(i) /\ data_req_ex)
  <2>1. data_req_ex
    BY <1>2 DEF data_misaligned_o
  <2>2. /\ data_req_ex' /\ Start' = Start
        /\ ex'.we = ex.we /\ ex'.type = ex.type /\ ex'.wdata = ex.wdata
        /\ ex_ready(i) => data_misaligned_ex' /\ ~data_misaligned_ex
        /\ ~ex_ready(i) => /\ ex' = ex /\ data_misaligned_ex' = data_misaligned_ex
                           /\ data_addr_int' = data_addr_int
    BY <1>2, <2>1, SameAccess
  <2>3. LsuCycle(i) /\ ex \in AccessOf(Nat)
    BY <2>1, Begins DEF Cycle, Inv
  <2>4. ASSUME data_misaligned_ex'
        PROVE  Crosses(ex'.type, Start' % 4) /\ ctrl_q'.we = ex'.we
    <3>1. CASE ex_ready(i)
      <4>1. Crosses(ex.type, Start % 4)
        BY <1>2, <2>1, <3>1, Begins DEF Inv
      <4>2. ctrl_q'.we = ex.we
        BY <2>1, <2>3, <3>1 DEF LsuCycle, ctrl_update, ex_ready
      <4> QED BY <2>2, <4>1, <4>2
    <3>2. CASE ~ex_ready(i)
      <4>1. ctrl_q' = ctrl_q
        BY <2>1, <2>3, <3>2, Handshake DEF LsuCycle, ctrl_update
      <4>2. data_misaligned_ex
        BY <2>2, <2>4, <3>2
      <4> QED BY <2>2, <4>1, <4>2 DEF Transfers
    <3> QED BY <3>1, <3>2
  <2>5. ~data_misaligned_ex' => ex' \in Access
    BY <2>1, <2>2 DEF Transfers
  <2>6. ASSUME ex'.we, NEW k \in 0 .. Size(ex'.type) - 1, InPlace(k)'
        PROVE  mem'[Place(Start, k)'] = ex'.wdata[k]
    <3>1. OfThisTransaction(k)' <=> (data_misaligned_ex' <=> (Start % 4) + k >= 4)
      BY <2>2 DEF OfThisTransaction
    <3>2. InPlace(k)' <=> IF OfThisTransaction(k)' THEN cnt_q' = 2 ELSE data_misaligned_ex'
      BY DEF InPlace
    <3>3. InPlace(k) \/ (count_up(i) /\ OfThisTransaction(k))
      <4>1. CASE ex_ready(i)
        <5>1. cnt_q' # 2 /\ (count_up(i) \/ cnt_q = 2)
          BY <2>1, <4>1, Handshake
        <5>2. ~OfThisTransaction(k)'
          BY <2>6, <3>2, <5>1
        <5>3. OfThisTransaction(k)
          BY <2>2, <3>1, <4>1, <5>2 DEF OfThisTransaction
        <5> QED BY <5>1, <5>3 DEF InPlace
      <4>2. CASE ~ex_ready(i)
        <5>1. cnt_q' = 2 => count_up(i) \/ cnt_q = 2
          BY <2>1, <4>2, Handshake
        <5>2. OfThisTransaction(k)' <=> OfThisTransaction(k)
          BY <2>2, <3>1, <4>2 DEF OfThisTransaction
        <5> QED BY <2>2, <2>6, <3>2, <4>2, <5>1, <5>2 DEF InPlace
      <4> QED BY <4>1, <4>2
    <3>4. ex.we /\ k \in 0 .. Size(ex.type) - 1
      BY <2>2, <2>6
    <3>5. mem'[Place(Start, k)] = ex.wdata[k]
      BY <2>1, <3>3, <3>4, StoreStep
    <3> QED BY <2>2, <3>5 DEF Place
  <2>7. ASSUME ~ex'.we
        PROVE  /\ cnt_q' = 2 => granted'[2] = WordAt(mem', data_addr_int' \div 4)
               /\ data_misaligned_ex' =>
                    WordAt(mem', Start' \div 4) = IF cnt_q' = 0 THEN rdata_q' ELSE granted'[1]
    <3>1. ~ex.we /\ mem' = mem
      BY <2>1, <2>2, <2>7, LoadLeaves
    <3>2. CASE ex_ready(i)
      <4>1. cnt_q' = 1
        BY <2>1, <3>2, Handshake
      <4>2. granted'[1] = WordAt(mem, data_addr_int \div 4)
        BY <2>1, <3>1, <3>2, LoadLeaves
      <4>3. Start = data_addr_int
        BY <2>2, <3>2 DEF Start
      <4> QED BY <2>2, <3>1, <4>1, <4>2, <4>3
    <3>3. CASE ~ex_ready(i)
      BY <2>1, <2>2, <3>1, <3>3, LoadStays
    <3> QED BY <3>2, <3>3
  <2> QED BY <2>2, <2>4, <2>5, <2>6, <2>7 DEF Transfers, Place, WordAt
<1> QED BY <1>1, <1>2

-----------------------------------------------------------------------------
(* LoadStore implements AtomicMemory.                                      *)

\* EX lets its access go: it was not, or is no longer, waiting for its second
\* transaction.
Leaves(i) == ex_ready(i) /\ ~data_misaligned_o

\* The load in WB is delivered.
Delivers(i) == regfile_we_lsu /\ lsu_ready_wb(i) /\ ~data_misaligned_ex

\* A load that leaves EX takes with it what it reads from the program's memory.
LEMMA LoadAssembled ==
  ASSUME Inv, Transfers, NEW i \in Input, Cycle(i), data_req_ex, ~ex.we, Leaves(i)
  PROVE  data_rdata_ext(resp_rdata)' = Loaded(mem, Start, ex.type, ex.sign)
<1> DEFINE o == Start % 4
<1>1. /\ Start \in ByteAddr /\ offset = o
      /\ data_addr_int = IF data_misaligned_ex THEN Beyond(Start) ELSE Start
      /\ ~data_misaligned_ex => ~Crosses(ex.type, o)
  BY Begins DEF Inv, Leaves
<1>2. data_misaligned_ex => Crosses(ex.type, o) /\ ~ctrl_q.we
  BY DEF Transfers
<1>3. LsuCycle(i) /\ lsu_ready_ex(i) /\ ex_ready(i)
  BY DEF Cycle, Leaves, ex_ready
<1>4. ctrl_q'.type = ex.type /\ ctrl_q'.offset = o /\ ctrl_q'.sign = ex.sign
  BY <1>1, <1>3 DEF LsuCycle, ctrl_update
<1>5. resp_rdata' = WordAt(mem, data_addr_int \div 4)
  <2>1. granted' = <<WordAt(mem, data_addr_int \div 4)>>
    BY <1>3, LoadLeaves
  <2>2. resp_rdata' = IF granted' = <<>> THEN NoWord ELSE Head(granted')
    BY DEF resp_rdata
  <2> DEFINE read == WordAt(mem, data_addr_int \div 4)
  <2> HIDE DEF read
  <2>3. <<read>> # <<>> /\ Head(<<read>>) = read
    OBVIOUS
  <2> QED BY <2>1, <2>2, <2>3 DEF read
<1>6. data_misaligned_ex => rdata_q' = WordAt(mem, Start \div 4)
  <2> SUFFICES ASSUME data_misaligned_ex PROVE rdata_q' = WordAt(mem, Start \div 4)
    OBVIOUS
  <2>1. WordAt(mem, Start \div 4) = IF cnt_q = 0 THEN rdata_q ELSE granted[1]
    BY DEF Transfers
  <2>2. granted \in Seq(Word) /\ Len(granted) = cnt_q
    BY DEF Inv, TypeOK, PipelineCounted
  <2>3. rdata_q' = rdata_next(i)
    BY <1>3 DEF LsuCycle
  <2>4. \/ cnt_q = 0 /\ ~i.resp_valid
        \/ cnt_q \in {1, 2} /\ i.resp_valid
    BY <1>3, Handshake
  <2>5. CASE cnt_q = 0 /\ ~i.resp_valid
    BY <2>1, <2>3, <2>5 DEF rdata_next
  <2>6. CASE cnt_q \in {1, 2} /\ i.resp_valid
    <3>1. resp_rdata = granted[1]
      <4>1. granted # <<>>
        BY <2>2, <2>6
      <4> QED BY <2>2, <4>1 DEF resp_rdata
    <3> QED BY <1>2, <2>1, <2>3, <2>6, <3>1 DEF rdata_next
  <2> QED BY <2>4, <2>5, <2>6
<1>7. (TypeOK =>
         \A m : \A s \in ByteAddr :
           /\ ctrl_q.offset = s % 4
           /\ resp_rdata = WordAt(m, (IF Crosses(ctrl_q.type, s % 4) THEN Beyond(s) ELSE s) \div 4)
           /\ Crosses(ctrl_q.type, s % 4) => rdata_q = WordAt(m, s \div 4)
           => data_rdata_ext(resp_rdata) = Loaded(m, s, ctrl_q.type, ctrl_q.sign))'
  BY Assembles, PTL
<1>8. \A m : \A s \in ByteAddr :
        /\ ctrl_q'.offset = s % 4
        /\ resp_rdata' = WordAt(m, (IF Crosses(ctrl_q'.type, s % 4) THEN Beyond(s) ELSE s) \div 4)
        /\ Crosses(ctrl_q'.type, s % 4) => rdata_q' = WordAt(m, s \div 4)
        => data_rdata_ext(resp_rdata)' = Loaded(m, s, ctrl_q'.type, ctrl_q'.sign)
  BY <1>7, TypeStep
<1>9. resp_rdata' = WordAt(mem, (IF Crosses(ex.type, o) THEN Beyond(Start) ELSE Start) \div 4)
  BY <1>1, <1>2, <1>5
<1>10. Crosses(ex.type, o) => rdata_q' = WordAt(mem, Start \div 4)
  BY <1>1, <1>6
<1> QED BY <1>1, <1>4, <1>8, <1>9, <1>10

\* A load that keeps waiting in WB keeps its value.
LEMMA LoadWaits ==
  ASSUME Inv, Transfers, NEW i \in Input, Cycle(i), regfile_we_lsu, ~lsu_ready_wb(i)
  PROVE  /\ regfile_we_lsu' /\ regfile_waddr_lsu' = regfile_waddr_lsu
         /\ data_rdata_ext(resp_rdata)' = data_rdata_ext(resp_rdata)
<1>1. LsuCycle(i) /\ ~i.resp_valid /\ cnt_q # 0
  BY DEF Cycle, lsu_ready_wb
<1>2. granted \in Seq(Word) /\ granted # <<>>
  <2>1. granted \in Seq(Word) /\ Len(granted) = cnt_q
    BY DEF Inv, TypeOK, PipelineCounted
  <2> QED BY <1>1, <2>1
<1>3. ~(ctrl_update(i))
  <2>1. ~data_req_ex \/ ~lsu_ready_ex(i)
    BY <1>1, Handshake DEF lsu_ready_ex, Inv, TypeOK, DEPTH
  <2> QED BY <2>1 DEF ctrl_update
<1>4. ctrl_q' = ctrl_q /\ rdata_q' = rdata_q
  BY <1>1, <1>3 DEF LsuCycle, rdata_next
<1>5. regfile_we_lsu' /\ regfile_waddr_lsu' = regfile_waddr_lsu
  BY <1>1 DEF LsuCycle, ExWb
<1>6. resp_rdata' = resp_rdata
  <2>1. granted' = granted \/ \E w : granted' = Append(granted, w)
    BY <1>1 DEF LsuCycle, DataMemory
  <2>2. granted' \in Seq(Word)
    BY TypeStep DEF TypeOK
  <2>3. granted' # <<>> /\ Head(granted') = Head(granted)
    BY <1>2, <2>1, <2>2
  <2> QED BY <1>2, <2>3 DEF resp_rdata
<1>7. data_rdata_ext(resp_rdata)' = data_rdata_ext(resp_rdata)
  BY <1>4, <1>6 DEF data_rdata_ext
<1> QED BY <1>5, <1>7

\* To the program the memory changes when a store is taken into EX, and then at
\* once and as a whole.
LEMMA MemoryOfStep ==
  ASSUME Inv, Transfers, NEW i \in Input, Cycle(i)
  PROVE  /\ Leaves(i) =>
              /\ mem' = ProgramMemory
              /\ ProgramMemory' =
                   IF i.issue # NoAccess /\ i.issue.we
                   THEN Stored(mem', Address(i.issue), i.issue.type, i.issue.wdata) ELSE mem'
         /\ ~Leaves(i) => ProgramMemory' = ProgramMemory
<1>1. CASE Leaves(i)
  <2>1. ~data_misaligned_o /\ ex_ready(i)
    BY <1>1 DEF Leaves
  <2>2. mem' = ProgramMemory
    <3>1. CASE data_req_ex /\ ex.we
      <4>1. /\ Start % 4 \in 0 .. 3 /\ ex.type \in {"word", "half", "byte"}
            /\ ~data_misaligned_ex => ~Crosses(ex.type, Start % 4)
        <5>1. Start \in ByteAddr /\ ex \in AccessOf(Nat)
              /\ (~data_misaligned_ex => ~Crosses(ex.type, Start % 4))
          BY <2>1, <3>1, Begins DEF Inv
        <5> QED BY <5>1, LoadStoreAssumption DEF ByteAddr, AccessOf
      <4>2. count_up(i) \/ cnt_q = 2
        BY <2>1, <3>1, Handshake
      <4>3. ASSUME NEW k \in 0 .. Size(ex.type) - 1
            PROVE  InPlace(k) \/ (count_up(i) /\ OfThisTransaction(k))
        <5>1. ~data_misaligned_ex => (Start % 4) + k < 4
          <6> HAVE ~data_misaligned_ex
          <6>1. k \in 0 .. (IF ex.type = "word" THEN 4 ELSE IF ex.type = "half" THEN 2 ELSE 1) - 1
            BY DEF Size
          <6>2. ~(ex.type = "word" /\ Start % 4 # 0) /\ ~(ex.type = "half" /\ Start % 4 = 3)
            BY <4>1 DEF Crosses
          <6> DEFINE o == Start % 4
          <6> HIDE DEF o
          <6>3. o \in 0 .. 3 /\ ~(ex.type = "word" /\ o # 0) /\ ~(ex.type = "half" /\ o = 3)
            BY <4>1, <6>2 DEF o
          <6>4. o + k < 4
            BY <4>1, <6>1, <6>3
          <6> QED BY <6>4 DEF o
        <5>2. CASE OfThisTransaction(k)
          BY <4>2, <5>2 DEF InPlace
        <5>3. CASE ~OfThisTransaction(k)
          <6>1. k \in Int
            BY <4>1 DEF Size
          <6>2. data_misaligned_ex
            <7> DEFINE j == (Start % 4) + k
            <7>1. j < 4 => ~(j >= 4)
              BY <4>1, <6>1
            <7> QED BY <5>1, <5>3, <7>1 DEF OfThisTransaction
          <6> QED BY <5>3, <6>2 DEF InPlace
        <5> QED BY <5>2, <5>3
      <4>4. \A k \in 0 .. Size(ex.type) - 1 : mem'[Place(Start, k)] = ex.wdata[k]
        BY <3>1, <4>3, StoreStep
      <4>5. mem' = Stored(mem, Start, ex.type, ex.wdata)
        BY <3>1, <4>4, StoreStep
      <4> QED BY <3>1, <4>5 DEF ProgramMemory
    <3>2. CASE data_req_ex /\ ~ex.we
      BY <3>2, LoadLeaves DEF ProgramMemory
    <3>3. CASE ~data_req_ex
      BY <3>3 DEF ProgramMemory, Cycle, LsuCycle, DataMemory, trans_valid
    <3> QED BY <3>1, <3>2, <3>3
  <2>3. ex' = i.issue /\ ~data_misaligned_ex'
    BY <2>1, NextAccess
  <2>4. Start' = Address(i.issue)
    BY <2>3 DEF Start, data_addr_int
  <2>5. ProgramMemory' =
          IF i.issue # NoAccess /\ i.issue.we
          THEN Stored(mem', Address(i.issue), i.issue.type, i.issue.wdata) ELSE mem'
    BY <2>3, <2>4 DEF ProgramMemory, data_req_ex
  <2> QED BY <1>1, <2>2, <2>5
<1>2. CASE ~Leaves(i)
  <2> SUFFICES ProgramMemory' = ProgramMemory
    BY <1>2
  <2>1. CASE data_req_ex
    <3>1. /\ data_req_ex' /\ Start' = Start /\ ex'.we = ex.we
          /\ ex'.type = ex.type /\ ex'.wdata = ex.wdata
      BY <1>2, <2>1, SameAccess DEF Leaves
    <3>2. ProgramMemory' = IF ex.we THEN Stored(mem', Start, ex.type, ex.wdata) ELSE mem'
      BY <3>1 DEF ProgramMemory, Stored
    <3>3. CASE ex.we
      BY <2>1, <3>2, <3>3, StoreStep DEF ProgramMemory
    <3>4. CASE ~ex.we
      BY <2>1, <3>2, <3>4, LoadLeaves DEF ProgramMemory
    <3> QED BY <3>3, <3>4
  <2>2. CASE ~data_req_ex
    <3>1. ~data_misaligned_o /\ ~ex_ready(i)
      BY <1>2, <2>2 DEF Leaves, data_misaligned_o
    <3>2. ex' = ex
      BY <2>2, <3>1, NextAccess
    <3>3. mem' = mem
      BY <2>2 DEF Cycle, LsuCycle, DataMemory, trans_valid
    <3> QED BY <2>2, <3>2, <3>3 DEF ProgramMemory, data_req_ex
  <2> QED BY <2>1, <2>2
<1> QED BY <1>1, <1>2

\* The values of the loads move on from EX to WB, and from WB to the register
\* file, in order.
LEMMA ValuesOfStep ==
  ASSUME Inv, Transfers, NEW i \in Input, Cycle(i), i.units_ready = i.ready
  PROVE  /\ Delivers(i) =>
              InWb = <<[rd |-> regfile_waddr_lsu, value |-> data_rdata_ext(resp_rdata)]>>
         /\ Leaves(i) => /\ ~Delivers(i) => InWb = <<>>
                         /\ InWb' = InEx
                         /\ InEx' = IF i.issue = NoAccess \/ i.issue.we THEN <<>>
                                    ELSE <<[rd |-> i.issue.rd,
                                            value |-> Loaded(mem', Address(i.issue),
                                                             i.issue.type, i.issue.sign)]>>
         /\ ~Leaves(i) => /\ InWb' = IF Delivers(i) THEN <<>> ELSE InWb
                          /\ InEx' = InEx
<1> USE DEF Input
<1>1. LsuCycle(i)
  BY DEF Cycle
<1>2. Delivers(i) => InWb = <<[rd |-> regfile_waddr_lsu, value |-> data_rdata_ext(resp_rdata)]>>
  BY DEF Delivers, InWb
<1>3. CASE Leaves(i)
  <2>1. ~data_misaligned_o /\ ex_ready(i) /\ lsu_ready_ex(i) /\ lsu_ready_wb(i) /\ i.units_ready
    BY <1>3 DEF Leaves, ex_ready
  <2>2. ~Delivers(i) => InWb = <<>>
    BY <2>1 DEF Delivers, InWb
  <2>3. ex' = i.issue /\ ~data_misaligned_ex'
    BY <2>1, NextAccess
  <2>4. InWb' = InEx
    <3>1. CASE data_req_ex /\ ~ex.we
      <4>1. regfile_we_lsu' /\ regfile_waddr_lsu' = ex.rd
        BY <1>1, <2>1, <3>1 DEF LsuCycle, ExWb
      <4>2. data_rdata_ext(resp_rdata)' = Loaded(mem, Start, ex.type, ex.sign)
        BY <1>3, <3>1, LoadAssembled
      <4> QED BY <2>3, <3>1, <4>1, <4>2 DEF InWb, InEx
    <3>2. CASE ~(data_req_ex /\ ~ex.we)
      <4>1. ~regfile_we_lsu'
        BY <1>1, <2>1, <3>2 DEF LsuCycle, ExWb
      <4> QED BY <3>2, <4>1 DEF InWb, InEx
    <3> QED BY <3>1, <3>2
  <2>5. InEx' = IF i.issue = NoAccess \/ i.issue.we THEN <<>>
                ELSE <<[rd |-> i.issue.rd, value |-> Loaded(mem', Address(i.issue),
                                                            i.issue.type, i.issue.sign)]>>
    <3>1. Start' = Address(i.issue)
      BY <2>3 DEF Start, data_addr_int
    <3> QED BY <2>3, <3>1 DEF InEx, data_req_ex, Loaded, ByteAt
  <2> QED BY <1>2, <1>3, <2>2, <2>4, <2>5
<1>4. CASE ~Leaves(i)
  <2>1. InEx' = InEx
    <3>1. CASE data_req_ex
      <4>1. /\ data_req_ex' /\ Start' = Start /\ ex'.we = ex.we
            /\ ex'.type = ex.type /\ ex'.sign = ex.sign /\ ex'.rd = ex.rd
        BY <1>4, <3>1, SameAccess DEF Leaves
      <4>2. ~ex.we => mem' = mem
        BY <3>1, LoadLeaves
      <4> QED BY <3>1, <4>1, <4>2 DEF InEx, Loaded, ByteAt
    <3>2. CASE ~data_req_ex
      <4>1. ~data_misaligned_o /\ ~ex_ready(i)
        BY <1>4, <3>2 DEF Leaves, data_misaligned_o
      <4>2. ex' = ex
        BY <3>2, <4>1, NextAccess
      <4> QED BY <3>2, <4>2 DEF InEx, data_req_ex
    <3> QED BY <3>1, <3>2
  <2>2. InWb' = IF Delivers(i) THEN <<>> ELSE InWb
    <3>1. CASE ex_ready(i)
      <4>1. data_misaligned_o /\ data_req_ex /\ lsu_ready_wb(i)
        BY <1>4, <3>1 DEF Leaves, data_misaligned_o, ex_ready
      <4>2. data_misaligned_ex' /\ ~data_misaligned_ex
        BY <3>1, <4>1, SameAccess
      <4> QED BY <4>1, <4>2 DEF InWb, Delivers
    <3>2. CASE ~ex_ready(i)
      <4>1. data_misaligned_ex' = data_misaligned_ex
        BY <1>1, <3>2 DEF LsuCycle, IdEx
      <4>2. ~data_req_ex \/ ~lsu_ready_ex(i)
        BY <3>2, Handshake
      <4>3. regfile_we_lsu' = (regfile_we_lsu /\ ~lsu_ready_wb(i))
        BY <1>1, <4>2 DEF LsuCycle, ExWb
      <4>4. CASE regfile_we_lsu /\ ~lsu_ready_wb(i)
        BY <4>1, <4>4, LoadWaits DEF InWb, Delivers
      <4>5. CASE ~(regfile_we_lsu /\ ~lsu_ready_wb(i))
        BY <4>1, <4>3, <4>5 DEF InWb, Delivers
      <4> QED BY <4>4, <4>5
    <3> QED BY <3>1, <3>2
  <2> QED BY <1>2, <1>4, <2>1, <2>2
<1> QED BY <1>3, <1>4

\* The head and the tail of a sequence put together from them.
LEMMA HeadThenRest ==
  ASSUME NEW S, NEW x \in S, NEW s \in Seq(S)
  PROVE  /\ <<x>> \o s # <<>>
         /\ Head(<<x>> \o s) = x
         /\ Tail(<<x>> \o s) = s
<1> DEFINE t == <<x>> \o s
<1>1. /\ t \in Seq(S) /\ Len(t) = 1 + Len(s) /\ t[1] = x
      /\ \A j \in 1 .. Len(s) : t[1 + j] = s[j]
  BY LenProperties
<1> HIDE DEF t
<1>2. Len(s) \in Nat /\ t # <<>>
  BY <1>1
<1>3. /\ Head(t) = t[1] /\ Tail(t) \in Seq(S) /\ Len(Tail(t)) = Len(t) - 1
      /\ \A j \in 1 .. Len(Tail(t)) : Tail(t)[j] = t[j + 1]
  BY <1>1, <1>2, HeadTailProperties
<1>4. Tail(t) = s
  <2>1. Len(Tail(t)) = Len(s)
    BY <1>1, <1>2, <1>3
  <2>2. \A j \in 1 .. Len(s) : Tail(t)[j] = s[j]
    <3> TAKE j \in 1 .. Len(s)
    <3>1. j + 1 = 1 + j /\ t[1 + j] = s[j]
      BY <1>1, <1>2
    <3>2. Tail(t)[j] = t[j + 1]
      BY <1>3, <2>1
    <3> QED BY <3>1, <3>2
  <2> QED BY <1>3, <2>1, <2>2, SeqEqual
<1> QED BY <1>1, <1>2, <1>3, <1>4 DEF t

\* AtomicMemory sees addresses, loads and stores as the unit does.
LEMMA SameAccesses ==
  /\ Memory!ByteAddr = ByteAddr /\ Memory!Byte = Byte /\ Memory!Word = Word
  /\ \A acc : Memory!Address(acc) = Address(acc)
  /\ \A m, a, type, sign : Memory!Loaded(m, a, type, sign) = Loaded(m, a, type, sign)
  /\ \A m, a, type, data : Memory!Stored(m, a, type, data) = Stored(m, a, type, data)
BY DEF Memory!ByteAddr, Memory!Byte, Memory!Word, Memory!Lane, Memory!Address, Memory!Loaded,
       Memory!Stored, Memory!ByteAt, Memory!Size, Memory!Fill,
       ByteAddr, Byte, Word, Lane, Address, Loaded, Stored, ByteAt, Size, Fill

\* Every clock cycle is a step of AtomicMemory, or changes nothing there.
LEMMA CycleIsMemory ==
  ASSUME Inv, Transfers, NEW i \in Input, Cycle(i), i.units_ready = i.ready
  PROVE  Memory!Next
<1> USE DEF Input
<1> DEFINE acc == IF Leaves(i) THEN i.issue ELSE NoAccess
<1> DEFINE todo == InWb \o InEx
<1>1. acc \in Access \cup {NoAccess}
  OBVIOUS
<1>2. Memory!Perform(acc)
  <2>1. ProgramMemory' = IF acc # NoAccess /\ acc.we
                         THEN Stored(ProgramMemory, Address(acc), acc.type, acc.wdata)
                         ELSE ProgramMemory
    BY MemoryOfStep
  <2> QED BY <2>1, SameAccesses DEF Memory!Perform
<1>3. (InEx = <<>> \/ \E v : InEx = <<v>>) /\ (InWb = <<>> \/ \E v : InWb = <<v>>)
  BY DEF InEx, InWb
<1>4. Memory!Result(acc) =
        IF acc = NoAccess \/ acc.we THEN <<>>
        ELSE <<[rd |-> acc.rd, value |-> Loaded(ProgramMemory, Address(acc), acc.type, acc.sign)]>>
  BY SameAccesses DEF Memory!Result
<1>5. todo' = IF Delivers(i) THEN InEx \o Memory!Result(acc) ELSE todo \o Memory!Result(acc)
  <2>1. CASE Leaves(i)
    <3>1. InWb' = InEx /\ InEx' = Memory!Result(acc)
      BY <1>4, <2>1, ValuesOfStep, MemoryOfStep
    <3>2. <<>> \o InEx = InEx
      BY <1>3
    <3>3. ~Delivers(i) => todo = InEx
      BY <2>1, <3>2, ValuesOfStep
    <3>4. todo' = InEx \o Memory!Result(acc)
      BY <3>1
    <3> QED BY <3>3, <3>4
  <2>2. CASE ~Leaves(i)
    <3>1. Memory!Result(acc) = <<>>
      BY <1>4, <2>2
    <3>2. todo \o <<>> = todo /\ InEx \o <<>> = InEx /\ <<>> \o InEx = InEx
      BY <1>3
    <3>3. InEx' = InEx /\ InWb' = IF Delivers(i) THEN <<>> ELSE InWb
      BY <2>2, ValuesOfStep
    <3> QED BY <3>1, <3>2, <3>3
  <2> QED BY <2>1, <2>2
<1>6. CASE ~Delivers(i)
  <2>1. UNCHANGED out
    BY <1>6 DEF Cycle, LsuCycle, WriteBack, Delivers
  <2>2. Memory!Issue(acc)
    BY <1>2, <1>5, <1>6, <2>1 DEF Memory!Issue
  <2> QED BY <1>1, <2>2 DEF Memory!Next
<1>7. CASE Delivers(i)
  <2> DEFINE h == [rd |-> regfile_waddr_lsu, value |-> data_rdata_ext(resp_rdata)]
  <2>1. out' = [rd |-> regfile_waddr_lsu, value |-> data_rdata_ext(resp_rdata),
                seq |-> 1 - out.seq]
    BY <1>7 DEF Cycle, LsuCycle, WriteBack, Delivers
  <2>2. InWb = <<h>>
    BY <1>7, ValuesOfStep
  <2>3. todo # <<>> /\ Head(todo) = h /\ Tail(todo) = InEx
    <3> HIDE DEF h
    <3> HIDE DEF h
    <3>1. PICK S : h \in S /\ InEx \in Seq(S)
      <4>1. CASE InEx = <<>>
        <5>1. h \in {h} /\ InEx \in Seq({h})
          BY <4>1
        <5> QED BY <5>1
      <4>2. ASSUME NEW v, InEx = <<v>> PROVE \E S : h \in S /\ InEx \in Seq(S)
        <5>1. h \in {h, v} /\ InEx \in Seq({h, v})
          BY <4>2
        <5> QED BY <5>1
      <4> QED BY <1>3, <4>1, <4>2
    <3> QED BY <2>2, <3>1, HeadThenRest
  <2>4. h.rd = regfile_waddr_lsu /\ h.value = data_rdata_ext(resp_rdata)
    OBVIOUS
  <2> HIDE DEF h, acc
  <2>5. out' = [rd |-> Head(todo).rd, value |-> Head(todo).value, seq |-> 1 - out.seq]
    BY <2>1, <2>3, <2>4
  <2>6. todo' = Tail(todo) \o Memory!Result(acc)
    BY <1>5, <1>7, <2>3
  <2>7. Memory!IssueAndWriteBack(acc)
    BY <1>2, <2>3, <2>5, <2>6 DEF Memory!IssueAndWriteBack
  <2> QED BY <1>1, <2>7 DEF Memory!Next
<1> QED BY <1>6, <1>7

\* A stuttering step keeps what has been transferred in its place.
LEMMA TransfersStutter ==
  ASSUME Transfers, UNCHANGED vars
  PROVE  Transfers' /\ UNCHANGED Memory!vars
<1>1. /\ ex' = ex /\ data_misaligned_ex' = data_misaligned_ex /\ cnt_q' = cnt_q
      /\ ctrl_q' = ctrl_q /\ rdata_q' = rdata_q /\ mem' = mem /\ granted' = granted
      /\ regfile_we_lsu' = regfile_we_lsu /\ regfile_waddr_lsu' = regfile_waddr_lsu
      /\ out' = out
  BY DEF vars, lsuVars
<1>2. Start' = Start /\ data_addr_int' = data_addr_int /\ data_req_ex' = data_req_ex
  BY <1>1 DEF Start, data_addr_int, data_req_ex
<1>3. \A k : InPlace(k)' = InPlace(k)
  BY <1>1, <1>2 DEF InPlace, OfThisTransaction
<1>4. Transfers'
  BY <1>1, <1>2, <1>3 DEF Transfers, Place, WordAt
<1>5. ProgramMemory' = ProgramMemory /\ InEx' = InEx
  BY <1>1, <1>2 DEF ProgramMemory, InEx
<1>6. InWb' = InWb
  BY <1>1 DEF InWb, data_rdata_ext, resp_rdata
<1> QED BY <1>1, <1>4, <1>5, <1>6 DEF Memory!vars

\* LoadStore implements AtomicMemory: whatever the alignment, the grants, the
\* responses and the stalls, every load and store takes effect exactly once, as a
\* whole and in program order, and every load delivers what it read, in order.
THEOREM AccessesAreAtomic == Spec => ImplementsMemory
<1>1. Init => Transfers /\ Memory!Init
  <2> HAVE Init
  <2>1. ex = NoAccess /\ ~data_misaligned_ex /\ ~regfile_we_lsu
    BY DEF Init, LsuInit
  <2>2. Transfers
    BY <2>1 DEF Transfers, data_req_ex
  <2>3. ProgramMemory = mem /\ InWb = <<>> /\ InEx = <<>>
    BY <2>1 DEF ProgramMemory, InWb, InEx, data_req_ex
  <2>4. TypeOK
    BY InitOK DEF Inv
  <2>5. InWb \o InEx = <<>>
    BY <2>3
  <2> QED BY <2>2, <2>3, <2>4, <2>5, SameAccesses DEF Memory!Init, TypeOK
<1>2. Inv /\ Transfers /\ [Next]_vars => Transfers' /\ [Memory!Next]_(Memory!vars)
  <2> SUFFICES ASSUME Inv, Transfers, [Next]_vars
               PROVE  Transfers' /\ [Memory!Next]_(Memory!vars)
    OBVIOUS
  <2>1. CASE Next
    <3>1. PICK i \in Input : Cycle(i) /\ i.units_ready = i.ready
      BY <2>1, NextIsCycle
    <3> QED BY <3>1, TransfersStep, CycleIsMemory
  <2>2. CASE UNCHANGED vars
    BY <2>2, TransfersStutter
  <2> QED BY <2>1, <2>2
<1> QED BY <1>1, <1>2, InductiveInvariant, PTL DEF Spec, ImplementsMemory, Memory!Spec
=============================================================================
