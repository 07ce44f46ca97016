------------------------------ MODULE LoadStore ------------------------------
(***************************************************************************)
(* The load/store unit in a core without an FPU (FPU = 0), with any        *)
(* program of loads, stores and other instructions, and a data memory that *)
(* grants and answers when it likes, in order.                             *)
(***************************************************************************)
EXTENDS LoadStoreUnit

CONSTANT ResetMemory  \* what the data memory may hold at reset

ASSUME ResetMemoryAssumption == ResetMemory \subseteq [ByteAddr -> Byte]

VARIABLE waiting  \* data memory: the request it saw in the last cycle and did not grant

vars == <<lsuVars, waiting>>

Init == LsuInit /\ mem \in ResetMemory /\ waiting = {}

\* The address phase of a transaction.
request ==
  [addr |-> data_addr_int, we |-> ex.we, be |-> data_be, wdata |-> data_wdata]

\* A load or store uses the ALU for its address only: no other unit holds EX.
Cycle(i) ==
  /\ i.resp_valid => granted # <<>>
  /\ data_req_ex => i.ready
  /\ LsuCycle(i)
  /\ waiting' = IF trans_valid(i) /\ ~i.gnt THEN {request} ELSE {}

In(ready, gnt, resp, acc) ==
  [ready |-> ready, units_ready |-> ready, gnt |-> gnt, resp_valid |-> resp, issue |-> acc]

\* ID hands over a load or store when EX can take it, or another instruction.
IssueAccess(acc, ready, gnt, resp) ==
  /\ ~data_misaligned_o /\ ex_ready(In(ready, gnt, resp, acc))
  /\ Cycle(In(ready, gnt, resp, acc))

NoIssue(ready, gnt, resp) == Cycle(In(ready, gnt, resp, NoAccess))

Next ==
  \E ready, gnt, resp \in BOOLEAN :
    \/ \E acc \in Access : IssueAccess(acc, ready, gnt, resp)
    \/ NoIssue(ready, gnt, resp)

Spec == Init /\ [][Next]_vars

-----------------------------------------------------------------------------
TypeOK ==
  /\ ex \in AccessOf(Nat) \cup {NoAccess}
  /\ data_misaligned_ex \in BOOLEAN
  /\ cnt_q \in 0 .. DEPTH
  /\ ctrl_q \in [type : {"word", "half", "byte"}, offset : Lane,
                 sign : {"zero", "ones", "sign"}, we : BOOLEAN]
  /\ rdata_q \in Word
  /\ regfile_we_lsu \in BOOLEAN /\ regfile_waddr_lsu \in Reg
  /\ mem \in [ByteAddr -> Byte]
  /\ granted \in Seq(Word)
  /\ out \in [rd : Reg, value : Word, seq : {0, 1}]

\* cnt_q counts the responses the memory still owes (p_no_spurious_rvalid,
\* busy_o), a load waits in WB exactly while its response does, and the second
\* slot is only ever used by the access that EX still holds.
PipelineCounted ==
  /\ cnt_q = Len(granted)
  /\ regfile_we_lsu => cnt_q > 0
  /\ cnt_q = 2 => data_req_ex

\* data_req_o "will stay high until data_gnt_i is high" (load_store_unit.rst),
\* with a stable address phase, although the signals come from EX unregistered.
\* The legacy mode PULP_OBI does not promise it.
RequestStable ==
  ~PULP_OBI /\ waiting # {} =>
    data_req_ex /\ cnt_q < DEPTH /\ waiting = {request}

-----------------------------------------------------------------------------
(* The program's memory is the data memory with the store in EX completed; *)
(* the values on their way are that of the load in WB, then that of EX.    *)

\* Where the access in EX began, also when it performs its second transaction.
Start == IF data_misaligned_ex THEN (data_addr_int + 4 * WORDS - 4) % (4 * WORDS)
         ELSE data_addr_int

ProgramMemory ==
  IF data_req_ex /\ ex.we THEN Stored(mem, Start, ex.type, ex.wdata) ELSE mem

InWb ==
  IF regfile_we_lsu /\ ~data_misaligned_ex
    THEN <<[rd |-> regfile_waddr_lsu, value |-> data_rdata_ext(resp_rdata)]>>
    ELSE <<>>

InEx ==
  IF data_req_ex /\ ~ex.we
    THEN <<[rd |-> ex.rd, value |-> Loaded(mem, Start, ex.type, ex.sign)]>>
    ELSE <<>>

Memory == INSTANCE AtomicMemory WITH mem <- ProgramMemory, todo <- InWb \o InEx

\* Every load and store takes effect exactly once, whole and in program order,
\* whatever the alignment and however grants, responses and stalls fall; every
\* load delivers its value to its register.
ImplementsMemory == Memory!Spec

-----------------------------------------------------------------------------
(* Liveness, with a memory that neither withholds a grant nor a response   *)
(* for ever.                                                               *)

ReadyCycle(gnt, resp) ==
  \/ \E acc \in Access : IssueAccess(acc, TRUE, gnt, resp)
  \/ NoIssue(TRUE, gnt, resp)

FairSpec ==
  /\ Spec
  /\ WF_vars(\E resp \in BOOLEAN : ReadyCycle(TRUE, resp))
  /\ WF_vars(\E gnt \in BOOLEAN : ReadyCycle(gnt, TRUE))
  /\ WF_vars(\E gnt, resp \in BOOLEAN : ReadyCycle(gnt, resp))

\* A load or store never stays in EX for ever: EX and WB do not wait for each
\* other when both outstanding slots are taken.
AccessesFinish ==
  \/ []<>(~data_req_ex)
  \/ []<><<\E acc \in Access, ready, gnt, resp \in BOOLEAN :
            IssueAccess(acc, ready, gnt, resp)>>_vars
=============================================================================
