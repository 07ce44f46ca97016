---------------------------- MODULE ApuDispatcher ----------------------------
(***************************************************************************)
(* cv32e40p_apu_disp: sends the operation in EX to the APU (the FPU),      *)
(* remembers the registers of the two operations that may be outstanding,  *)
(* and tells ID and EX when they have to wait.  The operation in EX is     *)
(* req = [en, lat, waddr], a signal that depends on the APU has its        *)
(* handshake as arguments.                                                 *)
(***************************************************************************)
EXTENDS Naturals

CONSTANTS
  Reg,   \* registers but x0
  x0,
  None   \* no register: the write enable or valid bit is 0

ASSUME RegAssumption == x0 \notin Reg /\ None \notin Reg \cup {x0}

Dest == Reg \cup {x0, None}
Lat == 1 .. 3  \* apu_lat_i: one cycle, two, more

VARIABLES
  addr_inflight,  \* youngest outstanding operation, None if ~valid_inflight
  addr_waiting,   \* older one, None if ~valid_waiting
  apu_lat         \* latency of the last request, 0 after reset

apuVars == <<addr_inflight, addr_waiting, apu_lat>>

ApuInit == addr_inflight = None /\ addr_waiting = None /\ apu_lat = 0

valid_inflight == addr_inflight # None
valid_waiting == addr_waiting # None
active == valid_inflight \/ valid_waiting

stall_full == valid_inflight /\ valid_waiting

\* A younger operation must not overtake an older one.
stall_type(req) ==
  req.en /\ active /\ (req.lat \in {1, 3} \/ (req.lat = 2 /\ apu_lat = 3))

valid_req(req) == req.en /\ ~stall_full /\ ~stall_type(req)

stall_o(req, gnt) ==
  stall_full \/ stall_type(req) \/ (valid_req(req) /\ ~gnt)

returned_req(req, rvalid) == valid_req(req) /\ rvalid /\ ~active
returned_inflight(rvalid) == valid_inflight /\ rvalid /\ ~valid_waiting
returned_waiting(rvalid) == valid_waiting /\ rvalid

apu_waddr_o(req, rvalid) ==
  IF returned_waiting(rvalid) THEN addr_waiting
  ELSE IF returned_inflight(rvalid) THEN addr_inflight
  ELSE IF returned_req(req, rvalid) THEN req.waddr
  ELSE x0

apu_singlecycle == ~active
apu_multicycle == apu_lat = 3

\* A register some operation will still write: the address registers are only
\* compared when valid.
dep(req, rvalid, regs) ==
  \/ valid_req(req) /\ ~returned_req(req, rvalid) /\ req.waddr \in regs
  \/ ~returned_inflight(rvalid) /\ addr_inflight \in regs
  \/ ~returned_waiting(rvalid) /\ addr_waiting \in regs

\* A jalr reads the register file: it also waits for a result that returns now.
dep_for_jalr(req, regs) ==
  \/ req.en /\ req.waddr \in regs
  \/ addr_inflight \in regs
  \/ addr_waiting \in regs

ApuCycle(req, gnt, rvalid) ==
  LET accepted == valid_req(req) /\ gnt /\ ~returned_req(req, rvalid)
  IN  /\ addr_inflight' = IF accepted THEN req.waddr
                          ELSE IF returned_inflight(rvalid) THEN None
                          ELSE addr_inflight
      /\ addr_waiting' = IF accepted
                           THEN IF \/ valid_inflight /\ ~returned_inflight(rvalid)
                                   \/ returned_waiting(rvalid)
                                  THEN addr_inflight ELSE addr_waiting
                         ELSE IF returned_inflight(rvalid) \/ returned_waiting(rvalid)
                           THEN None ELSE addr_waiting
      /\ apu_lat' = IF valid_req(req) THEN req.lat ELSE apu_lat
=============================================================================
