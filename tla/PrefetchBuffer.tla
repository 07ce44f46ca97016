--------------------------- MODULE PrefetchBuffer ---------------------------
(***************************************************************************)
(* cv32e40p_prefetch_buffer: prefetch controller, fetch FIFO and OBI       *)
(* interface, between the fetch stage and the instruction memory.  Every   *)
(* action is one clock cycle of all three.  The memory answers granted     *)
(* requests in order, at the earliest one cycle after the grant; the word  *)
(* it returns is identified with its address.                              *)
(***************************************************************************)
EXTENDS PrefetchController, Sequences

ASSUME BufferAssumption ==
  /\ DEPTH > 1           \* a_fifo_depth_gt_1
  /\ POINTERS = DEPTH    \* "FIFO_DEPTH must be a power of 2"
  /\ FALL_THROUGH = FALSE
  /\ Word = Addr \cup {Zero} /\ Zero \notin Addr

VARIABLES
  obi_state_q, obi_q,  \* the OBI interface
  granted,   \* instruction memory: requests granted and not yet answered
  waiting,   \* instruction memory: the request it sees but has not granted
  awaiting,  \* fetch stage: where the next word stands in the program
  out,       \* fetch stage: the word it accepted last
  asked,     \* history: the change of flow the fetch stage asked for last cycle
  next,      \* history: the next word of the path it asked for and accepted
  after      \* history: the word after that one

Obi == INSTANCE ObiInterface WITH Trans <- Addr, ResetTrans <- 0

Stream == INSTANCE FetchStream

pathVars == <<asked, next, after>>
vars == <<fifoVars, controllerVars, obi_state_q, obi_q,
          granted, waiting, awaiting, out, pathVars>>

Init ==
  /\ FifoInit
  /\ ControllerInit
  /\ Obi!ObiInit
  /\ granted = <<>>
  /\ waiting = {}
  /\ awaiting = "boot"
  /\ out = [word |-> 0, seq |-> 0]
  /\ asked = Stream!NoChange /\ next = 0 /\ after = Succ(0)

-----------------------------------------------------------------------------
resp_rdata == IF granted = <<>> THEN Zero ELSE Head(granted)

\* First pop from the FIFO; if it is empty, fall through it.
fetch_rdata_o == IF fifo_valid THEN data_o(FALSE, Zero) ELSE {resp_rdata}

fetched(i) == i.fetch_ready /\ fetch_valid_o(i)

\* The memory accepts at most one request and returns at most one word.
Memory(i, gnt) ==
  LET req  == Obi!obi_req_o(trans_valid_o(i))
      addr == Obi!obi_trans_o(trans_addr_o(i))
      left == IF i.resp_valid THEN Tail(granted) ELSE granted
  IN  /\ granted' = IF req /\ gnt THEN Append(left, addr) ELSE left
      /\ waiting' = IF req /\ ~gnt THEN {addr} ELSE {}

\* "line": the word in front of the next one is in ID, so it may turn out to be
\* HWLP_END-4.  "loop_end": a loop jump was signalled, HWLP_END comes next.
FetchStage(i) ==
  /\ awaiting' = IF i.branch \/ (i.hwlp_jump /\ fetched(i)) THEN "target"
                 ELSE IF i.hwlp_jump THEN "loop_end"
                 ELSE IF ~fetched(i) THEN awaiting
                 ELSE IF awaiting = "loop_end" THEN "target" ELSE "line"
  /\ IF fetched(i)
       THEN \E w \in fetch_rdata_o : out' = [word |-> w, seq |-> 1 - out.seq]
       ELSE UNCHANGED out

\* The program's path, from the inputs and the handshake of the fetch stage
\* alone: nothing the prefetch buffer stores or requests has a part in it.
FollowPath(i) ==
  LET successor == IF i.hwlp_jump THEN i.hwlp_target ELSE after
  IN  /\ asked' = IF i.branch THEN Stream!ToBranch(i.branch_addr)
                  ELSE IF i.hwlp_jump THEN Stream!ToLoop(i.hwlp_target)
                  ELSE Stream!NoChange
      /\ IF i.branch THEN next' = i.branch_addr /\ after' = Succ(i.branch_addr)
         ELSE IF fetched(i) THEN next' = successor /\ after' = Succ(successor)
         ELSE next' = next /\ after' = successor

Cycle(i, gnt) ==
  /\ ControllerCycle(i)
  /\ FifoCycle(fifo_flush_o(i), fifo_flush_but_first_o(i),
               fifo_push_o(i), fifo_pop_o(i), resp_rdata)
  /\ Obi!ObiCycle(trans_valid_o(i), trans_addr_o(i), gnt)
  /\ Memory(i, gnt)
  /\ FetchStage(i)
  /\ FollowPath(i)

-----------------------------------------------------------------------------
(* The inputs of a cycle.  if_stage raises fetch_ready_i only for a valid  *)
(* word, with req_i and without a branch; the core fetches (req_i) in every*)
(* cycle it branches, and does not fetch before it branches to the boot    *)
(* address; a loop jump is signalled once, while HWLP_END-4 is in ID, and  *)
(* never together with a branch.                                           *)

Quiet(req, ready, resp) ==
  [req |-> req, branch |-> FALSE, branch_addr |-> 0,
   hwlp_jump |-> FALSE, hwlp_target |-> 0,
   fetch_ready |-> ready, trans_ready |-> Obi!trans_ready_o, resp_valid |-> resp]

Returns(resp) == resp => granted # <<>>

Branch(a, resp, gnt) ==
  /\ Returns(resp)
  /\ Cycle([Quiet(TRUE, FALSE, resp) EXCEPT !.branch = TRUE, !.branch_addr = a], gnt)

HwlpJump(a, ready, resp, gnt) ==
  /\ COREV_PULP /\ awaiting = "line"
  /\ Returns(resp)
  /\ LET i == [Quiet(TRUE, ready, resp) EXCEPT !.hwlp_jump = TRUE, !.hwlp_target = a]
     IN  /\ ready => fetch_valid_o(i)
         /\ Cycle(i, gnt)

Fetch(req, ready, resp, gnt) ==
  /\ Returns(resp)
  /\ awaiting = "boot" => ~req
  /\ ready => req /\ fetch_valid_o(Quiet(req, ready, resp))
  /\ Cycle(Quiet(req, ready, resp), gnt)

Next ==
  \E resp, gnt \in BOOLEAN :
    \/ \E a \in Addr : Branch(a, resp, gnt)
    \/ \E a \in Addr, ready \in BOOLEAN : HwlpJump(a, ready, resp, gnt)
    \/ \E req, ready \in BOOLEAN : Fetch(req, ready, resp, gnt)

Spec == Init /\ [][Next]_vars

-----------------------------------------------------------------------------
(* Invariants. *)

PathTypeOK ==
  /\ asked \in [kind : {"none", "branch", "loop"}, target : Addr]
  /\ next \in Addr /\ after \in Addr

TypeOK ==
  /\ FifoTypeOK
  /\ ControllerTypeOK
  /\ Obi!ObiTypeOK
  /\ granted \in Seq(Addr)
  /\ waiting \in SUBSET Addr
  /\ awaiting \in {"boot", "target", "line", "loop_end"}
  /\ out \in [word : Word, seq : {0, 1}]
  /\ PathTypeOK

\* cnt_q is the number of transactions the memory still has to answer, the one
\* that waits for its grant in the OBI interface included.  It is what lets
\* busy_o keep the clock running until the last response is in.
OutstandingCounted ==
  cnt_q = Len(granted) + (IF obi_state_q = "REGISTERED" THEN 1 ELSE 0)

\* Every response that is still wanted has a free slot in the FIFO, whatever
\* mixture of flushes the branches and loop jumps have left pending.
RoomForResponses ==
  cnt_q - flush_cnt_q <= DEPTH - status_cnt_q

\* Responses are only ever discarded for requests of the abandoned path: the
\* flush counters never exceed what is outstanding.
FlushesBounded ==
  /\ flush_cnt_q <= cnt_q
  /\ hwlp_flush_after_resp =>
       /\ hwlp_flush_cnt_delayed_q < cnt_q
       /\ flush_cnt_q = 0 /\ status_cnt_q = 0

\* p_hwlp_end_already_gnt_when_hwlp_branch: when a loop jump can be signalled,
\* HWLP_END has been requested already, or the jump would overtake it.
HwlpEndRequested ==
  awaiting = "line" => cnt_q > flush_cnt_q \/ status_cnt_q > 0

\* OBI: a request that waits for its grant is neither retracted nor changed.
RequestStable ==
  [][waiting # {} =>
       \/ waiting' = waiting
       \/ granted' # <<>> /\ {granted'[Len(granted')]} = waiting]_vars

-----------------------------------------------------------------------------
\* Every word the fetch stage accepts is the next word of the path that its own
\* branches and loop jumps describe: the newest target, then its successors; no
\* word of an abandoned path, none twice, none left out, in whatever order
\* grants, responses, branches, loop jumps and stalls fall.
ImplementsStream == Stream!Spec

-----------------------------------------------------------------------------
(* Liveness, while the fetch stage keeps requesting and takes words, and   *)
(* the memory neither withholds a grant nor a response for ever.           *)

AwakeCycle(resp, gnt) ==
  \/ \E a \in Addr : Branch(a, resp, gnt)
  \/ \E a \in Addr, ready \in BOOLEAN : HwlpJump(a, ready, resp, gnt)
  \/ \E ready \in BOOLEAN : Fetch(awaiting # "boot", ready, resp, gnt)

Awake == \E resp, gnt \in BOOLEAN : AwakeCycle(resp, gnt)

Grants == waiting # {} /\ \E resp \in BOOLEAN : AwakeCycle(resp, TRUE)
Responds == \E gnt \in BOOLEAN : AwakeCycle(TRUE, gnt)
Takes == Awake /\ out' # out

FairSpec ==
  /\ Init /\ [][Awake]_vars
  /\ WF_vars(Awake) /\ WF_vars(Grants) /\ WF_vars(Responds) /\ WF_vars(Takes)

\* Once booted, the fetch stage is handed words for ever, or branches for ever:
\* no mixture of flushes and full FIFO leaves the prefetcher waiting for itself.
KeepsFetching ==
  \/ []<>(awaiting = "boot")
  \/ []<><<\E resp, gnt \in BOOLEAN, a \in Addr : Branch(a, resp, gnt)>>_vars
  \/ []<><<out' # out>>_vars
=============================================================================
