---------------------------- MODULE ObiInterface ----------------------------
(***************************************************************************)
(* cv32e40p_obi_interface with TRANS_STABLE = 0, as the prefetch buffer    *)
(* uses it: it accepts one transaction ahead of its grant and keeps the    *)
(* OBI address phase stable until that grant.  A transaction stands for    *)
(* all the address-phase signals (addr, we, be, wdata, atop).  The response*)
(* channel is wired through.                                               *)
(***************************************************************************)
CONSTANTS
  Trans,      \* transactions
  ResetTrans  \* what obi_*_q is reset to

VARIABLES obi_state_q, obi_q

obiVars == <<obi_state_q, obi_q>>

ObiTypeOK ==
  /\ obi_state_q \in {"TRANSPARENT", "REGISTERED"}
  /\ obi_q \in Trans

ObiInit == obi_state_q = "TRANSPARENT" /\ obi_q = ResetTrans

trans_ready_o == obi_state_q = "TRANSPARENT"

\* The A channel: a request that was registered is never retracted.
obi_req_o(trans_valid) == obi_state_q = "REGISTERED" \/ trans_valid
\* Mutant of obi_trans_o: a request that waits follows the prefetcher.
TransUnregistered(trans) == trans

obi_trans_o(trans) == IF obi_state_q = "TRANSPARENT" THEN trans ELSE obi_q

\* Not granted at once: from now on drive the A channel from the registers.
Register(trans_valid, trans, gnt) ==
  /\ obi_state_q = "TRANSPARENT" /\ trans_valid /\ ~gnt
  /\ obi_state_q' = "REGISTERED"
  /\ obi_q' = trans

Release(gnt) ==
  /\ obi_state_q = "REGISTERED" /\ gnt
  /\ obi_state_q' = "TRANSPARENT"
  /\ UNCHANGED obi_q

Hold(trans_valid, gnt) ==
  /\ IF obi_state_q = "TRANSPARENT" THEN gnt \/ ~trans_valid ELSE ~gnt
  /\ UNCHANGED obiVars

ObiCycle(trans_valid, trans, gnt) ==
  \/ Register(trans_valid, trans, gnt)
  \/ Release(gnt)
  \/ Hold(trans_valid, gnt)
=============================================================================
