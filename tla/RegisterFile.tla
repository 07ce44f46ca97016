---------------------------- MODULE RegisterFile ----------------------------
(***************************************************************************)
(* What the register file promises ID: registers that keep what was written*)
(* last, port B before port A, and register 0 that is always zero.  A      *)
(* register may lose its contents until it is written again; only two      *)
(* upsets may do that, which FaultReported (RegisterFileFt) has reported.  *)
(***************************************************************************)
CONSTANTS
  Reg,   \* the registers, 0 among them
  Data,  \* the words that are written
  Zero   \* the word 0

VARIABLES
  newest,  \* the word each register was written with last
  lost,    \* the registers that lost it
  regs     \* what reads deliver, Zero for registers that lost their word

vars == <<newest, lost, regs>>

Delivers == regs = [r \in Reg |-> IF r \in lost THEN Zero ELSE newest[r]]

Init == newest = [r \in Reg |-> Zero] /\ lost = {} /\ Delivers

Write(a, b) ==
  /\ newest' = [r \in Reg |-> IF r = 0 THEN Zero
                              ELSE IF b.we /\ b.waddr = r THEN b.wdata
                              ELSE IF a.we /\ a.waddr = r THEN a.wdata
                              ELSE newest[r]]
  /\ lost' = {r \in lost \ {0} : ~(a.we /\ a.waddr = r) /\ ~(b.we /\ b.waddr = r)}
  /\ Delivers'

Lose(r) == lost' = lost \cup {r} /\ UNCHANGED newest /\ Delivers'

\* What a write port may do; without we its other inputs do not matter.
Ports == [waddr : Reg, wdata : Data, we : {TRUE}] \cup [waddr : {0}, wdata : {Zero}, we : {FALSE}]

Next == (\E a, b \in Ports : Write(a, b)) \/ (\E r \in Reg : Lose(r))

Spec == Init /\ [][Next]_vars
=============================================================================
