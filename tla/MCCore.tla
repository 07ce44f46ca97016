------------------------------- MODULE MCCore -------------------------------
(***************************************************************************)
(* A memory with small programs for Core.  Execution starts at one of      *)
(* them; a program ends with a jump to itself.                             *)
(***************************************************************************)
EXTENDS Core, Sequences

I(op) == [op |-> op, target |-> 0, loop |-> 0, start |-> 0, end |-> 0, count |-> 0]
To(op, target) == [I(op) EXCEPT !.target = target]
Setup(loop, start, end, count) ==
  [I("setup") EXCEPT !.loop = loop, !.start = start, !.end = end, !.count = count]

MCIrqHandler == 0
MCExcHandler == 2
MCDebugHalt == 4
MCDebugException == 9

Handlers == <<
  I("alu"), I("mret"),                              \* 0: interrupt
  I("skip"), I("mret"),                             \* 2: exception
  I("dcsr"), To("branch", 8), I("tdata1"),          \* 4: debug
  I("illegal"), I("dret"),
  I("ebreak"), I("alu")>>                           \* 9: exception in debug mode

Loops == <<
  I("mie"), Setup(1, 14, 20, 3), Setup(0, 14, 17, 2),  \* 11
  I("mem"), I("alu"), I("alu"),                        \* 14: inner body
  I("ecall"), I("csr"), I("alu"),                      \* 17: end of outer body
  To("jump", 20), I("alu")>>                           \* 20

System == <<
  I("mie"), I("mem"), To("branch", 26), I("wfi"), I("fencei"),  \* 22
  I("illegal"), To("branch", 30), I("ebreak"),                  \* 27
  To("jump", 30), I("alu")>>                                    \* 30

CsrLast == <<
  Setup(0, 33, 36, 3), I("alu"), I("alu"), I("csr"), To("jump", 36), I("alu")>>  \* 32

TriggerWrite == <<
  I("mem"), I("tdata1"), To("jump", 34), I("alu")>>             \* 32

Memory(words) == [a \in 0 .. Len(words) - 1 |-> words[a + 1]]

MCProgram == Memory(Handlers \o Loops \o System)
MCCsrProgram == Memory(Handlers \o Loops \o System \o CsrLast)
MCTriggerProgram == Memory(Handlers \o Loops \o System \o TriggerWrite)

MCBoth == {11, 22}
MCAdded == {32}
MCTrigger == 16

\* They keep the constraints on hardware loops, and but for CsrLast no loop ends with a
\* CSR access.
ASSUME MCProgramAssumption == LoopsAdmissible /\ (Program # MCCsrProgram => CsrNotLast)
=============================================================================
