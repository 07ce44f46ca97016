--------------------------- MODULE RegisterFileFt ---------------------------
(***************************************************************************)
(* cv32e40p_register_file_ft: the flip-flop register file, 38 bits wide,   *)
(* an encoder for each write port and a decoder for each read port.  There *)
(* is no scrubbing: an upset stays until the register is written.          *)
(***************************************************************************)
EXTENDS Hamming

CONSTANTS
  Reg,      \* the registers, 0 among them
  Data,     \* the words that are written
  UPSETS    \* bound on the upsets of a register between two writes

ASSUME RegisterFileAssumption ==
  /\ Reg \subseteq Nat /\ 0 \in Reg
  /\ Data \subseteq SUBSET DataBit
  /\ UPSETS \in Nat

VARIABLES
  mem,   \* the stored words, of 38 bits
  hit,   \* the bits of each register upset since it was written
  newest \* history: the word each register was written with last

vars == <<mem, hit, newest>>

Zero == {}

Init ==
  /\ mem = [r \in Reg |-> Zero]
  /\ hit = [r \in Reg |-> {}]
  /\ newest = [r \in Reg |-> Zero]

\* What a write port may do; without we its other inputs do not matter.
Ports == [waddr : Reg, wdata : Data, we : {TRUE}] \cup [waddr : {0}, wdata : {Zero}, we : {FALSE}]

written(a, b, r) == (a.we /\ a.waddr = r) \/ (b.we /\ b.waddr = r)

\* What the program takes the registers to hold: R0 is nil, and of two writes the one
\* through port b counts.  The register file never reads this.
Program(a, b) ==
  newest' = [r \in Reg |-> IF r = 0 THEN Zero
                           ELSE IF b.we /\ b.waddr = r THEN b.wdata
                           ELSE IF a.we /\ a.waddr = r THEN a.wdata
                           ELSE newest[r]]

\* One clock cycle: R0 is nil, port b has priority.
Cycle(a, b) ==
  /\ mem' = [r \in Reg |-> IF r = 0 THEN Zero
                           ELSE IF b.we /\ b.waddr = r THEN Encode(b.wdata)
                           ELSE IF a.we /\ a.waddr = r THEN Encode(a.wdata)
                           ELSE mem[r]]
  /\ hit' = [r \in Reg |-> IF r = 0 \/ written(a, b, r) THEN {} ELSE hit[r]]
  /\ Program(a, b)

\* A single event upset of one stored bit.  Registers share no bits, so upsets in
\* one of them at a time are enough.
Upset(r, k) ==
  /\ Cardinality(hit[r]) < UPSETS /\ k \notin hit[r]
  /\ \A q \in Reg \ {r} : hit[q] = {}
  /\ mem' = [mem EXCEPT ![r] = Flip(@, k)]
  /\ hit' = [hit EXCEPT ![r] = @ \cup {k}]
  /\ UNCHANGED newest

Next ==
  \/ \E a, b \in Ports : Cycle(a, b)
  \/ \E r \in Reg, k \in CodeBit : Upset(r, k)

Spec == Init /\ [][Next]_vars

-----------------------------------------------------------------------------
\* What a read port delivers.
rdata(r) == Decode(mem[r])

TypeOK ==
  /\ mem \in [Reg -> SUBSET CodeBit]
  /\ hit \in [Reg -> SUBSET CodeBit]
  /\ newest \in [Reg -> SUBSET DataBit]

\* fault_hamming_o is raised by every read of a register with one or two upset
\* bits, and by no other read, whatever the word: a double upset, which the
\* decoder miscorrects, never goes unnoticed.
FaultReported ==
  \A r \in Reg : regfile_fault(mem[r]) <=> hit[r] # {}

\* Reads deliver the word that the ports wrote last as long as at most one bit of the
\* register was upset since.
Registers ==
  INSTANCE RegisterFile
    WITH regs <- [r \in Reg |-> IF Cardinality(hit[r]) > 1 THEN Zero ELSE rdata(r)],
         lost <- {r \in Reg : Cardinality(hit[r]) > 1}

ImplementsRegisters == Registers!Spec
=============================================================================
