------------------------------- MODULE Hamming -------------------------------
(***************************************************************************)
(* cv32e40p_register_file_encoder and _decoder: a Hamming code of 32 data  *)
(* and 6 parity bits.  A word is the set of its bits that are 1.           *)
(***************************************************************************)
EXTENDS Integers, FiniteSets

DataBit == 0 .. 31
CodeBit == 0 .. 37

\* Mutant: the last data bits lie one too high.
position_high ==
  [d \in DataBit |->
     IF d = 0 THEN 2 ELSE IF d <= 3 THEN d + 3 ELSE IF d <= 10 THEN d + 4
     ELSE IF d <= 24 THEN d + 5 ELSE d + 7]

\* data_in[d] is encoded_data[position[d]]; the positions left are those of the
\* parity bits.
position ==
  [d \in DataBit |->
     IF d = 0 THEN 2 ELSE IF d <= 3 THEN d + 3 ELSE IF d <= 10 THEN d + 4
     ELSE IF d <= 25 THEN d + 5 ELSE d + 6]

Power == [p \in 0 .. 5 |-> IF p = 0 THEN 1 ELSE IF p = 1 THEN 2 ELSE IF p = 2 THEN 4
                           ELSE IF p = 3 THEN 8 ELSE IF p = 4 THEN 16 ELSE 32]

\* The code bits that parity bit p stands for, itself among them.
Group == [p \in 0 .. 5 |-> {k \in CodeBit : ((k + 1) \div Power[p]) % 2 = 1}]

Odd(bits) == Cardinality(bits) % 2 = 1

\* Mutant: parity bit 3 forgets the last data bit of its group.
EncodeForgetful(data) ==
  LET spread == {position[d] : d \in data}
      parity == {p \in 0 .. 5 : Odd((spread \cap Group[p]) \ (IF p = 3 THEN {30} ELSE {}))}
  IN  spread \cup {Power[p] - 1 : p \in parity}

Encode(data) ==
  LET spread == {position[d] : d \in data}
  IN  spread \cup {Power[p] - 1 : p \in {q \in 0 .. 5 : Odd(spread \cap Group[q])}}

\* The integer that the recomputed parity bits make.
Syndrome(code) ==
  LET bit(p) == IF Odd(code \cap Group[p]) THEN Power[p] ELSE 0
  IN  bit(0) + bit(1) + bit(2) + bit(3) + bit(4) + bit(5)

regfile_fault(code) == Syndrome(code) # 0

Flip(code, k) == IF k \in code THEN code \ {k} ELSE code \cup {k}

\* Mutant: the syndrome is used as the index, which starts at 0.
CorrectedNext(code) ==
  LET s == Syndrome(code) IN IF s \in 1 .. 37 THEN Flip(code, s) ELSE code

\* error_codeword has no bit for a syndrome above 38.
Corrected(code) ==
  LET s == Syndrome(code) IN IF s \in 1 .. 38 THEN Flip(code, s - 1) ELSE code

Decode(code) ==
  LET corrected == Corrected(code) IN {d \in DataBit : position[d] \in corrected}
=============================================================================
