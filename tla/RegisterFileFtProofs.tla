------------------------ MODULE RegisterFileFtProofs ------------------------
(***************************************************************************)
(* Proofs about the fault tolerant register file: the code corrects one    *)
(* upset bit and detects two, for every word of 32 bits, and the register  *)
(* file with it keeps what module RegisterFile promises.                   *)
(***************************************************************************)
EXTENDS RegisterFileFt, FiniteSetTheorems, TLAPS

\* The stored word with the upset bits turned over.
Upsets(word, bits) == (word \ bits) \cup (bits \ word)

\* The recomputed parity bit p is 1.
Failing(code, p) == Odd(code \cap Group[p])

-----------------------------------------------------------------------------
(* Lemmas about the code.                                                  *)

LEMMA CodeFinite ==
  /\ IsFiniteSet(CodeBit)
  /\ \A s \in SUBSET CodeBit : IsFiniteSet(s) /\ Cardinality(s) \in Nat
<1>1. IsFiniteSet(CodeBit)
  <2>1. 0 \in Int /\ 37 \in Int
    OBVIOUS
  <2> QED BY <2>1, FS_Interval, Zenon DEF CodeBit
<1> QED BY <1>1, FS_Subset, FS_CardinalityType

\* Turning one bit over turns the parity over.
LEMMA OddFlip ==
  ASSUME NEW s \in SUBSET CodeBit, NEW k \in CodeBit
  PROVE  Odd(Flip(s, k)) <=> ~Odd(s)
<1>1. IsFiniteSet(s) /\ Cardinality(s) \in Nat
  BY CodeFinite
<1>2. CASE k \in s
  <2>1. Cardinality(s \ {k}) = Cardinality(s) - 1
    BY <1>1, <1>2, FS_RemoveElement
  <2>2. Cardinality(s) % 2 = 1 <=> ~((Cardinality(s) - 1) % 2 = 1)
    BY <1>1
  <2> QED BY <1>2, <2>1, <2>2 DEF Odd, Flip
<1>3. CASE k \notin s
  <2>1. Cardinality(s \cup {k}) = Cardinality(s) + 1
    BY <1>1, <1>3, FS_AddElement
  <2>2. Cardinality(s) % 2 = 1 <=> ~((Cardinality(s) + 1) % 2 = 1)
    BY <1>1
  <2> QED BY <1>3, <2>1, <2>2 DEF Odd, Flip
<1> QED BY <1>2, <1>3

LEMMA GroupType == \A p \in 0 .. 5 : Group[p] \in SUBSET CodeBit
BY DEF Group

\* An upset fails exactly the parity bits that stand for it.
LEMMA FailingFlip ==
  ASSUME NEW code \in SUBSET CodeBit, NEW k \in CodeBit, NEW p \in 0 .. 5
  PROVE  Failing(Flip(code, k), p) <=> (Failing(code, p) <=> k \notin Group[p])
<1>1. code \cap Group[p] \in SUBSET CodeBit
  BY GroupType
<1>2. CASE k \in Group[p]
  <2>1. Flip(code, k) \cap Group[p] = Flip(code \cap Group[p], k)
    BY <1>2 DEF Flip
  <2> QED BY <1>1, <1>2, <2>1, OddFlip DEF Failing
<1>3. CASE k \notin Group[p]
  <2>1. Flip(code, k) \cap Group[p] = code \cap Group[p]
    BY <1>3 DEF Flip
  <2> QED BY <1>3, <2>1 DEF Failing
<1> QED BY <1>2, <1>3

\* Parity bit q stands for itself and for no other parity bit.
LEMMA ParityPosition ==
  /\ \A p \in 0 .. 5 : Power[p] - 1 \in CodeBit
  /\ \A p, q \in 0 .. 5 : Power[p] - 1 \in Group[q] <=> p = q
  /\ \A p \in 0 .. 5, d \in DataBit : position[d] # Power[p] - 1
<1>1. Power[0] = 1 /\ Power[1] = 2 /\ Power[2] = 4 /\ Power[3] = 8 /\ Power[4] = 16 /\ Power[5] = 32
  BY DEF Power
<1>2. \A p \in 0 .. 5 : p = 0 \/ p = 1 \/ p = 2 \/ p = 3 \/ p = 4 \/ p = 5
  OBVIOUS
<1>3. \A p \in 0 .. 5 : Power[p] - 1 \in CodeBit
  BY <1>1, <1>2 DEF CodeBit
<1>4. ASSUME NEW p \in 0 .. 5, NEW q \in 0 .. 5
      PROVE  Power[p] - 1 \in Group[q] <=> p = q
  <2>1. Power[p] - 1 \in Group[q] <=> (Power[p] \div Power[q]) % 2 = 1
    BY <1>1, <1>2, <1>3 DEF Group
  <2> QED BY <1>1, <1>2, <2>1
<1>5. \A p \in 0 .. 5, d \in DataBit : position[d] # Power[p] - 1
  BY <1>1, <1>2 DEF position, DataBit
<1> QED BY <1>3, <1>4, <1>5

\* The data bits have positions of their own.
LEMMA PositionInjective ==
  /\ \A d \in DataBit : position[d] \in CodeBit
  /\ \A d, e \in DataBit : position[d] = position[e] => d = e
BY DEF position, DataBit, CodeBit

\* An encoded word has even parity: the parity bits make up for the data bits.
LEMMA EncodePasses ==
  ASSUME NEW data \in SUBSET DataBit
  PROVE  /\ Encode(data) \in SUBSET CodeBit
         /\ \A p \in 0 .. 5 : ~Failing(Encode(data), p)
<1> DEFINE spread == {position[d] : d \in data}
           parity == {q \in 0 .. 5 : Odd(spread \cap Group[q])}
           bits   == {Power[p] - 1 : p \in parity}
<1>1. spread \in SUBSET CodeBit
  BY PositionInjective
<1>2. Encode(data) = spread \cup bits
  BY DEF Encode
<1>3. \A p \in 0 .. 5 : Power[p] - 1 \notin spread
  BY ParityPosition
<1>4. parity \in SUBSET (0 .. 5)
  OBVIOUS
<1>5. \A p \in 0 .. 5 : p \in parity <=> Odd(spread \cap Group[p])
  OBVIOUS
<1> HIDE DEF spread, parity
<1>6. bits \in SUBSET CodeBit
  BY <1>4, ParityPosition
<1>7. ASSUME NEW p \in 0 .. 5
      PROVE  ~Failing(Encode(data), p)
  <2> DEFINE own == spread \cap Group[p]
             k   == Power[p] - 1
  <2>1. own \in SUBSET CodeBit /\ k \in CodeBit /\ k \notin own /\ k \in Group[p]
    BY <1>1, <1>3, ParityPosition
  <2>2. bits \cap Group[p] = IF p \in parity THEN {k} ELSE {}
    BY <1>4, ParityPosition
  <2>3. p \in parity <=> Odd(own)
    BY <1>5
  <2>4. Odd(own \cup {k}) <=> ~Odd(own)
    BY <2>1, OddFlip DEF Flip
  <2>5. Encode(data) \cap Group[p] = own \cup (bits \cap Group[p])
    BY <1>2
  <2> HIDE DEF own, k, bits
  <2>6. CASE p \in parity
    BY <2>2, <2>3, <2>4, <2>5, <2>6 DEF Failing
  <2>7. CASE p \notin parity
    <3>1. Encode(data) \cap Group[p] = own
      BY <2>2, <2>5, <2>7
    <3> QED BY <2>3, <2>7, <3>1 DEF Failing
  <2> QED BY <2>6, <2>7
<1> HIDE DEF bits
<1> QED BY <1>1, <1>2, <1>6, <1>7

LEMMA DecodeEncode ==
  ASSUME NEW data \in SUBSET DataBit
  PROVE  {d \in DataBit : position[d] \in Encode(data)} = data
<1> DEFINE spread == {position[d] : d \in data}
           bits   == {Power[p] - 1 : p \in {q \in 0 .. 5 : Odd(spread \cap Group[q])}}
<1>1. \A d \in DataBit : position[d] \notin bits
  BY ParityPosition
<1>2. \A d \in DataBit : position[d] \in spread <=> d \in data
  BY PositionInjective
<1>3. Encode(data) = spread \cup bits
  BY DEF Encode
<1> HIDE DEF spread, bits
<1> QED BY <1>1, <1>2, <1>3

\* The parity groups of a code bit are the binary digits of its number.
LEMMA Digits ==
  ASSUME NEW k \in CodeBit
  PROVE  LET bit(p) == IF k \in Group[p] THEN Power[p] ELSE 0
         IN  bit(0) + bit(1) + bit(2) + bit(3) + bit(4) + bit(5) = k + 1
<1>1. Power[0] = 1 /\ Power[1] = 2 /\ Power[2] = 4 /\ Power[3] = 8 /\ Power[4] = 16 /\ Power[5] = 32
  BY DEF Power
<1>2. /\ k \in Group[0] <=> ((k + 1) \div 1) % 2 = 1
      /\ k \in Group[1] <=> ((k + 1) \div 2) % 2 = 1
      /\ k \in Group[2] <=> ((k + 1) \div 4) % 2 = 1
      /\ k \in Group[3] <=> ((k + 1) \div 8) % 2 = 1
      /\ k \in Group[4] <=> ((k + 1) \div 16) % 2 = 1
      /\ k \in Group[5] <=> ((k + 1) \div 32) % 2 = 1
  BY <1>1 DEF Group
<1>3. k \in 0 .. 37
  BY DEF CodeBit
<1> QED BY <1>1, <1>2, <1>3

\* No digit of the syndrome is 1 exactly if the syndrome is 0.
LEMMA SyndromeZero ==
  ASSUME NEW code
  PROVE  regfile_fault(code) <=> \E p \in 0 .. 5 : Failing(code, p)
<1>1. Power[0] = 1 /\ Power[1] = 2 /\ Power[2] = 4 /\ Power[3] = 8 /\ Power[4] = 16 /\ Power[5] = 32
  BY DEF Power
<1>2. \A p \in 0 .. 5 : p = 0 \/ p = 1 \/ p = 2 \/ p = 3 \/ p = 4 \/ p = 5
  OBVIOUS
<1>3. (\E p \in 0 .. 5 : Failing(code, p)) <=>
        \/ Failing(code, 0) \/ Failing(code, 1) \/ Failing(code, 2)
        \/ Failing(code, 3) \/ Failing(code, 4) \/ Failing(code, 5)
  BY <1>2
<1> QED BY <1>1, <1>3 DEF regfile_fault, Syndrome, Failing

Passing(code) == code \in SUBSET CodeBit /\ \A p \in 0 .. 5 : ~Failing(code, p)

\* Without upsets nothing is reported, and nothing corrected.
LEMMA NoUpset ==
  ASSUME NEW code, Passing(code)
  PROVE  ~regfile_fault(code) /\ Corrected(code) = code
<1>1. ~regfile_fault(code)
  BY SyndromeZero DEF Passing
<1> QED BY <1>1 DEF Corrected, regfile_fault

\* One upset bit is reported and corrected, wherever it is.
LEMMA OneUpset ==
  ASSUME NEW code, Passing(code), NEW k \in CodeBit
  PROVE  regfile_fault(Flip(code, k)) /\ Corrected(Flip(code, k)) = code
<1>1. \A p \in 0 .. 5 : Odd(Flip(code, k) \cap Group[p]) <=> k \in Group[p]
  BY FailingFlip DEF Passing, Failing
<1>2. Syndrome(Flip(code, k)) = k + 1
  BY <1>1, Digits DEF Syndrome
<1>3. k \in Int /\ k + 1 \in 1 .. 38 /\ (k + 1) - 1 = k
  BY DEF CodeBit
<1>4. Corrected(Flip(code, k)) = Flip(Flip(code, k), k)
  BY <1>2, <1>3 DEF Corrected
<1>5. Flip(Flip(code, k), k) = code
  BY DEF Flip
<1>6. regfile_fault(Flip(code, k))
  BY <1>2, <1>3 DEF regfile_fault
<1> QED BY <1>4, <1>5, <1>6

\* Two upset bits are reported: they fail a parity bit that stands for only one of them.
LEMMA TwoUpsets ==
  ASSUME NEW code, Passing(code), NEW k \in CodeBit, NEW l \in CodeBit \ {k}
  PROVE  regfile_fault(Flip(Flip(code, k), l))
<1>1. Flip(code, k) \in SUBSET CodeBit
  BY DEF Flip, Passing
<1>2. \A p \in 0 .. 5 :
        Failing(Flip(Flip(code, k), l), p) <=> (k \in Group[p] <=> l \notin Group[p])
  BY <1>1, FailingFlip DEF Passing
<1>3. \E p \in 0 .. 5 : k \in Group[p] <=> l \notin Group[p]
  <2> SUFFICES ASSUME \A p \in 0 .. 5 : k \in Group[p] <=> l \in Group[p]
               PROVE  FALSE
    OBVIOUS
  <2>1. k + 1 = l + 1
    BY Digits
  <2>2. k \in Int /\ l \in Int /\ k # l
    BY DEF CodeBit
  <2> QED BY <2>1, <2>2
<1> QED BY <1>2, <1>3, SyndromeZero

-----------------------------------------------------------------------------
(* Lemmas about the stored words.                                          *)

\* Every register holds the word written last, with the bits turned over that were
\* upset since.
Stored == \A r \in Reg : mem[r] = Upsets(Encode(newest[r]), hit[r])

Bounded == \A r \in Reg : Cardinality(hit[r]) <= UPSETS

IInv == TypeOK /\ Stored /\ Bounded

LEMMA UpsetsFlip ==
  ASSUME NEW word \in SUBSET CodeBit, NEW bits \in SUBSET CodeBit, NEW k \in CodeBit \ bits
  PROVE  /\ Upsets(word, {}) = word
         /\ Upsets(word, {k}) = Flip(word, k)
         /\ Upsets(word, bits \cup {k}) = Flip(Upsets(word, bits), k)
BY DEF Upsets, Flip

LEMMA EncodeZero == Encode(Zero) = Zero /\ Zero \in SUBSET DataBit
<1>1. \A q \in 0 .. 5 : {position[d] : d \in Zero} \cap Group[q] = {}
  BY DEF Zero
<1>2. ~Odd({})
  BY FS_EmptySet DEF Odd
<1>3. {q \in 0 .. 5 : Odd({position[d] : d \in Zero} \cap Group[q])} = {}
  BY <1>1, <1>2
<1> QED BY <1>3 DEF Encode, Zero

\* A read reports the upsets, and corrects one.
LEMMA Reads ==
  ASSUME NEW data \in SUBSET DataBit, NEW bits \in SUBSET CodeBit
  PROVE  LET code == Upsets(Encode(data), bits)
         IN  /\ bits = {} => ~regfile_fault(code)
             /\ Cardinality(bits) \in 1 .. 2 => regfile_fault(code)
             /\ Cardinality(bits) <= 1 => Decode(code) = data
<1> DEFINE word == Encode(data)
           code == Upsets(word, bits)
<1>1. Passing(word) /\ word \in SUBSET CodeBit
  BY EncodePasses DEF Passing
<1>2. Corrected(code) = word => Decode(code) = data
  BY DecodeEncode DEF Decode
<1> SUFFICES /\ bits = {} => ~regfile_fault(code)
             /\ Cardinality(bits) \in 1 .. 2 => regfile_fault(code)
             /\ Cardinality(bits) <= 1 => Decode(code) = data
  OBVIOUS
<1> HIDE DEF word, code
<1>3. IsFiniteSet(bits) /\ Cardinality(bits) \in Nat
  BY CodeFinite
<1>4. CASE bits = {}
  <2>1. code = word
    BY <1>4 DEF Upsets, code
  <2>2. Cardinality(bits) = 0
    BY <1>4, FS_EmptySet
  <2> QED BY <1>1, <1>2, <2>1, <2>2, NoUpset
<1>5. CASE Cardinality(bits) = 1
  <2>1. PICK k : bits = {k}
    BY <1>3, <1>5, FS_Singleton
  <2>2. k \in CodeBit /\ code = Flip(word, k)
    BY <1>1, <2>1, UpsetsFlip DEF code
  <2> QED BY <1>1, <1>2, <1>5, <2>1, <2>2, OneUpset
<1>6. CASE Cardinality(bits) = 2
  <2>1. PICK k \in bits : TRUE
    BY <1>6, FS_EmptySet
  <2>2. IsFiniteSet(bits \ {k}) /\ Cardinality(bits \ {k}) = 1
    BY <1>3, <1>6, <2>1, FS_RemoveElement
  <2>3. PICK l : bits \ {k} = {l}
    BY <2>2, FS_Singleton
  <2>4. k \in CodeBit /\ l \in CodeBit \ {k} /\ bits = {k} \cup {l}
    BY <2>1, <2>3
  <2>5. code = Flip(Flip(word, k), l)
    BY <1>1, <2>4 DEF Upsets, Flip, code
  <2>6. regfile_fault(code) /\ bits # {}
    BY <1>1, <2>4, <2>5, TwoUpsets
  <2> QED BY <1>6, <2>6
<1>7. CASE bits # {} /\ Cardinality(bits) \notin 1 .. 2
  <2>1. Cardinality(bits) # 0
    BY <1>3, <1>7, FS_EmptySet
  <2> QED BY <1>3, <1>7, <2>1
<1>8. Cardinality(bits) \in 1 .. 2 => Cardinality(bits) = 1 \/ Cardinality(bits) = 2
  OBVIOUS
<1> QED BY <1>4, <1>5, <1>6, <1>7, <1>8

LEMMA CycleStep ==
  ASSUME IInv, NEW a \in Ports, NEW b \in Ports, Cycle(a, b)
  PROVE  IInv'
<1> USE DEF IInv
<1>1. ASSUME NEW p \in Ports
      PROVE  p.wdata \in SUBSET DataBit
  BY EncodeZero, RegisterFileAssumption DEF Ports
<1>2. ASSUME NEW r \in Reg
      PROVE  hit'[r] \in SUBSET CodeBit /\ Cardinality(hit'[r]) <= UPSETS
  <2>1. CASE hit'[r] = {}
    BY <2>1, FS_EmptySet, RegisterFileAssumption
  <2>2. CASE hit'[r] = hit[r]
    BY <2>2 DEF TypeOK, Bounded
  <2>3. hit'[r] = {} \/ hit'[r] = hit[r]
    BY DEF Cycle
  <2> QED BY <2>1, <2>2, <2>3
<1>3. ASSUME NEW r \in Reg
      PROVE  newest'[r] \in SUBSET DataBit /\ mem'[r] = Upsets(Encode(newest'[r]), hit'[r])
  <2>1. \A data \in SUBSET DataBit : Upsets(Encode(data), {}) = Encode(data)
    BY DEF Upsets
  <2>2. CASE r = 0
    <3>1. mem'[r] = Zero /\ hit'[r] = {} /\ newest'[r] = Zero
      BY <2>2 DEF Cycle, Program
    <3> QED BY <2>1, <3>1, EncodeZero
  <2>3. CASE r # 0 /\ b.we /\ b.waddr = r
    <3>1. mem'[r] = Encode(b.wdata) /\ hit'[r] = {} /\ newest'[r] = b.wdata
      BY <2>3 DEF Cycle, Program, written
    <3> QED BY <1>1, <2>1, <3>1
  <2>4. CASE r # 0 /\ ~(b.we /\ b.waddr = r) /\ a.we /\ a.waddr = r
    <3>1. mem'[r] = Encode(a.wdata) /\ hit'[r] = {} /\ newest'[r] = a.wdata
      BY <2>4 DEF Cycle, Program, written
    <3> QED BY <1>1, <2>1, <3>1
  <2>5. CASE r # 0 /\ ~(b.we /\ b.waddr = r) /\ ~(a.we /\ a.waddr = r)
    <3>1. mem'[r] = mem[r] /\ hit'[r] = hit[r] /\ newest'[r] = newest[r]
      BY <2>5 DEF Cycle, Program, written
    <3> QED BY <3>1 DEF Stored, TypeOK
  <2> QED BY <2>2, <2>3, <2>4, <2>5
<1>4. hit' \in [Reg -> SUBSET CodeBit]
  BY <1>2 DEF Cycle
<1>5. mem' \in [Reg -> SUBSET CodeBit]
  <2>1. \A r \in Reg : mem'[r] \in SUBSET CodeBit
    BY <1>2, <1>3, EncodePasses DEF Upsets
  <2> QED BY <2>1 DEF Cycle
<1>6. newest' \in [Reg -> SUBSET DataBit]
  BY <1>3 DEF Cycle, Program
<1> QED BY <1>2, <1>3, <1>4, <1>5, <1>6 DEF TypeOK, Stored, Bounded

LEMMA UpsetStep ==
  ASSUME IInv, NEW r \in Reg, NEW k \in CodeBit, Upset(r, k)
  PROVE  /\ IInv'
         /\ Cardinality(hit'[r]) = Cardinality(hit[r]) + 1
<1> USE DEF IInv
<1>1. /\ hit'[r] = hit[r] \cup {k} /\ mem'[r] = Flip(mem[r], k) /\ k \notin hit[r]
      /\ \A q \in Reg \ {r} : hit'[q] = hit[q] /\ mem'[q] = mem[q]
  BY DEF Upset, TypeOK
<1>2. Cardinality(hit'[r]) = Cardinality(hit[r]) + 1
  BY <1>1, CodeFinite, FS_AddElement DEF TypeOK
<1>3. TypeOK'
  BY <1>1 DEF Upset, TypeOK, Flip
<1>4. Bounded'
  <2>1. Cardinality(hit[r]) \in Nat /\ Cardinality(hit[r]) < UPSETS
    BY CodeFinite DEF Upset, TypeOK
  <2>2. Cardinality(hit'[r]) <= UPSETS
    BY <1>2, <2>1, RegisterFileAssumption
  <2> QED BY <1>1, <2>2 DEF Bounded
<1>5. Stored'
  <2> DEFINE data == newest[r]
  <2>1. data \in SUBSET DataBit /\ mem[r] = Upsets(Encode(data), hit[r]) /\ newest' = newest
    BY DEF Stored, TypeOK, Upset
  <2>2. Encode(data) \in SUBSET CodeBit /\ hit[r] \in SUBSET CodeBit
    BY <2>1, EncodePasses DEF TypeOK
  <2>3. Upsets(Encode(data), hit[r] \cup {k}) = Flip(Upsets(Encode(data), hit[r]), k)
    <3>1. k \in CodeBit \ hit[r]
      BY <1>1
    <3> QED BY <2>2, <3>1, UpsetsFlip, Zenon
  <2>4. mem'[r] = Upsets(Encode(data), hit'[r])
    BY <1>1, <2>1, <2>3
  <2> QED BY <1>1, <2>1, <2>4 DEF Stored
<1> QED BY <1>2, <1>3, <1>4, <1>5

-----------------------------------------------------------------------------
(* The theorems.                                                           *)

\* Every register keeps the encoded word it was written with, but for the bits upset
\* since.
THEOREM InductiveInvariant == Spec => []IInv
<1>1. Init => IInv
  <2> SUFFICES ASSUME Init PROVE IInv
    OBVIOUS
  <2>1. TypeOK
    BY EncodeZero DEF Init, TypeOK, Zero
  <2>2. \A r \in Reg : mem[r] = Upsets(Encode(newest[r]), hit[r])
    BY EncodeZero DEF Init, Upsets
  <2>3. Bounded
    BY FS_EmptySet, RegisterFileAssumption DEF Init, Bounded
  <2> QED BY <2>1, <2>2, <2>3 DEF IInv, Stored
<1>2. IInv /\ [Next]_vars => IInv'
  <2>1. CASE UNCHANGED vars
    BY <2>1 DEF vars, IInv, TypeOK, Stored, Bounded
  <2> QED BY <2>1, CycleStep, UpsetStep DEF Next
<1> QED BY <1>1, <1>2, PTL DEF Spec

\* The types.
THEOREM TypeCorrect == Spec => []TypeOK
BY InductiveInvariant, PTL DEF IInv

\* Every single and every double upset is reported by each read, and nothing else is:
\* for every word that is written, not only for the three that TLC tries.  The code
\* of distance 3 promises nothing of three upsets in a register.
THEOREM UpsetsReported ==
  ASSUME UPSETS <= 2
  PROVE  Spec => []FaultReported
<1>1. IInv => FaultReported
  <2> SUFFICES ASSUME IInv, NEW r \in Reg
               PROVE  regfile_fault(mem[r]) <=> hit[r] # {}
    BY DEF FaultReported
  <2>1. newest[r] \in SUBSET DataBit /\ mem[r] = Upsets(Encode(newest[r]), hit[r])
    BY DEF IInv, Stored, TypeOK
  <2>2. hit[r] \in SUBSET CodeBit
    BY DEF IInv, TypeOK
  <2>3. Cardinality(hit[r]) \in Nat /\ (Cardinality(hit[r]) = 0 <=> hit[r] = {})
    BY <2>2, CodeFinite, FS_EmptySet
  <2>4. Cardinality(hit[r]) <= 2
    BY <2>3, RegisterFileAssumption DEF IInv, Bounded
  <2>5. hit[r] # {} => Cardinality(hit[r]) \in 1 .. 2
    BY <2>3, <2>4
  <2> QED BY <2>1, <2>2, <2>5, Reads
<1> QED BY <1>1, InductiveInvariant, PTL

\* Reads deliver the newest word of every register with less than two upset bits.
LEMMA ReadsNewest == IInv => Registers!Delivers
<1> SUFFICES ASSUME IInv, NEW r \in Reg, ~(Cardinality(hit[r]) > 1)
             PROVE  rdata(r) = newest[r]
  BY DEF Registers!Delivers
<1>1. /\ mem[r] = Upsets(Encode(newest[r]), hit[r])
      /\ newest[r] \in SUBSET DataBit /\ hit[r] \in SUBSET CodeBit
  BY DEF IInv, Stored, TypeOK
<1>2. Cardinality(hit[r]) <= 1
  <2>1. Cardinality(hit[r]) \in Nat
    BY <1>1, CodeFinite
  <2> QED BY <2>1
<1> QED BY <1>1, <1>2, Reads DEF rdata

\* The register file keeps what its ports wrote last: it forgets a word only if two of
\* its bits were upset, which by UpsetsReported every read has told.
THEOREM KeepsItsWords == Spec => ImplementsRegisters
<1> DEFINE lost == {r \in Reg : Cardinality(hit[r]) > 1}
<1>1. Init /\ IInv => Registers!Init
  <2> SUFFICES ASSUME Init, IInv PROVE newest = [r \in Reg |-> Zero] /\ lost = {}
    BY ReadsNewest DEF Registers!Init
  <2> QED BY FS_EmptySet DEF Init
<1>2. (IInv => Registers!Delivers)'
  BY ReadsNewest, PTL
<1>3. ASSUME IInv', NEW a \in Ports, NEW b \in Ports, Cycle(a, b)
      PROVE  Registers!Write(a, b)
  <2>1. ~(Cardinality({}) > 1)
    BY FS_EmptySet
  <2>2. lost' = {r \in lost \ {0} : ~(a.we /\ a.waddr = r) /\ ~(b.we /\ b.waddr = r)}
    BY <1>3, <2>1 DEF Cycle, written
  <2>3. Registers!Delivers'
    BY <1>2, <1>3
  <2> HIDE DEF lost
  <2> QED BY <1>3, <2>2, <2>3 DEF Registers!Write, Cycle, Program, lost
<1>4. ASSUME IInv, IInv', NEW r \in Reg, NEW k \in CodeBit, Upset(r, k)
      PROVE  Registers!Lose(r) \/ UNCHANGED Registers!vars
  <2>1. hit' = [hit EXCEPT ![r] = @ \cup {k}] /\ newest' = newest /\ hit \in [Reg -> SUBSET CodeBit]
    BY <1>4 DEF Upset, IInv, TypeOK
  <2>2. \A q \in Reg \ {r} : hit'[q] = hit[q]
    BY <2>1
  <2>3. Cardinality(hit'[r]) = Cardinality(hit[r]) + 1 /\ Cardinality(hit[r]) \in Nat
    BY <1>4, UpsetStep, CodeFinite DEF IInv, TypeOK
  <2>4. Registers!Delivers /\ Registers!Delivers'
    BY <1>2, <1>4, ReadsNewest
  <2>5. CASE Cardinality(hit[r]) = 0
    <3>1. lost' = lost
      BY <2>2, <2>3, <2>5
    <3> QED BY <2>1, <2>4, <3>1 DEF Registers!vars, Registers!Delivers
  <2>6. CASE Cardinality(hit[r]) # 0
    <3>1. lost' = lost \cup {r}
      BY <2>2, <2>3, <2>6
    <3> QED BY <2>1, <2>4, <3>1 DEF Registers!Lose
  <2> QED BY <2>5, <2>6
<1>5. IInv /\ IInv' /\ [Next]_vars => [Registers!Next]_Registers!vars
  <2> SUFFICES ASSUME IInv, IInv', [Next]_vars PROVE [Registers!Next]_Registers!vars
    OBVIOUS
  <2>1. CASE UNCHANGED vars
    BY <2>1 DEF vars, Registers!vars, rdata
  <2>2. ASSUME NEW a \in Ports, NEW b \in Ports, Cycle(a, b)
        PROVE  Registers!Next
    BY <1>3, <2>2 DEF Registers!Next, Registers!Ports, Ports
  <2>3. ASSUME NEW r \in Reg, NEW k \in CodeBit, Upset(r, k)
        PROVE  [Registers!Next]_Registers!vars
    BY <1>4, <2>3 DEF Registers!Next
  <2> QED BY <2>1, <2>2, <2>3 DEF Next
<1> QED BY <1>1, <1>5, InductiveInvariant, PTL DEF Spec, ImplementsRegisters, Registers!Spec
=============================================================================
