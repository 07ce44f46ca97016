----------------------------- MODULE DataAccess -----------------------------
(***************************************************************************)
(* Loads and stores of words, half words and bytes, as instructions see    *)
(* them: a byte-addressed memory of WORDS words, little endian, any        *)
(* alignment.  A word is a function from its four byte lanes to bytes.     *)
(*                                                                         *)
(* An access is a record: we (TRUE for a store), type, sign (what a load   *)
(* fills the upper bytes with), base and incr (operands a and b of the     *)
(* address adder), useincr (FALSE: post-increment, the base is the         *)
(* address), wdata (the stored word) and rd (the loaded register).         *)
(***************************************************************************)
EXTENDS Integers

CONSTANTS
  WORDS,    \* number of words of the data memory
  Reg,      \* destination registers of loads
  Access,   \* the loads and stores of the program
  NoAccess  \* no load or store

Lane == 0 .. 3
Byte == 0 .. 255
Word == [Lane -> Byte]
ByteAddr == 0 .. 4 * WORDS - 1

AccessOf(addr) ==
  [we : BOOLEAN, type : {"word", "half", "byte"}, sign : {"zero", "ones", "sign"},
   base : addr, incr : addr, useincr : BOOLEAN, wdata : Word, rd : Reg]

Size(type) == IF type = "word" THEN 4 ELSE IF type = "half" THEN 2 ELSE 1

Address(acc) ==
  (IF acc.useincr THEN acc.base + acc.incr ELSE acc.base) % (4 * WORDS)

\* What the bytes above a half word or byte are: 2'b00, 2'b10 (NaN boxing) or
\* the sign of its top byte.
Fill(sign, top) ==
  IF sign = "zero" THEN 0
  ELSE IF sign = "ones" \/ top >= 128 THEN 255 ELSE 0

\* The k-th byte of the access at address addr.
ByteAt(mem, addr, k) == mem[(addr + k) % (4 * WORDS)]

Loaded(mem, addr, type, sign) ==
  LET size == Size(type)
      top  == ByteAt(mem, addr, size - 1)
  IN  [k \in Lane |-> IF k < size THEN ByteAt(mem, addr, k) ELSE Fill(sign, top)]

Stored(mem, addr, type, data) ==
  [a \in ByteAddr |->
     LET k == (a + 4 * WORDS - addr) % (4 * WORDS)
     IN  IF k < Size(type) THEN data[k] ELSE mem[a]]
=============================================================================
