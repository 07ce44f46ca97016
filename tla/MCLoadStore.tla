----------------------------- MODULE MCLoadStore -----------------------------
EXTENDS LoadStore

CONSTANTS r1, r2

MCReg == {r1, r2}

\* Bytes of both signs, all different.
MCMemory == {[a \in ByteAddr |-> IF a % 2 = 0 THEN 17 + a ELSE 145 + a]}

Data == [k \in Lane |-> IF k % 2 = 0 THEN 193 + k ELSE 65 + k]

Load(type, sign, base, incr, useincr, rd) ==
  [we |-> FALSE, type |-> type, sign |-> sign, base |-> base, incr |-> incr,
   useincr |-> useincr, wdata |-> Data, rd |-> rd]

Store(type, base, incr, useincr) ==
  [we |-> TRUE, type |-> type, sign |-> "zero", base |-> base, incr |-> incr,
   useincr |-> useincr, wdata |-> Data, rd |-> r1]

\* A word aligned, at offset 3 (loaded) and 2 (stored), a half word inside and
\* across a word, a byte.
MCAccess ==
  {Load("word", "zero", b, 1, TRUE, r1) : b \in {2, 3}}
    \cup {Load("half", "zero", 0, 1, TRUE, r2), Load("half", "sign", 3, 1, FALSE, r2),
          Load("byte", "ones", 2, 0, TRUE, r1)}
    \cup {Store("word", 1, 1, TRUE), Store("half", 3, 1, FALSE), Store("byte", 2, 0, TRUE)}
=============================================================================
