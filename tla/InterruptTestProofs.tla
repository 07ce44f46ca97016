------------------------ MODULE InterruptTestProofs ------------------------
(***************************************************************************)
(* The interrupt test reports no error and serves every request once, for  *)
(* every set of random words and masks and every timing of the core.       *)
(***************************************************************************)
EXTENDS InterruptTest, SequenceTheorems, WellFoundedInduction, TLAPS

-----------------------------------------------------------------------------
(* The order of the lines.                                                 *)

\* A nonempty set of numbers has a least element.
LEMMA LeastElement ==
  ASSUME NEW S, S \subseteq Nat, S # {}
  PROVE  \E n \in S : \A m \in S : n <= m
<1> DEFINE R == OpToRel(<, Nat)
<1>1. IsWellFoundedOn(R, Nat)
  BY NatLessThanWellFounded
<1> HIDE DEF R
<1>2. PICK n \in S : \A m \in S : <<m, n>> \notin R
  BY <1>1, WFMin
<1>3. \A m \in S : ~(m < n)
  BY <1>2 DEF R, OpToRel
<1> QED BY <1>2, <1>3

\* The elements of a concatenation, by the part they come from.
LEMMA Concatenation ==
  ASSUME NEW s \in Seq(Int), NEW t \in Seq(Int)
  PROVE  /\ s \o t \in Seq(Int) /\ Len(s \o t) = Len(s) + Len(t)
         /\ \A n \in 1 .. Len(s) : (s \o t)[n] = s[n]
         /\ \A n \in 1 .. Len(t) : (s \o t)[Len(s) + n] = t[n]
<1>1. /\ s \o t \in Seq(Int) /\ Len(s \o t) = Len(s) + Len(t)
      /\ \A n \in 1 .. Len(s) + Len(t) :
           (s \o t)[n] = IF n <= Len(s) THEN s[n] ELSE t[n - Len(s)]
  BY ConcatProperties
<1>2. Len(s) \in Nat /\ Len(t) \in Nat
  OBVIOUS
<1>3. ASSUME NEW n \in 1 .. Len(s) PROVE (s \o t)[n] = s[n]
  <2>1. n \in 1 .. Len(s) + Len(t) /\ n <= Len(s)
    BY <1>2
  <2> QED BY <1>1, <2>1
<1>4. ASSUME NEW n \in 1 .. Len(t) PROVE (s \o t)[Len(s) + n] = t[n]
  <2>1. /\ Len(s) + n \in 1 .. Len(s) + Len(t)
        /\ ~(Len(s) + n <= Len(s)) /\ (Len(s) + n) - Len(s) = n
    BY <1>2
  <2> QED BY <1>1, <2>1
<1> QED BY <1>1, <1>3, <1>4

\* The order in which TEST 2 and TEST 3 expect the lines: 31 down to 16, then 11, 3, 7.
LEMMA Priorities ==
  /\ \A j \in 1 .. 16 : IRQ_ID_PRIORITY[j] = 32 - j
  /\ IRQ_ID_PRIORITY[17] = 11 /\ IRQ_ID_PRIORITY[18] = 3 /\ IRQ_ID_PRIORITY[19] = 7
<1> DEFINE fast == [n \in 1..16 |-> 32 - n]
<1> DEFINE rest == <<11, 3, 7>>
<1>1. fast \in Seq(Int) /\ Len(fast) = 16 /\ \A n \in 1..16 : fast[n] = 32 - n
  OBVIOUS
<1>2. rest \in Seq(Int) /\ Len(rest) = 3 /\ rest[1] = 11 /\ rest[2] = 3 /\ rest[3] = 7
  OBVIOUS
<1>3. IRQ_ID_PRIORITY = fast \o rest
  BY DEF IRQ_ID_PRIORITY
<1> HIDE DEF fast, rest
<1>4. /\ \A n \in 1 .. 16 : (fast \o rest)[n] = fast[n]
      /\ \A n \in 1 .. 3 : (fast \o rest)[16 + n] = rest[n]
  <2>1. /\ \A n \in 1 .. Len(fast) : (fast \o rest)[n] = fast[n]
        /\ \A n \in 1 .. Len(rest) : (fast \o rest)[Len(fast) + n] = rest[n]
    BY <1>1, <1>2, Concatenation
  <2> QED BY <1>1, <1>2, <2>1
<1>5. 1 \in 1 .. 3 /\ 2 \in 1 .. 3 /\ 3 \in 1 .. 3 /\ 16 + 1 = 17 /\ 16 + 2 = 18 /\ 16 + 3 = 19
  OBVIOUS
<1>6. \A n \in 1 .. 16 : (fast \o rest)[n] = 32 - n
  BY <1>1, <1>4
<1>7. (fast \o rest)[17] = 11 /\ (fast \o rest)[18] = 3 /\ (fast \o rest)[19] = 7
  BY <1>2, <1>4, <1>5
<1> QED BY <1>3, <1>6, <1>7

\* The numbers of the lines that do not exist.
NoLines == {15, 14, 13, 12, 10, 2, 6, 9, 1, 5, 8, 0, 4}

\* The encoder looks at the same lines in the same order, between lines that do not exist.
LEMMA EncoderOrderValues ==
  /\ \A n \in 1 .. 16 : EncoderOrder[n] = 32 - n
  /\ \A n \in 17 .. 20 : EncoderOrder[n] \in NoLines
  /\ EncoderOrder[21] = 11 /\ EncoderOrder[22] = 3 /\ EncoderOrder[23] = 7
  /\ \A n \in 24 .. 32 : EncoderOrder[n] \in NoLines
<1> DEFINE fast == [n \in 1..16 |-> 32 - n]
<1> DEFINE mid == <<15, 14, 13, 12>>
<1> DEFINE rest == <<11, 3, 7, 10, 2, 6, 9, 1, 5, 8, 0, 4>>
<1>1. fast \in Seq(Int) /\ Len(fast) = 16 /\ \A n \in 1..16 : fast[n] = 32 - n
  OBVIOUS
<1>2. mid \in Seq(Int) /\ Len(mid) = 4 /\ \A n \in 1 .. 4 : mid[n] \in NoLines
  BY DEF NoLines
<1>3. rest \in Seq(Int) /\ Len(rest) = 12 /\ rest[1] = 11 /\ rest[2] = 3 /\ rest[3] = 7
      /\ \A n \in 4 .. 12 : rest[n] \in NoLines
  BY DEF NoLines
<1>4. EncoderOrder = (fast \o mid) \o rest
  BY DEF EncoderOrder
<1> HIDE DEF fast, mid, rest
<1> DEFINE first == fast \o mid
<1>5. /\ first \in Seq(Int) /\ Len(first) = 20
      /\ \A n \in 1 .. 16 : first[n] = fast[n]
      /\ \A n \in 1 .. 4 : first[16 + n] = mid[n]
  <2>1. /\ first \in Seq(Int) /\ Len(first) = Len(fast) + Len(mid)
        /\ \A n \in 1 .. Len(fast) : first[n] = fast[n]
        /\ \A n \in 1 .. Len(mid) : first[Len(fast) + n] = mid[n]
    BY <1>1, <1>2, Concatenation
  <2>2. Len(fast) = 16 /\ Len(mid) = 4 /\ 16 + 4 = 20
    BY <1>1, <1>2
  <2> QED BY ONLY <2>1, <2>2
<1> HIDE DEF first
<1>6. /\ \A n \in 1 .. 20 : (first \o rest)[n] = first[n]
      /\ \A n \in 1 .. 12 : (first \o rest)[20 + n] = rest[n]
  <2>1. /\ \A n \in 1 .. Len(first) : (first \o rest)[n] = first[n]
        /\ \A n \in 1 .. Len(rest) : (first \o rest)[Len(first) + n] = rest[n]
    BY <1>3, <1>5, Concatenation
  <2>2. Len(first) = 20 /\ Len(rest) = 12
    BY <1>3, <1>5
  <2> QED BY ONLY <2>1, <2>2
<1>7. ASSUME NEW n \in 1 .. 16 PROVE EncoderOrder[n] = 32 - n
  <2>1. n \in 1 .. 20
    OBVIOUS
  <2> QED BY <1>1, <1>4, <1>5, <1>6, <2>1 DEF first
<1>8. ASSUME NEW n \in 17 .. 20 PROVE EncoderOrder[n] \in NoLines
  <2>1. n - 16 \in 1 .. 4 /\ 16 + (n - 16) = n /\ n \in 1 .. 20
    OBVIOUS
  <2>2. first[n] = mid[n - 16]
    BY <1>5, <2>1
  <2> QED BY <1>2, <1>4, <1>6, <2>1, <2>2 DEF first
<1>9. EncoderOrder[21] = 11 /\ EncoderOrder[22] = 3 /\ EncoderOrder[23] = 7
  <2>1. 1 \in 1 .. 12 /\ 2 \in 1 .. 12 /\ 3 \in 1 .. 12 /\ 20 + 1 = 21 /\ 20 + 2 = 22 /\ 20 + 3 = 23
    OBVIOUS
  <2> QED BY <1>3, <1>4, <1>6, <2>1 DEF first
<1>10. ASSUME NEW n \in 24 .. 32 PROVE EncoderOrder[n] \in NoLines
  <2>1. n - 20 \in 4 .. 12 /\ n - 20 \in 1 .. 12 /\ 20 + (n - 20) = n
    OBVIOUS
  <2> QED BY <1>3, <1>4, <1>6, <2>1 DEF first
<1> QED BY <1>7, <1>8, <1>9, <1>10

\* Where the encoder looks for the line that the test expects as number j.
Position(j) == IF j <= 16 THEN j ELSE j + 4

\* Where it looks there is that line, and it looks for no other line.
LEMMA Positions ==
  /\ \A j \in 1 .. IRQ_NUM : /\ Position(j) \in 1 .. 32
                             /\ EncoderOrder[Position(j)] = IRQ_ID_PRIORITY[j]
                             /\ IRQ_ID_PRIORITY[j] \in IRQ_MASK
  /\ \A n \in 1 .. 32 : EncoderOrder[n] \in IRQ_MASK => \E j \in 1 .. IRQ_NUM : n = Position(j)
<1>1. ASSUME NEW j \in 1 .. IRQ_NUM
      PROVE  /\ Position(j) \in 1 .. 32
             /\ EncoderOrder[Position(j)] = IRQ_ID_PRIORITY[j]
             /\ IRQ_ID_PRIORITY[j] \in IRQ_MASK
  <2>1. CASE j <= 16
    <3>1. j \in 1 .. 16 /\ Position(j) = j /\ j \in 1 .. 32 /\ 32 - j \in 16 .. 31
      BY <2>1 DEF IRQ_NUM, Position
    <3>2. IRQ_ID_PRIORITY[j] = 32 - j /\ EncoderOrder[j] = 32 - j
      BY <3>1, Priorities, EncoderOrderValues
    <3> QED BY <3>1, <3>2 DEF IRQ_MASK
  <2>2. CASE j > 16
    <3>1. j = 17 \/ j = 18 \/ j = 19
      BY <2>2 DEF IRQ_NUM
    <3>2. Position(17) = 21 /\ Position(18) = 22 /\ Position(19) = 23
      BY DEF Position
    <3> QED BY <3>1, <3>2, Priorities, EncoderOrderValues DEF IRQ_MASK
  <2> QED BY <2>1, <2>2 DEF IRQ_NUM
<1>2. ASSUME NEW n \in 1 .. 32, EncoderOrder[n] \in IRQ_MASK
      PROVE  \E j \in 1 .. IRQ_NUM : n = Position(j)
  <2>1. EncoderOrder[n] \notin NoLines
    BY <1>2 DEF NoLines, IRQ_MASK
  <2>2. n \notin 17 .. 20 /\ n \notin 24 .. 32
    BY <2>1, EncoderOrderValues
  <2>3. CASE n <= 16
    BY <2>3 DEF Position, IRQ_NUM
  <2>4. CASE n > 16
    <3>1. n - 4 \in 1 .. IRQ_NUM /\ n = Position(n - 4)
      BY <2>2, <2>4 DEF Position, IRQ_NUM
    <3> QED BY <3>1
  <2> QED BY <2>3, <2>4
<1> QED BY <1>1, <1>2

\* IRQ_ID_PRIORITY names every line, and none twice.
LEMMA EveryLineOnce ==
  /\ \A b \in IRQ_MASK : \E j \in 1 .. IRQ_NUM : b = IRQ_ID_PRIORITY[j]
  /\ \A j, k \in 1 .. IRQ_NUM : IRQ_ID_PRIORITY[j] = IRQ_ID_PRIORITY[k] => j = k
<1>1. ASSUME NEW b \in IRQ_MASK PROVE \E j \in 1 .. IRQ_NUM : b = IRQ_ID_PRIORITY[j]
  <2>1. CASE b \in 16 .. 31
    <3>1. 32 - b \in 1 .. 16 /\ 32 - b \in 1 .. IRQ_NUM /\ 32 - (32 - b) = b
      BY <2>1 DEF IRQ_NUM
    <3> QED BY <3>1, Priorities
  <2>2. CASE b \in {3, 7, 11}
    <3>1. 17 \in 1 .. IRQ_NUM /\ 18 \in 1 .. IRQ_NUM /\ 19 \in 1 .. IRQ_NUM
      BY DEF IRQ_NUM
    <3> QED BY <2>2, <3>1, Priorities
  <2> QED BY <2>1, <2>2 DEF IRQ_MASK
<1>2. \A j \in 1 .. IRQ_NUM : \/ j \in 1 .. 16 /\ IRQ_ID_PRIORITY[j] = 32 - j
                              \/ j = 17 /\ IRQ_ID_PRIORITY[j] = 11
                              \/ j = 18 /\ IRQ_ID_PRIORITY[j] = 3
                              \/ j = 19 /\ IRQ_ID_PRIORITY[j] = 7
  <2> SUFFICES ASSUME NEW j \in 1 .. IRQ_NUM
               PROVE  \/ j \in 1 .. 16 /\ IRQ_ID_PRIORITY[j] = 32 - j
                      \/ j = 17 /\ IRQ_ID_PRIORITY[j] = 11
                      \/ j = 18 /\ IRQ_ID_PRIORITY[j] = 3
                      \/ j = 19 /\ IRQ_ID_PRIORITY[j] = 7
    OBVIOUS
  <2>1. j \in 1 .. 16 \/ j = 17 \/ j = 18 \/ j = 19
    BY DEF IRQ_NUM
  <2> QED BY <2>1, Priorities
<1>3. ASSUME NEW j \in 1 .. IRQ_NUM, NEW k \in 1 .. IRQ_NUM, IRQ_ID_PRIORITY[j] = IRQ_ID_PRIORITY[k]
      PROVE  j = k
  BY <1>2, <1>3
<1> QED BY <1>1, <1>3

\* The encoder offers a line that is raised and enabled, ...
LEMMA EncoderFinds ==
  ASSUME irq_q \in SUBSET IRQ_MASK, irq_local_qual(mie) # {}
  PROVE  \E n \in 1 .. 32 : /\ irq_id_ctrl(mie) = EncoderOrder[n]
                            /\ EncoderOrder[n] \in irq_local_qual(mie)
                            /\ \A m \in 1 .. (n - 1) : EncoderOrder[m] \notin irq_local_qual(mie)
<1> DEFINE Found == {n \in 1 .. 32 : EncoderOrder[n] \in irq_local_qual(mie)}
<1>1. PICK b : b \in irq_local_qual(mie)
  OBVIOUS
<1>2. b \in IRQ_MASK
  BY <1>1 DEF irq_local_qual
<1>3. PICK j \in 1 .. IRQ_NUM : b = IRQ_ID_PRIORITY[j]
  BY <1>2, EveryLineOnce
<1>4. Position(j) \in Found
  BY <1>1, <1>3, Positions
<1>5. Found \subseteq Nat /\ Found # {}
  BY <1>4
<1>6. PICK n \in Found : \A m \in Found : n <= m
  BY <1>5, LeastElement
<1>7. \A m \in 1 .. (n - 1) : EncoderOrder[m] \notin irq_local_qual(mie)
  <2> SUFFICES ASSUME NEW m \in 1 .. (n - 1), EncoderOrder[m] \in irq_local_qual(mie) PROVE FALSE
    OBVIOUS
  <2>1. n \in 1 .. 32
    BY <1>6
  <2>2. m \in 1 .. 32 /\ ~(n <= m)
    BY <2>1
  <2>3. m \in Found
    BY <2>2
  <2> QED BY <1>6, <2>2, <2>3
<1> DEFINE First(x) == /\ EncoderOrder[x] \in irq_local_qual(mie)
                       /\ \A m \in 1 .. (x - 1) : EncoderOrder[m] \notin irq_local_qual(mie)
<1>8. n \in 1 .. 32 /\ First(n)
  BY <1>6, <1>7
<1>9. irq_id_ctrl(mie) = EncoderOrder[CHOOSE x \in 1 .. 32 : First(x)]
  BY DEF irq_id_ctrl
<1>10. (CHOOSE x \in 1 .. 32 : First(x)) \in 1 .. 32 /\ First(CHOOSE x \in 1 .. 32 : First(x))
  <2> HIDE DEF First
  <2> QED BY <1>8
<1> QED BY <1>9, <1>10

\* ... and of those the one that IRQ_ID_PRIORITY names first.
LEMMA EncoderPicks ==
  ASSUME irq_q \in SUBSET IRQ_MASK, NEW j \in 1 .. IRQ_NUM,
         IRQ_ID_PRIORITY[j] \in irq_local_qual(mie),
         \A k \in 1 .. (j - 1) : IRQ_ID_PRIORITY[k] \notin irq_local_qual(mie)
  PROVE  irq_id_ctrl(mie) = IRQ_ID_PRIORITY[j]
<1>1. PICK n \in 1 .. 32 :
        /\ irq_id_ctrl(mie) = EncoderOrder[n]
        /\ EncoderOrder[n] \in irq_local_qual(mie)
        /\ \A m \in 1 .. (n - 1) : EncoderOrder[m] \notin irq_local_qual(mie)
  BY EncoderFinds
<1>2. EncoderOrder[n] \in IRQ_MASK
  BY <1>1 DEF irq_local_qual
<1>3. PICK k \in 1 .. IRQ_NUM : n = Position(k)
  BY <1>2, Positions
<1>4. EncoderOrder[n] = IRQ_ID_PRIORITY[k] /\ EncoderOrder[Position(j)] = IRQ_ID_PRIORITY[j]
  BY <1>3, Positions
<1>5. k \notin 1 .. (j - 1)
  BY <1>1, <1>4
<1>6. Position(j) \notin 1 .. (n - 1)
  BY <1>1, <1>4
<1>7. k = j
  BY <1>3, <1>5, <1>6 DEF Position, IRQ_NUM
<1> QED BY <1>1, <1>4, <1>7

-----------------------------------------------------------------------------
(* The inductive invariant.  First where the program is.                   *)

\* TEST 5 has switched the generator to random words.
Bombing ==
  \/ pc \in {"served", "mat_mult", "compare", "done"}
  \/ pc \in {"enable", "set"} /\ ra = "mat_mult"
  \/ pc \in {"disable", "clear"} /\ ra = "compare"

\* A test has not raised its lines yet.
Quiet ==
  \/ pc \in {"start", "raise"}
  \/ pc \in {"disable", "clear"} /\ ra \in {"start", "raise"}

\* The lines of TEST 2 or TEST 3 are raised; the loop over the lines runs.
Serving ==
  \/ pc \in {"loop", "wait", "check"}
  \/ pc \in {"enable", "set"} /\ ra = "wait"

\* TEST 5 has begun, the lines that TEST 3 left are still raised.
Resting == pc = "bomb" \/ (pc \in {"disable", "clear"} /\ ra = "bomb")

Raising == pc = "raise" \/ (pc \in {"disable", "clear"} /\ ra = "raise")

Control ==
  /\ code = 0
  /\ pc \in {"start", "raise", "loop", "wait", "check", "bomb", "served", "mat_mult",
             "compare", "done", "disable", "clear", "enable", "set"}
  /\ pc \in {"disable", "clear"} => ra \in {"start", "raise", "bomb", "compare"}
  /\ pc \in {"enable", "set"} => ra \in {"wait", "mat_mult"}
  /\ Raising \/ Serving => test \in {2, 3}
  /\ pc \in {"disable", "clear"} /\ ra = "start" => test = 2
  /\ Resting \/ Bombing => test = 5
  /\ hpc # "main" => ~mstatus.mie

\* The types that TypeOK leaves out.
TypesToo ==
  /\ irq_sd_lines \in SUBSET Lines /\ irq_rnd_lines \in SUBSET Lines
  /\ gen \in {"idle", "waiting", "raised"} /\ sampling \in BOOLEAN
  /\ hpc \in {"main", "id", "pending", "acknowledge", "standard", "random",
              "csrr", "csrw", "restore", "mret"}

\* Does test t, expecting these lines, wait for the line number j?
Awaits(t, lines, j) == t = 2 \/ IRQ_ID_PRIORITY[j] \in lines

\* The pending word of test t when the loop has come to n.
Remaining(t, first, lines, n) ==
  {b \in IF t = 2 THEN AllBits ELSE first :
     \A j \in 1 .. n - 1 : Awaits(t, lines, j) => b # IRQ_ID_PRIORITY[j]}

Expect(j) == Awaits(test, irq_to_test32_std, j)
Base == IF test = 2 THEN AllBits ELSE first_irq_pending32_std
Left(n) == Remaining(test, first_irq_pending32_std, irq_to_test32_std, n)

\* The handler has cleared the line that the program waits for.
WaitServed ==
  \/ pc = "wait" /\ hpc \in {"acknowledge", "csrr", "csrw", "restore", "mret"}
  \/ pc = "wait" /\ hpc = "main" /\ ~mstatus.mie

\* The lines that are enabled are the lines that the program expects.
Masks ==
  /\ test \in {1, 2} => irq_to_test32_std = {}
  /\ test = 2 /\ (Serving \/ Raising) => mie = IRQ_MASK
  /\ test = 3 /\ pc = "start" => irq_to_test32_std = {}
  /\ test = 3 /\ pc # "start" =>
       /\ first_irq_pending32_std \subseteq IRQ_MASK /\ ie_mask32_std \subseteq IRQ_MASK
       /\ mie = ie_mask32_std
       /\ irq_to_test32_std = first_irq_pending32_std \cap ie_mask32_std
  /\ Raising => irq_pending32_std = Base

\* The pending word, and the word written to the generator, follow the loop.
Serves ==
  Serving =>
    /\ pc # "loop" => i <= IRQ_NUM /\ Expect(i)
    /\ irq_pending32_std = Left(IF pc = "check" \/ WaitServed THEN i + 1 ELSE i)
    /\ reg_lines = IF hpc = "acknowledge" THEN prev_irq_pending32_std
                                          ELSE irq_pending32_std
    /\ pc # "loop" => prev_irq_pending32_std = Left(i)
    /\ pc = "check" \/ WaitServed \/ (pc = "wait" /\ hpc = "pending") =>
         irq_id = IRQ_ID_PRIORITY[i]
    /\ pc = "wait" /\ hpc = "id" => mcause = IRQ_ID_PRIORITY[i]

\* Before TEST 5 the generator is driven by software, and interrupts are enabled
\* only while the program waits for one; the handler returns with them disabled.
Software ==
  ~Bombing =>
    /\ irq_mode = 0 /\ reg_mode \in {0, 4} /\ irq_mode_q \in {0, 4}
    /\ gen = "idle" /\ irq_rnd_lines = {} /\ words = 0 /\ irq_served = 0
    /\ hpc \notin {"standard", "random"}
    /\ hpc # "main" => pc = "wait"
    /\ mstatus.mie => pc = "wait"
    /\ hpc = "csrw" => mmstatus = mstatus
    /\ hpc \in {"restore", "mret"} => ~mstatus.mpie
    /\ ~sampling => irq_sd_lines = {}
    /\ Quiet => (test # 5 => reg_lines \cap Lines = {})

\* What is on its way from the generator's register to the core is that register's
\* word or nothing.  After the handler's write the stages follow one by one; each
\* statement of the handler until mret gives them a clock.
Settled(word) == word = {} \/ word = reg_lines \cap Lines

Pipeline ==
  ~Bombing =>
    /\ hpc # "csrr" => Settled(irq_sd_lines)
    /\ hpc \notin {"csrr", "csrw"} => Settled(irq_lines_q)
    /\ hpc \notin {"csrr", "csrw", "restore"} => Settled(irq_q)

\* Every word that the generator drew is served, but for the one on the lines.
Balanced == words = irq_served + (IF gen = "raised" THEN 1 ELSE 0)

\* The generator has seen the standard mode that the handler wrote.
Switched == hpc = "restore" /\ irq_mode_q = STANDARD

RandomPhase ==
  Bombing =>
    /\ hpc \notin {"csrr", "csrw"}
    /\ irq_mode = IF hpc = "random" THEN IRQ_MODE_STD ELSE IRQ_MODE_RND
    /\ reg_mode = irq_mode
    /\ hpc # "main" => pc \in {"mat_mult", "disable", "clear"}
    /\ mstatus.mie => pc \in {"mat_mult", "disable", "clear"}
    /\ irq_rnd_lines # {} => gen = "raised"
    /\ pc # "served" =>
         irq_mode_q = RANDOM \/ (hpc \in {"random", "restore"} /\ irq_mode_q = STANDARD)
    /\ pc = "served" => irq_mode_q \in {0, 4, RANDOM}
    /\ pc \notin {"served", "enable"} => (irq_lines_q # {} => gen = "raised")
    /\ pc \notin {"served", "enable", "set"} =>
         (hpc \notin {"random", "restore", "mret"} /\ irq_q # {} => gen = "raised")
    /\ pc = "done" => irq_served = 0
    /\ pc # "done" => IF hpc = "random" \/ Switched THEN irq_served = words ELSE Balanced
    /\ pc = "served" => irq_served = 0
    /\ hpc \in {"id", "pending", "acknowledge", "standard"} => gen = "raised"
    /\ hpc = "random" => gen = "raised" \/ (gen = "idle" /\ irq_mode_q = STANDARD)
    /\ Switched => gen \in {"raised", "idle"}

\* res holds elements of the product, all of them when they are compared.
Elements == {Product(row, column) : row, column \in 1 .. MAT_DIM}

Products ==
  /\ res \in Seq(Elements)
  /\ \A k \in 1 .. Len(res) :
       res[k] = Product(((k - 1) \div MAT_DIM) + 1, ((k - 1) % MAT_DIM) + 1)
  /\ pc = "compare" \/ (pc \in {"disable", "clear"} /\ ra = "compare") =>
       Len(res) = MAT_DIM * MAT_DIM

Inv ==
  /\ TypeOK /\ Control /\ TypesToo /\ Masks /\ Serves
  /\ Software /\ Pipeline /\ RandomPhase /\ Products

-----------------------------------------------------------------------------
(* The steps.                                                              *)

\* The statements of the program, by what they do.
Reads == ReadMstatus \/ WriteMstatus
Starts == Test1 \/ Test2 \/ Test3 \/ Raise
Loops == Sample \/ Skip \/ Wait \/ CheckId \/ EndLoop
Multiplies == Test5 \/ Bomb \/ ClearServed \/ mat_mult \/ Compare

\* The kinds of step.
LEMMA CasesOfNext ==
  Next => \/ TakeIrq /\ Hardware
          \/ hpc # "main" /\ Handler /\ Hardware
          \/ /\ hpc = "main" /\ ~irq_req_ctrl(mie, mstatus.mie)
             /\ Reads \/ Starts \/ Loops \/ Multiplies
             /\ UNCHANGED <<hpc, mcause>> /\ Hardware
          \/ Stall /\ Hardware
BY DEF Next, Statement, Program, Reads, Starts, Loops, Multiplies

\* Generator, controller and program agree on which lines exist.
LEMMA LinesOfIrqMask ==
  Lines = IRQ_MASK /\ IRQ_MASK \subseteq AllBits /\ STD_IRQ_MASK = IRQ_MASK
BY DEF Lines, IRQ_MASK, AllBits, STD_IRQ_MASK

\* The program expects lines that exist.
LEMMA PriorityRange == \A j \in 1 .. IRQ_NUM : IRQ_ID_PRIORITY[j] \in IRQ_MASK
BY Positions

\* The core takes a line that is raised and enabled.
LEMMA IrqId ==
  ASSUME TypeOK, TakeIrq
  PROVE  mcause' \in irq_local_qual(mie) /\ mcause' \in IRQ_MASK
<1>1. irq_q \in SUBSET IRQ_MASK /\ irq_local_qual(mie) # {}
  BY DEF TypeOK, TakeIrq, irq_req_ctrl
<1>2. irq_id_ctrl(mie) \in irq_local_qual(mie)
  BY <1>1, EncoderFinds
<1> QED BY <1>1, <1>2 DEF TakeIrq, irq_local_qual

\* After the loop of TEST 3 exactly the masked lines are left.
LEMMA AfterLoop ==
  ASSUME Inv, pc = "loop", i > IRQ_NUM, test = 3
  PROVE  irq_pending32_std = first_irq_pending32_std \ ie_mask32_std
<1>1. Serving /\ ~WaitServed
  BY DEF Serving, WaitServed
<1>2. i = 20 /\ i - 1 = IRQ_NUM
  BY DEF Inv, TypeOK, IRQ_NUM
<1>3. irq_pending32_std = Left(i)
  BY <1>1 DEF Inv, Serves
<1>4. /\ Base = first_irq_pending32_std
      /\ \A j : Expect(j) <=> IRQ_ID_PRIORITY[j] \in irq_to_test32_std
      /\ test = 3
      /\ irq_to_test32_std = first_irq_pending32_std \cap ie_mask32_std
      /\ first_irq_pending32_std \subseteq IRQ_MASK
  BY DEF Inv, Masks, Raising, Base, Expect, Awaits
<1>5. ASSUME NEW b \in first_irq_pending32_std
      PROVE  b \in Left(i) <=> b \notin ie_mask32_std
  <2>1. PICK k \in 1 .. IRQ_NUM : b = IRQ_ID_PRIORITY[k]
    BY <1>4, EveryLineOnce
  <2>2. \A j \in 1 .. IRQ_NUM : IRQ_ID_PRIORITY[j] = b => j = k
    BY <2>1, EveryLineOnce
  <2>3. b \in Left(i) <=> ~Expect(k)
    BY <1>2, <1>4, <2>1, <2>2 DEF Left, Remaining, Expect, Awaits
  <2> QED BY <1>4, <2>1, <2>3
<1> QED BY <1>3, <1>4, <1>5 DEF Left, Remaining

\* The elements computed are those of res_expected.
LEMMA AllExpected ==
  ASSUME Inv, pc = "compare"
  PROVE \A row, column \in 1..MAT_DIM :
                 res[(row - 1) * MAT_DIM + column] = res_expected[row][column]
<1> SUFFICES ASSUME NEW row \in 1..MAT_DIM, NEW column \in 1..MAT_DIM
             PROVE  res[(row - 1) * MAT_DIM + column] = res_expected[row][column]
  OBVIOUS
<1> DEFINE k == (row - 1) * MAT_DIM + column
<1>1. row \in 1 .. 10 /\ column \in 1 .. 10 /\ k = (row - 1) * 10 + column
  BY DEF MAT_DIM
<1>2. k \in 1 .. 100 /\ k - 1 = (row - 1) * 10 + (column - 1)
  BY <1>1
<1>3. (k - 1) \div 10 = row - 1 /\ (k - 1) % 10 = column - 1
  BY <1>1, <1>2
<1>4. ((k - 1) \div MAT_DIM) + 1 = row /\ ((k - 1) % MAT_DIM) + 1 = column
  BY <1>1, <1>3 DEF MAT_DIM
<1>5. Len(res) = 100
  BY DEF Inv, Products, MAT_DIM
<1> HIDE DEF k
<1>6. res[k] = Product(row, column)
  BY <1>2, <1>4, <1>5 DEF Inv, Products
<1> QED BY <1>6, ProductsExpected DEF k

\* No statement finds an error, so that control goes on to the next test.
LEMMA ControlStep == Inv /\ Next => Control'
<1> SUFFICES ASSUME Inv, Next PROVE Control'
  OBVIOUS
<1> USE
      DEF Inv, Serving, Quiet, Resting, Bombing, control, TypeOK, Mstatus, Call,
          Finish, Control, Raising
<1>1. CASE TakeIrq
  BY <1>1 DEF TakeIrq
<1>2. CASE hpc # "main" /\ Handler
  BY <1>2
    DEF Handler, HandlerId, HandlerPending, HandlerAcknowledge, HandlerStandard,
        HandlerRandom, HandlerRead, HandlerWrite, HandlerRestore, HandlerReturn,
        Software, RandomPhase, Switched
<1>3. CASE hpc = "main" /\ hpc' = "main" /\ Reads
  BY <1>3 DEF Reads, ReadMstatus, WriteMstatus, SetMie, ClearMie
<1>4. CASE hpc = "main" /\ hpc' = "main" /\ Starts
  BY <1>4 DEF Starts, Test1, Test2, Test3, Raise
<1>5. CASE hpc = "main" /\ hpc' = "main" /\ Loops
  <2>1. pc = "loop" /\ i > IRQ_NUM /\ test = 3 =>
          irq_pending32_std = first_irq_pending32_std \ ie_mask32_std
    BY AfterLoop
  <2> QED BY <1>5, <2>1 DEF Loops, Sample, Skip, Wait, CheckId, EndLoop, Serves
<1>6. CASE hpc = "main" /\ hpc' = "main" /\ Multiplies
  <2>1. pc = "compare" => \A row, column \in 1..MAT_DIM :
          res[(row - 1) * MAT_DIM + column] = res_expected[row][column]
    BY AllExpected
  <2> QED BY <1>6, <2>1 DEF Multiplies, Test5, Bomb, ClearServed, mat_mult, Compare
<1>7. CASE Stall
  BY <1>7 DEF Stall, coreVars
<1> QED BY <1>1, <1>2, <1>3, <1>4, <1>5, <1>6, <1>7, CasesOfNext

\* mat_mult computes the elements of the product one after the other.
LEMMA ResStep == Inv /\ Next => Products' /\ Len(res') <= MAT_DIM * MAT_DIM
<1> SUFFICES ASSUME Inv, Next PROVE Products' /\ Len(res') <= MAT_DIM * MAT_DIM
  OBVIOUS
<1> DEFINE Element(k) == Product(((k - 1) \div MAT_DIM) + 1, ((k - 1) % MAT_DIM) + 1)
<1> USE DEF Inv, Products
<1>1. CASE mat_mult /\ Len(res) < MAT_DIM * MAT_DIM
  <2> DEFINE n == Len(res)
  <2>1. /\ res \in Seq(Elements) /\ n \in Nat /\ n < 100
        /\ MAT_DIM = 10 /\ MAT_DIM * MAT_DIM = 100
    BY <1>1 DEF MAT_DIM
  <2>2. (n + 1) - 1 = n
    BY <2>1
  <2>3. res' = Append(res, Element(n + 1)) /\ pc' = pc /\ ra' = ra /\ pc = "mat_mult"
    BY <1>1, <2>2 DEF mat_mult
  <2> HIDE DEF n
  <2>4. n \in 0 .. 99 /\ MAT_DIM * MAT_DIM = 100
    BY ONLY <2>1
  <2>5. Element(n + 1) \in Elements
    <3>1. (n \div 10) + 1 \in 1 .. 10 /\ (n % 10) + 1 \in 1 .. 10
      BY ONLY <2>4
    <3> QED BY <2>1, <2>2, <3>1 DEF Elements
  <2> HIDE DEF Element
  <2>6. res' \in Seq(Elements) /\ Len(res') = n + 1 /\ res'[n + 1] = Element(n + 1)
        /\ \A k \in 1 .. n : res'[k] = res[k]
    BY <2>1, <2>3, <2>5 DEF n
  <2>7. \A k \in 1 .. n + 1 : res'[k] = Element(k)
    <3>1. \A k \in 1 .. n : res[k] = Element(k)
      BY DEF Element, n
    <3>2. \A k \in 1 .. n + 1 : k \in 1 .. n \/ k = n + 1
      BY <2>4
    <3> QED BY <2>6, <3>1, <3>2
  <2>8. Len(res') <= MAT_DIM * MAT_DIM
    BY <2>4, <2>6
  <2> QED BY <2>3, <2>6, <2>7, <2>8 DEF Element
<1>2. CASE res' = res /\ ~(mat_mult /\ Len(res) < MAT_DIM * MAT_DIM)
  <2>1. pc' = "compare" \/ (pc' \in {"disable", "clear"} /\ ra' = "compare") =>
          Len(res) = MAT_DIM * MAT_DIM
    <3>1. Len(res) <= 100 /\ Len(res) \in Nat /\ MAT_DIM * MAT_DIM = 100
      BY DEF TypeOK, MAT_DIM
    <3> USE <1>2, <3>1
    <3>2. CASE TakeIrq \/ (hpc # "main" /\ Handler) \/ Stall
      BY <3>2 DEF TakeIrq, Handler, control, Stall
    <3>3. CASE Reads \/ Starts
      BY <3>3
        DEF Reads, Starts, ReadMstatus, WriteMstatus, SetMie, ClearMie, Test1, Test2,
            Test3, Raise, Call, Control, Raising
    <3>4. CASE Loops
      BY <3>4 DEF Loops, Sample, Skip, Wait, CheckId, EndLoop, Call, Finish
    <3>5. CASE Multiplies
      BY <3>5 DEF Multiplies, Test5, Bomb, ClearServed, mat_mult, Compare, Call, Finish
    <3> QED BY <3>2, <3>3, <3>4, <3>5, CasesOfNext
  <2> QED BY <1>2, <2>1 DEF TypeOK
<1>3. res' = res \/ (mat_mult /\ Len(res) < MAT_DIM * MAT_DIM)
  <2>1. CASE TakeIrq \/ (hpc # "main" /\ Handler) \/ Stall
    BY <2>1 DEF TakeIrq, Handler, Stall
  <2>2. CASE Reads \/ Starts \/ Loops
    BY <2>2
      DEF Reads, Starts, ReadMstatus, WriteMstatus, Test1, Test2, Test3, Raise, Loops,
          Sample, Skip, Wait, CheckId, EndLoop
  <2>3. CASE Multiplies
    BY <2>3 DEF Multiplies, Test5, Bomb, ClearServed, mat_mult, Compare
  <2> QED BY <2>1, <2>2, <2>3, CasesOfNext
<1> QED BY <1>1, <1>2, <1>3

\* Every step keeps the types.
LEMMA TypeStep == Inv /\ Next => TypeOK' /\ TypesToo'
<1> SUFFICES ASSUME Inv, Next PROVE TypeOK' /\ TypesToo'
  OBVIOUS
<1>1. Len(res') <= MAT_DIM * MAT_DIM
  BY ResStep
<1> USE DEF Inv, TypeOK, TypesToo, Word, Mstatus
<1>2. /\ irq_q' \in SUBSET IRQ_MASK /\ irq_lines_q' \in SUBSET IRQ_MASK
      /\ irq_mode_q' \in {0, 1, 2, 4} /\ words' \in 0..MaxWords
      /\ irq_sd_lines' \in SUBSET Lines /\ irq_rnd_lines' \in SUBSET Lines
      /\ gen' \in {"idle", "waiting", "raised"} /\ sampling' \in BOOLEAN
      /\ words' >= words
  <2>1. Hardware
    BY DEF Next
  <2>2. InterruptCycle(irq_lines_q) /\ GeneratorCycle(reg_mode, reg_lines)
    BY <2>1 DEF Hardware
  <2>3. irq_q' \in SUBSET IRQ_MASK
    BY <2>2 DEF InterruptCycle
  <2>4. irq_mode_q' \in {0, 1, 2, 4} /\ irq_lines_q' \in SUBSET IRQ_MASK
    BY <2>2, LinesOfIrqMask DEF GeneratorCycle
  <2>5. sampling' \in BOOLEAN /\ irq_sd_lines' \in SUBSET Lines
    BY <2>2 DEF GeneratorCycle, SoftwareDefined
  <2>6. /\ gen' \in {"idle", "waiting", "raised"} /\ irq_rnd_lines' \in SUBSET Lines
        /\ words' \in 0..MaxWords /\ words' >= words
    <3>1. Random
      BY <2>2 DEF GeneratorCycle
    <3> QED BY <3>1, GeneratorAssumption DEF Random
  <2> QED BY <2>3, <2>4, <2>5, <2>6
<1>3. CASE TakeIrq
  <2>1. mcause' \in IRQ_MASK
    BY <1>3, IrqId
  <2> QED BY <1>1, <1>2, <1>3, <2>1 DEF TakeIrq, handlerVars, regVars, testVars, control
<1>4. CASE hpc # "main" /\ Handler
  <2>1. hpc = "standard" => irq_served < words
    BY DEF Software, RandomPhase, Switched, Balanced, IRQ_MODE_RND, Bombing
  <2>2. irq_q \in SUBSET AllBits
    BY LinesOfIrqMask
  <2> USE <1>1, <1>2, <2>1, <2>2, <1>4 DEF Handler, handlerVars, regVars, testVars, control
  <2>3. CASE HandlerId
    BY <2>3 DEF HandlerId
  <2>4. CASE HandlerPending
    BY <2>4 DEF HandlerPending
  <2>5. CASE HandlerAcknowledge
    BY <2>5 DEF HandlerAcknowledge
  <2>6. CASE HandlerStandard
    <3>1. irq_served' \in 0..MaxWords
      BY <2>6, GeneratorAssumption DEF HandlerStandard
    <3> QED BY <2>6, <3>1 DEF HandlerStandard, IRQ_MODE_STD
  <2>7. CASE HandlerRandom
    BY <2>7 DEF HandlerRandom, IRQ_MODE_RND
  <2>8. CASE HandlerRead \/ HandlerWrite
    <3>1. mstatus' \in Mstatus /\ mmstatus' \in Mstatus
      BY <2>8 DEF HandlerRead, HandlerWrite
    <3> QED BY <2>8, <3>1 DEF HandlerRead, HandlerWrite
  <2>9. CASE HandlerRestore \/ HandlerReturn
    <3>1. mstatus' \in Mstatus /\ mmstatus' \in Mstatus
      <4>1. mstatus \in Mstatus /\ mmstatus \in Mstatus /\ mstatus.mpie \in BOOLEAN
        OBVIOUS
      <4>2. CASE HandlerRestore
        BY <2>9, <4>1, <4>2 DEF HandlerRestore
      <4>3. CASE HandlerReturn
        <5>1. mstatus' = [mie |-> mstatus.mpie, mpie |-> TRUE] /\ mmstatus' = mmstatus
          BY <4>3 DEF HandlerReturn
        <5> QED BY ONLY <4>1, <5>1 DEF Mstatus
      <4> QED BY <2>9, <4>2, <4>3
    <3> QED BY <2>9, <3>1 DEF HandlerRestore, HandlerReturn
  <2> QED BY <2>3, <2>4, <2>5, <2>6, <2>7, <2>8, <2>9
<1>5. CASE hpc = "main" /\ hpc' = "main" /\ mcause' = mcause /\ Reads
  BY <1>1, <1>2, <1>5
    DEF Reads, ReadMstatus, WriteMstatus, SetMie, ClearMie, handlerVars, regVars,
        testVars, control
<1>6. CASE hpc = "main" /\ hpc' = "main" /\ mcause' = mcause /\ Starts
  <2>1. ASSUME NEW w \in random_word PROVE w \in SUBSET AllBits
    BY LinesOfIrqMask DEF random_word
  <2>2. AllBits \cap IRQ_MASK \in SUBSET IRQ_MASK
    OBVIOUS
  <2>3. 1 \in 1 .. (IRQ_NUM + 1)
    BY DEF IRQ_NUM
  <2> QED BY <1>1, <1>2, <1>6, <2>1, <2>2, <2>3, LinesOfIrqMask
        DEF Starts, Test1, Test2, Test3, Raise, Call, handlerVars, regVars, testVars,
            control, IRQ_MODE_SD
<1>7. CASE hpc = "main" /\ hpc' = "main" /\ mcause' = mcause /\ Loops
  <2>1. pc = "check" => i <= IRQ_NUM
    BY DEF Serves, Serving
  <2>2. test' \in {1, 2, 3, 5}
    BY <1>7 DEF Loops, Sample, Skip, Wait, CheckId, EndLoop, Call, Finish
  <2>3. i' \in 1 .. (IRQ_NUM + 1)
    <3>1. i \in 1 .. 20
      BY DEF IRQ_NUM
    <3>2. i' = i \/ (i <= 19 /\ i' = i + 1)
      BY <1>7, <2>1 DEF Loops, Sample, Skip, Wait, CheckId, EndLoop, Call, Finish, IRQ_NUM
    <3>3. i' \in 1 .. 20
      BY ONLY <3>1, <3>2
    <3>4. IRQ_NUM + 1 = 20
      BY DEF IRQ_NUM
    <3> QED BY ONLY <3>3, <3>4
  <2>4. code' \in {0, 2, 3, 5}
    <3>1. code = 0 /\ (pc = "check" => test \in {2, 3})
      BY DEF Control, Raising, Serving
    <3> QED BY <1>7, <3>1 DEF Loops, Sample, Skip, Wait, CheckId, EndLoop, Call, Finish
  <2> QED BY <1>1, <1>2, <1>7, <2>2, <2>3, <2>4
        DEF Loops, Sample, Skip, Wait, CheckId, EndLoop, handlerVars, regVars
<1>8. CASE hpc = "main" /\ hpc' = "main" /\ mcause' = mcause /\ Multiplies
  BY <1>1, <1>2, <1>8, GeneratorAssumption
    DEF Multiplies, Test5, Bomb, ClearServed, mat_mult, Compare, Call, Finish, Control,
        Raising, handlerVars, regVars, testVars, control, IRQ_MODE_RND
<1>9. CASE Stall
  BY <1>1, <1>2, <1>9 DEF Stall, coreVars, handlerVars, regVars, testVars, control
<1> QED BY <1>3, <1>4, <1>5, <1>6, <1>7, <1>8, <1>9, CasesOfNext

\* Every step keeps what the tests enable and expect.
LEMMA MasksStep == Inv /\ Next => Masks'
<1> SUFFICES ASSUME Inv, Next PROVE Masks'
  OBVIOUS
<1> USE DEF Inv, Masks, Raising, Base, Serving, Control, TypeOK
<1>1. CASE TakeIrq
  BY <1>1 DEF TakeIrq, testVars, control, handlerVars
<1>2. CASE hpc # "main" /\ Handler
  <2>1. pc \notin {"raise", "disable", "clear"} \/ ra # "raise"
    BY <1>2 DEF Software, Bombing
  <2>2. pc # "raise"
    BY <1>2 DEF Software, Bombing
  <2>3. mie' = mie
    BY <1>2
      DEF Handler, HandlerId, HandlerPending, HandlerAcknowledge, HandlerStandard,
          HandlerRandom, HandlerRead, HandlerWrite, HandlerRestore, HandlerReturn
  <2> QED BY <1>2, <2>1, <2>2, <2>3 DEF Handler, testVars, control
<1>3. CASE hpc = "main" /\ Reads
  BY <1>3 DEF Reads, ReadMstatus, WriteMstatus, SetMie, ClearMie, testVars
<1>4. CASE hpc = "main" /\ Starts
  <2>1. ASSUME NEW w \in random_word PROVE w \subseteq IRQ_MASK
    BY LinesOfIrqMask DEF random_word
  <2> USE <2>1, <1>4, LinesOfIrqMask
  <2>2. CASE Test1
    BY <2>2 DEF Test1, Call
  <2>3. CASE Test2
    BY <2>3 DEF Test2, Call
  <2>4. CASE Test3
    <3>1. mie' = ie_mask32_std'
      BY <2>4 DEF Test3
    <3> QED BY <2>4, <3>1 DEF Test3, Call
  <2>5. CASE Raise
    BY <2>5 DEF Raise, handlerVars, testVars
  <2> QED BY <2>2, <2>3, <2>4, <2>5 DEF Starts
<1>5. CASE hpc = "main" /\ Loops
  BY <1>5
    DEF Loops, Sample, Skip, Wait, CheckId, EndLoop, testVars, handlerVars, Call, Finish
<1>6. CASE hpc = "main" /\ Multiplies
  BY <1>6
    DEF Multiplies, Test5, Bomb, ClearServed, mat_mult, Compare, testVars, handlerVars,
        Call, Finish, Bombing, Resting
<1>7. CASE Stall
  BY <1>7 DEF Stall, testVars, control, handlerVars, coreVars
<1> QED BY <1>1, <1>2, <1>3, <1>4, <1>5, <1>6, <1>7, CasesOfNext

\* After the loop of TEST 2 no line is left raised.
LEMMA AfterAllLines ==
  ASSUME Inv, pc = "loop", i > IRQ_NUM, test = 2
  PROVE  reg_lines \cap Lines = {}
<1>1. Serving /\ ~WaitServed /\ hpc = "main"
  BY DEF Serving, WaitServed, Inv, Software, Bombing
<1>2. i - 1 = IRQ_NUM
  BY DEF Inv, TypeOK, IRQ_NUM
<1>3. reg_lines = Left(i)
  BY <1>1 DEF Inv, Serves
<1>4. ASSUME NEW b \in Lines PROVE b \notin Left(i)
  <2>1. PICK k \in 1 .. IRQ_NUM : b = IRQ_ID_PRIORITY[k]
    BY LinesOfIrqMask, EveryLineOnce
  <2> QED BY <1>2, <2>1 DEF Left, Expect, Remaining, Awaits
<1> QED BY <1>3, <1>4

\* Outside TEST 5 the generator draws no word, and interrupts are only enabled while
\* the program waits for one.
LEMMA SoftwareStep == Inv /\ Next => Software'
<1> SUFFICES ASSUME Inv, Next PROVE Software'
  OBVIOUS
<1>1. ~Bombing => /\ gen' = "idle" /\ irq_rnd_lines' = {} /\ words' = 0
                  /\ irq_mode_q' \in {0, 4}
                  /\ ~sampling' => irq_sd_lines' = {}
  <2> SUFFICES ASSUME ~Bombing
      PROVE       /\ gen' = "idle" /\ irq_rnd_lines' = {} /\ words' = 0
                  /\ irq_mode_q' \in {0, 4}
                  /\ ~sampling' => irq_sd_lines' = {}
     OBVIOUS
  <2>1. Random /\ SoftwareDefined(reg_lines) /\ irq_mode_q' = reg_mode
    BY DEF Next, Hardware, GeneratorCycle
  <2>2. /\ gen = "idle" /\ irq_rnd_lines = {} /\ words = 0
        /\ irq_mode_q \in {0, 4} /\ reg_mode \in {0, 4}
    BY DEF Inv, Software
  <2>3. ~sampling => irq_sd_lines = {}
    BY DEF Inv, Software
  <2>4. ~sampling' => irq_sd_lines' = {}
    <3>1. sampling \in BOOLEAN
      BY DEF Inv, TypesToo
    <3>2. CASE sampling
      BY <2>1, <3>1, <3>2 DEF SoftwareDefined
    <3>3. CASE ~sampling
      BY <2>1, <2>3, <3>1, <3>3 DEF SoftwareDefined
    <3> QED BY <3>2, <3>3
  <2>5. gen' = "idle" /\ irq_rnd_lines' = {} /\ words' = 0
    BY <2>1, <2>2 DEF Random, RANDOM
  <2> QED BY <2>1, <2>2, <2>4, <2>5
<1> USE
      DEF Inv, Software, Serving, Control, Raising, Bombing, Quiet, Resting, TypeOK,
          Mstatus
<1>2. CASE TakeIrq
  BY <1>2, <1>1 DEF TakeIrq, irq_req_ctrl, testVars, control, handlerVars, regVars
<1>3. CASE hpc # "main" /\ Handler
  <2> USE <1>1, <1>3 DEF Handler, testVars, control, handlerVars, regVars, IRQ_MODE_RND
  <2>1. CASE HandlerId \/ HandlerPending \/ HandlerAcknowledge
    BY <2>1 DEF HandlerId, HandlerPending, HandlerAcknowledge
  <2>2. CASE HandlerStandard \/ HandlerRandom
    BY <2>2 DEF HandlerStandard, HandlerRandom
  <2>3. CASE HandlerRead \/ HandlerWrite \/ HandlerRestore \/ HandlerReturn
    BY <2>3 DEF HandlerRead, HandlerWrite, HandlerRestore, HandlerReturn
  <2> QED BY <2>1, <2>2, <2>3
<1>4. CASE hpc = "main" /\ hpc' = "main" /\ mcause' = mcause /\ Reads
  BY <1>4, <1>1 DEF Reads, ReadMstatus, WriteMstatus, SetMie, ClearMie, testVars, regVars
<1>5. CASE hpc = "main" /\ hpc' = "main" /\ mcause' = mcause /\ Starts
  BY <1>5, <1>1
    DEF Starts, Test1, Test2, Test3, Raise, testVars, regVars, handlerVars, Call,
        IRQ_MODE_SD
<1>6. CASE hpc = "main" /\ hpc' = "main" /\ mcause' = mcause /\ Loops
  <2>1. pc = "loop" /\ i > IRQ_NUM /\ test = 2 => reg_lines \cap Lines = {}
    BY AfterAllLines
  <2>2. pc = "wait" /\ prev_irq_pending32_std # irq_pending32_std => ~mstatus.mie
    BY <1>6 DEF Serves, WaitServed
  <2> QED BY <1>6, <1>1, <2>1, <2>2

            DEF Loops, Sample, Skip, Wait, CheckId, EndLoop, testVars, handlerVars,
                regVars, Call, Finish
<1>7. CASE hpc = "main" /\ hpc' = "main" /\ mcause' = mcause /\ Multiplies
  BY <1>7, <1>1
    DEF Multiplies, Test5, Bomb, ClearServed, mat_mult, Compare, testVars, handlerVars,
        regVars, Call, Finish
<1>8. CASE Stall
  BY <1>8, <1>1 DEF Stall, testVars, control, handlerVars, coreVars, regVars
<1> QED BY <1>2, <1>3, <1>4, <1>5, <1>6, <1>7, <1>8, CasesOfNext

\* Serving an expected line takes it off those that remain; skipping takes nothing.
LEMMA RemainingSteps ==
  ASSUME NEW t, NEW first, NEW lines, NEW n \in 1 .. IRQ_NUM
  PROVE  /\ Awaits(t, lines, n) =>
              Remaining(t, first, lines, n + 1) =
                Remaining(t, first, lines, n) \ {IRQ_ID_PRIORITY[n]}
         /\ ~Awaits(t, lines, n) =>
              Remaining(t, first, lines, n + 1) = Remaining(t, first, lines, n)
<1>1. 1 .. (n + 1) - 1 = (1 .. n - 1) \cup {n}
  BY DEF IRQ_NUM
<1> QED BY <1>1 DEF Remaining

\* At first every raised line remains.
LEMMA RemainingStart ==
  ASSUME NEW t, NEW first, NEW lines
  PROVE  Remaining(t, first, lines, 1) = IF t = 2 THEN AllBits ELSE first
BY DEF Remaining

\* The interrupt taken while the program waits is the one it expects.
LEMMA TakesExpected ==
  ASSUME Inv, TakeIrq, ~Bombing
  PROVE  mcause' = IRQ_ID_PRIORITY[i] /\ mcause' \in irq_pending32_std
<1>1. irq_q \in SUBSET IRQ_MASK /\ irq_q \cap mie # {} /\ mstatus.mie /\ hpc = "main"
  BY DEF Inv, Control, Raising, TypeOK, TakeIrq, irq_req_ctrl, irq_local_qual
<1>2. pc = "wait" /\ Serving /\ ~WaitServed
  BY <1>1 DEF Inv, Software, Serving, WaitServed
<1>3. i \in 1 .. IRQ_NUM /\ Expect(i) /\ irq_pending32_std = Left(i) /\ reg_lines = Left(i)
  BY <1>1, <1>2 DEF Inv, Serves, TypeOK, IRQ_NUM
<1>4. irq_q = Left(i) \cap IRQ_MASK
  BY <1>1, <1>3, LinesOfIrqMask DEF Inv, Pipeline, Settled
<1>5. ASSUME NEW k \in 1 .. IRQ_NUM, IRQ_ID_PRIORITY[k] \in Left(i) \cap mie
      PROVE  Expect(k) /\ ~(k < i)
  <2>1. Expect(k)
    BY <1>2, <1>5 DEF Inv, Masks, Raising, Serving, Control, Left, Remaining, Expect, Awaits
  <2>2. k \notin 1 .. i - 1
    BY <1>5, <2>1 DEF Left, Remaining, Expect
  <2> QED BY <1>3, <2>1, <2>2
<1>6. IRQ_ID_PRIORITY[i] \in Left(i) \cap mie
  <2>1. IRQ_ID_PRIORITY[i] \in IRQ_MASK
    BY <1>3, PriorityRange
  <2>2. IRQ_ID_PRIORITY[i] \in Base \cap mie
    BY <1>2, <1>3, <2>1, LinesOfIrqMask
      DEF Inv, Masks, Raising, Serving, Control, Base, Expect, Awaits
  <2>3. \A j \in 1 .. i - 1 : IRQ_ID_PRIORITY[i] # IRQ_ID_PRIORITY[j]
    <3> SUFFICES ASSUME NEW j \in 1 .. i - 1, IRQ_ID_PRIORITY[i] = IRQ_ID_PRIORITY[j]
                 PROVE  FALSE
      OBVIOUS
    <3>1. j \in 1 .. IRQ_NUM /\ j # i
      BY <1>3 DEF IRQ_NUM
    <3> QED BY <1>3, <3>1, EveryLineOnce
  <2> QED BY <2>2, <2>3 DEF Left, Remaining, Base
<1>7. IRQ_ID_PRIORITY[i] \in irq_local_qual(mie)
  BY <1>3, <1>4, <1>6, PriorityRange DEF irq_local_qual
<1>8. \A k \in 1 .. (i - 1) : IRQ_ID_PRIORITY[k] \notin irq_local_qual(mie)
  <2> SUFFICES ASSUME NEW k \in 1 .. (i - 1), IRQ_ID_PRIORITY[k] \in irq_local_qual(mie)
               PROVE  FALSE
    OBVIOUS
  <2>1. k \in 1 .. IRQ_NUM /\ k < i
    BY <1>3 DEF IRQ_NUM
  <2> QED BY <1>4, <1>5, <2>1 DEF irq_local_qual
<1>9. irq_id_ctrl(mie) = IRQ_ID_PRIORITY[i]
  BY <1>1, <1>3, <1>7, <1>8, EncoderPicks
<1> QED BY <1>3, <1>6, <1>9 DEF TakeIrq

\* The lines are served in the order of IRQ_ID_PRIORITY.
LEMMA ServesStep == Inv /\ Next => Serves'
<1> SUFFICES ASSUME Inv, Next, Serving' PROVE Serves'
  BY DEF Serves
<1> USE DEF Inv, Serves, Serving, WaitServed, Left, Expect, Control, Raising, TypeOK
<1>1. CASE TakeIrq
  <2>1. ~Bombing /\ mstatus.mie /\ hpc = "main" /\ pc = "wait"
    BY <1>1 DEF TakeIrq, Bombing, irq_req_ctrl, control, Software
  <2>2. mcause' = IRQ_ID_PRIORITY[i]
    BY <1>1, <2>1, TakesExpected
  <2> QED BY <1>1, <2>1, <2>2 DEF TakeIrq, testVars, control, handlerVars, regVars
<1>2. CASE hpc # "main" /\ Handler
  <2>1. ~Bombing /\ pc = "wait" /\ hpc \notin {"standard", "random"} /\ irq_mode = 0
    BY <1>2 DEF Handler, Bombing, control, Software
  <2> USE <1>2, <2>1 DEF Handler, testVars, control, handlerVars, regVars
  <2>2. CASE HandlerId \/ HandlerAcknowledge
    BY <2>2 DEF HandlerId, HandlerAcknowledge, IRQ_MODE_RND
  <2>3. CASE HandlerPending
    <3>1. irq_pending32_std' = Left(i) \ {IRQ_ID_PRIORITY[i]}
      BY <2>3 DEF HandlerPending, IRQ_MODE_RND
    <3>2. irq_pending32_std' = Left(i + 1)
      BY <3>1, RemainingSteps DEF IRQ_NUM
    <3> QED BY <2>3, <3>2 DEF HandlerPending
  <2>4. CASE HandlerRead \/ HandlerWrite \/ HandlerRestore \/ HandlerReturn
    BY <2>4 DEF HandlerRead, HandlerWrite, HandlerRestore, HandlerReturn, Software, Mstatus
  <2>5. CASE HandlerStandard \/ HandlerRandom
    BY <2>5 DEF HandlerStandard, HandlerRandom
  <2> QED BY <2>2, <2>3, <2>4, <2>5
<1>3. CASE hpc = "main" /\ hpc' = "main" /\ mcause' = mcause /\ Reads
  BY <1>3 DEF Reads, ReadMstatus, WriteMstatus, SetMie, ClearMie, testVars, regVars, Mstatus
<1>4. CASE hpc = "main" /\ hpc' = "main" /\ mcause' = mcause /\ Starts
  BY <1>4, RemainingStart
    DEF Starts, Test1, Test2, Test3, Raise, testVars, handlerVars, Call, Masks,
        Raising, Base
<1>5. CASE hpc = "main" /\ hpc' = "main" /\ mcause' = mcause /\ Loops
  <2> USE <1>5 DEF testVars, handlerVars, regVars, Call, Finish
  <2>1. CASE Sample \/ Wait
    BY <2>1 DEF Sample, Wait, Expected, Awaits
  <2>2. CASE Skip
    <3>1. i \in 1 .. IRQ_NUM /\ ~Expect(i)
      BY <2>2 DEF Skip, Expected, Awaits, IRQ_NUM
    <3>2. Left(i + 1) = Left(i)
      BY <3>1, RemainingSteps
    <3> QED BY <2>2, <3>1, <3>2 DEF Skip
  <2>3. CASE CheckId \/ EndLoop
    BY <2>3 DEF CheckId, EndLoop
  <2> QED BY <2>1, <2>2, <2>3 DEF Loops
<1>6. CASE hpc = "main" /\ hpc' = "main" /\ mcause' = mcause /\ Multiplies
  BY <1>6 DEF Multiplies, Test5, Bomb, ClearServed, mat_mult, Compare, Call, Finish
<1>7. CASE Stall
  BY <1>7 DEF Stall, testVars, control, handlerVars, coreVars, regVars
<1> QED BY <1>1, <1>2, <1>3, <1>4, <1>5, <1>6, <1>7, CasesOfNext

\* The generator follows the program's register before the handler returns.
LEMMA PipelineStep == Inv /\ Next => Pipeline'
<1> SUFFICES ASSUME Inv, Next, ~Bombing' PROVE Pipeline'
  BY DEF Pipeline
<1>1. Control'
  BY ControlStep
<1>2. /\ ~Bombing
      /\ hpc' = "csrr" => hpc \in {"acknowledge", "csrr"}
      /\ hpc = "csrr" => hpc' \in {"csrr", "csrw"}
      /\ hpc = "csrw" => hpc' \in {"csrw", "restore"}
      /\ hpc = "restore" => hpc' \in {"restore", "mret"}
      /\ \/ reg_lines' = reg_lines
         \/ hpc' = "csrr"
         \/ reg_lines \cap Lines = {} /\ hpc = "main" /\ hpc' = "main"
  <2> USE DEF Inv, Control, Raising, Bombing
  <2>1. CASE TakeIrq
    BY <2>1 DEF TakeIrq, control, regVars, irq_req_ctrl
  <2>2. CASE hpc # "main" /\ Handler
    <3>1. ~Bombing /\ irq_mode = 0 /\ hpc \notin {"standard", "random"}
      BY <2>2 DEF Handler, control, Software
    <3> QED BY <2>2, <3>1
          DEF Handler, HandlerId, HandlerPending, HandlerAcknowledge, HandlerStandard,
              HandlerRandom, HandlerRead, HandlerWrite, HandlerRestore, HandlerReturn,
              regVars, IRQ_MODE_RND
  <2>3. CASE hpc = "main" /\ hpc' = "main" /\ Reads
    BY <2>3 DEF Reads, ReadMstatus, WriteMstatus, SetMie, ClearMie, regVars
  <2>4. CASE hpc = "main" /\ hpc' = "main" /\ Starts
    <3>1. pc = "raise" => reg_lines \cap Lines = {}
      BY DEF Software, Quiet
    <3>2. ~Bombing
      BY <2>4 DEF Starts, Test1, Test2, Test3, Raise
    <3>3. hpc' # "csrr" /\ hpc # "csrr" /\ hpc # "csrw" /\ hpc # "restore"
      BY <2>4
    <3> QED BY ONLY <2>4, <3>1, <3>2, <3>3
          DEF Starts, Test1, Test2, Test3, Raise, Call, regVars
  <2>5. CASE hpc = "main" /\ hpc' = "main" /\ Loops
    BY <2>5 DEF Loops, Sample, Skip, Wait, CheckId, EndLoop, Call, Finish, regVars
  <2>6. CASE hpc = "main" /\ hpc' = "main" /\ Multiplies
    BY <2>6
      DEF Multiplies, Test5, Bomb, ClearServed, mat_mult, Compare, Call, Finish, regVars
  <2>7. CASE Stall
    BY <2>7 DEF Stall, coreVars, control, regVars
  <2> QED BY <2>1, <2>2, <2>3, <2>4, <2>5, <2>6, <2>7, CasesOfNext
<1>3. /\ irq_q' = irq_lines_q
      /\ irq_lines_q' \in {irq_sd_lines, {}}
      /\ irq_sd_lines' \in {irq_sd_lines, reg_lines \cap Lines}
      /\ hpc = "csrr" => irq_sd_lines' \in {{}, reg_lines \cap Lines}
  <2>1. GeneratorCycle(reg_mode, reg_lines) /\ InterruptCycle(irq_lines_q)
    BY DEF Next, Hardware
  <2>2. /\ irq_mode_q \in {0, 4} /\ (~sampling => irq_sd_lines = {})
        /\ irq_lines_q \subseteq IRQ_MASK
    BY <1>2 DEF Inv, Software, TypeOK
  <2>3. irq_q' = irq_lines_q
    BY <2>1, <2>2 DEF InterruptCycle
  <2>4. irq_lines_q' \in {irq_sd_lines, {}}
    BY <2>1, <2>2 DEF GeneratorCycle, RANDOM, SOFTWARE_DEFINED
  <2>5. irq_sd_lines' = IF sampling THEN reg_lines \cap Lines ELSE irq_sd_lines
    BY <2>1 DEF GeneratorCycle, SoftwareDefined
  <2> QED BY <2>2, <2>3, <2>4, <2>5
<1> QED BY <1>2, <1>3 DEF Inv, Pipeline, Settled

\* One clock of the generator and of the interrupt register in TEST 5.
LEMMA GeneratorStep ==
  ASSUME Inv, Hardware, Bombing
  PROVE  /\ irq_mode_q' = reg_mode /\ irq_q' = irq_lines_q
         /\ irq_lines_q' # {} /\ pc # "served" => irq_mode_q = RANDOM /\ gen = "raised"
         /\ irq_rnd_lines' # {} => gen' = "raised"
         /\ gen = "raised" /\ irq_mode_q # STANDARD => gen' = "raised" /\ words' = words
         /\ gen \in {"raised", "idle"} /\ irq_mode_q = STANDARD => gen' = "idle" /\ words' = words
         /\ irq_mode_q # STANDARD /\ Balanced =>
              words' = irq_served + (IF gen' = "raised" THEN 1 ELSE 0)
<1>1. GeneratorCycle(reg_mode, reg_lines) /\ InterruptCycle(irq_lines_q)
  BY DEF Hardware
<1>2. irq_q' = irq_lines_q
  BY <1>1 DEF InterruptCycle, Inv, TypeOK
<1>3. irq_mode_q' = reg_mode /\ Random
  BY <1>1 DEF GeneratorCycle
<1>4. irq_lines_q' # {} /\ pc # "served" => irq_mode_q = RANDOM /\ gen = "raised"
  <2>1. pc # "served" => irq_mode_q \in {RANDOM, STANDARD}
    BY DEF Inv, RandomPhase, Switched
  <2>2. irq_rnd_lines # {} => gen = "raised"
    BY DEF Inv, RandomPhase, Switched
  <2> QED BY <1>1, <2>1, <2>2 DEF GeneratorCycle, RANDOM, STANDARD, SOFTWARE_DEFINED
<1>5. irq_rnd_lines' # {} => gen' = "raised"
  BY <1>3 DEF Random, Inv, RandomPhase, Switched
<1>6. gen = "raised" /\ irq_mode_q # STANDARD => gen' = "raised" /\ words' = words
  BY <1>3 DEF Random
<1>7. gen \in {"raised", "idle"} /\ irq_mode_q = STANDARD => gen' = "idle" /\ words' = words
  BY <1>3 DEF Random, RANDOM, STANDARD
<1>8. irq_mode_q # STANDARD /\ Balanced =>
        words' = irq_served + (IF gen' = "raised" THEN 1 ELSE 0)
  BY <1>3 DEF Random, Balanced, Inv, TypeOK, TypesToo
<1> QED BY <1>2, <1>3, <1>4, <1>5, <1>6, <1>7, <1>8

\* In TEST 5 a handler runs at most once for a word.
LEMMA RandomPhaseStep == Inv /\ Next => RandomPhase'
<1> SUFFICES ASSUME Inv, Next, Bombing' PROVE RandomPhase'
  BY DEF RandomPhase, Switched
<1>1. CASE ~Bombing
  <2>1. Hardware
    BY DEF Next
  <2>2. pc = "bomb" /\ hpc = "main" /\ hpc' = "main" /\ Multiplies
    <3> USE <1>1 DEF Inv, Control, Raising, Bombing
    <3>1. CASE TakeIrq
      BY <3>1 DEF TakeIrq, control
    <3>2. CASE Handler
      BY <3>2 DEF Handler, control
    <3>3. CASE Reads
      BY <3>3 DEF Reads, ReadMstatus, WriteMstatus, SetMie, ClearMie
    <3>4. CASE Starts
      BY <3>4 DEF Starts, Test1, Test2, Test3, Raise, Call
    <3>5. CASE Loops
      <4>1. pc' # "done"
        BY <3>5, ControlStep, AfterLoop
          DEF Loops, Sample, Skip, Wait, CheckId, EndLoop, Call, Finish, Serving
      <4> QED BY <3>5, <4>1 DEF Loops, Sample, Skip, Wait, CheckId, EndLoop, Call, Finish
    <3>6. CASE hpc = "main" /\ hpc' = "main" /\ Multiplies
      BY <3>6 DEF Multiplies, Test5, Bomb, ClearServed, mat_mult, Compare, Call, Finish
    <3>7. CASE Stall
      BY <3>7 DEF Stall, control
    <3> QED BY <3>1, <3>2, <3>3, <3>4, <3>5, <3>6, <3>7, CasesOfNext
  <2>3. Bomb
    BY <2>2 DEF Multiplies, Test5, Bomb, ClearServed, mat_mult, Compare
  <2>4. /\ gen = "idle" /\ irq_rnd_lines = {} /\ words = 0 /\ irq_served = 0
        /\ reg_mode \in {0, 4} /\ irq_mode_q \in {0, 4} /\ ~mstatus.mie
    BY <1>1, <2>2 DEF Inv, Software
  <2>5. gen' = "idle" /\ irq_rnd_lines' = {} /\ words' = 0 /\ irq_mode_q' \in {0, 4}
    BY <2>1, <2>4 DEF Hardware, GeneratorCycle, Random, RANDOM
  <2> QED BY <2>2, <2>3, <2>4, <2>5
        DEF Bomb, RandomPhase, Switched, Balanced, STANDARD, RANDOM, IRQ_MODE_STD,
            IRQ_MODE_RND
<1>2. CASE Bombing
  <2> USE <1>2 DEF Inv
  <2>1. Hardware
    BY DEF Next
  <2>2. /\ irq_mode_q' = reg_mode /\ irq_q' = irq_lines_q
        /\ irq_lines_q' # {} /\ pc # "served" => irq_mode_q = RANDOM /\ gen = "raised"
        /\ irq_rnd_lines' # {} => gen' = "raised"
        /\ gen = "raised" /\ irq_mode_q # STANDARD => gen' = "raised" /\ words' = words
        /\ gen \in {"raised", "idle"} /\ irq_mode_q = STANDARD => gen' = "idle" /\ words' = words
        /\ irq_mode_q # STANDARD /\ Balanced =>
             words' = irq_served + (IF gen' = "raised" THEN 1 ELSE 0)
    BY <2>1, GeneratorStep
  <2> USE <2>2
        DEF RandomPhase, Switched, Bombing, Balanced, STANDARD, RANDOM, IRQ_MODE_STD,
            IRQ_MODE_RND, Control, Raising
  <2>3. CASE TakeIrq
    BY <2>3 DEF TakeIrq, control, regVars, handlerVars, irq_req_ctrl, irq_local_qual
  <2>4. CASE hpc # "main" /\ Handler
    <3> USE <2>4 DEF Handler, control, regVars, handlerVars
    <3>1. CASE HandlerId \/ HandlerPending \/ HandlerAcknowledge
      BY <3>1 DEF HandlerId, HandlerPending, HandlerAcknowledge
    <3>2. CASE HandlerStandard
      BY <3>2 DEF HandlerStandard, TypeOK
    <3>3. CASE HandlerRandom
      BY <3>3 DEF HandlerRandom
    <3>4. CASE HandlerRestore
      <4>1. irq_served \in Nat
        BY DEF TypeOK
      <4>2. CASE irq_mode_q = STANDARD
        BY <3>4, <4>1, <4>2 DEF HandlerRestore
      <4>3. CASE irq_mode_q # STANDARD
        BY <3>4, <4>1, <4>3 DEF HandlerRestore
      <4> QED BY <4>2, <4>3
    <3>5. CASE HandlerReturn
      BY <3>5 DEF HandlerReturn
    <3>6. CASE HandlerRead \/ HandlerWrite
      BY <3>6 DEF HandlerRead, HandlerWrite
    <3> QED BY <3>1, <3>2, <3>3, <3>4, <3>5, <3>6
  <2>5. CASE hpc = "main" /\ hpc' = "main" /\ Reads
    BY <2>5 DEF Reads, ReadMstatus, WriteMstatus, SetMie, ClearMie, regVars, TypeOK, Mstatus
  <2>6. CASE hpc = "main" /\ hpc' = "main" /\ Starts
    BY <2>6 DEF Starts, Test1, Test2, Test3, Raise, Call
  <2>7. CASE hpc = "main" /\ hpc' = "main" /\ Loops
    BY <2>7 DEF Loops, Sample, Skip, Wait, CheckId, EndLoop, Call
  <2>8. CASE hpc = "main" /\ hpc' = "main" /\ Multiplies
    <3> USE <2>8 DEF Call, Finish, regVars, handlerVars
    <3>1. CASE ClearServed
      BY <3>1 DEF ClearServed
    <3>2. CASE mat_mult
      BY <3>2 DEF mat_mult
    <3>3. CASE Compare
      BY <3>3 DEF Compare
    <3>4. CASE Test5 \/ Bomb
      BY <3>4 DEF Test5, Bomb
    <3> QED BY <3>1, <3>2, <3>3, <3>4 DEF Multiplies
  <2>9. CASE Stall
    <3> USE <2>9 DEF Stall, coreVars, control, regVars, handlerVars
    <3>1. irq_served \in Nat
      BY DEF TypeOK
    <3>2. CASE irq_mode_q = STANDARD
      BY <3>1, <3>2
    <3>3. CASE irq_mode_q # STANDARD
      BY <3>1, <3>3
    <3> QED BY <3>2, <3>3
  <2> QED BY <2>3, <2>4, <2>5, <2>6, <2>7, <2>8, <2>9, CasesOfNext
<1> QED BY <1>1, <1>2

-----------------------------------------------------------------------------
(* The initial state.                                                      *)
LEMMA InitInv == Init => Inv
<1> SUFFICES ASSUME Init PROVE Inv
  OBVIOUS
<1>1. TypeOK /\ TypesToo
  <2>1. TypesToo
    BY DEF Init, InterruptInit, GeneratorInit, TypesToo
  <2>2. mstatus \in Mstatus /\ mmstatus \in Mstatus
    BY DEF Init, Reset, Mstatus
  <2>3. words \in 0..MaxWords /\ irq_served \in 0..MaxWords
    BY GeneratorAssumption DEF Init, GeneratorInit
  <2>4. i \in 1..(IRQ_NUM + 1) /\ Len(res) <= MAT_DIM * MAT_DIM
    BY DEF Init, IRQ_NUM, MAT_DIM
  <2> QED BY <2>1, <2>2, <2>3, <2>4 DEF Init, InterruptInit, GeneratorInit, TypeOK, Word
<1>2. Quiet /\ ~Serving /\ ~Bombing /\ ~Resting
  BY DEF Init, Quiet, Serving, Bombing, Resting
<1>3. Control /\ Masks /\ Serves
  BY <1>2 DEF Init, Control, Masks, Raising, Serves, Reset
<1>4. Software /\ Pipeline /\ RandomPhase
  BY <1>2
    DEF Init, InterruptInit, GeneratorInit, Reset, Software, Pipeline, RandomPhase,
        Switched, Settled
<1>5. Products
  <2>1. res = <<>> /\ pc = "start"
    BY DEF Init
  <2>2. Len(<<>>) = 0 /\ <<>> \in Seq(Elements) /\ 1 .. 0 = {}
    OBVIOUS
  <2> QED BY <2>1, <2>2 DEF Products
<1> QED BY <1>1, <1>3, <1>4, <1>5 DEF Inv

\* Every step keeps the inductive invariant.
LEMMA StepInv == Inv /\ [Next]_vars => Inv'
<1> SUFFICES ASSUME Inv, [Next]_vars PROVE Inv'
  OBVIOUS
<1>1. CASE Next
  <2>1. Control' /\ TypeOK' /\ TypesToo' /\ Products'
    BY <1>1, ControlStep, TypeStep, ResStep
  <2>2. Masks' /\ Serves' /\ Software' /\ Pipeline' /\ RandomPhase'
    BY <1>1, MasksStep, ServesStep, SoftwareStep, PipelineStep, RandomPhaseStep
  <2> QED BY <2>1, <2>2 DEF Inv
<1>2. CASE UNCHANGED vars
  <2> USE <1>2 DEF vars, coreVars, regVars, handlerVars, testVars, control, generatorVars
  <2>1. Control' /\ TypeOK' /\ TypesToo' /\ Products'
    BY
      DEF Inv, Control, Raising, TypeOK, TypesToo, Products, Quiet, Serving, Resting,
          Bombing
  <2>2. Masks' /\ Serves'
    BY DEF Inv, Masks, Raising, Serves, Serving, WaitServed, Left, Expect, Base
  <2>3. Software' /\ Pipeline' /\ RandomPhase'
    BY DEF Inv, Software, Pipeline, RandomPhase, Switched, Quiet, Bombing, Settled, Balanced
  <2> QED BY <2>1, <2>2, <2>3 DEF Inv
<1> QED BY <1>1, <1>2

\* In every reachable state the inductive invariant holds.
THEOREM InvHolds == Spec => []Inv
BY InitInv, StepInv, PTL DEF Spec

\* Every variable of the test keeps its type: in particular the program serves no
\* more random words than the generator drew, and its loop index stays in IRQ_ID_PRIORITY.
THEOREM TypeCorrect == Spec => []TypeOK
<1>1. Inv => TypeOK
  BY DEF Inv
<1> QED BY <1>1, InvHolds, PTL

\* The interrupt test never reports an error: for every set of random words and
\* masks and every timing, the lines are served one at a time in the order of priority,
\* exactly the masked ones are left, and the matrices multiply correctly.
THEOREM TestsPass == Spec => []NeverFails
<1>1. Inv => NeverFails
  BY DEF Inv, Control, Raising, NeverFails
<1> QED BY <1>1, InvHolds, PTL

\* An interrupt is taken for a line that is still pending, or for a word not yet served.
LEMMA TakesOnce ==
  Inv /\ [Next]_vars =>
    (hpc = "main" /\ hpc' = "id" =>
       IF irq_mode = IRQ_MODE_RND THEN irq_served < words ELSE mcause' \in irq_pending32_std)
<1> SUFFICES ASSUME Inv, [Next]_vars, hpc = "main", hpc' = "id"
             PROVE  IF irq_mode = IRQ_MODE_RND THEN irq_served < words
                                               ELSE mcause' \in irq_pending32_std
  OBVIOUS
<1>1. TakeIrq
  <2>1. hpc' # hpc
    OBVIOUS
  <2>2. Next
    BY <2>1 DEF vars, coreVars
  <2> QED BY <2>1, <2>2, CasesOfNext DEF Stall, coreVars
<1>2. CASE ~Bombing
  <2>1. irq_mode = 0
    BY <1>2 DEF Inv, Software
  <2> QED BY <1>1, <1>2, <2>1, TakesExpected DEF IRQ_MODE_RND
<1>3. CASE Bombing
  <2>1. mstatus.mie /\ irq_q # {}
    BY <1>1 DEF TakeIrq, irq_req_ctrl, irq_local_qual
  <2>2. pc \in {"mat_mult", "disable", "clear"} /\ irq_mode = IRQ_MODE_RND
    BY <1>3, <2>1 DEF Inv, RandomPhase, Switched
  <2>3. gen = "raised" /\ Balanced
    BY <1>3, <2>1, <2>2 DEF Inv, RandomPhase, Switched
  <2> QED BY <2>2, <2>3 DEF Balanced, Inv, TypeOK
<1> QED BY <1>2, <1>3

\* Every request is served once: no handler is entered again for a line that the
\* program has acknowledged, or for a random word already served.
THEOREM ServesOnce == Spec => ServedOnce
BY InvHolds, TakesOnce, PTL DEF Spec, ServedOnce
=============================================================================
