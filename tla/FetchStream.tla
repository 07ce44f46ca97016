---------------------------- MODULE FetchStream ----------------------------
(***************************************************************************)
(* What the prefetch buffer promises the aligner: the words of the path    *)
(* the program follows, in order, each once.  The path is consecutive words*)
(* except that a branch continues at its target at once, and a hardware    *)
(* loop jump continues at its target after one more word (HWLP_END).  Both *)
(* are asked for by the fetch stage; the path changes in no other way.     *)
(***************************************************************************)
EXTENDS Naturals

CONSTANT WORDS  \* number of words of the address space

VARIABLES
  asked,   \* the change of flow the fetch stage asked for in the last cycle
  next,    \* the word of the path to hand over next
  after,   \* the word after that one
  out      \* the word handed over last; out.seq tells two deliveries apart

vars == <<asked, next, after, out>>

Place == 0 .. WORDS - 1
Following(w) == (w + 1) % WORDS

NoChange == [kind |-> "none", target |-> 0]
ToBranch(target) == [kind |-> "branch", target |-> target]
ToLoop(target) == [kind |-> "loop", target |-> target]

Init ==
  /\ asked = NoChange
  /\ next \in Place /\ after = Following(next)
  /\ out \in [word : Place, seq : {0, 1}]

Deliver == out' = [word |-> next, seq |-> 1 - out.seq]

ContinueAt(w) == next' = w /\ after' = Following(w)

\* No change of flow is asked for.
Fetch == asked' = NoChange /\ Deliver /\ ContinueAt(after)
Wait == asked' = NoChange /\ UNCHANGED <<next, after, out>>

Branch(target) == asked' = ToBranch(target) /\ ContinueAt(target) /\ UNCHANGED out

LoopJump(target) ==
  asked' = ToLoop(target) /\ after' = target /\ UNCHANGED <<next, out>>

LoopJumpFetch(target) == asked' = ToLoop(target) /\ Deliver /\ ContinueAt(target)

Next ==
  \/ Fetch
  \/ Wait
  \/ \E t \in Place : Branch(t) \/ LoopJump(t) \/ LoopJumpFetch(t)

Spec == Init /\ [][Next]_vars
=============================================================================
