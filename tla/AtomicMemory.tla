---------------------------- MODULE AtomicMemory ----------------------------
(***************************************************************************)
(* What the load/store unit promises the pipeline: every load and store    *)
(* takes effect exactly once, as a whole, in program order; a load writes  *)
(* the value it reads to its register, the loads in program order.         *)
(***************************************************************************)
EXTENDS DataAccess, Sequences

VARIABLES
  mem,   \* the memory as the program sees it
  todo,  \* loaded values on their way to the register file
  out    \* the register written last; out.seq tells two writes apart

vars == <<mem, todo, out>>

Init ==
  /\ mem \in [ByteAddr -> Byte]
  /\ todo = <<>>
  /\ out \in [rd : Reg, value : Word, seq : {0, 1}]

\* The access the pipeline issues in this step (NoAccess: none).
Result(acc) ==
  IF acc = NoAccess \/ acc.we THEN <<>>
  ELSE <<[rd |-> acc.rd, value |-> Loaded(mem, Address(acc), acc.type, acc.sign)]>>

Perform(acc) ==
  mem' = IF acc # NoAccess /\ acc.we
         THEN Stored(mem, Address(acc), acc.type, acc.wdata) ELSE mem

Issue(acc) ==
  /\ Perform(acc)
  /\ todo' = todo \o Result(acc)
  /\ UNCHANGED out

IssueAndWriteBack(acc) ==
  /\ todo # <<>>
  /\ Perform(acc)
  /\ todo' = Tail(todo) \o Result(acc)
  /\ out' = [rd |-> Head(todo).rd, value |-> Head(todo).value, seq |-> 1 - out.seq]

Next == \E acc \in Access \cup {NoAccess} : Issue(acc) \/ IssueAndWriteBack(acc)

Spec == Init /\ [][Next]_vars
=============================================================================
