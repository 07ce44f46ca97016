------------------------ MODULE InterruptController ------------------------
(***************************************************************************)
(* cv32e40p_int_controller: the level-sensitive interrupt lines are        *)
(* registered, qualified with mie, and the pending line of the highest     *)
(* priority is offered to the controller.  A 32-bit word of lines is the   *)
(* set of its bits.                                                        *)
(***************************************************************************)
EXTENDS Integers, Sequences

VARIABLE irq_q

IRQ_MASK == {3, 7, 11} \cup 16..31

InterruptInit == irq_q = {}

InterruptCycle(irq_i) == irq_q' = irq_i \cap IRQ_MASK

(* Mutant: the timer before the software interrupt. *)
EncoderOrder_timer_first == [n \in 1..16 |-> 32 - n] \o <<15, 14, 13, 12>>
                            \o <<11, 7, 3, 10, 2, 6, 9, 1, 5, 8, 0, 4>>

(* The order in which the encoder looks at the lines. *)
EncoderOrder == [n \in 1..16 |-> 32 - n] \o <<15, 14, 13, 12>>
                \o <<11, 3, 7, 10, 2, 6, 9, 1, 5, 8, 0, 4>>

irq_local_qual(mie) == irq_q \cap mie

irq_req_ctrl(mie, m_ie) == m_ie /\ irq_local_qual(mie) # {}

irq_id_ctrl(mie) ==
  EncoderOrder[CHOOSE n \in 1..32 :
                 /\ EncoderOrder[n] \in irq_local_qual(mie)
                 /\ \A m \in 1..(n - 1) : EncoderOrder[m] \notin irq_local_qual(mie)]
=============================================================================
