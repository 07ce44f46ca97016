-------------------------- MODULE MCInterruptTest --------------------------
EXTENDS InterruptTest

(* One line that does not exist, and lines from each part of the order.     *)
MCRandomBits == {0, 3, 7, 11, 31}
MCWords == {{7}, {3, 31}}
=============================================================================
