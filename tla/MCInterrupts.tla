---- MODULE MCInterrupts ----
(* Printers 0 and 7 and terminal 7: two devices of a line, and two lines of  *)
(* which the one with the terminal has the lower priority.                   *)
EXTENDS Interrupts

MCAttached == {<<20, 0>>, <<20, 7>>, <<21, 7>>}
=============================================================================
