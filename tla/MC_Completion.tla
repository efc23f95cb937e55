--------------------------- MODULE MC_Completion ----------------------------
(* Three threads: one waits for ever, one interruptibly, and one             *)
(* interruptibly with a timeout as well.                                     *)
EXTENDS Completion

CONSTANTS a, b, c

TheTimed == {b}
TheInterruptible == {b, c}
=============================================================================
