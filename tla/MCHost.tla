------------------------------- MODULE MCHost -------------------------------
(***************************************************************************)
(* The instance of Host for TLC: two units of demand, a clock of two       *)
(* instants (before and after a poll), the retry budget of the code.       *)
(***************************************************************************)
EXTENDS Host

CONSTANTS d1, d2
=============================================================================
