------------------------------ MODULE MCBreaker -----------------------------
(***************************************************************************)
(* Breaker with the tuning of the code, in units of ten seconds: calls end *)
(* within one, window and cooldown are three, five failures in a row or    *)
(* more than half of ten calls open the breaker.                           *)
(***************************************************************************)
EXTENDS Breaker
=============================================================================
