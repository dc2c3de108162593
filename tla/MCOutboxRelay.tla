---------------------------- MODULE MCOutboxRelay ---------------------------
(***************************************************************************)
(* Instances of OutboxRelay for TLC: keys, writers and relays are model    *)
(* values; writers and keys are interchangeable.                           *)
(***************************************************************************)
EXTENDS OutboxRelay, TLC

WriterSymmetry == Permutations(Writers) \cup Permutations(Keys)
=============================================================================
