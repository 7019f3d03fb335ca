------------------------------ MODULE MCOutbox ------------------------------
(***************************************************************************)
(* Outbox for TLC: symmetry sets.  Events and workers are interchangeable, *)
(* so the safety runs explore one of each permutation; the run with a      *)
(* liveness property does without.                                         *)
(***************************************************************************)
EXTENDS Outbox, TLC

Symmetry == Permutations(Events) \union Permutations(Workers)

=============================================================================
