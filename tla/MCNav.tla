------------------------------- MODULE MCNav -------------------------------
(* A small instance of Nav for TLC. *)
EXTENDS Nav, TLC

\* Sessions are only ever compared.
Symmetry == Permutations(Sessions)
=============================================================================
