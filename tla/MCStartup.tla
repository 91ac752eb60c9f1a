----------------------------- MODULE MCStartup -----------------------------
(* Small instances of Startup for TLC. *)
EXTENDS Startup, TLC

\* Processes are only ever compared.
Symmetry == Permutations(Procs)
=============================================================================
