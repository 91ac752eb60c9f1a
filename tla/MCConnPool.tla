----------------------------- MODULE MCConnPool -----------------------------
(* Small instances of ConnPool for TLC. *)
EXTENDS ConnPool, TLC

\* Calls and connections are only ever compared; so are users.
Symmetry == Permutations(Calls) \cup Permutations(Conns) \cup Permutations(Users)
=============================================================================
