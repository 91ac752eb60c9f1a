---------------------------- MODULE MCSessionFlow ----------------------------
(* Small instances of SessionFlow for TLC. *)
EXTENDS SessionFlow, TLC

\* Names are only ever compared.
Symmetry ==
  Permutations(Keys) \cup Permutations(Browsers) \cup Permutations(Slots)
    \cup Permutations(SessionIds) \cup Permutations(SessionSecrets)
    \cup Permutations(Positions)
=============================================================================
