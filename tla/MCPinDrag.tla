------------------------------ MODULE MCPinDrag ------------------------------
(* Small instances of PinDrag for TLC. *)
EXTENDS PinDrag

\* Places on the globe are only ever compared.
Symmetry == Permutations(Positions)
=============================================================================
