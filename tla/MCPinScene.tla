----------------------------- MODULE MCPinScene -----------------------------
(* A small instance of PinScene for TLC. *)
EXTENDS PinScene, TLC

\* Pins and positions are only ever compared.
Symmetry == Permutations(Pins) \cup Permutations(Positions)
=============================================================================
