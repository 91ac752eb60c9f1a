--------------------------- MODULE MCRenderState ---------------------------
(* A small instance of RenderState for TLC. *)
EXTENDS RenderState, TLC

\* Pins are only ever compared.
Symmetry == Permutations(Pins)
=============================================================================
