---------------------------- MODULE MCPinValues ----------------------------
(* A small instance of PinValues for TLC. *)
EXTENDS PinValues, TLC

CONSTANTS Some, Fine  \* numbers; Fine has more than six decimals, and is near Some

FineToSome == [n \in Numbers |-> IF n = Fine THEN Some ELSE n]

\* Users are only ever compared.
Symmetry == Permutations(Users)
=============================================================================
