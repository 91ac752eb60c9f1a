----------------------------- MODULE MCSshServer -----------------------------
(* Small instances of SshServer for TLC. *)
EXTENDS SshServer, TLC

\* Names are only ever compared.
Symmetry ==
  Permutations(Conns) \cup Permutations(Channels)
    \cup Permutations(Keys \ OversizeKeys)
=============================================================================
