---------------------------- MODULE MCSigninFlow ----------------------------
(* Small instances of SigninFlow for TLC. *)
EXTENDS SigninFlow, TLC

\* Key, secret and slot names are only ever compared.
Symmetry ==
  Permutations(Keys \ OversizeKeys) \cup Permutations(Secrets)
    \cup Permutations(SigninIds) \cup Permutations(SessionSecrets)
    \cup Permutations(Posts)
=============================================================================
