------------------------------ MODULE KeyAccess ------------------------------
(***************************************************************************)
(* What signing in with a key promises, whatever the tables behind it: a   *)
(* session token, once drawn, opens at most the account of one key, a key  *)
(* somebody proved to hold over SSH; the token may lose that access and    *)
(* never gains another.                                                    *)
(***************************************************************************)
CONSTANTS
  Keys,    \* public keys
  Tokens   \* session tokens

VARIABLES
  proven,  \* keys for which a link was handed out after an SSH handshake
  drawn,   \* tokens that have been used for a session
  access   \* pairs <<token, key>>: the token opens the account of the key

vars == <<proven, drawn, access>>

Init == proven = {} /\ drawn = {} /\ access = {}

Prove(key) ==
  /\ proven' = proven \cup {key}
  /\ UNCHANGED <<drawn, access>>

Grant(token, key) ==
  /\ token \notin drawn
  /\ key \in proven
  /\ drawn' = drawn \cup {token}
  /\ access' = access \cup {<<token, key>>}
  /\ UNCHANGED proven

\* A token drawn for an account that has just been deleted opens nothing.
GrantNothing(token) ==
  /\ token \notin drawn
  /\ drawn' = drawn \cup {token}
  /\ UNCHANGED <<proven, access>>

Revoke(pairs) ==
  /\ access' = access \ pairs
  /\ UNCHANGED <<proven, drawn>>

Next ==
  \/ \E key \in Keys : Prove(key)
  \/ \E token \in Tokens, key \in Keys : Grant(token, key)
  \/ \E token \in Tokens : GrantNothing(token)
  \/ \E pairs \in SUBSET access : Revoke(pairs)

Spec == Init /\ [][Next]_vars
=============================================================================
