----------------------------- MODULE AccountRows -----------------------------
(***************************************************************************)
(* What the handlers of SessionFlow take for granted of the database: an   *)
(* account goes with its sessions and its pin in one step, and a pin is    *)
(* set in one step.  ConnPool implements it.                               *)
(***************************************************************************)
CONSTANT Users

VARIABLE rows  \* the rows and columns that are set, as <<kind, user>>

Kinds == {"user", "session", "pin"}
RowsOf(u) == Kinds \X {u}

Init == rows = {"user", "session"} \X Users

SetPin(u) ==
  /\ <<"user", u>> \in rows
  /\ rows' = rows \cup {<<"pin", u>>}

DeleteAccount(u) == rows' = rows \ RowsOf(u)

Next == \E u \in Users : SetPin(u) \/ DeleteAccount(u)

Spec == Init /\ [][Next]_rows
=============================================================================
