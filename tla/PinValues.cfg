\* Two users and two numbers, zero among them, tell whose coordinates the page shows;
\* a third is printed as the second.
SPECIFICATION ValuesSpec
CONSTANTS
  Users = {u1, u2}
  Numbers = {Zero, Some, Fine}
  Zero = Zero
  Some = Some
  Fine = Fine
  Rounded <- FineToSome
  Empty = Empty
  Text = Text
  Huge = Huge
  Null = Null
  NaN = NaN
  Inf = Inf
SYMMETRY Symmetry
INVARIANT PinsAsPosted
