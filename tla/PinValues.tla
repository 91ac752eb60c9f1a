----------------------------- MODULE PinValues -----------------------------
(***************************************************************************)
(* The way of a pin's coordinates: form value, float, column, line of      *)
(* pins.csv, float in the page.  Each station has values of its own that   *)
(* the next one takes for something else.                                  *)
(***************************************************************************)
CONSTANTS
  Users,
  Numbers,          \* finite coordinates
  Zero,             \* one of them
  Rounded,          \* to six decimals
  NaN, Inf,         \* floats, and what ParseFloat takes for them
  Empty, Text, Huge,\* no such field, no number, out of range
  Null              \* in a column; of a page, nobody

ASSUME ValuesAssumption ==
  /\ Zero \in Numbers
  /\ Rounded \in [Numbers -> Numbers]
  /\ Numbers \cap {NaN, Inf, Empty, Text, Huge, Null} = {}
  /\ NaN # Inf /\ NaN # Null /\ Inf # Null
  /\ {Empty, Text, Huge} \cap {NaN, Inf} = {}

VARIABLES
  rows,    \* the columns lat and lon of users
  page     \* the page of one visitor: whose it is, the pins, whether the pin place has
           \* a pin, and what the rows were

valuesVars == <<rows, page>>

-----------------------------------------------------------------------------

Field == Numbers \cup {Empty, Text, Huge, NaN, Inf}
Column == Numbers \cup {Null, Inf}
Pair(S) == [lat : S, lon : S]

NoPin == [lat |-> Null, lon |-> Null]

\* ParseFloat takes NaN and infinities; a number out of range is an error.
BothParse(lat, lon) == {lat, lon} \subseteq Numbers \cup {NaN, Inf}

\* The column keeps it.
AsFloat(float) == float
\* SQLite has no NaN: it binds null.
ToColumn(float) == IF float = NaN THEN Null ELSE float

\* The condition of the query forgets one column.
LatNotNull(row) == row.lat # Null
BothNotNull(row) == row.lat # Null /\ row.lon # Null

\* Scan stops at the first null and leaves the rest Zero; nobody looks at its error.
Scanned(row) ==
  [lat |-> IF row.lat = Null THEN Zero ELSE row.lat,
   lon |-> IF row.lat = Null \/ row.lon = Null THEN Zero ELSE row.lon]

SixDecimals(column) == IF column \in Numbers THEN Rounded[column] ELSE column

\* %.6f rounds; it prints an infinity as +Inf or -Inf, no number for the page's
\* parseFloat.
ParseFloat(column) == IF column = Inf THEN NaN ELSE SixDecimals(column)

ParseCSV(row) ==
  LET line == Scanned(row) IN [lat |-> ParseFloat(line.lat), lon |-> ParseFloat(line.lon)]

-----------------------------------------------------------------------------

ValuesInit ==
  /\ rows = [u \in Users |-> NoPin]
  /\ page = [of |-> Null, well |-> TRUE, pins |-> rows, rows |-> rows]

\* UpdatePinHandler for a request that is signed in.
RemovePin(u) == rows' = [rows EXCEPT ![u] = NoPin]

SetPin(u, lat, lon) ==
  /\ BothParse(lat, lon)
  /\ rows' = [rows EXCEPT ![u] = [lat |-> ToColumn(lat), lon |-> ToColumn(lon)]]

UpdatePin(u, lat, lon) ==
  /\ IF {lat, lon} = {Empty} THEN RemovePin(u) ELSE SetPin(u, lat, lon)
  /\ UNCHANGED page

\* The place is filled if there is no pin at all.
FilledIfNone(me, listed) == listed = {}
\* placedMine.
WellFilled(me, listed) == me \notin listed

\* PinsHandler and populatePins; a visitor who is not signed in is none of the users.
Load(me) ==
  LET listed == {u \in Users : BothNotNull(rows[u])} IN
  /\ page' = [of |-> me,
              pins |-> [u \in Users |-> IF u \in listed THEN ParseCSV(rows[u]) ELSE NoPin],
              well |-> WellFilled(me, listed), rows |-> rows]
  /\ UNCHANGED rows

ValuesNext ==
  \/ \E u \in Users, lat, lon \in Field : UpdatePin(u, lat, lon)
  \/ \E me \in Users \cup {Null} : Load(me)

ValuesSpec == ValuesInit /\ [][ValuesNext]_valuesVars

-----------------------------------------------------------------------------
(* Properties. *)

Shown(u) == page.pins[u] # NoPin
\* latLonToVector makes something of two numbers only.
Drawn(u) == page.pins[u].lat # NaN /\ page.pins[u].lon # NaN

ValuesTypeOK ==
  /\ rows \in [Users -> Pair(Column)]
  /\ page \in [of : Users \cup {Null}, well : BOOLEAN, rows : [Users -> Pair(Column)],
               pins : [Users -> Pair(Numbers \cup {NaN}) \cup {NoPin}]]

\* A pin the page draws is where its user has put it, to six decimals: none at 0, 0
\* comes out of a row that is null in part, which a NaN makes.
NoPhantomPin ==
  \A u \in Users : Shown(u) /\ Drawn(u) =>
    page.pins[u] = [lat |-> SixDecimals(page.rows[u].lat),
                    lon |-> SixDecimals(page.rows[u].lon)]

\* A signed-in visitor sees a pin in the pin place or on the globe, unless he has
\* posted an infinity.
PlaceOrPin ==
  LET me == page.of IN
  me # Null /\ ~page.well =>
    \/ Shown(me) /\ Drawn(me)
    \/ Inf \in {page.rows[me].lat, page.rows[me].lon}

\* Whatever is posted, the page shows it or nothing, and misleads nobody but one who
\* posted an infinity.
PinsAsPosted == ValuesTypeOK /\ NoPhantomPin /\ PlaceOrPin
=============================================================================
