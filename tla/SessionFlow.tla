----------------------------- MODULE SessionFlow -----------------------------
(***************************************************************************)
(* What a signed-in browser can do: load a page, move its pin, sign out,   *)
(* delete its account, with several requests of several browsers in        *)
(* progress at once, their answers arriving in any order, and the sweeper  *)
(* removing idle sessions.                                                 *)
(*                                                                         *)
(* As in SigninFlow a statement is a step, a row's secret and CSRF token   *)
(* are one token that is drawn once, session ids may repeat, and a stored  *)
(* timestamp may be up to Lag behind the clock.  The columns lat and lon   *)
(* of users are the variable pins, which has a row for each user whose two *)
(* columns are not null.                                                   *)
(***************************************************************************)
EXTENDS Integers, FiniteSets

CONSTANTS
  Keys,            \* public keys
  Browsers,        \* cookie jars
  Slots,           \* requests in progress
  SessionIds,      \* the 8-character session ids, drawn with repetition
  SessionSecrets,  \* session secrets, each drawn at most once
  Positions,       \* places on the globe
  None,            \* no cookie, no token
  SessionTTL,      \* idle time after which the sweeper removes a session
  Lag,             \* longest delay between reading the clock and storing it
  MaxTime,         \* bound on the clock
  MaxUserId        \* bound on the accounts created

ASSUME SessionAssumption ==
  /\ SessionTTL \in Nat /\ Lag \in Nat /\ MaxTime \in Nat /\ MaxUserId \in Nat
  /\ None \notin SessionSecrets \cup Browsers \cup Positions

VARIABLES
  now,         \* the server's clock
  users,       \* table users: the columns user_id and pubkey
  pins,        \* table users: lat and lon, where they are set
  lastUserId,  \* sqlite_sequence: the largest user_id ever assigned
  sessions,    \* table sessions
  reqs,        \* what each request in progress knows
  jar,         \* the session cookie of each browser
  tabs,        \* CSRF tokens in the pages each browser has loaded
  (* history *)
  granted,     \* every session created: its secret, user and browser
  lastUse      \* when a request last refreshed the session with this secret

tables == <<users, pins, lastUserId, sessions>>
history == <<granted, lastUse>>
vars == <<now, tables, reqs, jar, tabs, history>>

-----------------------------------------------------------------------------

User    == [user_id : Nat, pubkey : Keys]
Pin     == [user_id : Nat, pos : Positions]
Session == [user_id : Nat, last_active : Nat, session_id : SessionIds,
            session_secret : SessionSecrets]
Cookie  == [session_id : SessionIds, session_secret : SessionSecrets]
Grant   == [session_secret : SessionSecrets, user_id : Nat, browser : Browsers]

Kinds == {"home", "pin", "signout", "delete"}

\* The statement a handler runs next; "reply": it has returned.
Steps == {"idle", "session", "pubkey", "keep", "pin", "signout", "delete",
          "reply"}

\* What the answer does to the cookie jar.
CookieOps == {"none", "set", "clear"}

Req == [pc : Steps, kind : Kinds, browser : Browsers \cup {None},
        cookie : Cookie \cup {None}, csrf : SessionSecrets \cup {None},
        user_id : Nat, set : CookieOps]

NoReq == [pc |-> "idle", kind |-> "home", browser |-> None, cookie |-> None,
          csrf |-> None, user_id |-> 0, set |-> "none"]

Stamps == {t \in 0..now : t + Lag >= now}

WithId(id) == {s \in sessions : s.session_id = id}

\* insert or replace, where there is an update.
Inserted(id) == TRUE

Exists(id) == \E u \in users : u.user_id = id

WithoutUser(rows, id) == {r \in rows : r.user_id # id}
FreshSecrets == SessionSecrets \ {g.session_secret : g \in granted}

Init ==
  /\ now = 0
  /\ users = {} /\ pins = {} /\ lastUserId = 0 /\ sessions = {}
  /\ reqs = [r \in Slots |-> NoReq]
  /\ jar = [b \in Browsers |-> None]
  /\ tabs = [b \in Browsers |-> {}]
  /\ granted = {}
  /\ lastUse = [s \in SessionSecrets |-> 0]

-----------------------------------------------------------------------------
(* Environment: a browser completes a sign-in (the module SigninFlow).     *)
(* The session is for a new user, for one that signs in again, or for one  *)
(* that was deleted after the sign-in looked it up.                        *)

SignIn(b) ==
  \E id \in 1..(lastUserId + 1), sid \in SessionIds, secret \in FreshSecrets,
     t \in Stamps :
    /\ id <= MaxUserId
    /\ IF id <= lastUserId
       THEN UNCHANGED <<users, lastUserId>>
       ELSE \E key \in Keys :
              /\ users' = users \cup {[user_id |-> id, pubkey |-> key]}
              /\ lastUserId' = id
    /\ sessions' = sessions \cup
         {[user_id |-> id, last_active |-> t, session_id |-> sid,
           session_secret |-> secret]}
    /\ granted' = granted \cup
         {[session_secret |-> secret, user_id |-> id, browser |-> b]}
    /\ lastUse' = [lastUse EXCEPT ![secret] = now]
    /\ jar' = [jar EXCEPT ![b] = [session_id |-> sid, session_secret |-> secret]]
    /\ UNCHANGED <<now, pins, reqs, tabs>>

\* The browser sends a request with its cookie of this moment.  The forms and
\* the pin's XMLHttpRequest carry the token of a page it has loaded.
Send(r, b, kind, csrf) ==
  /\ reqs[r].pc = "idle"
  /\ reqs' = [reqs EXCEPT ![r] =
       [pc |-> "session", kind |-> kind, browser |-> b, cookie |-> jar[b],
        csrf |-> csrf, user_id |-> 0, set |-> "none"]]
  /\ UNCHANGED <<now, tables, jar, tabs, history>>

-----------------------------------------------------------------------------
(* sessionFromRequest, then the CSRF check of the three POST handlers. *)

\* The session_id alone decides.
UncheckedSession(row, cookie) == TRUE

SessionMatches(row, cookie) == row.session_secret = cookie.session_secret

CsrfMatches(req, row) == req.kind = "home" \/ req.csrf = row.session_secret

FirstStatement(kind) ==
  CASE kind = "home"    -> "pubkey"
    [] kind = "pin"     -> "keep"
    [] kind = "signout" -> "signout"
    [] kind = "delete"  -> "delete"

\* The cookie the handler goes on with holds the secret read from the table.
SessionFound(r) ==
  /\ reqs[r].pc = "session"
  /\ reqs[r].cookie # None
  /\ \E row \in WithId(reqs[r].cookie.session_id) :
       /\ SessionMatches(row, reqs[r].cookie)
       /\ reqs' = [reqs EXCEPT
            ![r].pc = IF CsrfMatches(reqs[r], row)
                      THEN FirstStatement(reqs[r].kind) ELSE "reply",
            ![r].cookie.session_secret = row.session_secret,
            ![r].user_id = row.user_id]
  /\ UNCHANGED <<now, tables, jar, tabs, history>>

\* The invalid cookie is left in the browser.
CookieLeft == "none"

\* ErrInvalidSession: clearSessionCookie.
InvalidSession == "clear"

\* Without a cookie the handler answers at once; a cookie with no session
\* behind it is cleared.
SessionRefused(r) ==
  /\ reqs[r].pc = "session"
  /\ \/ /\ reqs[r].cookie = None
        /\ reqs' = [reqs EXCEPT ![r].pc = "reply"]
     \/ /\ reqs[r].cookie # None
        /\ \/ WithId(reqs[r].cookie.session_id) = {}
           \/ \E row \in WithId(reqs[r].cookie.session_id) :
                ~SessionMatches(row, reqs[r].cookie)
        /\ reqs' = [reqs EXCEPT ![r].pc = "reply", ![r].set = InvalidSession]
  /\ UNCHANGED <<now, tables, jar, tabs, history>>

-----------------------------------------------------------------------------
(* The handlers' own statements. *)

AfterPubkey(id) == IF Exists(id) THEN "keep" ELSE "reply"

\* GET /: a session whose user is gone is answered 500, its cookie stays.
ReadPubkey(r) ==
  /\ reqs[r].pc = "pubkey"
  /\ reqs' = [reqs EXCEPT ![r].pc = AfterPubkey(reqs[r].user_id)]
  /\ UNCHANGED <<now, tables, jar, tabs, history>>

\* update sessions set last_active = ? where session_id = ?
Refreshed(row, id, t) ==
  IF row.session_id = id THEN [row EXCEPT !.last_active = t] ELSE row

\* The update is left out.
NeverTouched(req, t) == sessions

\* The row is put back when it is missing.
Upserted(req, t) ==
  {Refreshed(s, req.cookie.session_id, t) : s \in sessions} \cup
    {[user_id |-> req.user_id, last_active |-> t,
      session_id |-> req.cookie.session_id,
      session_secret |-> req.cookie.session_secret]}

Touched(req, t) ==
  {Refreshed(s, req.cookie.session_id, t) : s \in sessions}

AfterKeep(kind) == IF kind = "pin" THEN "pin" ELSE "reply"

KeepAlive(r) ==
  /\ reqs[r].pc = "keep"
  /\ \E t \in Stamps : sessions' = Touched(reqs[r], t)
  /\ lastUse' = [s \in SessionSecrets |->
       IF s = reqs[r].cookie.session_secret THEN now ELSE lastUse[s]]
  /\ reqs' = [reqs EXCEPT ![r].pc = AfterKeep(reqs[r].kind), ![r].set = "set"]
  /\ UNCHANGED <<now, users, pins, lastUserId, jar, tabs, granted>>

\* update users set lat = ?, lon = ? where user_id = ?: to null when the form
\* has no position, and no row at all when the user is gone.
UpdatePin(r) ==
  LET id == reqs[r].user_id IN
  /\ reqs[r].pc = "pin"
  /\ \/ pins' = WithoutUser(pins, id)
     \/ /\ Exists(id)
        /\ \E pos \in Positions :
             pins' = WithoutUser(pins, id) \cup {[user_id |-> id, pos |-> pos]}
  /\ reqs' = [reqs EXCEPT ![r].pc = "reply"]
  /\ UNCHANGED <<now, users, lastUserId, sessions, jar, tabs, history>>

Signout(r) ==
  /\ reqs[r].pc = "signout"
  /\ sessions' = sessions \ WithId(reqs[r].cookie.session_id)
  /\ reqs' = [reqs EXCEPT ![r].pc = "reply", ![r].set = "clear"]
  /\ UNCHANGED <<now, users, pins, lastUserId, jar, tabs, history>>

DeleteAccount(r) ==
  LET id == reqs[r].user_id IN
  /\ reqs[r].pc = "delete"
  /\ users' = WithoutUser(users, id)
  /\ pins' = WithoutUser(pins, id)
  /\ sessions' = WithoutUser(sessions, id)
  /\ reqs' = [reqs EXCEPT ![r].pc = "reply", ![r].set = "clear"]
  /\ UNCHANGED <<now, lastUserId, jar, tabs, history>>

\* Two errors are ignored: the update of KeepAlive and the delete of Signout.
FailSilently(r) ==
  /\ \/ /\ reqs[r].pc = "keep"
        /\ reqs' = [reqs EXCEPT ![r].pc = AfterKeep(reqs[r].kind), ![r].set = "set"]
     \/ /\ reqs[r].pc = "signout"
        /\ reqs' = [reqs EXCEPT ![r].pc = "reply", ![r].set = "clear"]
  /\ UNCHANGED <<now, tables, jar, tabs, history>>

\* The others answer 500, or 400 when the position does not parse, and leave
\* the cookie as the handler had it.  A failed select of the session counts as
\* an invalid session.
Fail(r) ==
  /\ reqs[r].pc \in {"pubkey", "pin", "delete"}
       \/ (reqs[r].pc = "session" /\ reqs[r].cookie # None)
  /\ reqs' = [reqs EXCEPT ![r].pc = "reply",
       ![r].set = IF reqs[r].pc = "session" THEN InvalidSession ELSE @]
  /\ UNCHANGED <<now, tables, jar, tabs, history>>

-----------------------------------------------------------------------------
(* The answer reaches the browser, after or before those sent later. *)

Reply(r) ==
  LET req == reqs[r] IN
  /\ req.pc = "reply"
  /\ jar' = CASE req.set = "set"   -> [jar EXCEPT ![req.browser] = req.cookie]
              [] req.set = "clear" -> [jar EXCEPT ![req.browser] = None]
              [] req.set = "none"  -> jar
  /\ tabs' = IF req.kind = "home" /\ req.set = "set"
             THEN [tabs EXCEPT ![req.browser] = @ \cup {req.cookie.session_secret}]
             ELSE tabs
  /\ reqs' = [reqs EXCEPT ![r] = NoReq]
  /\ UNCHANGED <<now, tables, history>>

\* The connection is lost and nobody sees the answer.
LoseReply(r) ==
  /\ reqs[r].pc = "reply"
  /\ reqs' = [reqs EXCEPT ![r] = NoReq]
  /\ UNCHANGED <<now, tables, jar, tabs, history>>

-----------------------------------------------------------------------------
(* The sweeper's second statement, the clock, a restart. *)

\* A cutoff in hours taken for one in days.
NeverIdle(row, t) == row.last_active < t - SessionTTL * 24

Idle(row, t) == row.last_active < t - SessionTTL

SweepSessions ==
  /\ \E t \in Stamps : sessions' = {s \in sessions : ~Idle(s, t)}
  /\ UNCHANGED <<now, users, pins, lastUserId, reqs, jar, tabs, history>>

Tick ==
  /\ now < MaxTime
  /\ now' = now + 1
  /\ UNCHANGED <<tables, reqs, jar, tabs, history>>

Restart ==
  /\ reqs' = [r \in Slots |-> NoReq]
  /\ UNCHANGED <<now, tables, jar, tabs, history>>

Handler(r) ==
  \/ SessionFound(r)
  \/ SessionRefused(r)
  \/ ReadPubkey(r)
  \/ KeepAlive(r)
  \/ UpdatePin(r)
  \/ Signout(r)
  \/ DeleteAccount(r)
  \/ FailSilently(r)
  \/ Fail(r)

Next ==
  \/ \E b \in Browsers : SignIn(b)
  \/ \E r \in Slots, b \in Browsers :
       \/ Send(r, b, "home", None)
       \/ \E kind \in Kinds \ {"home"}, csrf \in tabs[b] : Send(r, b, kind, csrf)
  \/ \E r \in Slots : Handler(r) \/ Reply(r) \/ LoseReply(r)
  \/ SweepSessions
  \/ Tick
  \/ Restart

Spec == Init /\ [][Next]_vars

\* The clock and the sweeper run; a browser that is used keeps loading pages;
\* not every answer is lost and not every handler is cut short by a restart.
FairSpec ==
  /\ Spec
  /\ WF_vars(Tick) /\ WF_vars(SweepSessions)
  /\ \A b \in Browsers : SF_vars(\E r \in Slots : Send(r, b, "home", None))
  /\ \A r \in Slots : SF_vars(Handler(r)) /\ SF_vars(Reply(r))

-----------------------------------------------------------------------------
(* Properties. *)

\* The last two lines say that pins holds columns of users.
TypeOK ==
  /\ now \in 0..MaxTime
  /\ users \subseteq User
  /\ pins \subseteq Pin
  /\ lastUserId \in 0..MaxUserId
  /\ sessions \subseteq Session
  /\ reqs \in [Slots -> Req]
  /\ jar \in [Browsers -> Cookie \cup {None}]
  /\ tabs \in [Browsers -> SUBSET SessionSecrets]
  /\ granted \subseteq Grant
  /\ lastUse \in [SessionSecrets -> 0..MaxTime]
  /\ \A p \in pins : \E u \in users : u.user_id = p.user_id
  /\ \A p, q \in pins : p.user_id = q.user_id => p = q

GrantedTo(b) == {g \in granted : g.browser = b}

\* Session ids repeat, and the handlers set the cookie again from the row they
\* read: no browser ever holds the session, or a page with the CSRF token, of
\* another browser's sign-in.
CookieStaysHome ==
  \A b \in Browsers :
    LET mine == {g.session_secret : g \in GrantedTo(b)} IN
    /\ jar[b] # None => jar[b].session_secret \in mine
    /\ tabs[b] \subseteq mine

\* The session is read in one statement and the user's row changed in another:
\* a pin or an account changes only at the request of a browser that has signed
\* in as this user, whatever sessions came and went in between.
TouchedByOwner ==
  [][\A u \in users :
       \/ /\ u \in users'
          /\ {p \in pins' : p.user_id = u.user_id}
               = {p \in pins : p.user_id = u.user_id}
       \/ \E r \in Slots :
            /\ reqs[r].pc \in {"pin", "delete"}
            /\ \E g \in GrantedTo(reqs[r].browser) : g.user_id = u.user_id]_vars

Gone(secret) == \A s \in sessions : s.session_secret # secret

\* A session signed out, deleted or swept while other requests use it does not
\* come back when they refresh it.
NoResurrection ==
  [][\A g \in granted : Gone(g.session_secret) => Gone(g.session_secret)']_vars

\* A session in use is not swept: its row goes when it signs out, when its
\* account is deleted, or when no request has refreshed it for SessionTTL, less
\* the Lag by which a slow request may set last_active back.
ActiveSessionKept ==
  [][\A s \in sessions : Gone(s.session_secret)' =>
       \/ now - lastUse[s.session_secret] > SessionTTL - Lag
       \/ \E r \in Slots : /\ reqs[r].pc = "signout"
                           /\ reqs[r].cookie.session_id = s.session_id
       \/ \E r \in Slots : /\ reqs[r].pc = "delete"
                           /\ reqs[r].user_id = s.user_id]_vars

Holds(b, secret) == jar[b] # None /\ jar[b].session_secret = secret

\* Late answers can bring a signed-out cookie back; a browser in use gets rid
\* of a cookie whose session is gone.
StaleCookieDropped ==
  \A b \in Browsers, secret \in SessionSecrets :
    Holds(b, secret) /\ Gone(secret) ~> ~Holds(b, secret)

\* A session nobody refreshes is eventually removed, if its time comes before
\* the clock's bound.
IdleSessionsExpire ==
  \A secret \in SessionSecrets, at \in 0..(MaxTime - SessionTTL - 1) :
    (\E s \in sessions : s.session_secret = secret /\ s.last_active = at)
      ~> ~(\E s \in sessions : s.session_secret = secret /\ s.last_active = at)

=============================================================================
