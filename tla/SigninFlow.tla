----------------------------- MODULE SigninFlow -----------------------------
(***************************************************************************)
(* From a public key to a web session: the rows of signin_requests, users  *)
(* and sessions, the POST /signin/{token} handlers that run at the same    *)
(* time, and the sweeper.                                                  *)
(*                                                                         *)
(* Every db.Exec and db.QueryRow is one atomic step (SQLite runs a single  *)
(* statement in a transaction of its own) and nothing holds between two of *)
(* them: net/http runs each request in its own goroutine and no handler    *)
(* opens a transaction around its statements.                              *)
(*                                                                         *)
(* Abstractions.  The random values a row is created with (secret and CSRF *)
(* token) are drawn together and named by one token, the row's secret.     *)
(* Secrets are long and never repeat; the short ids may.  A timestamp is   *)
(* read just before the statement that stores it, so it may be up to Lag   *)
(* behind the clock.  A QueryRow without ORDER BY may return any match.    *)
(***************************************************************************)
EXTENDS Integers, FiniteSets

CONSTANTS
  Keys,            \* public keys that complete an SSH handshake
  OversizeKeys,    \* those whose marshalled form exceeds 10000 bytes
  SigninIds,       \* the 4-character ids, drawn with repetition
  Secrets,         \* signin secrets, each drawn at most once
  SessionIds,      \* the 8-character session ids, drawn with repetition
  SessionSecrets,  \* session secrets, each drawn at most once
  Posts,           \* slots for POST /signin handlers in progress
  None,            \* no token, no key
  SigninTTL,       \* age after which the sweeper removes a signin request
  Lag,             \* longest delay between reading the clock and storing it
  MaxTime          \* bound on the clock

ASSUME SigninAssumption ==
  /\ OversizeKeys \subseteq Keys
  /\ SigninTTL \in Nat /\ Lag \in Nat /\ MaxTime \in Nat
  /\ None \notin Keys \cup Secrets \cup SigninIds

VARIABLES
  now,         \* the server's clock
  requests,    \* table signin_requests
  users,       \* table users: the columns user_id and pubkey
  lastUserId,  \* sqlite_sequence: the largest user_id ever assigned
  sessions,    \* table sessions
  posts,       \* what each POST /signin handler in progress knows
  pages,       \* secrets (so CSRF tokens) of the confirmation pages served
  (* history, read by the properties and by the drawing of fresh secrets *)
  links,       \* every link printed: its id, its secret, the key it is for
  grants,      \* every session created: its secret, link and user
  raced,       \* keys for which two handlers were about to insert a user
  straddled    \* links of handlers that held a user id when it was deleted

tables == <<requests, users, lastUserId, sessions>>
history == <<links, grants, raced, straddled>>
vars == <<now, tables, posts, pages, history>>

-----------------------------------------------------------------------------
(* Rows and handler records. *)

Request == [created_at : Nat, signin_id : SigninIds, signin_secret : Secrets,
            pubkey : Keys]
User    == [user_id : Nat, pubkey : Keys]
Session == [user_id : Nat, last_active : Nat, session_id : SessionIds,
            session_secret : SessionSecrets]
Link    == [signin_id : SigninIds, signin_secret : Secrets, pubkey : Keys]
Grant   == [session_secret : SessionSecrets, signin_secret : Secrets,
            user_id : Nat]

\* The statement a POST /signin handler runs next.
Steps == {"idle", "delete", "lookup", "create", "session"}

Post == [pc : Steps, signin_id : SigninIds \cup {None},
         signin_secret : Secrets \cup {None}, pubkey : Keys \cup {None},
         user_id : Nat]

NoPost == [pc |-> "idle", signin_id |-> None, signin_secret |-> None,
           pubkey |-> None, user_id |-> 0]

\* A value of time.Now() that is stored or used by a statement run now.
Stamps == {t \in 0..now : t + Lag >= now}

WithSigninId(id) == {r \in requests : r.signin_id = id}

\* The lookup never finds anybody.
NoUsersOf(key) == {}

UsersOf(key) == {u \in users : u.pubkey = key}

FreshSecrets == Secrets \ {l.signin_secret : l \in links}
FreshSessionSecrets == SessionSecrets \ {g.session_secret : g \in grants}

InFlight(secret) ==
  {p \in Posts : posts[p].pc # "idle" /\ posts[p].signin_secret = secret}

Init ==
  /\ now = 0
  /\ requests = {} /\ users = {} /\ lastUserId = 0 /\ sessions = {}
  /\ posts = [p \in Posts |-> NoPost]
  /\ pages = {}
  /\ links = {} /\ grants = {} /\ raced = {} /\ straddled = {}

-----------------------------------------------------------------------------
(* The SSH server's call: store a request, print its link. *)

StoreSigninRequest(key) ==
  /\ key \notin OversizeKeys
  /\ \E id \in SigninIds, secret \in FreshSecrets, t \in Stamps :
       /\ requests' = requests \cup
            {[created_at |-> t, signin_id |-> id, signin_secret |-> secret,
              pubkey |-> key]}
       /\ links' = links \cup
            {[signin_id |-> id, signin_secret |-> secret, pubkey |-> key]}
  /\ UNCHANGED <<now, users, lastUserId, sessions, posts, pages, grants,
                 raced, straddled>>

-----------------------------------------------------------------------------
(* GET /signin/{token}: serve the page that carries the CSRF token. *)

\* The signin_id alone decides.
UncheckedSecret(row, secret) == TRUE

SecretMatches(row, secret) == row.signin_secret = secret

ConfirmSignin(link) ==
  /\ \E row \in WithSigninId(link.signin_id) :
       /\ SecretMatches(row, link.signin_secret)
       /\ pages' = pages \cup {row.signin_secret}
  /\ UNCHANGED <<now, tables, posts, history>>

-----------------------------------------------------------------------------
(* POST /signin/{token}, one action per statement. *)

\* The form's token is not compared.
UncheckedCsrf(row, csrf) == TRUE

CsrfMatches(row, csrf) == row.signin_secret = csrf

\* The request row is read and the two tokens are compared with it; on a
\* mismatch the handler answers 400 and changes nothing.
BeginPost(p, link, csrf) ==
  /\ posts[p].pc = "idle"
  /\ \E row \in WithSigninId(link.signin_id) :
       /\ CsrfMatches(row, csrf)
       /\ SecretMatches(row, link.signin_secret)
       /\ posts' = [posts EXCEPT ![p] =
            [pc |-> "delete", signin_id |-> link.signin_id,
             signin_secret |-> link.signin_secret, pubkey |-> row.pubkey,
             user_id |-> 0]]
  /\ UNCHANGED <<now, tables, pages, history>>

\* Every row with this id goes, and the number of rows is not looked at.
Kept(id) == {r \in requests : r.signin_id # id}

DeleteRequest(p) ==
  /\ posts[p].pc = "delete"
  /\ requests' = Kept(posts[p].signin_id)
  /\ posts' = [posts EXCEPT ![p].pc = "lookup"]
  /\ UNCHANGED <<now, users, lastUserId, sessions, pages, history>>

FindUser(p) ==
  /\ posts[p].pc = "lookup"
  /\ \E user \in UsersOf(posts[p].pubkey) :
       posts' = [posts EXCEPT ![p].pc = "session",
                              ![p].user_id = user.user_id]
  /\ UNCHANGED <<now, tables, pages, history>>

MissUser(p) ==
  /\ posts[p].pc = "lookup"
  /\ UsersOf(posts[p].pubkey) = {}
  /\ posts' = [posts EXCEPT ![p].pc = "create"]
  /\ raced' = raced \cup
       {posts[q].pubkey : q \in {q \in Posts \ {p} :
          posts[q].pc = "create" /\ posts[q].pubkey = posts[p].pubkey}}
  /\ UNCHANGED <<now, tables, pages, links, grants, straddled>>

\* What a plain integer primary key does: the largest id in use, plus one.
ReusedUserId ==
  1 + (IF users = {} THEN 0
       ELSE CHOOSE m \in {u.user_id : u \in users} :
              \A u \in users : u.user_id <= m)

\* integer primary key autoincrement: an id is never assigned twice.
NextUserId == lastUserId + 1

CreateUser(p) ==
  /\ posts[p].pc = "create"
  /\ users' = users \cup {[user_id |-> NextUserId, pubkey |-> posts[p].pubkey]}
  /\ lastUserId' = NextUserId
  /\ posts' = [posts EXCEPT ![p].pc = "session", ![p].user_id = NextUserId]
  /\ UNCHANGED <<now, requests, sessions, pages, history>>

CreateSession(p) ==
  /\ posts[p].pc = "session"
  /\ \E id \in SessionIds, secret \in FreshSessionSecrets, t \in Stamps :
       /\ sessions' = sessions \cup
            {[user_id |-> posts[p].user_id, last_active |-> t,
              session_id |-> id, session_secret |-> secret]}
       /\ grants' = grants \cup
            {[session_secret |-> secret, user_id |-> posts[p].user_id,
              signin_secret |-> posts[p].signin_secret]}
  /\ posts' = [posts EXCEPT ![p] = NoPost]
  /\ UNCHANGED <<now, requests, users, lastUserId, pages, links, raced,
                 straddled>>

\* Any statement or draw of the handler fails: it answers 500, and what its
\* earlier statements did stays done.
FailPost(p) ==
  /\ posts[p].pc # "idle"
  /\ posts' = [posts EXCEPT ![p] = NoPost]
  /\ UNCHANGED <<now, tables, pages, history>>

-----------------------------------------------------------------------------
(* The sweeper's first statement; when it fails nobody looks. *)

\* <= for <, and a cutoff in seconds taken for one in minutes.
ExpiredEarly(row, t) == row.created_at <= t - SigninTTL
NeverExpired(row, t) == row.created_at < t - SigninTTL * 60

Expired(row, t) == row.created_at < t - SigninTTL

Sweep ==
  /\ \E t \in Stamps : requests' = {r \in requests : ~Expired(r, t)}
  /\ UNCHANGED <<now, users, lastUserId, sessions, posts, pages, history>>

-----------------------------------------------------------------------------
(* What the handlers of signed-in users do to the tables. *)

\* The transaction of POST /delete-account, sent by whoever holds a session
\* of the user.
UsersWithout(id) == {u \in users : u.user_id # id}

\* Only the first of its two deletes runs.
SessionsLeft(id) == sessions

SessionsWithout(id) == {s \in sessions : s.user_id # id}

DeleteAccount(id) ==
  /\ \E g \in grants : g.user_id = id
  /\ users' = UsersWithout(id)
  /\ sessions' = SessionsWithout(id)
  /\ straddled' = straddled \cup
       {posts[p].signin_secret :
          p \in {p \in Posts : posts[p].pc = "session" /\ posts[p].user_id = id}}
  /\ UNCHANGED <<now, requests, lastUserId, posts, pages, links, grants, raced>>

\* Signing out and the sweeper's second statement remove session rows.
EndSession(session) ==
  /\ sessions' = sessions \ {session}
  /\ UNCHANGED <<now, requests, users, lastUserId, posts, pages, history>>

-----------------------------------------------------------------------------

Tick ==
  /\ now < MaxTime
  /\ now' = now + 1
  /\ UNCHANGED <<tables, posts, pages, history>>

\* The process stops and starts again: the handlers in progress are lost,
\* the tables are on disk.
Restart ==
  /\ posts' = [p \in Posts |-> NoPost]
  /\ UNCHANGED <<now, tables, pages, history>>

HandlerStep(p) ==
  \/ \E link \in links, csrf \in pages \cup {None} : BeginPost(p, link, csrf)
  \/ DeleteRequest(p)
  \/ FindUser(p)
  \/ MissUser(p)
  \/ CreateUser(p)
  \/ CreateSession(p)
  \/ FailPost(p)

Next ==
  \/ \E key \in Keys : StoreSigninRequest(key)
  \/ \E link \in links : ConfirmSignin(link)
  \/ \E p \in Posts : HandlerStep(p)
  \/ \E id \in 1..lastUserId : DeleteAccount(id)
  \/ \E session \in sessions : EndSession(session)
  \/ Sweep
  \/ Tick
  \/ Restart

Spec == Init /\ [][Next]_vars

\* The clock runs, and the sweeper's statement does not fail for ever: its
\* goroutine waits on nothing but the ticker.
FairSpec == Spec /\ WF_vars(Tick) /\ WF_vars(Sweep)

-----------------------------------------------------------------------------
(* Properties. *)

\* The last lines say that no row holds a user_id that was never assigned.
TypeOK ==
  /\ now \in 0..MaxTime
  /\ requests \subseteq Request
  /\ users \subseteq User
  /\ lastUserId \in Nat
  /\ sessions \subseteq Session
  /\ posts \in [Posts -> Post]
  /\ pages \subseteq Secrets
  /\ links \subseteq Link
  /\ grants \subseteq Grant
  /\ raced \subseteq Keys
  /\ straddled \subseteq Secrets
  /\ \A u \in users : u.user_id \in 1..lastUserId
  /\ \A g \in grants : g.user_id \in 1..lastUserId
  /\ \A s \in sessions : s.user_id \in 1..lastUserId

\* A session row speaks for the key its sign-in link was made for: whenever
\* the user it names exists, that user has this key.  It must survive a
\* handler that looked a user up, lost it to /delete-account, and inserts a
\* session for the dead id while other keys create users.
SessionKeyBinding ==
  \A s \in sessions, g \in grants, l \in links, u \in users :
    /\ s.session_secret = g.session_secret
    /\ g.signin_secret = l.signin_secret
    /\ u.user_id = s.user_id
    => u.pubkey = l.pubkey

\* Only a form loaded from the link's own confirmation page creates a session.
ConfirmedBeforeGrant == \A g \in grants : g.signin_secret \in pages

\* users.pubkey is not unique, and SELECT and INSERT are two statements: a
\* key has two accounts only if two handlers stood between them at once.
DuplicateOnlyIfRaced ==
  \A u, v \in users : u # v /\ u.pubkey = v.pubkey => u.pubkey \in raced

\* A session of no user comes only from a sign-in that had already looked its
\* user up when that account was deleted.
OrphanOnlyIfStraddled ==
  \A s \in sessions, g \in grants :
    /\ s.session_secret = g.session_secret
    /\ \A u \in users : u.user_id # s.user_id
    => g.signin_secret \in straddled

Dead(link) == \A r \in requests : r.signin_secret # link.signin_secret

\* A link whose row is gone, redeemed or swept, stays dead: the row never
\* returns and no further POST is let in with it, whatever rows share its id.
DeadLinkStaysDead ==
  [][\A l \in links : Dead(l) =>
       /\ Dead(l)'
       /\ InFlight(l.signin_secret)' \subseteq InFlight(l.signin_secret)]_vars

\* A signin request disappears only when a handler redeems a link with its
\* id or when it is older than SigninTTL, however late a sweep runs.
NoEarlyExpiry ==
  [][\A r \in requests \ requests' :
       \/ now - r.created_at > SigninTTL
       \/ \E p \in Posts : /\ posts[p].pc = "delete"
                           /\ posts[p].signin_id = r.signin_id]_vars

\* The links are temporary: a request that expires before the clock's bound
\* is eventually gone, redeemed or not.
LinksExpire ==
  \A secret \in Secrets :
    (\E r \in requests : /\ r.signin_secret = secret
                         /\ r.created_at + SigninTTL < MaxTime)
      ~> (\A r \in requests : r.signin_secret # secret)

-----------------------------------------------------------------------------
(* What the properties rest on: how rows, handlers and links belong together. *)

LinkOf(row) == [signin_id |-> row.signin_id, signin_secret |-> row.signin_secret,
                pubkey |-> row.pubkey]

Unique ==
  /\ \A l, m \in links : l.signin_secret = m.signin_secret => l = m
  /\ \A g, h \in grants : g.session_secret = h.session_secret => g = h
  /\ \A s, t \in sessions : s.session_secret = t.session_secret => s = t
  /\ \A u, v \in users : u.user_id = v.user_id => u = v

\* A request row and a handler are those of a printed link, and a handler is at
\* work only on a link whose page was served.
Linked ==
  /\ \A r \in requests : LinkOf(r) \in links
  /\ \A p \in Posts : posts[p].pc # "idle" =>
       LinkOf(posts[p]) \in links /\ posts[p].signin_secret \in pages

\* If the user with this id exists, it has this key.
MayOnlyBe(id, key) == \A u \in users : u.user_id = id => u.pubkey = key

\* A user id in a handler, and one a session was created for, have been
\* assigned, and to nobody but the holder of the link's key.
Bound ==
  /\ \A p \in Posts : posts[p].pc = "session" =>
       /\ posts[p].user_id \in 1..lastUserId
       /\ MayOnlyBe(posts[p].user_id, posts[p].pubkey)
  /\ \A g \in grants :
       /\ g.signin_secret \in pages
       /\ \E l \in links : /\ l.signin_secret = g.signin_secret
                           /\ MayOnlyBe(g.user_id, l.pubkey)
  /\ \A s \in sessions : \E g \in grants :
       g.session_secret = s.session_secret /\ g.user_id = s.user_id

IInv == TypeOK /\ Unique /\ Linked /\ Bound

\* While a handler is about to insert a user, another one that is about to
\* insert the same user, or has done so, makes the key a raced one.
RaceInv ==
  \A p \in Posts : posts[p].pc = "create" =>
    /\ \A q \in Posts \ {p} :
         posts[q].pc = "create" /\ posts[q].pubkey = posts[p].pubkey
           => posts[p].pubkey \in raced
    /\ \A u \in users : u.pubkey = posts[p].pubkey => u.pubkey \in raced

\* A handler whose user is gone held the user's id when it went.
StraddleInv ==
  \A p \in Posts :
    posts[p].pc = "session" /\ (\A u \in users : u.user_id # posts[p].user_id)
      => posts[p].signin_secret \in straddled

-----------------------------------------------------------------------------
\* The tables implement key access: a session opens the account of the user
\* row it names, if there is one.
Opens == {pair \in SessionSecrets \X Keys : \E s \in sessions, u \in users :
            s.user_id = u.user_id /\ pair = <<s.session_secret, u.pubkey>>}

Access == INSTANCE KeyAccess WITH
  Tokens <- SessionSecrets,
  proven <- {l.pubkey : l \in links},
  drawn  <- {g.session_secret : g \in grants},
  access <- Opens

ImplementsKeyAccess == Access!Spec

=============================================================================
