-------------------------- MODULE SessionFlowProofs --------------------------
(***************************************************************************)
(* The safety of sessions, for any number of browsers, keys, requests in   *)
(* progress and sign-ins.                                                  *)
(***************************************************************************)
EXTENDS SessionFlow, TLAPS

\* The browser signed in and was given this secret.
Owns(b, secret) == \E g \in granted : g.browser = b /\ g.session_secret = secret

\* A cookie names the row its secret belongs to, if there is one.
CookieFits(cookie) ==
  \A s \in sessions :
    s.session_secret = cookie.session_secret => s.session_id = cookie.session_id

Kept(b, cookie) == cookie # None => Owns(b, cookie.session_secret) /\ CookieFits(cookie)

\* The handler has found a session of its browser.
Within == {"pubkey", "keep", "pin", "signout", "delete"}

\* What a request in progress carries is its browser's, and so is the user it works for.
ReqFits(req) ==
  /\ req.pc # "idle" => req.browser \in Browsers
  /\ Kept(req.browser, req.cookie)
  /\ req.pc \in Within =>
       /\ req.cookie # None
       /\ \E g \in granted : g.browser = req.browser /\ g.user_id = req.user_id
  /\ req.set = "set" => req.cookie # None

SecretsOnce ==
  \A g, h \in granted : g.session_secret = h.session_secret => g = h

SessionsGranted ==
  \A s \in sessions : \E g \in granted :
    g.session_secret = s.session_secret /\ g.user_id = s.user_id

JarsFit ==
  \A b \in Browsers : Kept(b, jar[b]) /\ \A secret \in tabs[b] : Owns(b, secret)

Linked ==
  /\ SecretsOnce
  /\ SessionsGranted
  /\ JarsFit
  /\ \A r \in Slots : ReqFits(reqs[r])

\* A row is at most Lag behind the last request that refreshed it.
Timed ==
  /\ \A secret \in SessionSecrets : lastUse[secret] <= now
  /\ \A s \in sessions : s.last_active + Lag >= lastUse[s.session_secret]

IInv == TypeOK /\ Linked /\ Timed

-----------------------------------------------------------------------------

\* The rows of sessions are those of before, refreshed, or fewer.
NoNewRow ==
  \A s \in sessions' : \E q \in sessions :
    /\ s.session_secret = q.session_secret /\ s.session_id = q.session_id
    /\ s.user_id = q.user_id

\* Without a new row what is known of cookies and rows stays known.
LEMMA LinksKept ==
  ASSUME Linked, NoNewRow, UNCHANGED granted
  PROVE  /\ SecretsOnce' /\ SessionsGranted'
         /\ \A b, cookie : Kept(b, cookie) => Kept(b, cookie)'
         /\ \A req : ReqFits(req) => ReqFits(req)'
<1>1. SecretsOnce' /\ SessionsGranted'
  BY DEF Linked, SecretsOnce, SessionsGranted, NoNewRow
<1>2. \A cookie : CookieFits(cookie) => CookieFits(cookie)'
  BY DEF CookieFits, NoNewRow
<1>3. \A b, secret : Owns(b, secret)' <=> Owns(b, secret)
  BY DEF Owns
<1>4. \A b, cookie : Kept(b, cookie) => Kept(b, cookie)'
  BY <1>2, <1>3 DEF Kept
<1>5. \A req : ReqFits(req) => ReqFits(req)'
  BY <1>4 DEF ReqFits
<1>6. QED
  BY <1>1, <1>4, <1>5

\* One request goes on, or is over.
LEMMA ReqStep ==
  ASSUME Linked, reqs \in [Slots -> Req], NEW r \in Slots, NEW new \in Req,
         reqs' = [reqs EXCEPT ![r] = new],
         ReqFits(new), NoNewRow, UNCHANGED <<jar, tabs, granted>>
  PROVE  Linked' /\ reqs' \in [Slots -> Req]
<1>1. /\ reqs'[r] = new /\ reqs' \in [Slots -> Req]
      /\ \A q \in Slots : q # r => reqs'[q] = reqs[q]
  OBVIOUS
<1>2. ASSUME NEW q \in Slots
      PROVE  ReqFits(reqs[q])'
  <2>1. PICK req : req = reqs'[q]
    OBVIOUS
  <2>2. ReqFits(req)
    BY <1>1, <2>1 DEF Linked
  <2>3. ReqFits(req)'
    BY <2>2, LinksKept
  <2>4. QED
    BY <2>1, <2>3 DEF ReqFits, Kept, Owns, CookieFits
<1>3. JarsFit'
  <2>1. \A b \in Browsers : Kept(b, jar[b])'
    BY LinksKept DEF Linked, JarsFit
  <2>2. \A b, secret : Owns(b, secret)' <=> Owns(b, secret)
    BY DEF Owns
  <2>3. QED
    BY <2>1, <2>2 DEF Linked, JarsFit
<1>4. QED
  BY <1>1, <1>2, <1>3, LinksKept DEF Linked

\* The rows of another time are those of now, or fewer.
LEMMA TimedKept ==
  ASSUME Timed, sessions' \subseteq sessions, UNCHANGED <<now, lastUse>>
  PROVE  Timed'
BY DEF Timed

\* A request that has been sent.
LEMMA Request ==
  ASSUME IInv, NEW r \in Slots
  PROVE  /\ reqs \in [Slots -> Req] /\ reqs[r] \in Req
         /\ ReqFits(reqs[r])
         /\ reqs[r].cookie # None => reqs[r].cookie \in Cookie
<1>1. reqs \in [Slots -> Req] /\ reqs[r] \in Req /\ ReqFits(reqs[r])
  BY DEF IInv, TypeOK, Linked
<1>2. reqs[r].cookie \in Cookie \cup {None}
  BY <1>1 DEF Req
<1>3. QED
  BY <1>1, <1>2

\* A slot without a request.
LEMMA NoReqFits == NoReq \in Req /\ ReqFits(NoReq)
<1>1. NoReq \in Req
  BY DEF NoReq, Req, Steps, Kinds, CookieOps
<1>2. ReqFits(NoReq)
  BY DEF NoReq, ReqFits, Kept, Within
<1>3. QED
  BY <1>1, <1>2

\* A request whose step and cookie operation change.
LEMMA ReqGoesOn ==
  ASSUME IInv, NEW r \in Slots, NEW step \in Steps \ {"idle"}, NEW op \in CookieOps,
         reqs[r].pc # "idle",
         step \in Within => reqs[r].pc \in Within,
         op = "set" => reqs[r].cookie # None
  PROVE  LET new == [reqs[r] EXCEPT !.pc = step, !.set = op]
         IN new \in Req /\ ReqFits(new)
<1>1. reqs[r] \in Req /\ ReqFits(reqs[r])
  BY Request
<1>2. PICK new : new = [reqs[r] EXCEPT !.pc = step, !.set = op]
  OBVIOUS
<1>3. /\ new \in Req /\ new.pc = step /\ new.set = op
      /\ new.browser = reqs[r].browser /\ new.cookie = reqs[r].cookie
      /\ new.user_id = reqs[r].user_id
  BY <1>1, <1>2 DEF Req
<1>4. ReqFits(new)
  BY <1>1, <1>3 DEF ReqFits
<1>5. QED
  BY <1>2, <1>3, <1>4

\* No row changes.
LEMMA SameRows == UNCHANGED sessions => NoNewRow
BY DEF NoNewRow

-----------------------------------------------------------------------------

\* Nobody has signed in.
LEMMA InitIInv == Init => IInv
<1> SUFFICES ASSUME Init PROVE IInv
  OBVIOUS
<1>1. TypeOK
  BY NoReqFits, SessionAssumption DEF Init, TypeOK
<1>2. \A r \in Slots : ReqFits(reqs[r])
  BY NoReqFits DEF Init
<1>3. Linked
  BY <1>2 DEF Init, Linked, SecretsOnce, SessionsGranted, JarsFit, Kept
<1>4. Timed
  BY DEF Init, Timed
<1>5. QED
  BY <1>1, <1>3, <1>4 DEF IInv

\* A new secret for a new row and the cookie of one browser.
LEMMA SignInIInv ==
  ASSUME IInv, NEW b \in Browsers, SignIn(b)
  PROVE  IInv'
<1>1. PICK id \in 1..(lastUserId + 1), sid \in SessionIds, secret \in FreshSecrets, t \in Stamps :
        /\ id <= MaxUserId
        /\ IF id <= lastUserId
           THEN UNCHANGED <<users, lastUserId>>
           ELSE \E key \in Keys :
                  /\ users' = users \cup {[user_id |-> id, pubkey |-> key]}
                  /\ lastUserId' = id
        /\ sessions' = sessions \cup
             {[user_id |-> id, last_active |-> t, session_id |-> sid,
               session_secret |-> secret]}
        /\ granted' = granted \cup
             {[session_secret |-> secret, user_id |-> id, browser |-> b]}
        /\ lastUse' = [lastUse EXCEPT ![secret] = now]
        /\ jar' = [jar EXCEPT ![b] = [session_id |-> sid, session_secret |-> secret]]
        /\ UNCHANGED <<now, pins, reqs, tabs>>
  BY DEF SignIn
<1>2. PICK row, grant, cookie :
        /\ row = [user_id |-> id, last_active |-> t, session_id |-> sid,
                  session_secret |-> secret]
        /\ grant = [session_secret |-> secret, user_id |-> id, browser |-> b]
        /\ cookie = [session_id |-> sid, session_secret |-> secret]
  OBVIOUS
<1>3. /\ id \in Nat /\ t \in Nat /\ now \in Nat /\ t + Lag >= now
      /\ secret \in SessionSecrets /\ \A g \in granted : g.session_secret # secret
  BY SessionAssumption DEF IInv, TypeOK, Stamps, FreshSecrets
<1>4. /\ row \in Session /\ grant \in Grant /\ cookie \in Cookie
      /\ sessions' = sessions \cup {row} /\ granted' = granted \cup {grant}
      /\ jar' = [jar EXCEPT ![b] = cookie]
      /\ row.session_secret = secret /\ row.session_id = sid /\ row.user_id = id
      /\ row.last_active = t
      /\ grant.session_secret = secret /\ grant.user_id = id /\ grant.browser = b
      /\ cookie.session_secret = secret /\ cookie.session_id = sid
  BY <1>1, <1>2, <1>3 DEF Session, Grant, Cookie
<1>5. TypeOK'
  <2>1. users' \subseteq User /\ lastUserId' \in 0..MaxUserId /\ users \subseteq users'
    BY <1>1, <1>3, SessionAssumption DEF IInv, TypeOK, User
  <2>2. lastUse' \in [SessionSecrets -> 0..MaxTime]
    BY <1>1, <1>3 DEF IInv, TypeOK
  <2>3. jar' \in [Browsers -> Cookie \cup {None}]
    BY <1>4 DEF IInv, TypeOK
  <2>4. QED
    BY <1>1, <1>4, <2>1, <2>2, <2>3 DEF IInv, TypeOK
<1>6. \A s \in sessions : s.session_secret # secret
  BY <1>3 DEF IInv, Linked, SessionsGranted
<1>7. \A a, k : Kept(a, k) => Kept(a, k)'
  <2>1. \A a, x : Owns(a, x) => Owns(a, x)' /\ x # secret
    BY <1>3, <1>4 DEF Owns
  <2>2. \A k : CookieFits(k) /\ k.session_secret # secret => CookieFits(k)'
    BY <1>4 DEF CookieFits
  <2>3. QED
    BY <2>1, <2>2 DEF Kept
<1>8. SecretsOnce' /\ SessionsGranted'
  BY <1>3, <1>4 DEF IInv, Linked, SecretsOnce, SessionsGranted
<1>9. JarsFit'
  <2>1. Kept(b, cookie)'
    BY <1>4, <1>6 DEF Kept, Owns, CookieFits
  <2>2. \A a \in Browsers : Kept(a, jar[a])'
    <3>1. jar \in [Browsers -> Cookie \cup {None}]
      BY DEF IInv, TypeOK
    <3>2. jar'[b] = cookie /\ \A a \in Browsers : a # b => jar'[a] = jar[a]
      BY <1>4, <3>1
    <3>3. ASSUME NEW a \in Browsers
          PROVE  Kept(a, jar[a])'
      <4>1. PICK k : k = jar'[a]
        OBVIOUS
      <4>2. Kept(a, k)'
        BY <1>7, <2>1, <3>2, <4>1 DEF IInv, Linked, JarsFit
      <4>3. QED
        BY <4>1, <4>2 DEF Kept, Owns, CookieFits
    <3>4. QED
      BY <3>3
  <2>3. \A a, x : Owns(a, x) => Owns(a, x)'
    BY <1>4 DEF Owns
  <2>4. QED
    BY <1>1, <2>2, <2>3 DEF IInv, Linked, JarsFit
<1>10. ASSUME NEW r \in Slots
       PROVE  ReqFits(reqs[r])'
  <2>1. PICK req : req = reqs[r]
    OBVIOUS
  <2>2. ReqFits(req) /\ reqs'[r] = req
    BY <1>1, <2>1 DEF IInv, Linked
  <2>3. Kept(req.browser, req.cookie)'
    BY <1>7, <2>2 DEF ReqFits
  <2>4. ReqFits(req)'
    BY <1>4, <2>2, <2>3 DEF ReqFits
  <2>5. QED
    BY <2>2, <2>4 DEF ReqFits, Kept, Owns, CookieFits
<1>11. Timed'
  <2>1. lastUse \in [SessionSecrets -> 0..MaxTime] /\ sessions \subseteq Session
    BY DEF IInv, TypeOK
  <2>2. \A x \in SessionSecrets : lastUse'[x] = IF x = secret THEN now ELSE lastUse[x]
    BY <1>1, <2>1
  <2>3. \A s \in sessions : s.session_secret \in SessionSecrets
    BY <2>1 DEF Session
  <2>4. QED
    BY <1>1, <1>3, <1>4, <1>6, <2>2, <2>3 DEF IInv, Timed
<1>12. QED
  BY <1>5, <1>8, <1>9, <1>10, <1>11 DEF IInv, Linked

\* A request carries the cookie of its browser's jar.
LEMMA SendIInv ==
  ASSUME IInv, NEW r \in Slots, NEW b \in Browsers, NEW kind \in Kinds,
         NEW csrf \in SessionSecrets \cup {None}, Send(r, b, kind, csrf)
  PROVE  IInv'
<1>1. PICK new :
        new = [pc |-> "session", kind |-> kind, browser |-> b, cookie |-> jar[b],
               csrf |-> csrf, user_id |-> 0, set |-> "none"]
  OBVIOUS
<1>2. /\ reqs' = [reqs EXCEPT ![r] = new]
      /\ UNCHANGED <<now, users, pins, lastUserId, sessions, jar, tabs, granted, lastUse>>
  BY <1>1 DEF Send, tables, history
<1>3. new \in Req
  BY <1>1 DEF IInv, TypeOK, Req, Steps, CookieOps
<1>4. ReqFits(new)
  BY <1>1 DEF IInv, Linked, JarsFit, ReqFits, Within
<1>5. Linked' /\ reqs' \in [Slots -> Req]
  BY <1>2, <1>3, <1>4, SameRows, ReqStep DEF IInv, TypeOK
<1>6. QED
  BY <1>2, <1>5 DEF IInv, TypeOK, Timed

\* A handler that changes no row and no cookie jar.
LEMMA HandlerOnly ==
  ASSUME IInv, NEW r \in Slots, NEW new \in Req, ReqFits(new),
         reqs' = [reqs EXCEPT ![r] = new], UNCHANGED <<now, tables, jar, tabs, history>>
  PROVE  IInv'
<1>1. UNCHANGED <<now, users, pins, lastUserId, sessions, jar, tabs, granted, lastUse>>
  BY DEF tables, history
<1>2. Linked' /\ reqs' \in [Slots -> Req]
  BY <1>1, SameRows, ReqStep DEF IInv, TypeOK
<1>3. QED
  BY <1>1, <1>2 DEF IInv, TypeOK, Timed

\* The handler finds the row of its cookie's own sign-in.
LEMMA SessionFoundIInv ==
  ASSUME IInv, NEW r \in Slots, SessionFound(r)
  PROVE  IInv'
<1>1. PICK req : req = reqs[r] /\ req \in Req /\ ReqFits(req)
  BY Request
<1>2. PICK row \in WithId(req.cookie.session_id) :
        /\ SessionMatches(row, req.cookie)
        /\ reqs' = [reqs EXCEPT
             ![r].pc = IF CsrfMatches(req, row) THEN FirstStatement(req.kind) ELSE "reply",
             ![r].cookie.session_secret = row.session_secret,
             ![r].user_id = row.user_id]
  BY <1>1 DEF SessionFound
<1>3. /\ req.pc = "session" /\ req.cookie # None /\ req.cookie \in Cookie
      /\ UNCHANGED <<now, tables, jar, tabs, history>>
  BY <1>1, Request DEF SessionFound
<1>4. /\ row \in sessions /\ row.session_secret = req.cookie.session_secret
      /\ row.user_id \in Nat
  BY <1>2 DEF WithId, SessionMatches, IInv, TypeOK, Session
<1>5. PICK step \in Steps \ {"idle"} :
        step = IF CsrfMatches(req, row) THEN FirstStatement(req.kind) ELSE "reply"
  <2>1. req.kind \in Kinds
    BY <1>1 DEF Req
  <2>2. FirstStatement(req.kind) \in Steps \ {"idle"} /\ "reply" \in Steps \ {"idle"}
    BY <2>1 DEF FirstStatement, Kinds, Steps
  <2>3. QED
    BY <2>2
<1>6. PICK new : new = [req EXCEPT !.pc = step, !.user_id = row.user_id]
  OBVIOUS
<1>7. /\ new \in Req /\ new.pc = step /\ new.user_id = row.user_id
      /\ new.browser = req.browser /\ new.cookie = req.cookie /\ new.set = req.set
  BY <1>1, <1>4, <1>6 DEF Req
<1>8. reqs' = [reqs EXCEPT ![r] = new]
  <2>1. [req.cookie EXCEPT !.session_secret = row.session_secret] = req.cookie
    BY <1>3, <1>4 DEF Cookie
  <2>2. reqs' = [reqs EXCEPT
             ![r].pc = step,
             ![r].cookie.session_secret = row.session_secret,
             ![r].user_id = row.user_id]
    BY <1>2, <1>5
  <2>3. reqs \in [Slots -> Req]
    BY Request
  <2>4. reqs' = [reqs EXCEPT ![r] =
          [req EXCEPT !.pc = step,
                      !.cookie = [req.cookie EXCEPT !.session_secret = row.session_secret],
                      !.user_id = row.user_id]]
    BY <1>1, <2>2, <2>3 DEF Req
  <2>5. [req EXCEPT !.pc = step, !.cookie = req.cookie, !.user_id = row.user_id] = new
    BY <1>1, <1>6 DEF Req
  <2>6. QED
    BY <2>1, <2>4, <2>5
<1>9. ReqFits(new)
  <2>1. PICK g \in granted :
          g.browser = req.browser /\ g.session_secret = req.cookie.session_secret
    BY <1>1, <1>3 DEF ReqFits, Kept, Owns
  <2>2. PICK h \in granted : h.session_secret = row.session_secret /\ h.user_id = row.user_id
    BY <1>4 DEF IInv, Linked, SessionsGranted
  <2>3. g = h
    BY <1>4, <2>1, <2>2 DEF IInv, Linked, SecretsOnce
  <2>4. QED
    BY <1>1, <1>3, <1>7, <2>1, <2>2, <2>3 DEF ReqFits
<1>10. QED
  BY <1>3, <1>7, <1>8, <1>9, HandlerOnly

\* Without a session the handler answers.
LEMMA SessionRefusedIInv ==
  ASSUME IInv, NEW r \in Slots, SessionRefused(r)
  PROVE  IInv'
<1>1. PICK req : req = reqs[r] /\ req \in Req /\ ReqFits(req)
  BY Request
<1>2. req.pc = "session" /\ UNCHANGED <<now, tables, jar, tabs, history>>
  BY <1>1 DEF SessionRefused
<1>3. PICK op \in CookieOps :
        op \in {req.set, "clear"} /\ reqs' = [reqs EXCEPT ![r].pc = "reply", ![r].set = op]
  <2>1. CASE reqs' = [reqs EXCEPT ![r].pc = "reply"]
    <3>1. reqs' = [reqs EXCEPT ![r].pc = "reply", ![r].set = req.set]
      BY <1>1, <2>1, Request DEF Req
    <3>2. req.set \in CookieOps
      BY <1>1 DEF Req
    <3>3. QED
      BY <3>1, <3>2
  <2>2. CASE reqs' = [reqs EXCEPT ![r].pc = "reply", ![r].set = InvalidSession]
    BY <2>2 DEF InvalidSession, CookieOps
  <2>3. QED
    BY <2>1, <2>2 DEF SessionRefused
<1>4. PICK new : new = [req EXCEPT !.pc = "reply", !.set = op]
  OBVIOUS
<1>5. new \in Req /\ ReqFits(new)
  <2>1. "reply" \in Steps \ {"idle"} /\ "reply" \notin Within
    BY DEF Steps, Within
  <2>2. op = "set" => req.cookie # None
    BY <1>1, <1>3 DEF ReqFits
  <2>3. QED
    BY <1>1, <1>2, <1>4, <2>1, <2>2, ReqGoesOn
<1>6. reqs' = [reqs EXCEPT ![r] = new]
  BY <1>1, <1>3, <1>4
<1>7. QED
  BY <1>2, <1>5, <1>6, HandlerOnly

\* The user of the session is looked up.
LEMMA ReadPubkeyIInv ==
  ASSUME IInv, NEW r \in Slots, ReadPubkey(r)
  PROVE  IInv'
<1>1. PICK req : req = reqs[r] /\ req \in Req /\ ReqFits(req)
  BY Request
<1>2. req.pc = "pubkey" /\ UNCHANGED <<now, tables, jar, tabs, history>>
  BY <1>1 DEF ReadPubkey
<1>3. PICK step \in {"keep", "reply"} : reqs' = [reqs EXCEPT ![r].pc = step]
  BY <1>1 DEF ReadPubkey, AfterPubkey
<1>4. PICK new : new = [req EXCEPT !.pc = step, !.set = req.set]
  OBVIOUS
<1>5. new \in Req /\ ReqFits(new)
  <2>1. step \in Steps \ {"idle"} /\ req.pc \in Within /\ req.set \in CookieOps
    BY <1>1, <1>2 DEF Steps, Within, Req
  <2>2. req.set = "set" => req.cookie # None
    BY <1>1 DEF ReqFits
  <2>3. QED
    BY <1>1, <1>2, <1>4, <2>1, <2>2, ReqGoesOn
<1>6. reqs' = [reqs EXCEPT ![r] = new]
  BY <1>1, <1>3, <1>4 DEF Req
<1>7. QED
  BY <1>2, <1>5, <1>6, HandlerOnly

\* A handler that leaves its session, and answers or goes on to set the pin.
LEMMA Onward ==
  ASSUME IInv, NEW r \in Slots, reqs[r].pc \in Within,
         NEW step \in {"pin", "reply"}, NEW op \in CookieOps,
         reqs' = [reqs EXCEPT ![r].pc = step, ![r].set = op],
         NoNewRow, UNCHANGED <<jar, tabs, granted>>
  PROVE  Linked' /\ reqs' \in [Slots -> Req]
<1>1. PICK req : req = reqs[r] /\ req \in Req /\ ReqFits(req) /\ reqs \in [Slots -> Req]
  BY Request
<1>2. PICK new : new = [req EXCEPT !.pc = step, !.set = op]
  OBVIOUS
<1>3. new \in Req /\ ReqFits(new)
  <2>1. step \in Steps \ {"idle"} /\ req.pc # "idle"
    BY <1>1 DEF Steps, Within
  <2>2. req.cookie # None
    BY <1>1 DEF ReqFits
  <2>3. QED
    BY <1>1, <1>2, <2>1, <2>2, ReqGoesOn
<1>4. reqs' = [reqs EXCEPT ![r] = new]
  BY <1>1, <1>2
<1>5. QED
  BY <1>1, <1>3, <1>4, ReqStep DEF IInv

\* The update of last_active fails unnoticed, or the delete of the session does.
LEMMA FailSilentlyIInv ==
  ASSUME IInv, NEW r \in Slots, FailSilently(r)
  PROVE  IInv'
<1>1. UNCHANGED <<now, users, pins, lastUserId, sessions, jar, tabs, granted, lastUse>>
  BY DEF FailSilently, tables, history
<1>2. PICK step \in {"pin", "reply"}, op \in CookieOps :
        reqs' = [reqs EXCEPT ![r].pc = step, ![r].set = op]
  BY DEF FailSilently, AfterKeep, CookieOps
<1>3. reqs[r].pc \in Within
  BY DEF FailSilently, Within
<1>4. Linked' /\ reqs' \in [Slots -> Req]
  BY <1>1, <1>2, <1>3, SameRows, Onward
<1>5. QED
  BY <1>1, <1>4 DEF IInv, TypeOK, Timed

\* The row is refreshed, and with it every row of the same session_id.
LEMMA KeepAliveIInv ==
  ASSUME IInv, NEW r \in Slots, KeepAlive(r)
  PROVE  IInv'
<1>1. PICK req : req = reqs[r] /\ req \in Req /\ ReqFits(req)
  BY Request
<1>2. PICK t \in Stamps : sessions' = Touched(req, t)
  BY <1>1 DEF KeepAlive
<1>3. /\ req.pc = "keep"
      /\ lastUse' = [s \in SessionSecrets |->
           IF s = req.cookie.session_secret THEN now ELSE lastUse[s]]
      /\ UNCHANGED <<now, users, pins, lastUserId, jar, tabs, granted>>
  BY <1>1 DEF KeepAlive
<1>4. /\ t \in Nat /\ t + Lag >= now /\ now \in 0..MaxTime /\ sessions \subseteq Session
      /\ lastUse \in [SessionSecrets -> 0..MaxTime]
      /\ req.cookie # None /\ CookieFits(req.cookie)
  BY <1>1, <1>3, SessionAssumption DEF Stamps, IInv, TypeOK, ReqFits, Within, Kept
<1>5. ASSUME NEW s \in sessions'
      PROVE  \E q \in sessions :
               /\ s \in Session
               /\ s.session_secret = q.session_secret /\ s.session_id = q.session_id
               /\ s.user_id = q.user_id
               /\ s.last_active = IF q.session_id = req.cookie.session_id
                                  THEN t ELSE q.last_active
  <2>1. PICK q \in sessions : s = Refreshed(q, req.cookie.session_id, t)
    BY <1>2 DEF Touched
  <2>2. q \in Session
    BY <1>4
  <2>3. CASE q.session_id = req.cookie.session_id
    BY <1>4, <2>1, <2>2, <2>3 DEF Refreshed, Session
  <2>4. CASE q.session_id # req.cookie.session_id
    BY <2>1, <2>2, <2>4 DEF Refreshed
  <2>5. QED
    BY <2>3, <2>4
<1>6. NoNewRow /\ sessions' \subseteq Session
  BY <1>5 DEF NoNewRow
<1>7. Linked' /\ reqs' \in [Slots -> Req]
  <2>1. PICK step \in {"pin", "reply"} :
          reqs' = [reqs EXCEPT ![r].pc = step, ![r].set = "set"]
    BY DEF KeepAlive, AfterKeep
  <2>2. "set" \in CookieOps /\ reqs[r].pc \in Within
    BY <1>1, <1>3 DEF CookieOps, Within
  <2>3. QED
    BY <1>3, <1>6, <2>1, <2>2, Onward
<1>8. Timed'
  <2>1. \A x \in SessionSecrets :
          lastUse'[x] = IF x = req.cookie.session_secret THEN now ELSE lastUse[x]
    BY <1>3
  <2>2. ASSUME NEW s \in sessions'
        PROVE  s.last_active + Lag >= lastUse'[s.session_secret]
    <3>1. PICK q \in sessions :
            /\ s \in Session
            /\ s.session_secret = q.session_secret /\ s.session_id = q.session_id
            /\ s.last_active = IF q.session_id = req.cookie.session_id
                               THEN t ELSE q.last_active
      BY <1>5
    <3>2. s.session_secret \in SessionSecrets /\ lastUse[s.session_secret] <= now
      BY <3>1 DEF Session, IInv, Timed
    <3>3. CASE q.session_id = req.cookie.session_id
      <4>1. lastUse'[s.session_secret] <= now
        <5>1. CASE s.session_secret = req.cookie.session_secret
          BY <1>4, <2>1, <3>2, <5>1
        <5>2. CASE s.session_secret # req.cookie.session_secret
          BY <2>1, <3>2, <5>2
        <5>3. QED
          BY <5>1, <5>2
      <4>2. lastUse'[s.session_secret] \in Nat
        <5>1. CASE s.session_secret = req.cookie.session_secret
          BY <1>4, <2>1, <3>2, <5>1
        <5>2. CASE s.session_secret # req.cookie.session_secret
          BY <1>4, <2>1, <3>2, <5>2
        <5>3. QED
          BY <5>1, <5>2
      <4>3. s.last_active = t
        BY <3>1, <3>3
      <4>4. QED
        BY <1>4, <4>1, <4>2, <4>3, SessionAssumption
    <3>4. CASE q.session_id # req.cookie.session_id
      <4>1. q.session_secret # req.cookie.session_secret
        BY <1>4, <3>4 DEF CookieFits
      <4>2. lastUse'[s.session_secret] = lastUse[q.session_secret]
        BY <2>1, <3>1, <3>2, <4>1
      <4>3. QED
        BY <3>1, <3>4, <4>2 DEF IInv, Timed
    <3>5. QED
      BY <3>3, <3>4
  <2>3. ASSUME NEW x \in SessionSecrets
        PROVE  lastUse'[x] <= now'
    <3>1. CASE x = req.cookie.session_secret
      BY <1>3, <1>4, <2>1, <3>1
    <3>2. CASE x # req.cookie.session_secret
      BY <1>3, <2>1, <3>2 DEF IInv, Timed
    <3>3. QED
      BY <3>1, <3>2
  <2>4. QED
    BY <2>2, <2>3 DEF Timed
<1>9. lastUse' \in [SessionSecrets -> 0..MaxTime]
  BY <1>3, <1>4
<1>10. QED
  BY <1>3, <1>6, <1>7, <1>8, <1>9 DEF IInv, TypeOK

\* The pin of one user.
LEMMA UpdatePinIInv ==
  ASSUME IInv, NEW r \in Slots, UpdatePin(r)
  PROVE  IInv'
<1>1. UNCHANGED <<now, users, lastUserId, sessions, jar, tabs, granted, lastUse>>
  BY DEF UpdatePin, history
<1>2. PICK req : req = reqs[r] /\ req \in Req /\ ReqFits(req) /\ req.pc = "pin"
  BY Request DEF UpdatePin
<1>3. Linked' /\ reqs' \in [Slots -> Req]
  <2>1. reqs' = [reqs EXCEPT ![r].pc = "reply", ![r].set = req.set]
    BY <1>2, Request DEF UpdatePin, Req
  <2>2. req.pc \in Within /\ req.set \in CookieOps
    BY <1>2 DEF Within, Req
  <2>3. QED
    BY <1>1, <1>2, <2>1, <2>2, SameRows, Onward
<1>4. /\ pins' \subseteq Pin
      /\ \A p \in pins' : \E u \in users : u.user_id = p.user_id
      /\ \A p, q \in pins' : p.user_id = q.user_id => p = q
  <2>1. PICK id : id = req.user_id /\ id \in Nat
    BY <1>2 DEF Req
  <2>2. CASE pins' = WithoutUser(pins, id)
    BY <2>2 DEF WithoutUser, IInv, TypeOK
  <2>3. ASSUME NEW pos \in Positions, Exists(id),
               pins' = WithoutUser(pins, id) \cup {[user_id |-> id, pos |-> pos]}
        PROVE  /\ pins' \subseteq Pin
               /\ \A p \in pins' : \E u \in users : u.user_id = p.user_id
               /\ \A p, q \in pins' : p.user_id = q.user_id => p = q
    <3>1. PICK pin : pin = [user_id |-> id, pos |-> pos]
      OBVIOUS
    <3>2. pin \in Pin /\ pin.user_id = id
      BY <2>1, <2>3, <3>1 DEF Pin
    <3>3. \A p \in pins' : p = pin \/ (p \in pins /\ p.user_id # id)
      BY <2>3, <3>1 DEF WithoutUser
    <3>4. /\ pins \subseteq Pin
          /\ \A p \in pins : \E u \in users : u.user_id = p.user_id
          /\ \A p, q \in pins : p.user_id = q.user_id => p = q
      BY DEF IInv, TypeOK
    <3>5. \E u \in users : u.user_id = pin.user_id
      BY <2>3, <3>2 DEF Exists
    <3>6. \A p, q \in pins' : p.user_id = q.user_id => p = q
      BY <3>2, <3>3, <3>4
    <3>7. QED
      BY <3>2, <3>3, <3>4, <3>5, <3>6
  <2>4. QED
    BY <1>2, <2>1, <2>2, <2>3 DEF UpdatePin
<1>5. QED
  BY <1>1, <1>3, <1>4 DEF IInv, TypeOK, Timed

\* The session's row goes.
LEMMA SignoutIInv ==
  ASSUME IInv, NEW r \in Slots, Signout(r)
  PROVE  IInv'
<1>1. /\ sessions' \subseteq sessions
      /\ UNCHANGED <<now, users, pins, lastUserId, jar, tabs, granted, lastUse>>
  BY DEF Signout, history
<1>2. Linked' /\ reqs' \in [Slots -> Req]
  <2>1. /\ reqs' = [reqs EXCEPT ![r].pc = "reply", ![r].set = "clear"]
        /\ reqs[r].pc \in Within /\ "clear" \in CookieOps
    BY DEF Signout, Within, CookieOps
  <2>2. NoNewRow
    BY <1>1 DEF NoNewRow
  <2>3. QED
    BY <1>1, <2>1, <2>2, Onward
<1>3. QED
  BY <1>1, <1>2, TimedKept DEF IInv, TypeOK

\* The account goes, its pin and its sessions.
LEMMA DeleteAccountIInv ==
  ASSUME IInv, NEW r \in Slots, DeleteAccount(r)
  PROVE  IInv'
<1>1. PICK id :
        /\ users' = WithoutUser(users, id) /\ pins' = WithoutUser(pins, id)
        /\ sessions' = WithoutUser(sessions, id)
        /\ UNCHANGED <<now, lastUserId, jar, tabs, granted, lastUse>>
  BY DEF DeleteAccount, history
<1>2. sessions' \subseteq sessions /\ users' \subseteq users /\ pins' \subseteq pins
  BY <1>1 DEF WithoutUser
<1>3. Linked' /\ reqs' \in [Slots -> Req]
  <2>1. /\ reqs' = [reqs EXCEPT ![r].pc = "reply", ![r].set = "clear"]
        /\ reqs[r].pc \in Within /\ "clear" \in CookieOps
    BY DEF DeleteAccount, Within, CookieOps
  <2>2. NoNewRow
    BY <1>2 DEF NoNewRow
  <2>3. QED
    BY <1>1, <2>1, <2>2, Onward
<1>4. \A p \in pins' : \E u \in users' : u.user_id = p.user_id
  BY <1>1 DEF WithoutUser, IInv, TypeOK
<1>5. QED
  BY <1>1, <1>2, <1>3, <1>4, TimedKept DEF IInv, TypeOK

\* Any other statement fails.
LEMMA FailIInv ==
  ASSUME IInv, NEW r \in Slots, Fail(r)
  PROVE  IInv'
<1>1. PICK req : req = reqs[r] /\ req \in Req /\ ReqFits(req)
  BY Request
<1>2. PICK op \in CookieOps :
        /\ op \in {req.set, "clear"}
        /\ reqs' = [reqs EXCEPT ![r].pc = "reply", ![r].set = op]
  <2>1. req.set \in CookieOps /\ "clear" \in CookieOps
    BY <1>1 DEF Req, CookieOps
  <2>2. QED
    BY <1>1, <2>1, Request DEF Fail, InvalidSession
<1>3. req.pc # "idle" /\ UNCHANGED <<now, tables, jar, tabs, history>>
  BY <1>1 DEF Fail
<1>4. PICK new : new = [req EXCEPT !.pc = "reply", !.set = op]
  OBVIOUS
<1>5. new \in Req /\ ReqFits(new)
  <2>1. "reply" \in Steps \ {"idle"} /\ "reply" \notin Within
    BY DEF Steps, Within
  <2>2. op = "set" => req.cookie # None
    BY <1>1, <1>2 DEF ReqFits
  <2>3. QED
    BY <1>1, <1>3, <1>4, <2>1, <2>2, ReqGoesOn
<1>6. reqs' = [reqs EXCEPT ![r] = new]
  BY <1>1, <1>2, <1>4
<1>7. QED
  BY <1>3, <1>5, <1>6, HandlerOnly

\* The answer sets or clears the cookie the request came with.
LEMMA ReplyIInv ==
  ASSUME IInv, NEW r \in Slots, Reply(r)
  PROVE  IInv'
<1>1. PICK req : req = reqs[r] /\ req \in Req /\ ReqFits(req)
  BY Request
<1>2. /\ req.pc = "reply" /\ reqs' = [reqs EXCEPT ![r] = NoReq]
      /\ UNCHANGED <<now, users, pins, lastUserId, sessions, granted, lastUse>>
  BY <1>1 DEF Reply, tables, history
<1>3. /\ req.browser \in Browsers /\ (req.cookie # None => req.cookie \in Cookie)
      /\ req.set \in CookieOps
      /\ Kept(req.browser, req.cookie) /\ (req.set = "set" => req.cookie # None)
  BY <1>1, <1>2, Request DEF ReqFits, Req
<1>4. /\ jar \in [Browsers -> Cookie \cup {None}]
      /\ tabs \in [Browsers -> SUBSET SessionSecrets]
  BY DEF IInv, TypeOK
<1>5. /\ jar' \in [Browsers -> Cookie \cup {None}]
      /\ \A b \in Browsers :
           jar'[b] = jar[b] \/ jar'[b] = None \/ (b = req.browser /\ jar'[b] = req.cookie)
  <2>1. CASE req.set = "set"
    <3>1. jar' = [jar EXCEPT ![req.browser] = req.cookie]
      BY <1>1, <2>1 DEF Reply
    <3>2. QED
      BY <1>3, <1>4, <2>1, <3>1
  <2>2. CASE req.set = "clear"
    <3>1. jar' = [jar EXCEPT ![req.browser] = None]
      BY <1>1, <2>2 DEF Reply
    <3>2. QED
      BY <1>3, <1>4, <3>1
  <2>3. CASE req.set = "none"
    <3>1. jar' = jar
      BY <1>1, <2>3 DEF Reply
    <3>2. QED
      BY <1>4, <3>1
  <2>4. QED
    BY <1>3, <2>1, <2>2, <2>3 DEF CookieOps
<1>6. /\ tabs' \in [Browsers -> SUBSET SessionSecrets]
      /\ \A b \in Browsers : \A secret \in tabs'[b] :
           \/ secret \in tabs[b]
           \/ b = req.browser /\ req.cookie # None /\ secret = req.cookie.session_secret
  <2>1. CASE req.kind = "home" /\ req.set = "set"
    <3>1. tabs' = [tabs EXCEPT ![req.browser] = @ \cup {req.cookie.session_secret}]
      BY <1>1, <2>1 DEF Reply
    <3>2. req.cookie.session_secret \in SessionSecrets
      BY <1>3, <2>1 DEF Cookie
    <3>3. QED
      BY <1>3, <1>4, <2>1, <3>1, <3>2
  <2>2. CASE ~(req.kind = "home" /\ req.set = "set")
    <3>1. tabs' = tabs
      BY <1>1, <2>2 DEF Reply
    <3>2. QED
      BY <1>4, <3>1
  <2>3. QED
    BY <2>1, <2>2
<1>7. NoNewRow
  BY <1>2, SameRows
<1>8. JarsFit'
  <2>1. ASSUME NEW b \in Browsers
        PROVE  Kept(b, jar[b])'
    <3>1. PICK k : k = jar'[b]
      OBVIOUS
    <3>2. Kept(b, k)
      BY <1>3, <1>5, <3>1 DEF IInv, Linked, JarsFit, Kept
    <3>3. Kept(b, k)'
      BY <1>2, <1>7, <3>2, LinksKept DEF IInv
    <3>4. QED
      BY <3>1, <3>3 DEF Kept, Owns, CookieFits
  <2>2. ASSUME NEW b \in Browsers, NEW secret \in tabs'[b]
        PROVE  Owns(b, secret)'
    <3>1. Owns(b, secret)
      BY <1>3, <1>6 DEF IInv, Linked, JarsFit, Kept
    <3>2. QED
      BY <1>2, <3>1 DEF Owns
  <2>3. QED
    BY <2>1, <2>2 DEF JarsFit
<1>9. SecretsOnce' /\ SessionsGranted'
  BY <1>2, <1>7, LinksKept DEF IInv
<1>10. reqs' \in [Slots -> Req]
  BY <1>2, NoReqFits DEF IInv, TypeOK
<1>11. ASSUME NEW q \in Slots
       PROVE  ReqFits(reqs[q])'
  <2>1. PICK new : new = reqs'[q]
    OBVIOUS
  <2>2. ReqFits(new)
    BY <1>2, <2>1, NoReqFits DEF IInv, TypeOK, Linked
  <2>3. ReqFits(new)'
    BY <1>2, <1>7, <2>2, LinksKept DEF IInv
  <2>4. QED
    BY <2>1, <2>3 DEF ReqFits, Kept, Owns, CookieFits
<1>12. QED
  BY <1>2, <1>5, <1>6, <1>8, <1>9, <1>10, <1>11 DEF IInv, TypeOK, Linked, Timed

\* The answer is lost.
LEMMA LoseReplyIInv ==
  ASSUME IInv, NEW r \in Slots, LoseReply(r)
  PROVE  IInv'
BY NoReqFits, HandlerOnly DEF LoseReply

\* Idle rows go.
LEMMA SweepSessionsIInv ==
  ASSUME IInv, SweepSessions
  PROVE  IInv'
<1>1. /\ sessions' \subseteq sessions
      /\ UNCHANGED <<now, users, pins, lastUserId, reqs, jar, tabs, granted, lastUse>>
  BY DEF SweepSessions, history
<1>2. NoNewRow
  BY <1>1 DEF NoNewRow
<1>3. JarsFit' /\ \A r \in Slots : ReqFits(reqs[r])'
  <2>1. /\ \A s \in sessions' : s \in sessions
        /\ \A b, secret : Owns(b, secret)' <=> Owns(b, secret)
        /\ \A cookie : CookieFits(cookie) => CookieFits(cookie)'
    BY <1>1 DEF Owns, CookieFits
  <2>2. \A b, cookie : Kept(b, cookie) => Kept(b, cookie)'
    BY <2>1 DEF Kept
  <2>3. JarsFit'
    <3>1. ASSUME NEW b \in Browsers
          PROVE  Kept(b, jar[b])'
      <4>1. PICK k : k = jar[b] /\ k = jar'[b]
        BY <1>1
      <4>2. Kept(b, k)'
        BY <2>2, <4>1 DEF IInv, Linked, JarsFit
      <4>3. QED
        BY <4>1, <4>2 DEF Kept, Owns, CookieFits
    <3>2. QED
      BY <1>1, <2>1, <3>1 DEF IInv, Linked, JarsFit
  <2>4. ASSUME NEW r \in Slots
        PROVE  ReqFits(reqs[r])'
    <3>1. PICK req : req = reqs[r] /\ req = reqs'[r]
      BY <1>1
    <3>2. ReqFits(req)'
      BY <1>1, <1>2, <3>1, LinksKept DEF IInv, Linked
    <3>3. QED
      BY <3>1, <3>2 DEF ReqFits, Kept, Owns, CookieFits
  <2>5. QED
    BY <2>3, <2>4
<1>4. QED
  BY <1>1, <1>2, <1>3, LinksKept, TimedKept DEF IInv, TypeOK, Linked

\* The clock runs.
LEMMA TickIInv ==
  ASSUME IInv, Tick
  PROVE  IInv'
<1>1. /\ now' = now + 1 /\ now < MaxTime
      /\ UNCHANGED <<users, pins, lastUserId, sessions, reqs, jar, tabs, granted, lastUse>>
  BY DEF Tick, tables, history
<1>2. Linked'
  BY <1>1 DEF IInv, Linked, SecretsOnce, SessionsGranted, JarsFit, ReqFits, Kept, Owns,
     CookieFits
<1>3. now' \in 0..MaxTime
  BY <1>1, SessionAssumption DEF IInv, TypeOK
<1>4. Timed'
  BY <1>1 DEF IInv, TypeOK, Timed
<1>5. QED
  BY <1>1, <1>2, <1>3, <1>4 DEF IInv, TypeOK

\* A restart cuts the handlers short.
LEMMA RestartIInv ==
  ASSUME IInv, Restart
  PROVE  IInv'
<1>1. /\ reqs' = [r \in Slots |-> NoReq]
      /\ UNCHANGED <<now, users, pins, lastUserId, sessions, jar, tabs, granted, lastUse>>
  BY DEF Restart, tables, history
<1>2. \A r \in Slots : ReqFits(reqs[r])'
  BY <1>1, NoReqFits DEF ReqFits, Kept, Owns, CookieFits, NoReq, Within
<1>3. JarsFit' /\ SecretsOnce' /\ SessionsGranted'
  BY <1>1 DEF IInv, Linked, SecretsOnce, SessionsGranted, JarsFit, Kept, Owns, CookieFits
<1>4. QED
  BY <1>1, <1>2, <1>3, NoReqFits DEF IInv, TypeOK, Linked, Timed

-----------------------------------------------------------------------------

\* IInv is inductive.
LEMMA IInvStep == IInv /\ [Next]_vars => IInv'
<1> SUFFICES ASSUME IInv, [Next]_vars PROVE IInv'
  OBVIOUS
<1>1. CASE UNCHANGED vars
  BY <1>1 DEF vars, tables, history, IInv, TypeOK, Linked, SecretsOnce, SessionsGranted,
     JarsFit, ReqFits, Kept, Owns, CookieFits, Timed
<1>2. ASSUME NEW b \in Browsers, SignIn(b)
      PROVE  IInv'
  BY <1>2, SignInIInv
<1>3. ASSUME NEW r \in Slots, NEW b \in Browsers, Send(r, b, "home", None)
      PROVE  IInv'
  <2>1. "home" \in Kinds
    BY DEF Kinds
  <2>2. QED
    BY <1>3, <2>1, SendIInv
<1>4. ASSUME NEW r \in Slots, NEW b \in Browsers, NEW kind \in Kinds \ {"home"},
             NEW csrf \in tabs[b], Send(r, b, kind, csrf)
      PROVE  IInv'
  <2>1. csrf \in SessionSecrets
    BY DEF IInv, TypeOK
  <2>2. QED
    BY <1>4, <2>1, SendIInv
<1>5. ASSUME NEW r \in Slots, Handler(r) \/ Reply(r) \/ LoseReply(r)
      PROVE  IInv'
  BY <1>5, SessionFoundIInv, SessionRefusedIInv, ReadPubkeyIInv, KeepAliveIInv,
     UpdatePinIInv, SignoutIInv, DeleteAccountIInv, FailSilentlyIInv, FailIInv, ReplyIInv,
     LoseReplyIInv DEF Handler
<1>6. QED
  BY <1>1, <1>2, <1>3, <1>4, <1>5, SweepSessionsIInv, TickIInv, RestartIInv DEF Next

\* Rows, requests in progress, cookies and pages belong together in every reachable
\* state.
THEOREM SessionInvariance == Spec => []IInv
  BY InitIInv, IInvStep, PTL DEF Spec

\* Every column and every request has its type, and a pin is some user's only one.
THEOREM SessionTypeCorrect == Spec => []TypeOK
<1>1. IInv => TypeOK
  BY DEF IInv
<1>2. QED
  BY SessionInvariance, <1>1, PTL

\* However often session ids repeat, a browser holds the sessions and the pages of its
\* own sign-ins.
THEOREM CookiesStayHome == Spec => []CookieStaysHome
<1>1. IInv => CookieStaysHome
  <2> SUFFICES ASSUME IInv, NEW b \in Browsers
               PROVE  LET mine == {g.session_secret : g \in GrantedTo(b)} IN
                      /\ jar[b] # None => jar[b].session_secret \in mine
                      /\ tabs[b] \subseteq mine
    BY DEF CookieStaysHome
  <2>1. \A secret : Owns(b, secret) => secret \in {g.session_secret : g \in GrantedTo(b)}
    BY DEF Owns, GrantedTo
  <2>2. QED
    BY <2>1 DEF IInv, Linked, JarsFit, Kept
<1>2. QED
  BY SessionInvariance, <1>1, PTL

-----------------------------------------------------------------------------

\* A handler that works for a user works for a browser that signed in as this user.
LEMMA Entitled ==
  ASSUME IInv, NEW r \in Slots, reqs[r].pc \in Within
  PROVE  \E g \in GrantedTo(reqs[r].browser) : g.user_id = reqs[r].user_id
<1>1. ReqFits(reqs[r])
  BY Request
<1>2. QED
  BY <1>1 DEF ReqFits, GrantedTo

\* Pins and accounts change at their owner's request alone, although the session was
\* looked up in an earlier step.
THEOREM OwnersOnly == Spec => TouchedByOwner
<1> DEFINE
  Same(u) == /\ u \in users'
             /\ {p \in pins' : p.user_id = u.user_id} = {p \in pins : p.user_id = u.user_id}
  Asked(u) == \E r \in Slots :
                /\ reqs[r].pc \in {"pin", "delete"}
                /\ \E g \in GrantedTo(reqs[r].browser) : g.user_id = u.user_id
<1>1. IInv /\ [Next]_vars => \A u \in users : Same(u) \/ Asked(u)
  <2> SUFFICES ASSUME IInv, [Next]_vars, NEW u \in users
               PROVE  Same(u) \/ Asked(u)
    OBVIOUS
  <2>1. CASE users \subseteq users' /\ pins' = pins
    BY <2>1
  <2>2. ASSUME NEW r \in Slots, UpdatePin(r)
        PROVE  Same(u) \/ Asked(u)
    <3>1. users' = users /\ reqs[r].pc = "pin"
      BY <2>2 DEF UpdatePin
    <3>2. CASE u.user_id = reqs[r].user_id
      BY <3>1, <3>2, Entitled DEF Within
    <3>3. CASE u.user_id # reqs[r].user_id
      <4>1. {p \in WithoutUser(pins, reqs[r].user_id) : p.user_id = u.user_id}
              = {p \in pins : p.user_id = u.user_id}
        BY <3>3 DEF WithoutUser
      <4>2. \A pos : {p \in {[user_id |-> reqs[r].user_id, pos |-> pos]} :
                        p.user_id = u.user_id} = {}
        BY <3>3
      <4>3. QED
        BY <2>2, <3>1, <4>1, <4>2 DEF UpdatePin
    <3>4. QED
      BY <3>2, <3>3
  <2>3. ASSUME NEW r \in Slots, DeleteAccount(r)
        PROVE  Same(u) \/ Asked(u)
    <3>1. /\ users' = WithoutUser(users, reqs[r].user_id)
          /\ pins' = WithoutUser(pins, reqs[r].user_id) /\ reqs[r].pc = "delete"
      BY <2>3 DEF DeleteAccount
    <3>2. CASE u.user_id = reqs[r].user_id
      BY <3>1, <3>2, Entitled DEF Within
    <3>3. CASE u.user_id # reqs[r].user_id
      BY <3>1, <3>3 DEF WithoutUser
    <3>4. QED
      BY <3>2, <3>3
  <2>4. ASSUME NEW r \in Slots, SessionFound(r) \/ SessionRefused(r) \/ ReadPubkey(r)
               \/ KeepAlive(r) \/ Signout(r) \/ FailSilently(r) \/ Fail(r) \/ Reply(r)
               \/ LoseReply(r)
        PROVE  users \subseteq users' /\ pins' = pins
    BY <2>4 DEF SessionFound, SessionRefused, ReadPubkey, KeepAlive, Signout, FailSilently,
       Fail, Reply, LoseReply, tables
  <2>5. ASSUME NEW b \in Browsers, SignIn(b)
        PROVE  users \subseteq users' /\ pins' = pins
    <3>1. pins' = pins
      BY <2>5 DEF SignIn
    <3>2. users \subseteq users'
      BY <2>5 DEF SignIn
    <3>3. QED
      BY <3>1, <3>2
  <2>6. ASSUME NEW r, NEW b, NEW kind, NEW csrf, Send(r, b, kind, csrf)
        PROVE  users \subseteq users' /\ pins' = pins
    BY <2>6 DEF Send, tables
  <2>7. SweepSessions \/ Tick \/ Restart \/ UNCHANGED vars
          => users \subseteq users' /\ pins' = pins
    BY DEF SweepSessions, Tick, Restart, vars, tables
  <2>8. QED
    BY <2>1, <2>2, <2>3, <2>4, <2>5, <2>6, <2>7 DEF Next, Handler
<1>2. IInv /\ [Next]_vars =>
        \A u \in users :
          \/ /\ u \in users'
             /\ {p \in pins' : p.user_id = u.user_id}
                  = {p \in pins : p.user_id = u.user_id}
          \/ \E r \in Slots :
               /\ reqs[r].pc \in {"pin", "delete"}
               /\ \E g \in GrantedTo(reqs[r].browser) : g.user_id = u.user_id
  BY <1>1
<1>3. QED
  BY SessionInvariance, <1>2, PTL DEF Spec, TouchedByOwner

\* What a step may do to the rows of sessions: add one with a fresh secret, refresh
\* them, or take some away.
LEMMA RowsStep ==
  ASSUME IInv, [Next]_vars
  PROVE  \/ \E b \in Browsers : SignIn(b)
         \/ \E r \in Slots : KeepAlive(r)
         \/ \E r \in Slots : Signout(r) \/ DeleteAccount(r)
         \/ SweepSessions
         \/ sessions' = sessions
<1>1. ASSUME NEW r \in Slots, SessionFound(r) \/ SessionRefused(r) \/ ReadPubkey(r)
             \/ UpdatePin(r) \/ FailSilently(r) \/ Fail(r) \/ Reply(r) \/ LoseReply(r)
      PROVE  sessions' = sessions
  BY <1>1 DEF SessionFound, SessionRefused, ReadPubkey, UpdatePin, FailSilently,
     Fail, Reply, LoseReply, tables
<1>2. ASSUME NEW r, NEW b, NEW kind, NEW csrf, Send(r, b, kind, csrf)
      PROVE  sessions' = sessions
  BY <1>2 DEF Send, tables
<1>3. Tick \/ Restart \/ UNCHANGED vars => sessions' = sessions
  BY DEF Tick, Restart, vars, tables
<1>4. QED
  BY <1>1, <1>2, <1>3 DEF Next, Handler

\* Requests that still refresh a session do not bring it back.
THEOREM GoneForGood == Spec => NoResurrection
<1>1. IInv /\ [Next]_vars =>
        \A g \in granted : Gone(g.session_secret) => Gone(g.session_secret)'
  <2> SUFFICES ASSUME IInv, [Next]_vars, NEW g \in granted, Gone(g.session_secret),
                      NEW s \in sessions'
               PROVE  s.session_secret # g.session_secret
    BY DEF Gone
  <2>1. CASE \E b \in Browsers : SignIn(b)
    <3>1. PICK id \in 1..(lastUserId + 1), sid \in SessionIds, secret \in FreshSecrets,
               t \in Stamps :
            sessions' = sessions \cup
              {[user_id |-> id, last_active |-> t, session_id |-> sid,
                session_secret |-> secret]}
      BY <2>1 DEF SignIn
    <3>2. secret # g.session_secret
      BY DEF FreshSecrets
    <3>3. QED
      BY <3>1, <3>2 DEF Gone
  <2>2. CASE \E r \in Slots : KeepAlive(r)
    <3>1. PICK id, t : sessions' = {Refreshed(q, id, t) : q \in sessions}
      BY <2>2 DEF KeepAlive, Touched
    <3>2. PICK q \in sessions : s = Refreshed(q, id, t)
      BY <3>1
    <3>3. s.session_secret = q.session_secret
      BY <3>2 DEF Refreshed, IInv, TypeOK, Session
    <3>4. QED
      BY <3>3 DEF Gone
  <2>3. CASE \E r \in Slots : Signout(r) \/ DeleteAccount(r)
    BY <2>3 DEF Signout, DeleteAccount, WithoutUser, Gone
  <2>4. CASE SweepSessions
    BY <2>4 DEF SweepSessions, Gone
  <2>5. CASE sessions' = sessions
    BY <2>5 DEF Gone
  <2>6. QED
    BY <2>1, <2>2, <2>3, <2>4, <2>5, RowsStep
<1>2. QED
  BY SessionInvariance, <1>1, PTL DEF Spec, NoResurrection

\* No session is swept that was used within its time, however slowly its refreshes are
\* stored.
THEOREM KeptWhileActive == Spec => ActiveSessionKept
<1> DEFINE
  Due(s) ==
    \/ now - lastUse[s.session_secret] > SessionTTL - Lag
    \/ \E r \in Slots : /\ reqs[r].pc = "signout"
                        /\ reqs[r].cookie.session_id = s.session_id
    \/ \E r \in Slots : reqs[r].pc = "delete" /\ reqs[r].user_id = s.user_id
<1>1. IInv /\ [Next]_vars => \A s \in sessions : Gone(s.session_secret)' => Due(s)
  <2> SUFFICES ASSUME IInv, [Next]_vars, NEW s \in sessions, Gone(s.session_secret)'
               PROVE  Due(s)
    OBVIOUS
  <2>1. s \notin sessions'
    BY DEF Gone
  <2>2. CASE \E b \in Browsers : SignIn(b)
    BY <2>1, <2>2 DEF SignIn
  <2>3. CASE \E r \in Slots : KeepAlive(r)
    <3>1. PICK id, t : sessions' = {Refreshed(q, id, t) : q \in sessions}
      BY <2>3 DEF KeepAlive, Touched
    <3>2. Refreshed(s, id, t) \in sessions'
      BY <3>1
    <3>3. Refreshed(s, id, t).session_secret = s.session_secret
      BY DEF Refreshed, IInv, TypeOK, Session
    <3>4. QED
      BY <3>2, <3>3 DEF Gone
  <2>4. CASE \E r \in Slots : Signout(r)
    BY <2>1, <2>4 DEF Signout, WithId
  <2>5. CASE \E r \in Slots : DeleteAccount(r)
    BY <2>1, <2>5 DEF DeleteAccount, WithoutUser
  <2>6. CASE SweepSessions
    <3>1. PICK t \in Stamps : s.last_active < t - SessionTTL
      BY <2>1, <2>6 DEF SweepSessions, Idle
    <3>2. /\ t \in Nat /\ t <= now /\ now \in Nat /\ s.last_active \in Nat
          /\ s.session_secret \in SessionSecrets
      BY SessionAssumption DEF Stamps, IInv, TypeOK, Session
    <3>3. /\ s.last_active + Lag >= lastUse[s.session_secret]
          /\ lastUse[s.session_secret] \in Nat
      BY <3>2 DEF IInv, Timed, TypeOK
    <3>4. now - lastUse[s.session_secret] > SessionTTL - Lag
      BY <3>1, <3>2, <3>3, SessionAssumption
    <3>5. QED
      BY <3>4
  <2>7. CASE sessions' = sessions
    BY <2>1, <2>7
  <2>8. QED
    BY <2>2, <2>3, <2>4, <2>5, <2>6, <2>7, RowsStep
<1>2. IInv /\ [Next]_vars =>
        \A s \in sessions : Gone(s.session_secret)' =>
          \/ now - lastUse[s.session_secret] > SessionTTL - Lag
          \/ \E r \in Slots : /\ reqs[r].pc = "signout"
                              /\ reqs[r].cookie.session_id = s.session_id
          \/ \E r \in Slots : /\ reqs[r].pc = "delete"
                              /\ reqs[r].user_id = s.user_id
  BY <1>1
<1>3. QED
  BY SessionInvariance, <1>2, PTL DEF Spec, ActiveSessionKept
=============================================================================
