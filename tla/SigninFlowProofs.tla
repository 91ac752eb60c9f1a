-------------------------- MODULE SigninFlowProofs --------------------------
(* Proofs that SigninFlow has its properties for all values of its constants. *)
EXTENDS SigninFlow, TLAPS

LEMMA InitIInv == Init => IInv
<1> SUFFICES ASSUME Init PROVE IInv
  OBVIOUS
<1> USE SigninAssumption DEF Init
<1>1. TypeOK
  BY DEF TypeOK, Post, NoPost, Steps
<1>2. Unique /\ Bound
  BY DEF Unique, Bound, NoPost
<1>3. Linked
  BY DEF Linked, NoPost
<1> QED BY <1>1, <1>2, <1>3 DEF IInv

LEMMA StoreIInv ==
  ASSUME IInv, NEW key \in Keys, StoreSigninRequest(key)
  PROVE  IInv'
<1> USE SigninAssumption DEF IInv
<1>1. PICK id \in SigninIds, secret \in FreshSecrets, t \in Stamps :
        /\ requests' = requests \cup
             {[created_at |-> t, signin_id |-> id, signin_secret |-> secret,
               pubkey |-> key]}
        /\ links' = links \cup
             {[signin_id |-> id, signin_secret |-> secret, pubkey |-> key]}
  BY DEF StoreSigninRequest
<1>2. UNCHANGED <<now, users, lastUserId, sessions, posts, pages, grants,
                  raced, straddled>>
  BY DEF StoreSigninRequest
<1>3. /\ secret \in Secrets
      /\ \A l \in links : l.signin_secret # secret
  BY DEF FreshSecrets
<1>4. TypeOK'
  BY <1>1, <1>2, <1>3 DEF TypeOK, Request, Link, Stamps
<1>5. Unique'
  BY <1>1, <1>2, <1>3 DEF Unique
<1>6. Linked'
  BY <1>1, <1>2 DEF Linked, LinkOf
<1>7. Bound'
  BY <1>1, <1>2 DEF Bound, MayOnlyBe
<1> QED BY <1>4, <1>5, <1>6, <1>7

LEMMA ConfirmIInv ==
  ASSUME IInv, NEW link \in links, ConfirmSignin(link)
  PROVE  IInv'
<1> USE DEF IInv
<1>1. PICK row \in requests : pages' = pages \cup {row.signin_secret}
  BY DEF ConfirmSignin, WithSigninId
<1>2. UNCHANGED <<now, tables, posts, history>>
  BY DEF ConfirmSignin
<1>3. TypeOK'
  BY <1>1, <1>2 DEF TypeOK, Request, tables, history
<1>4. Unique'
  BY <1>2 DEF Unique, tables, history
<1>5. Linked'
  BY <1>1, <1>2 DEF Linked, LinkOf, tables, history
<1>6. Bound'
  BY <1>1, <1>2 DEF Bound, MayOnlyBe, tables, history
<1> QED BY <1>3, <1>4, <1>5, <1>6

LEMMA BeginIInv ==
  ASSUME IInv, NEW p \in Posts, NEW link \in links,
         NEW csrf \in pages \cup {None}, BeginPost(p, link, csrf)
  PROVE  IInv'
<1> USE SigninAssumption DEF IInv
<1> DEFINE new(row) == [pc |-> "delete", signin_id |-> link.signin_id,
                        signin_secret |-> link.signin_secret,
                        pubkey |-> row.pubkey, user_id |-> 0]
<1>1. PICK row \in requests :
        /\ row.signin_id = link.signin_id
        /\ row.signin_secret = csrf
        /\ row.signin_secret = link.signin_secret
        /\ posts' = [posts EXCEPT ![p] = new(row)]
  BY DEF BeginPost, WithSigninId, CsrfMatches, SecretMatches
<1>2. UNCHANGED <<now, tables, pages, history>>
  BY DEF BeginPost
<1>3. row \in Request /\ link \in Link
  BY DEF TypeOK
<1>4. csrf \in pages
  BY <1>1, <1>3 DEF Request
<1>5. new(row) \in Post
  BY <1>3 DEF Post, Steps, Request, Link
<1>6. TypeOK'
  BY <1>1, <1>2, <1>5 DEF TypeOK, tables, history
<1>7. Unique'
  BY <1>2 DEF Unique, tables, history
<1>8. LinkOf(new(row)) = LinkOf(row)
  BY <1>1 DEF LinkOf
<1>9. Linked'
  <2>1. \A r \in requests' : LinkOf(r) \in links'
    BY <1>2 DEF Linked, tables, history
  <2>2. LinkOf(new(row)) \in links' /\ new(row).signin_secret \in pages'
    BY <1>1, <1>2, <1>4, <1>8 DEF Linked, tables, history
  <2>3. \A q \in Posts : posts'[q] = IF q = p THEN new(row) ELSE posts[q]
    BY <1>1 DEF TypeOK
  <2> QED BY <1>2, <2>1, <2>2, <2>3 DEF Linked, LinkOf, tables, history
<1>10. Bound'
  BY <1>1, <1>2, <1>5 DEF TypeOK, Bound, MayOnlyBe, tables, history
<1> QED BY <1>6, <1>7, <1>9, <1>10

(* A handler that moves on to a statement other than the insert of the session  *)
(* keeps its link.                                                             *)
LEMMA DeleteIInv ==
  ASSUME IInv, NEW p \in Posts, DeleteRequest(p)
  PROVE  IInv'
<1> USE DEF IInv
<1>1. /\ posts[p].pc = "delete"
      /\ requests' = {r \in requests : r.signin_id # posts[p].signin_id}
      /\ posts' = [posts EXCEPT ![p].pc = "lookup"]
      /\ UNCHANGED <<now, users, lastUserId, sessions, pages, history>>
  BY DEF DeleteRequest, Kept
<1>2. /\ posts[p] \in Post
      /\ posts' \in [Posts -> Post]
      /\ \A q \in Posts : q # p => posts'[q] = posts[q]
      /\ posts'[p].pc = "lookup"
      /\ LinkOf(posts'[p]) = LinkOf(posts[p])
      /\ posts'[p].signin_secret = posts[p].signin_secret
  BY <1>1 DEF TypeOK, Post, Steps, LinkOf
<1>3. TypeOK'
  BY <1>1, <1>2 DEF TypeOK, history
<1>4. Unique'
  BY <1>1 DEF Unique, history
<1>5. Linked'
  BY <1>1, <1>2 DEF Linked, LinkOf, history
<1>6. Bound'
  BY <1>1, <1>2 DEF Bound, MayOnlyBe, history
<1> QED BY <1>3, <1>4, <1>5, <1>6

\* What both ways to the last statement do to the record of a handler.
LEMMA ToSession ==
  ASSUME posts \in [Posts -> Post], NEW p \in Posts, NEW id \in Nat,
         posts' = [posts EXCEPT ![p].pc = "session", ![p].user_id = id]
  PROVE  /\ posts' \in [Posts -> Post]
         /\ \A q \in Posts : q # p => posts'[q] = posts[q]
         /\ posts'[p].pc = "session"
         /\ posts'[p].user_id = id
         /\ posts'[p].pubkey = posts[p].pubkey
         /\ posts'[p].signin_secret = posts[p].signin_secret
         /\ LinkOf(posts'[p]) = LinkOf(posts[p])
<1> DEFINE post == [posts[p] EXCEPT !.pc = "session"]
           new == [post EXCEPT !.user_id = id]
<1>1. posts[p] \in Post
  OBVIOUS
<1>2. post \in Post
  BY <1>1 DEF Post, Steps
<1>3. new \in Post
  BY <1>2 DEF Post
<1>4. /\ new.pc = "session" /\ new.user_id = id
      /\ new.pubkey = posts[p].pubkey
      /\ new.signin_secret = posts[p].signin_secret
      /\ new.signin_id = posts[p].signin_id
  BY <1>1 DEF Post
<1>5. posts' = [posts EXCEPT ![p] = new]
  OBVIOUS
<1> HIDE DEF new, post
<1>6. /\ posts' \in [Posts -> Post]
      /\ \A q \in Posts : q # p => posts'[q] = posts[q]
      /\ posts'[p] = new
  BY <1>3, <1>5
<1> QED BY <1>4, <1>6 DEF LinkOf

LEMMA FindIInv ==
  ASSUME IInv, NEW p \in Posts, FindUser(p)
  PROVE  IInv'
<1> USE DEF IInv
<1>1. PICK user \in users :
        /\ user.pubkey = posts[p].pubkey
        /\ posts' = [posts EXCEPT ![p].pc = "session",
                                  ![p].user_id = user.user_id]
  BY DEF FindUser, UsersOf
<1>2. posts[p].pc = "lookup" /\ UNCHANGED <<now, tables, pages, history>>
  BY DEF FindUser
<1>3. user \in User /\ user.user_id \in 1..lastUserId
  BY DEF TypeOK
<1>4. /\ posts' \in [Posts -> Post]
      /\ \A q \in Posts : q # p => posts'[q] = posts[q]
      /\ posts'[p].user_id = user.user_id
      /\ posts'[p].pubkey = posts[p].pubkey
      /\ LinkOf(posts'[p]) = LinkOf(posts[p])
      /\ posts'[p].signin_secret = posts[p].signin_secret
  BY <1>1, <1>3, ToSession DEF TypeOK, User
<1>5. TypeOK'
  BY <1>2, <1>4 DEF TypeOK, tables, history
<1>6. Unique'
  BY <1>2 DEF Unique, tables, history
<1>7. Linked'
  BY <1>2, <1>4 DEF Linked, LinkOf, tables, history
<1>8. MayOnlyBe(user.user_id, user.pubkey)
  BY DEF MayOnlyBe, Unique
<1>9. Bound'
  BY <1>1, <1>2, <1>3, <1>4, <1>8 DEF Bound, MayOnlyBe, tables, history
<1> QED BY <1>5, <1>6, <1>7, <1>9

LEMMA MissIInv ==
  ASSUME IInv, NEW p \in Posts, MissUser(p)
  PROVE  IInv'
<1> USE DEF IInv
<1>1. /\ posts[p].pc = "lookup"
      /\ posts' = [posts EXCEPT ![p].pc = "create"]
      /\ UNCHANGED <<now, tables, pages, links, grants, straddled>>
  BY DEF MissUser
<1>2. /\ posts' \in [Posts -> Post]
      /\ \A q \in Posts : q # p => posts'[q] = posts[q]
      /\ posts'[p].pc = "create"
      /\ LinkOf(posts'[p]) = LinkOf(posts[p])
      /\ posts'[p].signin_secret = posts[p].signin_secret
  BY <1>1 DEF TypeOK, Post, Steps, LinkOf
<1>3. raced' \subseteq Keys
  <2>1. ASSUME NEW q \in Posts, posts[q].pc = "create" PROVE posts[q].pubkey \in Keys
    <3>1. LinkOf(posts[q]) \in Link
      BY <2>1 DEF TypeOK, Linked
    <3> QED BY <3>1 DEF LinkOf, Link
  <2> QED BY <2>1 DEF MissUser, TypeOK
<1>4. TypeOK'
  BY <1>1, <1>2, <1>3 DEF TypeOK, tables
<1>5. Unique'
  BY <1>1 DEF Unique, tables
<1>6. Linked'
  BY <1>1, <1>2 DEF Linked, LinkOf, tables
<1>7. Bound'
  BY <1>1, <1>2 DEF Bound, MayOnlyBe, tables
<1> QED BY <1>4, <1>5, <1>6, <1>7

LEMMA CreateUserIInv ==
  ASSUME IInv, NEW p \in Posts, CreateUser(p)
  PROVE  IInv'
<1> USE DEF IInv
<1> DEFINE id == lastUserId + 1
           user == [user_id |-> id, pubkey |-> posts[p].pubkey]
<1>1. /\ posts[p].pc = "create"
      /\ users' = users \cup {user}
      /\ lastUserId' = id
      /\ posts' = [posts EXCEPT ![p].pc = "session", ![p].user_id = id]
      /\ UNCHANGED <<now, requests, sessions, pages, history>>
  BY DEF CreateUser, NextUserId
<1>2. /\ lastUserId \in Nat /\ id \in Nat
      /\ id \notin 1..lastUserId /\ 1..lastUserId \subseteq 1..id /\ id \in 1..id
  BY DEF TypeOK
<1>3. posts[p].pubkey \in Keys
  <2>1. LinkOf(posts[p]) \in Link
    BY <1>1 DEF TypeOK, Linked
  <2> QED BY <2>1 DEF LinkOf, Link
<1>4. user \in User
  BY <1>2, <1>3 DEF User
<1>5. /\ posts' \in [Posts -> Post]
      /\ \A q \in Posts : q # p => posts'[q] = posts[q]
      /\ posts'[p].user_id = id
      /\ posts'[p].pubkey = posts[p].pubkey
      /\ LinkOf(posts'[p]) = LinkOf(posts[p])
      /\ posts'[p].signin_secret = posts[p].signin_secret
  BY <1>1, <1>2, ToSession DEF TypeOK
<1>6. TypeOK'
  BY <1>1, <1>2, <1>4, <1>5 DEF TypeOK, history
<1>7. \A u \in users : u.user_id \in 1..lastUserId
  BY DEF TypeOK
<1>8. Unique'
  BY <1>1, <1>2, <1>7 DEF Unique, history
<1>9. Linked'
  BY <1>1, <1>5 DEF Linked, LinkOf, history
<1>10. \A u \in users' : u.user_id \in 1..lastUserId => u \in users
  BY <1>1, <1>2
<1>11. \A u \in users' : u.user_id = id => u.pubkey = posts[p].pubkey
  BY <1>1, <1>2, <1>7
<1>12. Bound'
  <2>1. ASSUME NEW q \in Posts, posts'[q].pc = "session" PROVE
          /\ posts'[q].user_id \in 1..lastUserId'
          /\ MayOnlyBe(posts[q].user_id, posts[q].pubkey)'
    <3>1. CASE q = p
      BY <3>1, <1>1, <1>2, <1>5, <1>11 DEF MayOnlyBe
    <3>2. CASE q # p
      <4>1. posts'[q] = posts[q]
        BY <3>2, <1>5
      <4>2. /\ posts[q].user_id \in 1..lastUserId
            /\ MayOnlyBe(posts[q].user_id, posts[q].pubkey)
        BY <2>1, <4>1 DEF Bound
      <4>3. posts'[q].user_id \in 1..lastUserId'
        BY <4>1, <4>2, <1>1, <1>2
      <4> QED BY <4>1, <4>2, <4>3, <1>10 DEF MayOnlyBe
    <3> QED BY <3>1, <3>2
  <2>2. \A g \in grants' :
          /\ g.signin_secret \in pages'
          /\ \E l \in links' : /\ l.signin_secret = g.signin_secret
                               /\ MayOnlyBe(g.user_id, l.pubkey)'
    BY <1>1, <1>10 DEF TypeOK, Bound, MayOnlyBe, history
  <2>3. \A s \in sessions' : \E g \in grants' :
          g.session_secret = s.session_secret /\ g.user_id = s.user_id
    BY <1>1 DEF Bound, history
  <2> QED BY <2>1, <2>2, <2>3 DEF Bound, MayOnlyBe
<1> QED BY <1>6, <1>8, <1>9, <1>12

LEMMA CreateSessionIInv ==
  ASSUME IInv, NEW p \in Posts, CreateSession(p)
  PROVE  IInv'
<1> USE SigninAssumption DEF IInv
<1>1. PICK id \in SessionIds, secret \in FreshSessionSecrets, t \in Stamps :
        /\ sessions' = sessions \cup
             {[user_id |-> posts[p].user_id, last_active |-> t,
               session_id |-> id, session_secret |-> secret]}
        /\ grants' = grants \cup
             {[session_secret |-> secret, user_id |-> posts[p].user_id,
               signin_secret |-> posts[p].signin_secret]}
  BY DEF CreateSession
<1>2. /\ posts[p].pc = "session"
      /\ posts' = [posts EXCEPT ![p] = NoPost]
      /\ UNCHANGED <<now, requests, users, lastUserId, pages, links, raced,
                     straddled>>
  BY DEF CreateSession
<1>3. /\ posts[p].user_id \in 1..lastUserId /\ posts[p].user_id \in Nat
      /\ MayOnlyBe(posts[p].user_id, posts[p].pubkey)
      /\ LinkOf(posts[p]) \in links
      /\ posts[p].signin_secret \in pages
  BY <1>2 DEF TypeOK, Bound, Linked
<1>4. /\ secret \in SessionSecrets
      /\ \A g \in grants : g.session_secret # secret
      /\ \A s \in sessions : s.session_secret # secret
  BY DEF FreshSessionSecrets, Bound
<1>5. posts[p].signin_secret \in Secrets
  BY <1>3 DEF TypeOK
<1>6. posts' \in [Posts -> Post]
  BY <1>2 DEF TypeOK, Post, NoPost, Steps
<1>7. TypeOK'
  BY <1>1, <1>2, <1>3, <1>4, <1>5, <1>6 DEF TypeOK, Session, Grant, Stamps
<1>8. Unique'
  BY <1>1, <1>2, <1>4 DEF Unique
<1>9. \A q \in Posts : posts'[q].pc # "idle" => posts'[q] = posts[q]
  BY <1>2 DEF TypeOK, NoPost
<1>10. Linked'
  BY <1>2, <1>9 DEF Linked, LinkOf
<1>11. Bound'
  <2>1. \A q \in Posts : posts'[q].pc = "session" =>
          /\ posts'[q].user_id \in 1..lastUserId'
          /\ MayOnlyBe(posts[q].user_id, posts[q].pubkey)'
    BY <1>2, <1>9 DEF Bound, MayOnlyBe
  <2>2. ASSUME NEW g \in grants'
        PROVE  /\ g.signin_secret \in pages'
               /\ \E l \in links' : /\ l.signin_secret = g.signin_secret
                                    /\ MayOnlyBe(g.user_id, l.pubkey)'
    <3>1. CASE g \in grants
      BY <3>1, <1>2 DEF Bound, MayOnlyBe
    <3>2. CASE g \notin grants
      <4>1. g.user_id = posts[p].user_id /\ g.signin_secret = posts[p].signin_secret
        BY <3>2, <1>1
      <4> QED BY <4>1, <1>2, <1>3 DEF MayOnlyBe, LinkOf
    <3> QED BY <3>1, <3>2
  <2>3. ASSUME NEW s \in sessions'
        PROVE  \E g \in grants' :
                 g.session_secret = s.session_secret /\ g.user_id = s.user_id
    <3>1. CASE s \in sessions
      BY <3>1, <1>1 DEF Bound
    <3>2. CASE s \notin sessions
      <4>1. s.session_secret = secret /\ s.user_id = posts[p].user_id
        BY <3>2, <1>1
      <4> DEFINE new == [session_secret |-> secret, user_id |-> posts[p].user_id,
                         signin_secret |-> posts[p].signin_secret]
      <4>2. new \in grants'
        BY <1>1
      <4>3. new.session_secret = secret /\ new.user_id = posts[p].user_id
        OBVIOUS
      <4> HIDE DEF new
      <4> QED BY <4>1, <4>2, <4>3
    <3> QED BY <3>1, <3>2
  <2> QED BY <2>1, <2>2, <2>3 DEF Bound, MayOnlyBe
<1> QED BY <1>7, <1>8, <1>10, <1>11

\* Handlers that end, and rows that go, leave the rest as it belongs together.
LEMMA RemovalIInv ==
  ASSUME IInv,
         posts' \in [Posts -> Post],
         \A p \in Posts : posts'[p].pc # "idle" => posts'[p] = posts[p],
         requests' \subseteq requests,
         users' \subseteq users,
         sessions' \subseteq sessions,
         straddled' \subseteq Secrets,
         now' \in 0..MaxTime,
         UNCHANGED <<lastUserId, pages, links, grants, raced>>
  PROVE  IInv'
<1> USE DEF IInv
<1>1. TypeOK'
  BY DEF TypeOK
<1>2. Unique'
  BY DEF Unique
<1>3. Linked'
  BY DEF Linked, LinkOf
<1>4. Bound'
  BY DEF Bound, MayOnlyBe
<1> QED BY <1>1, <1>2, <1>3, <1>4

LEMMA FailIInv ==
  ASSUME IInv, NEW p \in Posts, FailPost(p)
  PROVE  IInv'
<1>1. posts' = [posts EXCEPT ![p] = NoPost] /\ UNCHANGED <<now, tables, pages, history>>
  BY DEF FailPost
<1>2. /\ posts' \in [Posts -> Post]
      /\ \A q \in Posts : posts'[q].pc # "idle" => posts'[q] = posts[q]
  BY <1>1 DEF IInv, TypeOK, Post, NoPost, Steps
<1> QED BY <1>1, <1>2, RemovalIInv DEF IInv, TypeOK, tables, history

LEMMA DeleteAccountIInv ==
  ASSUME IInv, NEW id \in 1..lastUserId, DeleteAccount(id)
  PROVE  IInv'
<1>1. straddled' \subseteq Secrets
  <2>1. ASSUME NEW p \in Posts, posts[p].pc = "session"
        PROVE  posts[p].signin_secret \in Secrets
    BY <2>1 DEF IInv, TypeOK, Linked
  <2> QED BY <2>1 DEF DeleteAccount, IInv, TypeOK
<1> QED
  BY <1>1, RemovalIInv DEF DeleteAccount, UsersWithout, SessionsWithout, IInv, TypeOK

LEMMA StepIInv == IInv /\ [Next]_vars => IInv'
<1> SUFFICES ASSUME IInv, [Next]_vars PROVE IInv'
  OBVIOUS
<1>1. ASSUME NEW key \in Keys, StoreSigninRequest(key) PROVE IInv'
  BY <1>1, StoreIInv
<1>2. ASSUME NEW link \in links, ConfirmSignin(link) PROVE IInv'
  BY <1>2, ConfirmIInv
<1>3. ASSUME NEW p \in Posts, HandlerStep(p) PROVE IInv'
  BY <1>3, BeginIInv, DeleteIInv, FindIInv, MissIInv, CreateUserIInv,
     CreateSessionIInv, FailIInv DEF HandlerStep
<1>4. ASSUME NEW id \in 1..lastUserId, DeleteAccount(id) PROVE IInv'
  BY <1>4, DeleteAccountIInv
<1>5. ASSUME NEW session \in sessions, EndSession(session) PROVE IInv'
  BY <1>5, RemovalIInv DEF EndSession, history, IInv, TypeOK
<1>6. ASSUME Sweep PROVE IInv'
  BY <1>6, RemovalIInv DEF Sweep, history, IInv, TypeOK
<1>7. ASSUME Tick PROVE IInv'
  <2>1. now' \in 0..MaxTime
    BY <1>7, SigninAssumption DEF Tick, IInv, TypeOK
  <2> QED BY <2>1, <1>7, RemovalIInv DEF Tick, tables, history, IInv, TypeOK
<1>8. ASSUME Restart PROVE IInv'
  <2>1. posts' \in [Posts -> Post] /\ \A p \in Posts : posts'[p].pc = "idle"
    BY <1>8, SigninAssumption DEF Restart, Post, NoPost, Steps
  <2> QED BY <2>1, <1>8, RemovalIInv DEF Restart, tables, history, IInv, TypeOK
<1>9. CASE UNCHANGED vars
  BY <1>9, RemovalIInv DEF vars, tables, history, IInv, TypeOK
<1> QED BY <1>1, <1>2, <1>3, <1>4, <1>5, <1>6, <1>7, <1>8, <1>9 DEF Next

\* The rows, the handlers in progress and the links printed belong together in
\* every reachable state.
THEOREM Invariance == Spec => []IInv
BY InitIInv, StepIInv, PTL DEF Spec

\* No statement of any handler stores a value its column does not hold, or a
\* user_id that was never assigned.
THEOREM TypeCorrect == Spec => []TypeOK
<1>1. IInv => TypeOK
  BY DEF IInv
<1> QED BY <1>1, Invariance, PTL

\* A session row speaks for the key its link was made for, through any
\* interleaving of sign-ins and deletions of accounts.
THEOREM SessionsBound == Spec => []SessionKeyBinding
<1>1. IInv => SessionKeyBinding
  <2> SUFFICES ASSUME IInv, NEW s \in sessions, NEW g \in grants,
                      NEW l \in links, NEW u \in users,
                      s.session_secret = g.session_secret,
                      g.signin_secret = l.signin_secret,
                      u.user_id = s.user_id
               PROVE  u.pubkey = l.pubkey
    BY DEF SessionKeyBinding
  <2>1. g.user_id = s.user_id
    BY DEF IInv, Bound, Unique
  <2>2. PICK m \in links : /\ m.signin_secret = g.signin_secret
                           /\ MayOnlyBe(g.user_id, m.pubkey)
    BY DEF IInv, Bound
  <2>3. m = l
    BY <2>2 DEF IInv, Unique
  <2> QED BY <2>1, <2>2, <2>3 DEF MayOnlyBe
<1> QED BY <1>1, Invariance, PTL

\* No session comes into being but through the form of the link's own page.
THEOREM FormOnly == Spec => []ConfirmedBeforeGrant
<1>1. IInv => ConfirmedBeforeGrant
  BY DEF IInv, Bound, ConfirmedBeforeGrant
<1> QED BY <1>1, Invariance, PTL

-----------------------------------------------------------------------------
(* Action properties: what the invariant makes impossible in one step. *)

\* A link whose row is gone is never let in again.
THEOREM DeadLinks == Spec => DeadLinkStaysDead
<1> DEFINE Good(l) ==
      Dead(l) => /\ Dead(l)'
                 /\ InFlight(l.signin_secret)' \subseteq InFlight(l.signin_secret)
<1>1. ASSUME IInv, [Next]_vars, NEW l \in links PROVE Good(l)
  <2> SUFFICES ASSUME Dead(l)
               PROVE  /\ Dead(l)'
                      /\ InFlight(l.signin_secret)' \subseteq InFlight(l.signin_secret)
    OBVIOUS
  <2> USE <1>1 DEF Dead, InFlight
  <2>1. ASSUME NEW key \in Keys, StoreSigninRequest(key)
        PROVE  Good(l)
    <3>1. PICK secret \in FreshSecrets :
            \A r \in requests' : r \in requests \/ r.signin_secret = secret
      BY <2>1 DEF StoreSigninRequest
    <3>2. l.signin_secret # secret
      BY DEF FreshSecrets
    <3> QED BY <2>1, <3>1, <3>2 DEF StoreSigninRequest
  <2>2. ASSUME NEW link \in links, ConfirmSignin(link)
        PROVE  Good(l)
    BY <2>2 DEF ConfirmSignin, tables
  <2>3. ASSUME NEW p \in Posts, HandlerStep(p)
        PROVE  Good(l)
    <3>1. ASSUME NEW link \in links, NEW csrf \in pages \cup {None},
                 BeginPost(p, link, csrf)
          PROVE  Good(l)
      <4>1. PICK row \in requests :
              /\ row.signin_secret = link.signin_secret
              /\ posts' = [posts EXCEPT ![p] =
                   [pc |-> "delete", signin_id |-> link.signin_id,
                    signin_secret |-> link.signin_secret,
                    pubkey |-> row.pubkey, user_id |-> 0]]
        BY <3>1 DEF BeginPost, WithSigninId, SecretMatches
      <4>2. link.signin_secret # l.signin_secret
        BY <4>1
      <4> QED BY <3>1, <4>1, <4>2 DEF BeginPost, tables, IInv, TypeOK
    <3>3. CASE DeleteRequest(p)
      <4>1. /\ posts[p].pc # "idle" /\ requests' \subseteq requests
            /\ posts' = [posts EXCEPT ![p].pc = "lookup"]
        BY <3>3 DEF DeleteRequest, Kept
      <4> QED BY <4>1 DEF IInv, TypeOK, Post
    <3>4. CASE FindUser(p)
      <4>1. PICK id \in Nat :
              posts' = [posts EXCEPT ![p].pc = "session", ![p].user_id = id]
        BY <3>4 DEF FindUser, UsersOf, IInv, TypeOK, User
      <4>2. posts[p].pc # "idle" /\ requests' = requests
        BY <3>4 DEF FindUser, tables
      <4>3. posts \in [Posts -> Post]
        BY DEF IInv, TypeOK
      <4> QED BY <4>1, <4>2, <4>3, ToSession
    <3>5. CASE MissUser(p)
      <4>1. /\ posts[p].pc # "idle" /\ requests' = requests
            /\ posts' = [posts EXCEPT ![p].pc = "create"]
        BY <3>5 DEF MissUser, tables
      <4> QED BY <4>1 DEF IInv, TypeOK, Post
    <3>6. CASE CreateUser(p)
      <4>1. /\ posts[p].pc # "idle" /\ requests' = requests
            /\ posts' = [posts EXCEPT ![p].pc = "session",
                                      ![p].user_id = lastUserId + 1]
        BY <3>6 DEF CreateUser, NextUserId
      <4>2. posts \in [Posts -> Post] /\ lastUserId + 1 \in Nat
        BY DEF IInv, TypeOK
      <4> QED BY <4>1, <4>2, ToSession
    <3>7. CASE CreateSession(p) \/ FailPost(p)
      BY <3>7 DEF CreateSession, FailPost, NoPost, tables, IInv, TypeOK
    <3> QED BY <2>3, <3>1, <3>3, <3>4, <3>5, <3>6, <3>7 DEF HandlerStep
  <2>4. ASSUME NEW id \in 1..lastUserId, DeleteAccount(id) PROVE Good(l)
    BY <2>4 DEF DeleteAccount
  <2>5. ASSUME NEW session \in sessions, EndSession(session) PROVE Good(l)
    BY <2>5 DEF EndSession
  <2>6. CASE Sweep
    BY <2>6 DEF Sweep
  <2>7. CASE Tick \/ Restart \/ UNCHANGED vars
    BY <2>7 DEF Tick, Restart, NoPost, vars, tables
  <2> QED BY <2>1, <2>2, <2>3, <2>4, <2>5, <2>6, <2>7 DEF Next
<1>2. IInv /\ [Next]_vars => [\A l \in links : Good(l)]_vars
  BY <1>1
<1> QED BY <1>2, Invariance, PTL DEF Spec, DeadLinkStaysDead

\* A request row goes by redemption of its id or by old age.
THEOREM NotSweptEarly == Spec => NoEarlyExpiry
<1> DEFINE Due(r) ==
      \/ now - r.created_at > SigninTTL
      \/ \E p \in Posts : /\ posts[p].pc = "delete"
                          /\ posts[p].signin_id = r.signin_id
<1>1. ASSUME IInv, [Next]_vars, NEW r \in requests \ requests' PROVE Due(r)
  <2>1. CASE Sweep
    <3>1. PICK t \in Stamps : requests' = {q \in requests : ~Expired(q, t)}
      BY <2>1 DEF Sweep
    <3>2. r.created_at < t - SigninTTL /\ t \in 0..now
      BY <3>1, <1>1 DEF Expired, Stamps
    <3>3. r.created_at \in Nat /\ now \in Nat /\ SigninTTL \in Nat
      BY <1>1, SigninAssumption DEF IInv, TypeOK, Request
    <3> QED BY <3>2, <3>3
  <2>2. ASSUME NEW p \in Posts, DeleteRequest(p) PROVE Due(r)
    BY <1>1, <2>2 DEF DeleteRequest, Kept
  <2>3. CASE requests \subseteq requests'
    BY <1>1, <2>3
  <2> QED
    BY <1>1, <2>1, <2>2, <2>3
    DEF Next, HandlerStep, StoreSigninRequest, ConfirmSignin, BeginPost, FindUser,
        MissUser, CreateUser, CreateSession, FailPost, DeleteAccount, EndSession,
        Tick, Restart, vars, tables
<1>2. IInv /\ [Next]_vars => [\A r \in requests \ requests' :
         \/ now - r.created_at > SigninTTL
         \/ \E p \in Posts : /\ posts[p].pc = "delete"
                             /\ posts[p].signin_id = r.signin_id]_vars
  BY <1>1
<1> QED BY <1>2, Invariance, PTL DEF Spec, NoEarlyExpiry

-----------------------------------------------------------------------------
(* Races between the statements of two handlers. *)

\* The users whose pubkey two handlers insert at once are the only double ones:
\* RaceInv carries it from the failed lookups to the inserts.
THEOREM Duplicates == Spec => []DuplicateOnlyIfRaced
<1> DEFINE Inv == RaceInv /\ DuplicateOnlyIfRaced
<1>1. Init => Inv
  BY DEF Init, NoPost, RaceInv, DuplicateOnlyIfRaced
<1>2. ASSUME IInv, Inv, [Next]_vars PROVE Inv'
  <2> USE <1>2
  <2> DEFINE Creating(p) == posts[p].pc = "create"
  <2>1. ASSUME users' \subseteq users, raced \subseteq raced',
               \A p \in Posts : Creating(p)' =>
                 Creating(p) /\ posts'[p].pubkey = posts[p].pubkey
        PROVE  Inv'
    BY <2>1 DEF RaceInv, DuplicateOnlyIfRaced
  <2>2. ASSUME NEW p \in Posts, MissUser(p) PROVE Inv'
    <3>1. /\ users' = users /\ raced \subseteq raced'
          /\ UsersOf(posts[p].pubkey) = {}
          /\ posts' = [posts EXCEPT ![p].pc = "create"]
      BY <2>2 DEF MissUser, tables
    <3>2. /\ posts'[p].pubkey = posts[p].pubkey
          /\ \A q \in Posts : q # p => posts'[q] = posts[q]
      BY <3>1 DEF IInv, TypeOK, Post
    <3>3. \A q \in Posts \ {p} :
            Creating(q) /\ posts[q].pubkey = posts[p].pubkey
              => posts[p].pubkey \in raced'
      BY <2>2 DEF MissUser
    <3>4. \A u \in users : u.pubkey # posts[p].pubkey
      BY <3>1 DEF UsersOf
    <3>5. RaceInv'
      BY <3>1, <3>2, <3>3, <3>4 DEF RaceInv
    <3>6. DuplicateOnlyIfRaced'
      BY <3>1 DEF DuplicateOnlyIfRaced
    <3> QED BY <3>5, <3>6
  <2>3. ASSUME NEW p \in Posts, CreateUser(p) PROVE Inv'
    <3>1. /\ raced' = raced /\ posts[p].pc = "create"
          /\ \A u \in users' : u \in users \/ u.pubkey = posts[p].pubkey
          /\ posts' = [posts EXCEPT ![p].pc = "session",
                                    ![p].user_id = lastUserId + 1]
      BY <2>3 DEF CreateUser, NextUserId, history
    <3>2. /\ posts'[p].pc = "session"
          /\ \A q \in Posts : q # p => posts'[q] = posts[q]
      <4>1. posts \in [Posts -> Post] /\ lastUserId + 1 \in Nat
        BY DEF IInv, TypeOK
      <4> QED BY <3>1, <4>1, ToSession
    <3>3. RaceInv'
      <4> SUFFICES ASSUME NEW q \in Posts, Creating(q)'
                   PROVE  /\ \A r \in Posts \ {q} :
                               /\ Creating(r)'
                               /\ posts'[r].pubkey = posts'[q].pubkey
                               => posts'[q].pubkey \in raced'
                          /\ \A u \in users' :
                               u.pubkey = posts'[q].pubkey => u.pubkey \in raced'
        BY DEF RaceInv
      <4>1. q # p /\ posts'[q] = posts[q]
        BY <3>2
      <4>2. \A u \in users : u.pubkey = posts[q].pubkey => u.pubkey \in raced
        BY <4>1 DEF RaceInv
      <4>3. posts[p].pubkey = posts[q].pubkey => posts[p].pubkey \in raced
        BY <3>1, <4>1 DEF RaceInv
      <4>4. \A r \in Posts \ {q} :
              Creating(r) /\ posts[r].pubkey = posts[q].pubkey
                => posts[q].pubkey \in raced
        BY <4>1 DEF RaceInv
      <4>5. \A r \in Posts \ {q} :
              Creating(r)' /\ posts'[r].pubkey = posts'[q].pubkey
                => posts'[q].pubkey \in raced'
        <5>1. raced' = raced /\ \A r \in Posts : Creating(r)' => posts'[r] = posts[r]
          BY <3>1, <3>2
        <5> QED BY <5>1, <4>1, <4>4
      <4>6. \A u \in users' : u.pubkey = posts'[q].pubkey => u.pubkey \in raced'
        BY <3>1, <4>1, <4>2, <4>3
      <4> QED BY <4>5, <4>6
    <3>4. DuplicateOnlyIfRaced'
      <4> SUFFICES ASSUME NEW u \in users', NEW v \in users',
                          u # v, u.pubkey = v.pubkey
                   PROVE  u.pubkey \in raced
        BY <3>1 DEF DuplicateOnlyIfRaced
      <4>1. CASE u \in users /\ v \in users
        BY <4>1 DEF DuplicateOnlyIfRaced
      <4>2. CASE u \in users /\ v \notin users
        BY <4>2, <3>1 DEF RaceInv
      <4>3. CASE u \notin users /\ v \in users
        BY <4>3, <3>1 DEF RaceInv
      <4>4. CASE u \notin users /\ v \notin users
        BY <4>4, <2>3 DEF CreateUser
      <4> QED BY <4>1, <4>2, <4>3, <4>4
    <3> QED BY <3>3, <3>4
  <2>4. ASSUME NEW p \in Posts, HandlerStep(p) PROVE Inv'
    <3>1. ASSUME NEW link \in links, NEW csrf \in pages \cup {None},
                 BeginPost(p, link, csrf)
          PROVE  Inv'
      <4>1. /\ posts'[p].pc = "delete"
            /\ \A q \in Posts : q # p => posts'[q] = posts[q]
        BY <3>1 DEF BeginPost, IInv, TypeOK
      <4> QED BY <4>1, <3>1, <2>1 DEF BeginPost, tables, history
    <3>2. CASE DeleteRequest(p)
      <4>1. /\ posts'[p].pc = "lookup"
            /\ \A q \in Posts : q # p => posts'[q] = posts[q]
        BY <3>2 DEF DeleteRequest, IInv, TypeOK, Post
      <4> QED BY <4>1, <3>2, <2>1 DEF DeleteRequest, history
    <3>3. CASE FindUser(p)
      <4>1. PICK id \in Nat :
              posts' = [posts EXCEPT ![p].pc = "session", ![p].user_id = id]
        BY <3>3 DEF FindUser, UsersOf, IInv, TypeOK, User
      <4>2. /\ posts'[p].pc = "session"
            /\ \A q \in Posts : q # p => posts'[q] = posts[q]
        BY <4>1, ToSession DEF IInv, TypeOK
      <4> QED BY <4>2, <3>3, <2>1 DEF FindUser, tables, history
    <3>4. CASE CreateSession(p) \/ FailPost(p)
      <4>1. /\ posts'[p].pc = "idle"
            /\ \A q \in Posts : q # p => posts'[q] = posts[q]
        BY <3>4 DEF CreateSession, FailPost, NoPost, IInv, TypeOK
      <4> QED BY <4>1, <3>4, <2>1 DEF CreateSession, FailPost, tables, history
    <3> QED BY <2>2, <2>3, <2>4, <3>1, <3>2, <3>3, <3>4 DEF HandlerStep
  <2>5. CASE Restart
    BY <2>5, <2>1 DEF Restart, NoPost, tables, history
  <2> QED
    BY <2>1, <2>4, <2>5
    DEF Next, StoreSigninRequest, ConfirmSignin, DeleteAccount, UsersWithout,
        EndSession, Sweep, Tick, vars, tables, history
<1>3. Inv => DuplicateOnlyIfRaced
  OBVIOUS
<1> QED BY <1>1, <1>2, <1>3, Invariance, PTL DEF Spec

\* A session of no user is one whose handler held the user's id when the account
\* was deleted: StraddleInv carries it from the deletion to the insert.
THEOREM Orphans == Spec => []OrphanOnlyIfStraddled
<1> DEFINE Inv == StraddleInv /\ OrphanOnlyIfStraddled
           Nobody(rows, id) == \A u \in rows : u.user_id # id
           Ready(p) == posts[p].pc = "session"
<1>1. Init => Inv
  BY DEF Init, NoPost, StraddleInv, OrphanOnlyIfStraddled
<1>2. ASSUME IInv, Inv, [Next]_vars PROVE Inv'
  <2> USE <1>2
  <2>1. ASSUME users \subseteq users', straddled \subseteq straddled',
               sessions' \subseteq sessions, grants' = grants,
               \A p \in Posts : Ready(p)' /\ Nobody(users', posts'[p].user_id) =>
                 Ready(p) /\ posts'[p] = posts[p]
        PROVE  Inv'
    BY <2>1 DEF StraddleInv, OrphanOnlyIfStraddled
  <2>2. ASSUME NEW id \in 1..lastUserId, DeleteAccount(id) PROVE Inv'
    <3>1. /\ users' = {u \in users : u.user_id # id}
          /\ sessions' = {s \in sessions : s.user_id # id}
          /\ posts' = posts /\ grants' = grants
          /\ straddled \subseteq straddled'
          /\ \A p \in Posts : Ready(p) /\ posts[p].user_id = id
               => posts[p].signin_secret \in straddled'
      BY <2>2 DEF DeleteAccount, UsersWithout, SessionsWithout
    <3>2. \A i : i # id /\ Nobody(users', i) => Nobody(users, i)
      BY <3>1
    <3>3. StraddleInv'
      BY <3>1, <3>2 DEF StraddleInv
    <3>4. OrphanOnlyIfStraddled'
      BY <3>1, <3>2 DEF OrphanOnlyIfStraddled
    <3> QED BY <3>3, <3>4
  <2>3. ASSUME NEW p \in Posts, CreateSession(p) PROVE Inv'
    <3>1. PICK secret \in FreshSessionSecrets :
            /\ \A s \in sessions' : \/ s \in sessions
                                    \/ /\ s.session_secret = secret
                                       /\ s.user_id = posts[p].user_id
            /\ \A g \in grants' : \/ g \in grants
                                  \/ /\ g.session_secret = secret
                                     /\ g.signin_secret = posts[p].signin_secret
      BY <2>3 DEF CreateSession
    <3>2. /\ Ready(p) /\ posts' = [posts EXCEPT ![p] = NoPost]
          /\ users' = users /\ straddled' = straddled
      BY <2>3 DEF CreateSession
    <3>3. StraddleInv'
      BY <3>2 DEF StraddleInv, NoPost, IInv, TypeOK
    <3>4. \A g \in grants : g.session_secret # secret
      BY DEF FreshSessionSecrets
    <3>5. \A s \in sessions : s.session_secret # secret
      BY <3>4 DEF IInv, Bound
    <3>6. Nobody(users, posts[p].user_id) => posts[p].signin_secret \in straddled
      BY <3>2 DEF StraddleInv
    <3>7. OrphanOnlyIfStraddled'
      BY <3>1, <3>2, <3>4, <3>5, <3>6 DEF OrphanOnlyIfStraddled
    <3> QED BY <3>3, <3>7
  <2>4. ASSUME NEW p \in Posts, HandlerStep(p) PROVE Inv'
    <3>1. ASSUME NEW link \in links, NEW csrf \in pages \cup {None},
                 BeginPost(p, link, csrf)
          PROVE  Inv'
      <4>1. /\ posts'[p].pc = "delete"
            /\ \A q \in Posts : q # p => posts'[q] = posts[q]
        BY <3>1 DEF BeginPost, IInv, TypeOK
      <4> QED BY <4>1, <3>1, <2>1 DEF BeginPost, tables, history
    <3>2. CASE DeleteRequest(p)
      <4>1. /\ posts'[p].pc = "lookup"
            /\ \A q \in Posts : q # p => posts'[q] = posts[q]
        BY <3>2 DEF DeleteRequest, IInv, TypeOK, Post
      <4> QED BY <4>1, <3>2, <2>1 DEF DeleteRequest, history
    <3>3. CASE FindUser(p)
      <4>1. PICK user \in users :
              posts' = [posts EXCEPT ![p].pc = "session",
                                     ![p].user_id = user.user_id]
        BY <3>3 DEF FindUser, UsersOf
      <4>2. posts \in [Posts -> Post] /\ user.user_id \in Nat
        BY DEF IInv, TypeOK, User
      <4>3. /\ posts'[p].user_id = user.user_id
            /\ \A q \in Posts : q # p => posts'[q] = posts[q]
        BY <4>1, <4>2, ToSession
      <4>4. users' = users /\ straddled' = straddled
            /\ sessions' = sessions /\ grants' = grants
        BY <3>3 DEF FindUser, tables, history
      <4> QED BY <4>3, <4>4, <2>1
    <3>4. CASE MissUser(p)
      <4>1. /\ posts'[p].pc = "create"
            /\ \A q \in Posts : q # p => posts'[q] = posts[q]
        BY <3>4 DEF MissUser, IInv, TypeOK, Post
      <4> QED BY <4>1, <3>4, <2>1 DEF MissUser, tables
    <3>5. CASE CreateUser(p)
      <4>1. /\ users' = users \cup {[user_id |-> lastUserId + 1,
                                     pubkey |-> posts[p].pubkey]}
            /\ posts' = [posts EXCEPT ![p].pc = "session",
                                      ![p].user_id = lastUserId + 1]
            /\ straddled' = straddled /\ sessions' = sessions /\ grants' = grants
        BY <3>5 DEF CreateUser, NextUserId, history
      <4>2. posts \in [Posts -> Post] /\ lastUserId + 1 \in Nat
        BY DEF IInv, TypeOK
      <4>3. /\ posts'[p].user_id = lastUserId + 1
            /\ \A q \in Posts : q # p => posts'[q] = posts[q]
        BY <4>1, <4>2, ToSession
      <4>4. ~Nobody(users', lastUserId + 1)
        <5> DEFINE user == [user_id |-> lastUserId + 1, pubkey |-> posts[p].pubkey]
        <5>1. user \in users' /\ user.user_id = lastUserId + 1
          BY <4>1
        <5> HIDE DEF user
        <5> QED BY <5>1
      <4> QED BY <4>1, <4>3, <4>4, <2>1
    <3>6. CASE FailPost(p)
      <4>1. /\ posts'[p].pc = "idle"
            /\ \A q \in Posts : q # p => posts'[q] = posts[q]
        BY <3>6 DEF FailPost, NoPost, IInv, TypeOK
      <4> QED BY <4>1, <3>6, <2>1 DEF FailPost, tables, history
    <3> QED BY <2>3, <2>4, <3>1, <3>2, <3>3, <3>4, <3>5, <3>6 DEF HandlerStep
  <2>5. CASE Restart
    BY <2>5, <2>1 DEF Restart, NoPost, tables, history
  <2> QED
    BY <2>1, <2>2, <2>4, <2>5
    DEF Next, StoreSigninRequest, ConfirmSignin, EndSession, Sweep, Tick, vars,
        tables, history
<1>3. Inv => OrphanOnlyIfStraddled
  OBVIOUS
<1> QED BY <1>1, <1>2, <1>3, Invariance, PTL DEF Spec

-----------------------------------------------------------------------------
(* The tables implement KeyAccess. *)

Proven == {l.pubkey : l \in links}
Drawn == {g.session_secret : g \in grants}

\* Rows of users and sessions that only go revoke access, if anything.
LEMMA OpensLess ==
  ASSUME users' \subseteq users, sessions' \subseteq sessions,
         UNCHANGED <<links, grants>>
  PROVE  [Access!Next]_(Access!vars)
<1> DEFINE pairs == Opens \ Opens'
<1>1. Opens' \subseteq Opens
  BY DEF Opens
<1>2. pairs \in SUBSET Opens /\ Opens' = Opens \ pairs
  BY <1>1
<1>3. Proven' = Proven /\ Drawn' = Drawn
  BY DEF Proven, Drawn
<1>4. Access!Revoke(pairs)
  BY <1>2, <1>3 DEF Access!Revoke, Proven, Drawn
<1> QED BY <1>2, <1>4 DEF Access!Next

LEMMA SessionOpens ==
  ASSUME IInv, NEW p \in Posts, CreateSession(p)
  PROVE  Access!Next
<1>1. PICK id \in SessionIds, secret \in FreshSessionSecrets, t \in Stamps :
        /\ sessions' = sessions \cup
             {[user_id |-> posts[p].user_id, last_active |-> t,
               session_id |-> id, session_secret |-> secret]}
        /\ grants' = grants \cup
             {[session_secret |-> secret, user_id |-> posts[p].user_id,
               signin_secret |-> posts[p].signin_secret]}
  BY DEF CreateSession
<1>2. /\ posts[p].pc = "session" /\ users' = users /\ links' = links
  BY DEF CreateSession
<1> DEFINE new == [user_id |-> posts[p].user_id, last_active |-> t,
                   session_id |-> id, session_secret |-> secret]
<1>3. Proven' = Proven /\ Drawn' = Drawn \cup {secret}
  <2> DEFINE grant == [session_secret |-> secret, user_id |-> posts[p].user_id,
                       signin_secret |-> posts[p].signin_secret]
  <2>1. grants' = grants \cup {grant} /\ grant.session_secret = secret
    BY <1>1
  <2> HIDE DEF grant
  <2> QED BY <1>2, <2>1 DEF Proven, Drawn
<1>4. secret \in SessionSecrets /\ secret \notin Drawn
  BY DEF FreshSessionSecrets, Drawn
<1>5. LinkOf(posts[p]) \in links
  BY <1>2 DEF IInv, Linked
<1>6. PICK key \in Keys : key = posts[p].pubkey /\ key \in Proven
  BY <1>5 DEF LinkOf, IInv, TypeOK, Link, Proven
<1>7. /\ new.session_secret = secret /\ new.user_id = posts[p].user_id
      /\ sessions' = sessions \cup {new}
  BY <1>1
<1> HIDE DEF new
<1>8. CASE \E u \in users : u.user_id = posts[p].user_id
  <2>1. PICK u \in users : u.user_id = posts[p].user_id
    BY <1>8
  <2>2. \A v \in users : v.user_id = posts[p].user_id => v.pubkey = key
    BY <1>2, <1>6 DEF IInv, Bound, MayOnlyBe
  <2>3. Opens' = Opens \cup {<<secret, key>>}
    <3>1. Opens' \subseteq Opens \cup {<<secret, key>>}
      BY <1>2, <1>7, <2>2 DEF Opens
    <3>2. Opens \subseteq Opens'
      BY <1>2, <1>7 DEF Opens
    <3>3. <<secret, key>> \in Opens'
      BY <1>2, <1>4, <1>6, <1>7, <2>1, <2>2 DEF Opens
    <3> QED BY <3>1, <3>2, <3>3
  <2>4. Access!Grant(secret, key)
    BY <1>3, <1>4, <1>6, <2>3 DEF Access!Grant, Proven, Drawn
  <2> QED BY <1>4, <1>6, <2>4 DEF Access!Next
<1>9. CASE ~\E u \in users : u.user_id = posts[p].user_id
  <2>1. Opens' = Opens
    BY <1>2, <1>7, <1>9 DEF Opens
  <2>2. Access!GrantNothing(secret)
    BY <1>3, <1>4, <2>1 DEF Access!GrantNothing, Proven, Drawn
  <2> QED BY <1>4, <2>2 DEF Access!Next
<1> QED BY <1>8, <1>9

LEMMA StoreProves ==
  ASSUME NEW key \in Keys, StoreSigninRequest(key)
  PROVE  Access!Next
<1>1. PICK link : links' = links \cup {link} /\ link.pubkey = key
  <2>1. PICK id, secret : links' = links \cup
          {[signin_id |-> id, signin_secret |-> secret, pubkey |-> key]}
    BY DEF StoreSigninRequest
  <2> DEFINE new == [signin_id |-> id, signin_secret |-> secret, pubkey |-> key]
  <2>2. links' = links \cup {new} /\ new.pubkey = key
    BY <2>1
  <2> HIDE DEF new
  <2> QED BY <2>2
<1>2. Proven' = Proven \cup {key}
  BY <1>1 DEF Proven
<1>3. Drawn' = Drawn /\ Opens' = Opens
  BY DEF StoreSigninRequest, Drawn, Opens
<1>4. Access!Prove(key)
  BY <1>2, <1>3 DEF Access!Prove, Proven, Drawn
<1> QED BY <1>4 DEF Access!Next

\* No session waits for the id the next user gets.
LEMMA UserOpensNothing ==
  ASSUME IInv, NEW p \in Posts, CreateUser(p)
  PROVE  UNCHANGED Access!vars
<1>1. /\ \A u \in users' : u \in users \/ u.user_id = lastUserId + 1
      /\ users \subseteq users'
      /\ sessions' = sessions /\ links' = links /\ grants' = grants
  BY DEF CreateUser, NextUserId, history
<1>2. \A s \in sessions : s.user_id # lastUserId + 1
  BY DEF IInv, TypeOK
<1>3. Opens' = Opens
  BY <1>1, <1>2 DEF Opens
<1> QED BY <1>1, <1>3 DEF Access!vars

\* For all keys, links, sessions and handlers: what the statements of the
\* handlers do, seen through Opens, is what KeyAccess allows.
THEOREM Refinement == Spec => ImplementsKeyAccess
<1>1. Init => Access!Init
  BY DEF Init, Access!Init, Opens
<1>2. ASSUME IInv, [Next]_vars PROVE [Access!Next]_(Access!vars)
  <2>1. ASSUME NEW key \in Keys, StoreSigninRequest(key)
        PROVE  [Access!Next]_(Access!vars)
    BY <2>1, StoreProves
  <2>2. ASSUME NEW p \in Posts, HandlerStep(p)
        PROVE  [Access!Next]_(Access!vars)
    <3>1. CASE CreateUser(p)
      BY <1>2, <3>1, UserOpensNothing
    <3>2. CASE CreateSession(p)
      BY <1>2, <3>2, SessionOpens
    <3>3. CASE UNCHANGED <<users, sessions, links, grants>>
      BY <3>3, OpensLess
    <3> QED
      BY <2>2, <3>1, <3>2, <3>3
      DEF HandlerStep, BeginPost, DeleteRequest, FindUser, MissUser, FailPost,
          tables, history
  <2>3. CASE /\ users' \subseteq users /\ sessions' \subseteq sessions
             /\ UNCHANGED <<links, grants>>
    BY <2>3, OpensLess
  <2> QED
    BY <1>2, <2>1, <2>2, <2>3
    DEF Next, ConfirmSignin, DeleteAccount, UsersWithout, SessionsWithout,
        EndSession, Sweep, Tick, Restart, vars, tables, history
<1> QED BY <1>1, <1>2, Invariance, PTL DEF Spec, ImplementsKeyAccess, Access!Spec

=============================================================================
