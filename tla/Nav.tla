-------------------------------- MODULE Nav --------------------------------
(***************************************************************************)
(* Which section of the home page is visible.  The server renders it from  *)
(* the path and the visitor's session; once its scripts run, the page      *)
(* follows its links by itself, from the path alone.  One tab, with its    *)
(* history; sessions come and go in other tabs as well, and end on the     *)
(* server.  A page that the server fails to render (500) is left out.      *)
(***************************************************************************)
EXTENDS Naturals, Sequences

CONSTANTS
  Sessions,    \* sessions the visitor may be signed in with
  MaxEntries,  \* bound on the history
  SignedOut,   \* no session
  Stale        \* a cookie whose session is in the table no more

ASSUME NavAssumption ==
  /\ MaxEntries \in Nat \ {0}
  /\ SignedOut \notin Sessions /\ Stale \notin Sessions \cup {SignedOut}

VARIABLES
  cookie,   \* the browser's
  entries,  \* the history: path and document of each entry
  at,       \* the entry shown
  docs      \* the documents of the entries

tabVars == <<cookie, entries, at, docs>>

-----------------------------------------------------------------------------

\* The paths of homePaths, by the section that belongs to them.
Path == {"intro", "signin", "throwaway", "fingerprint"}
Section == Path \cup {"pinplace"}

\* The sections a section links to within the page (class sp-link).
LinksOf == [intro |-> {"signin"}, signin |-> {"intro", "throwaway", "fingerprint"},
            throwaway |-> {"signin"}, fingerprint |-> {"signin"}, pinplace |-> {}]

\* A document: the session it was rendered for, whether Nav.init has run, what is
\* visible, the entry it was last shown for, whether it has chosen its section
\* itself, and whether it has missed a popstate since.  "error" is the text of a
\* refused form.
Doc == [session : Sessions \cup {SignedOut}, scripted : BOOLEAN, shown : SUBSET Section,
        entry : 1..MaxEntries, moved : BOOLEAN, missed : BOOLEAN, error : BOOLEAN]

Ids == 1..MaxEntries

\* HomeHandler and the template: the intro only for visitors who are signed out.
Rendered(path, session) ==
  {s \in Path : s = path /\ (s = "intro" => session = SignedOut)}
    \cup (IF session # SignedOut THEN {"pinplace"} ELSE {})

Served(session, path, i) ==
  [session |-> session, scripted |-> FALSE, shown |-> Rendered(path, session),
   entry |-> i, moved |-> FALSE, missed |-> FALSE, error |-> FALSE]

\* Whom the server takes the visitor for; a stale cookie is cleared with the answer.
Visitor == IF cookie = Stale THEN SignedOut ELSE cookie

\* The answer to a form that was refused or that failed.
Refused(i) == [session |-> SignedOut, scripted |-> FALSE, shown |-> {},
               entry |-> i, moved |-> FALSE, missed |-> FALSE, error |-> TRUE]

Entry == entries[at]
Page == docs[Entry.doc]

\* Documents no entry refers to are gone.
Blank == Refused(1)
Pruned(es, ds) ==
  [d \in Ids |-> IF \E i \in DOMAIN es : es[i].doc = d THEN ds[d] ELSE Blank]

UnusedDoc(es) == CHOOSE d \in Ids : \A i \in DOMAIN es : es[i].doc # d

TabInit ==
  /\ cookie \in Sessions \cup {SignedOut}
  /\ \E path \in Path :
       /\ entries = <<[path |-> path, doc |-> 1]>>
       /\ docs = [d \in Ids |-> IF d = 1 THEN Served(cookie, path, 1) ELSE Blank]
  /\ at = 1

-----------------------------------------------------------------------------
(* The browser. *)

\* A new entry takes the place of those ahead.
Push(path, d, doc) ==
  LET es == Append(SubSeq(entries, 1, at), [path |-> path, doc |-> d]) IN
  /\ at < MaxEntries
  /\ entries' = es
  /\ at' = at + 1
  /\ docs' = Pruned(es, [docs EXCEPT ![d] = doc])

\* A new document: a path typed, a link followed before the scripts run.
LoadPath(path) ==
  /\ Push(path, UnusedDoc(SubSeq(entries, 1, at)), Served(Visitor, path, at + 1))
  /\ cookie' = Visitor

TypePath(path) == LoadPath(path)

Reload ==
  /\ ~Page.error
  /\ docs' = [docs EXCEPT ![Entry.doc] = Served(Visitor, Entry.path, at)]
  /\ cookie' = Visitor
  /\ UNCHANGED <<entries, at>>

-----------------------------------------------------------------------------
(* Nav. *)

\* With WebGL only; without it the links stay links.
NavInit ==
  /\ ~Page.scripted /\ ~Page.error
  /\ docs' = [docs EXCEPT ![Entry.doc].scripted = TRUE]
  /\ UNCHANGED <<cookie, entries, at>>

\* The empty path keeps its name, or stands for the pin place.
EmptyPath(doc, path) == {IF path = "intro" THEN "" ELSE path}
PinPlaceAtHome(doc, path) == {IF path = "intro" THEN "pinplace" ELSE path}

\* It forgets to hide the others.
ShownToo(doc, path) == doc.shown \cup {path}

\* Everything is hidden, and the section of the path is shown.
Visible(doc, path) == {path}

UpdateVisiblePage(doc, path, i) ==
  [doc EXCEPT !.shown = Visible(doc, path), !.entry = i, !.moved = TRUE,
              !.missed = FALSE]

\* A link followed within the page, or by the browser before Nav.init.
FollowLink(path) ==
  /\ \E s \in Page.shown : path \in LinksOf[s]
  /\ IF Page.scripted
     THEN /\ Push(path, Entry.doc, UpdateVisiblePage(Page, path, at + 1))
          /\ UNCHANGED cookie
     ELSE LoadPath(path)

\* The page listens to its links only.
NoListener(doc, path, i) == [doc EXCEPT !.entry = i]

\* A page that is loading again has no listener yet.
OnPopState(doc, path, i) ==
  IF doc.scripted THEN UpdateVisiblePage(doc, path, i)
  ELSE [doc EXCEPT !.entry = i, !.missed = TRUE]

\* Back or forward.  Within a document the browser fires popstate; another document
\* comes back as it was left, or is loaded again.
Traverse(i) ==
  LET to == entries[i]
      kept == docs[to.doc]
  IN
  /\ i # at
  /\ at' = i
  /\ \/ /\ docs' = [docs EXCEPT ![to.doc] =
                   IF kept.entry # i THEN OnPopState(kept, to.path, i) ELSE kept]
        /\ UNCHANGED cookie
     \/ /\ to.doc # Entry.doc /\ ~kept.error
        /\ docs' = [docs EXCEPT ![to.doc] = Served(Visitor, to.path, i)]
        /\ cookie' = Visitor
  /\ UNCHANGED entries

\* The token of the page against that of the session.
CsrfMatches(doc) == cookie \in Sessions /\ doc.session = cookie

\* Nav.signOut and Nav.deleteAccount: a form that is answered with a redirect and a
\* cleared cookie, and by the time the browser follows it another tab may have
\* signed in; or with an error, because nobody is signed in (401), the token is
\* another's (400) or the account cannot be deleted (500).
SubmitForm ==
  /\ Page.scripted /\ "pinplace" \in Page.shown
  /\ LET d == UnusedDoc(SubSeq(entries, 1, at)) IN
     \/ /\ CsrfMatches(Page)
        /\ cookie' \in {SignedOut} \cup (Sessions \ {cookie})
        /\ Push("intro", d, Served(cookie', "intro", at + 1))
     \/ /\ cookie' = Visitor
        /\ Push("intro", d, Refused(at + 1))

\* Another tab signs in, by a link from SSH, or out; or the session ends and leaves
\* its cookie: swept, or its account deleted from another browser.
SignInOrOut ==
  /\ \/ cookie' \in (Sessions \cup {SignedOut}) \ {cookie}
     \/ cookie \in Sessions /\ cookie' = Stale
  /\ UNCHANGED <<entries, at, docs>>

-----------------------------------------------------------------------------

TabNext ==
  \/ \E path \in Path : TypePath(path) \/ FollowLink(path)
  \/ Reload \/ NavInit \/ SubmitForm \/ SignInOrOut
  \/ \E i \in DOMAIN entries : Traverse(i)

TabSpec == TabInit /\ [][TabNext]_tabVars

-----------------------------------------------------------------------------
(* Properties. *)

\* The entries of a document follow each other, and it was last shown for one of
\* them.
TabTypeOK ==
  /\ cookie \in Sessions \cup {SignedOut, Stale}
  /\ entries \in Seq([path : Path, doc : Ids])
  /\ at \in DOMAIN entries /\ Len(entries) <= MaxEntries
  /\ docs \in [Ids -> Doc]
  /\ Page.entry = at
  /\ \A i, j, k \in DOMAIN entries :
       i < j /\ j < k /\ entries[i].doc = entries[k].doc => entries[j].doc = entries[i].doc
  /\ \A i \in DOMAIN entries : entries[docs[entries[i].doc].entry].doc = entries[i].doc

\* The page is what the server would render for its path and the session it was
\* loaded with, unless it is signed in and has chosen a section by itself: then the
\* pin place is hidden, and at "/" the intro asks a signed-in visitor to sign in; or
\* unless the visitor went back before the scripts of a reloaded page had run.
AsRendered ==
  ~Page.error /\ ~Page.missed /\ Page.shown # Rendered(Entry.path, Page.session)
    => Page.moved /\ Page.session # SignedOut

\* Nothing leads out of the intro but signing in; no way through the page ends with
\* nothing or with two sections to choose from, unless the server rendered them.
OneSection ==
  /\ ~Page.error => Page.shown # {}
  /\ \A s, t \in Page.shown : s # t => ~Page.moved

\* Only a page that was rendered signed in offers to sign out or to delete the
\* account: csrfToken() finds its element.
TokenAtHand ==
  \A i \in DOMAIN entries :
    "pinplace" \in docs[entries[i].doc].shown => docs[entries[i].doc].session # SignedOut

\* What can be seen, and done, fits the session the page was rendered for, by whatever
\* way through documents and history the visitor came.
ShownAsRendered == TabTypeOK /\ AsRendered /\ OneSection /\ TokenAtHand
=============================================================================
