# ssh-mars in TLA+

A specification of [ssh-mars](../src/README.md) beside its code. A visitor runs
`ssh` to the server, gets a link, opens it, and is signed in as the holder of
the key; signed-in visitors put a pin on a globe.

The code has no tests. What is hard about it is concurrent: every HTTP request
and every SSH connection is a goroutine, a handler is a row of separate SQL
statements, nothing (no lock, no transaction but one, no unique constraint)
holds between two of them, and the page changes a scene that a renderer draws
from what it remembers of it.

## The system

| Part | State | Operations | What makes it correct | Module |
|---|---|---|---|---|
| Sign-in requests (`cmd.go`, `signin_confirmation_handler.go`, `signin_handler.go`) | tables `signin_requests`, `users`, `sessions`; what each handler in progress has read | store a request and print its link; GET the confirmation page; POST it (select, delete, select user, insert user, insert session); sweep | a session speaks for the key its link was printed for; a dead link stays dead; links expire, and not early | `SigninFlow`, `KeyAccess` |
| Web sessions (`home_handler.go`, `update_pin_handler.go`, `signout_handler.go`, `delete_account_handler.go`) | tables `sessions`, `users`; cookies of the browsers; answers on their way | load a page, move the pin, sign out, delete the account, sweep | nobody acts as somebody else; a session removed stays removed; one in use is kept, one idle goes | `SessionFlow` |
| SSH server (`ssh.go`) | one goroutine per connection, the Go channels the ssh package fills | handshake with any key, accept or reject channels, answer the first shell request of each | the link is for the key that signed; one answer per channel; the goroutine ends | `SshServer` |
| Connection pool (`database/sql` and SQLite, external, under `delete_account_handler.go`, `pins_handler.go`, `update_pin_handler.go`) | pooled connections, their locks and open transactions | the four statements of `/delete-account` in one `Exec`, the open rows of `/pins.csv`, the update of `/pin` | an account goes whole; what was answered is so; nobody waits in a circle | `ConnPool`, `AccountRows` |
| Start-up and schema (`cmd.go`, `db.go`, `web.go`) | schema version, ports | look for the schema, create or check it, read the host key, listen twice | the schema is whole or untouched; of processes that race one wins | `Startup` |
| Pin and globe in the browser (`index.coffee`, `globe.coffee` and their compiled `.js`), `/pins.csv` | pending resources, event modes, pins on the globe, posts under way | load and populate the globe; drag the pin out of the well, over the globe, drop it | the modes of Pin and Globe agree; one pin; the page shows the pin the server has | `PinDrag` |
| Coordinates (`update_pin_handler.go`, `pins_handler.go`, `index.js`, `globe.js`) | columns `lat` and `lon`, what a page lists | post, store, list, parse | a pin is drawn where it was put, or not at all | `PinValues` |
| Navigation (`index.coffee`, `index.html`, `home_handler.go`) | visible sections, history, session of the page | follow a link, go back, reload, send a form | the sections shown are those the server would render for the path and the page's session | `Nav` |
| Scene (`globe.js` over three.js) | tree of objects, geometries, the renderer's list, buffers and bounding spheres | make, place, hover, drag and remove pins; draw a frame | a frame shows the pins where the page put them; nothing removed is kept | `PinScene` |
| Renderer's cache (three.js) | what the renderer remembers of the WebGL context, and the context | draw lines, the globe, the sprites of a frame | each draw call is made with the state and data its object needs | `RenderState` |
| Static pages, styles, `how_handler.go`, log | none | | | not modelled |

The parts meet in the database: the SSH side inserts a request row, the POST of
the link turns it into a user and a session row, the other handlers read and
remove sessions and users, the sweeper removes old rows of both kinds. The
browser gets its pins from `/pins.csv` once, when the page loads, and posts to
`/pin` whenever its own is dropped; nothing tells it what became of a post.

`PROJECT.json` lists every part, every hazard with its line, and which
definition stands for which lines.

## How the modules correspond to the code

The modules of the server share these conventions.

- *A statement is a step.* SQLite runs one statement atomically. A handler is a
  record with a program counter that names the statement it runs next; the Go
  code between two statements touches only the handler's own variables, so it
  belongs to the step before it or after it. `ConnPool` looks below this: there a
  statement takes a connection, waits for its locks and may be refused.
- *Tokens.* A row's secret and its CSRF token are drawn together from enough
  random bits never to repeat; one token of a finite set stands for both, and is
  drawn at most once. The short ids (`signin_id`, 4 characters; `session_id`)
  are drawn with repetition, because the code relies on nothing else and no
  column is unique.
- *Time.* `time.Now()` and the statement that stores it are two instants: a
  stored time is any value up to `Lag` behind the clock (`Stamps`). The
  sweeper's tick waits in the same way. TTLs are small numbers; the comparisons
  are the code's (`<`, not `<=`).
- *Failures.* Any statement of a handler may fail (`FailPost`, `Fail`,
  `FailSilently`, `Busy`); what ran before stays. `Restart` drops all handlers in
  progress and keeps the tables.
- *History.* `links`, `grants`, `raced`, `straddled`, `granted`, `lastUse`,
  `proven`, `issued`, `answers`, `deleted`, `pinned`, `inside`, `found`,
  `hindered`, `seen`, `causes`, `leapt`, `page.rows` and the numbers of posts
  record what happened. The actions read them only to draw a fresh token, to know
  which links visitors hold, to tell whose transaction an update ran in, or to
  bound the run.

### SigninFlow

`StoreSigninRequest` is `storeSigninRequest`; `ConfirmSignin` is the GET;
`BeginPost`, `DeleteRequest`, `FindUser`/`MissUser`, `CreateUser` and
`CreateSession` are the statements of the POST in their order. `BeginPost` picks
*any* row with the id, as `QueryRow` does, and then compares both tokens. `Kept`
removes *every* row with the id. `users.user_id` is `autoincrement`, so
`lastUserId` survives deletions. `DeleteAccount` and `EndSession` are what the
handlers of `SessionFlow` and the sweeper's second statement do to these tables.

Visitors use links that were printed and CSRF tokens of pages that were served;
guessing tokens is left out. The page that the GET serves says "You are now
signed in." before its form has been posted; whoever leaves it there is not.

### KeyAccess

The promise behind `SigninFlow`, without tables: a token, once drawn, opens at
most the account of one key, a key for which a link was handed out; it may lose
that access and never gains another. `SigninFlow!Opens` joins `sessions` and
`users`, which is how every handler goes from a cookie to an account.

### SessionFlow

A request takes the cookie its browser has when it is sent. `SessionFound` and
`SessionRefused` are `sessionFromRequest` with the CSRF check of the three POST
handlers; `ReadPubkey`, `KeepAlive`, `UpdatePin`, `Signout` and `DeleteAccount`
are the statements; `Reply` delivers the answer and its `Set-Cookie`, in any
order, and `LoseReply` loses it. `SignIn` is the environment: it inserts a
session for a new user, a known one, or one that has just been deleted, which
are the three outcomes `SigninFlow` has. The columns `lat` and `lon` of `users`
are the variable `pins`.

### ConnPool and AccountRows

`AccountRows` is what `SessionFlow` takes for granted of the database: an
account goes with its sessions and its pin in one step, a pin is set in one
step. `ConnPool` is what there is. A call of `Exec` or `Query` takes an idle
connection or opens one (`Take`) and gives it back or closes it (`Return`);
`Query`, `Await` and `CloseRows` are `/pins.csv`, whose rows stay open under a
shared lock while the client reads (`ListedAtOnce` says what that lock is for);
`Update` and `Flush` are `/pin`, writing and committing; `Begin`, `DeleteUser`,
`DeleteSessions` and `Commit` are the four statements of `/delete-account`. The
locks are SQLite's with a rollback journal: a writer commits when nobody else
has a lock, and while it waits (`pending`) nobody begins to read. Who waits too
long is refused (`Busy`): a single statement is rolled back, an explicit
transaction stays open, because the `rollback` nobody sends is the
application's. Its connection then goes back to the pool inside the transaction.

The next call that takes such a connection meets it. `begin` fails there and the
call returns its error; a pin that is set there is written inside the open
transaction, answered 200, and lost when the connection is closed or the process
ends (`inside` records it, and `LostOnlyIfInside` says that nothing else loses a
pin). A `/pins.csv` that is read there keeps its shared lock when its rows are
closed, because inside a transaction SQLite gives no lock back before commit or
rollback (`AfterRows`); while that connection lies in the pool nobody else can
commit. `/delete-account` itself never lies: its answer and the disk agree.

### Startup

`LookForSchema`, `CheckVersion` and the lines of `Script` are `setupDB` and
`loadSchema`; then the host key and the two listeners. Each query may end with an
error (`QueryFails`): the database is being committed to, or the file is none.
`StartWebServer` only starts a goroutine; `ListenAndServe` is that goroutine, which
takes the port, or prints its error and leaves the process without a web server.
Processes may be killed at any point and find a file that is empty, whole, of a
newer version, with an empty `schema_versions`, or another program's. A process
that loses the race of two first starts gives up although the schema is right by
then; `RaceHasWinner` says that this cannot happen to all of them.

### SshServer

`Goroutine` is `handleTCPConnection` after the handshake, one action per branch.
`Offer` is a call of `acceptAnyKey`; `Authenticate` ends the handshake with the
permissions of the key that signed. `Mux` is external: the ssh package's
goroutine, which puts new channels and requests into Go channels with room for
`Backlog` items (16 in the package) and reads nothing more while one is full.
`ReadShell` calls `hd`, `Answer` prints what came of it, which waits until the
client's window has room (`OpenChannel` with `room` or `AdjustWindow`);
`AnswerFails` is the same line when the client has closed the channel or gone.

### PinDrag

One visitor, signed in, with one page at a time (`Reload` opens the next). Each
handler of `Pin` and `Globe` is an operator of its name on the record `ui` and
calls the others in the code's order: `DragStart`, `DragMove`, `GlobeEnter`,
`GlobeMove`, `GlobeLeave`, `DragReset`, `GlobeUp`, `GlobePress`, `GlobeRelease`.
`ui.mode` and `ui.globe` are the two event modes, which say what is bound.

An event is one action, because JavaScript runs all its listeners before
anything else, and it meets every listener on its way from its target to the
document, those that were bound on the way included. That is why `Pull` applies
`DocumentMove` after `DragStart`: the document's `mousemove` has just been
bound, by `wellPull` for the very event that bubbles up, by `mouseleave` for the
`mousemove` that browsers dispatch with it. `Move`, `Press`, `Release`,
`DropInVoid` and `DropOnGlobe` are the other events by what is bound when they
come. Buttons are not told apart, as in the code.

`Arrive` is the load barrier: the last resource to arrive starts the page
(`PopulatePins`). The textures count as one resource. `ServePins` and
`ServeError` are the answers of `/pins.csv`, reduced to the visitor's own lines;
`twin` is the pin of a second account of the same key, which `SigninFlow` shows
to be possible. `ServeCached` answers with the list of an earlier page instead:
the header is `Cache-Control: public` and names no lifetime, so that a cache may
choose one. `ServePost` and `LosePost` serve a post of the page, or lose or
refuse it, in any order. Only whether a mouse position has a place on the globe
under it, and which, is modelled of the geometry; `Render` changes it under a
mouse that rests.

### PinValues

The stations of a coordinate: a form value (`Field`), a Go float
(`BothParse`), a column (`ToColumn`), a line of `pins.csv` (`Scanned`), a number
of the page (`ParseFloat`). Each has values the next takes for something else:
Go's `ParseFloat` accepts NaN and infinities, SQLite binds NaN as null, `Scan`
stops at a null and leaves zeros, `%.6f` rounds a number to six decimals (the
constant `Rounded`), and the page's `parseFloat` reads `+Inf` as NaN.
Nothing of this shows a pin at 0, 0 only because the query asks for both columns
to be not null. Who posts an infinity is left with neither pin nor pin place.

### Nav

One tab with its history. `Rendered` is `HomeHandler` with the template;
`UpdateVisiblePage` is the page's own choice of a section, from the path alone;
`NavInit`, `FollowLink` and `OnPopState` call it. `Traverse` goes anywhere in the
history, within a document or to another one that the browser has kept
(external). `popstate` reaches Nav only once the document's scripts have run; a
reloaded page that is left for another of its entries before that misses it
(`missed`) and keeps the section it was loaded with, until the next step within
it. `SubmitForm` is sign-out or deletion, with the token of the page and the
cookie of the moment, and the page that comes of it: the redirect's, for whoever
is signed in by the time it is followed, or the text of a 401 (nobody is signed
in), 400 (a page from the history, with another session's token) or 500. A session
that is swept, or whose account is deleted from another browser, leaves its cookie
behind (`Stale`); the next answer clears it, that to a refused form included.
Sessions come and go in other tabs (`SignInOrOut`), in any order, one that has
ended among them; the properties are about the page and its session and need no
more. Error pages of other requests are left out. A signed-in visitor at `/signin`
who follows Back gets the intro without the pin place until the page is loaded
again. `AsRendered` names this case and the missed `popstate`; there are no
others.

`Nav`, `PinScene` and `PinValues` have names of their own for `Spec`, `Init` and
`Next` (`TabSpec`, `SceneSpec`, `ValuesSpec`), so that one module of proofs can
extend all three.

### PinScene

A pin is an object with a line and a sprite. `NewPin` is `makePin`, `Positioned`
is `positionPin`, `Remove` takes a pin from its parent, with the event three.js
dispatches and the listener it has (`Forgotten`). That listener removes itself
under the name `remove`, which it was not added with; this does no harm, because
the same function is never added twice. `Render` is a frame: world matrices,
initialisation of new lines, bounding spheres, culling (lines only; sprites are
never culled), upload of vertices. `PinDrag` has the order of the mouse's events;
here any order is taken that the handlers' own checks allow.

### RenderState

`cache` is what the renderer remembers, `gl` is the context. `SetProgram`,
`SetBlending`, `SetMaterialFaces`, `BindBuffers`, `EnableAttributes` and
`DisableUnusedAttributes` are the renderer's setters, each of which skips what it
believes to be set; `BeginSprites`, `DrawSprite` and `EndSprites` are the plugin
that draws the heads of the pins and sets part of the context directly. It
returns at once when the scene has no sprites, before it would tell the renderer
to forget; so what is forgotten at the start of a frame matters. The driver
gives attributes any locations (`at`).

## Runs

Bounds are in the `.cfg` files. "Reach" is the number of distinct states.

| Run | Instance | Reach | What it shows |
|---|---|---|---|
| `signin` | 2 keys and one oversize key, 1 id, 2 links, 2 sessions, 2 handlers, clock 0..2, TTL 1, Lag 1 | 233,137 | who gets which session; `SigninFlow` implements `KeyAccess`; request rows are swept |
| `session_isolation` | 2 browsers, 2 requests at once, 2 sessions with one id, 2 users, a clock that stands still | 264,381 | nobody acts as somebody else, nothing removed comes back |
| `session_liveness` | 1 browser, 2 requests at once, 1 session, TTL 2, Lag 1, clock 0..4 | 61,360 | sessions in use are kept; dead cookies and idle sessions go |
| `ssh` | 1 connection, 2 channels with or without a window, 2 requests each, 3 keys, Backlog 1 | 174,945 | the key of a link, the answers of a channel; shell requests are answered, the goroutine ends |
| `ssh_close` | as above, 1 key | | violated: see Findings |
| `pin` | 2 places, 2 posts, 3 loads, 1 stray drag pin | 3.2 million | modes, pins, and what sets page and server apart; the page starts |
| `pool` | 2 users, 2 calls, 2 connections, 1 kept idle | 218,603 | accounts go whole through refused commits; a list is of one instant; `ConnPool` implements `AccountRows`; calls end |
| `startup` | 3 processes, 2 starts each, 5 files | 37,429 | the schema is safe, and comes about |
| `nav` | 2 sessions and a stale cookie, 3 history entries | 3.1 million | what is visible, by whatever way the visitor came |
| `pin_scene` | 3 pins, 2 places | 59,679 | what is drawn, hit and remembered |
| `render_state` | 2 pins, all locations of attributes | 621 | the state of every draw call |
| `pin_values` | 2 users, 3 numbers, one of which is rounded | 586,250 | what becomes of every value |

Why these bounds are enough for the interesting cases. Two handlers suffice for
every race between select and insert, or select and delete; a third could only
repeat what one of the two did. Two links with one id give the collision.
`MaxTime = TTL + 1` is the first instant at which a row stored at 0 expires; in
`session_liveness` one more leaves time for the refresh that is stored late. A
backlog of one with two requests fills the Go channel. Two posts overtake each
other; with two reloads one is still on its way when the next page is served, or
the one after it. `MaxScene` bounds the drag pins that earlier drags left behind.
With two connections of which one is kept, a connection left inside a transaction
is idle, taken by the next call, or closed because the other is kept already, and
each of these meets a reader or a writer on the other connection. Three
processes: one that holds the lock, one that is refused, one that comes later.
Three history entries have a document on both sides of another. Of three pins
one is somebody else's, one the visitor's on the globe, one under the mouse. With
two pins a line follows a line, and a sprite a sprite; the proof covers more.

### Properties

`SigninFlow`:

- `SessionKeyBinding`: a session speaks for the key its link was made for, even
  when the account is deleted between the handler's lookup and its insert. It
  rests on `autoincrement`; with reused ids it fails.
- `ConfirmedBeforeGrant`: a session comes only from the link's own page.
- `DuplicateOnlyIfRaced`: a key gets two accounts only in the race of two first
  sign-ins.
- `OrphanOnlyIfStraddled`: a session without a user comes only from a handler
  that held the id while the account was deleted.
- `DeadLinkStaysDead`, `NoEarlyExpiry` (action properties), `LinksExpire`
  (liveness), `ImplementsKeyAccess` (refinement).

`SessionFlow`: `CookieStaysHome`, `TouchedByOwner`, `NoResurrection`,
`ActiveSessionKept`, `StaleCookieDropped`, `IdleSessionsExpire`.
`ActiveSessionKept` is stated with `Lag` taken off the TTL: a slow request may
store an older time over a newer one.

`SshServer`: `LinkKeyProven`, `OneAnswerPerChannel`, `ShellAnswered`,
`HandlerReturns`. `ShellAnswered` is about clients that leave room for the answer
and stay to read it. `HandlerReturns` is about clients that send no more than the package
has room for (`WithinBacklog`): beyond that its goroutine waits for room that
nobody makes and does not see the connection end.

`ConnPool`:

- `IInv`: its parts `AnsweredAsDone` (no error was returned exactly when the
  account is gone for good), `DeletedWhole` (account and sessions go together)
  and `LostOnlyIfInside` (a pin that was set is lost only with a transaction that
  somebody else had left open), with the discipline of calls and connections they
  rest on.
- `ListedAtOnce` (action property): however slowly a client reads `/pins.csv` and
  whoever writes meanwhile, it gets the rows of one instant, and those that are
  committed unless its connection was left inside somebody else's transaction.
- `CallsEnd` (liveness): no two calls wait for each other.

`Startup`:

- `StartsSafely`: `SchemaWhole`, `ServesOnlyOnSchema`, `PortsTogether`.
- `RaceHasWinner`: of two processes that create the schema at once not both fail.
- `SchemaComes` (liveness): from nothing, the schema comes about.

`PinDrag`:

- `ModesAgree`: between events, Pin is in `dragGlobe` exactly when Globe is in
  `hoveringWithPin`. Within `dragStart` this is false, and only the event's way
  up to the document mends it; were it to stay false the globe could not be
  turned any more.
- `StrayOnlyIfLeapt`: a drag pin is left in the scene only after a drag that
  began over the globe, where `globeEnter` runs twice. The disjunct is needed:
  such pins stay until the page is left.
- `OneOwnPin`: one pin of the visitor at most, unless the key has two accounts.
- `DivergesOnlyIf`: an idle page with nothing on its way shows the server's pin,
  unless a post was overtaken, lost, refused or sent by an earlier page, the pin
  was dropped where the ray misses, an error was read as `pins.csv`, the list
  came from a cache, or the key has two accounts. Each cause in the list does
  occur and is one the code does nothing about.
- `PageStarts` (liveness): no order of arrival keeps the page from starting.

`PinValues`: `PinsAsPosted`, with `NoPhantomPin` (a pin that is drawn is where its
user has put it, to six decimals) and `PlaceOrPin`.

`Nav`: `ShownAsRendered`, with `AsRendered`, `OneSection` and `TokenAtHand`. That
a form acts on no session but its page's is one comparison in the handlers
(`CsrfMatches`), which no interleaving reaches around, and is not stated again as
a property.

`PinScene`: `DrawnAsPlaced`; `SpheresKept`, with `OnlyDraggedMisjudged` and
`PickedWhereDrawn`; `SceneAgrees`, with `NoGhosts`, `OnlyMineMarked` and
`NoCaptionWhileDragging`.

`RenderState`: `DrawsAsNeeded`, with `StateAsNeeded`, `ReadsOwnBuffers` and
`SeesThisFrame`; `RemembersTruly`.

Every property of a passing run has a mutant: a definition of the model changed
as a bug in that code would change it (`UncheckedCsrf`, `ReusedUserId`, ...),
under which TLC must find the property violated.

Deadlock checking is on in all runs but those of `SshServer`, where a connection
that is over takes no further step, and `Startup`, where every process may have
failed or been killed for the last time.

### Fairness

- `SigninFlow!FairSpec`: the clock advances and the sweeper's statement is run
  again and again. Its goroutine waits for nothing but the ticker, and a failed
  sweep is one that does not happen; the assumption is that not all fail.
- `SessionFlow!FairSpec`: the same; and for `StaleCookieDropped` that the browser
  keeps loading pages, that not every answer is lost and not every handler cut
  short by a restart (strong fairness: a lost answer disables its delivery).
- `SshServer!FairSpec`: goroutines are scheduled, and a write to the TCP connection
  itself does not wait. Nothing is assumed of clients, not that they leave room
  for what is printed.
- `ConnPool!FairSpec`: goroutines are scheduled, SQLite's wait for a lock ends
  after the driver's five seconds, and a client that reads `pins.csv` finishes or
  goes away. Nothing is assumed about who gets a lock.
- `Startup!FairSpec`: a process that runs goes on. Nothing is assumed about being
  started or killed.
- `PinDrag!FairSpec`: `/pins.csv` is answered, by the server or a cache, and
  every resource arrives. The code has no listener for one that fails, and the
  spinner then stays; `PageStarts` is about the barrier, not about the network.

### Findings

`ssh_close`: the README (lines 14-15) says that the server closes the connection after
printing the link. The code closes the channel; the connection, and its
goroutine, last until the client leaves.

## Proofs

Every theorem is proved for all values of the constants that satisfy the
assumption of its module (`SigninAssumption`, `SessionAssumption`, ...): any
number of keys, links, handlers, connections, processes or users. In each module
the invariants worth having are not inductive alone; `IInv` is the strengthening,
with one lemma per action and one step per conjunct it can disturb, and the
theorems follow from `Init => IInv` and `IInv /\ [Next]_vars => IInv'`.

| Module | Theorem | Statement |
|---|---|---|
| `SigninFlowProofs` | `Invariance` | `Spec => []IInv` |
| | `TypeCorrect` | `Spec => []TypeOK` |
| | `SessionsBound` | `Spec => []SessionKeyBinding` |
| | `FormOnly` | `Spec => []ConfirmedBeforeGrant` |
| | `DeadLinks` | `Spec => DeadLinkStaysDead` |
| | `NotSweptEarly` | `Spec => NoEarlyExpiry` |
| | `Duplicates` | `Spec => []DuplicateOnlyIfRaced` |
| | `Orphans` | `Spec => []OrphanOnlyIfStraddled` |
| | `Refinement` | `Spec => ImplementsKeyAccess` |
| `SessionFlowProofs` | `SessionInvariance` | `Spec => []IInv` |
| | `SessionTypeCorrect` | `Spec => []TypeOK` |
| | `CookiesStayHome` | `Spec => []CookieStaysHome` |
| | `OwnersOnly` | `Spec => TouchedByOwner` |
| | `GoneForGood` | `Spec => NoResurrection` |
| | `KeptWhileActive` | `Spec => ActiveSessionKept` |
| `SshServerProofs` | `SshInvariance` | `Spec => []IInv` |
| | `SshTypeCorrect` | `Spec => []TypeOK` |
| | `LinksProven` | `Spec => []LinkKeyProven` |
| | `AnsweredOnce` | `Spec => []OneAnswerPerChannel` |
| `ConnPoolProofs` | `PoolInvariance` | `Spec => []IInv` |
| | `ListedWhole` | `Spec => ListedAtOnce` |
| | `PoolRefinement` | `Spec => ImplementsAccountRows` |
| `StartupProofs` | `SafeStart` | `Spec => []StartsSafely` |
| | `SomebodyWins` | `Spec => []RaceHasWinner` |
| `PinDragProofs` | `PinInvariance` | `Spec => []IInv` |
| | `PinTypeCorrect` | `Spec => []TypeOK` |
| | `PinModes` | `Spec => []ModesAgree` |
| | `PinNoStray` | `Spec => []StrayOnlyIfLeapt` |
| | `PinOnlyOne` | `Spec => []OneOwnPin` |
| | `PinDiverges` | `Spec => []DivergesOnlyIf` |
| `PageProofs` | `DrawnWherePlaced` | `SceneSpec => []DrawnAsPlaced` |
| | `SpheresOfTheGlobe` | `SceneSpec => []SpheresKept` |
| | `SceneStaysInStep` | `SceneSpec => []SceneAgrees` |
| | `ShownFitsSession` | `TabSpec => []ShownAsRendered` |
| | `ValuesAsPosted` | `ValuesSpec => []PinsAsPosted` |
| `RenderStateProofs` | `EveryDrawCall` | `Spec => []DrawsAsNeeded` |
| | `MemoryTrue` | `Spec => []RemembersTruly` |

*SigninFlow.* `SessionKeyBinding` says nothing of the handler that is about to
insert a session for an id it read earlier. `IInv` adds what carries it there.
`Unique`: links, grants, sessions and users are determined by their tokens or
ids. `Linked`: each request row and each handler is that of a printed link, and
handlers run only for served pages. `Bound`: a user id in a handler, and one a
session was made for, was assigned, and if the user with this id exists it has
the link's key (`MayOnlyBe`). Deleting the user makes this vacuous and
`NextUserId` never makes it false, because ids in use are at most `lastUserId`.
Actions that only end handlers and remove rows share `RemovalIInv`.
`Duplicates` and `Orphans` add `RaceInv` and `StraddleInv`, which carry the fact
from the statement that races to the insert. `Refinement` maps
`StoreSigninRequest` to `Prove`, `CreateSession` to `Grant` or (when the user is
gone) `GrantNothing`, removals to `Revoke`, and all else to a stutter.

*SessionFlow.* `Linked`: secrets are granted once, every row is that of a grant
and has its user, and cookies, pages and requests in progress hold sessions of
their own browser's sign-ins (`ReqFits`). The session id, by which the handlers
refresh and delete, plays no part in it: ids may repeat at will. `Timed` says
that a row is at most `Lag` behind the last request that refreshed it, which
`KeptWhileActive` needs when the sweeper runs. `NoResurrection` rests on every
row of the next state being an old one unless a session is granted (`RowsStep`).

*SshServer.* `Fits` says what belongs together in one connection: the key the
goroutine works with is the one that signed, exactly the channel it reads is
open, the packet under way and the channels in the queue are in the state they
must be in. A step of one connection leaves the others alone (`Apart`), so the
proof is about one connection at a time. `LinksLate`: no link before the
handshake has ended.

*ConnPool.* `IInv` is split in `Frame` (calls, connections, locks) and `Record`
(what was answered); most steps leave `Record` alone (`RecordKept`). A call acts
on its own connection only; what it needs of the others is that one writes at a
time and that the disk changes when nobody else has a lock. `OneCall` states
this once for all actions. With it `commit` finds in its connection what is on
disk less the account (`CallFits`), which is `AccountRows!DeleteAccount`; the
flush of a pin is `AccountRows!SetPin`, and all else a stutter. `ListedWhole`: no
step of another call touches the lock or the rows of the connection a client reads
from, and the disk changes only when no other connection has a lock (`StepApart`,
`StreamKept`).

*Startup.* A process that has written holds the lock, and has built on what was
found just what the lines before have made (`Loading`, `Built`); so what it
commits is whole. `Settled` gives each phase its reason, `Ported` says who has
which port.

*PinDrag.* `TypeOK` wants to know that a counter is not zero when a pin is taken
away, which is `Counts`, and `OneOwnPin` that no pin is on the globe while one is
dragged. `IInv` is the conjunction of these and of `ModesAgree` and
`StrayOnlyIfLeapt`. The lemmas first say what each handler does to the record
`ui` and then, action by action, that `IInv` is kept. `DivergesOnlyIf` speaks of
quiet states only and needs `TrackInv` for the others. `Numbered`: posts have
distinct numbers up to `lastVer`, none of them the row's. `Tracked`: while
nothing but a drop beside the globe has set page and row apart, the newest post
is on its way or is the row, or, if the page has posted nothing, `pins.csv`
listed the row. `Shown`: the page shows that newest pin. When no post is on its
way the newest is the row. A drop beside the globe is mended by the next post,
which is why `Post` takes it off `causes`.

*PinScene.* `SceneInv` says what each pin in the scene is made of (`Fits`): a
geometry and a material of its own, vertices at its position, on the globe a
world matrix and a bounding sphere for that position if they were computed at
all, a buffer that is up to date unless flagged. `DrawnAsPlaced` is not inductive
without it, because a line out of view keeps its flag and its old buffer for any
number of frames. `Registered` (what the renderer lists is in the scene and has
the listener) is what makes a removal complete. `Roles` keeps the pin under the
mouse off the globe, where its bounding sphere may lag.

*Nav.* `DocFits` says of a document what `AsRendered` says of the visible one,
for the entry it was last shown for; so it survives while other documents are
shown. What joins documents and history is `Contiguous` (the entries of a
document have none of another between them) and `LastShown` (the entry it was
last shown for is still there and its own). A new entry gives up those ahead of
it; by `Contiguous` a document that loses its last-shown entry in this way is the
visible one or has no entry left. That `UnusedDoc` finds a number for a new
document at all is the pigeonhole principle: the entries that stay are fewer
than `MaxEntries`.

*PinValues.* `Faithful`: a listed row had both columns, and the page has it as
parsed.

*RenderState.* `Trusted` is what each remembered value vouches for in the
context, `Bound` the same of the remembered geometry and its buffers. In the
opaque pass a known camera is this frame's (`Filmed`), and until the globe is
drawn nothing of its material is remembered (`MeshFresh`), so that its lights and
texture are set. One lemma per setter says what the setter keeps of this;
`DrawTrusted` composes them.

Every invariant and every action property that a run checks is stated by one of
these theorems, and both refinements are. Only model-checked is liveness
(`LinksExpire`, `StaleCookieDropped`, `IdleSessionsExpire`, `ShellAnswered`,
`HandlerReturns`, `PageStarts`, `CallsEnd`, `SchemaComes`): the prover does not
reason about `ENABLED` and fairness. No module declares a RECURSIVE operator.

## Not modelled

- *The rest of three.js.* Release 69 is vendored with its extras, 35,300 of the
  repository's 36,000 lines of JavaScript. It is a library, most of which the
  page never calls. Modelled is that on which the page's own correctness rests
  and that keeps state from one frame to the next: `PinScene` and `RenderState`.
- *Real arithmetic.* Camera, rotation, projection, intersection of ray and sphere,
  and shaders. `PinDrag` and `PinScene` take any outcome of them.
- *Widths of tokens.* Random tokens are drawn, encoded and sliced by lengths that
  are constants; the modules take one token of a set.
- *Static content and output.* `how_handler.go`, templates apart from the sections
  in `Nav`, styles, cursors and hover classes, flags, the log, the Makefile.

## Plan

1. `Mars`: `SigninFlow`, `SessionFlow` and `SshServer` over the same tables, with
   refinements to each, in place of the environment actions `SignIn`,
   `DeleteAccount` and `EndSession`.
2. `TokenEncoding`: token lengths, the slices of the handlers, the fingerprint's
   two halves; a theorem in arithmetic.
