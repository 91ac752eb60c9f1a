------------------------------ MODULE Startup ------------------------------
(***************************************************************************)
(* Processes that start on one database file, at once or one after the     *)
(* other, and may be killed at any point: look for the schema, check its   *)
(* version or create it, read the host key, take the ports.                *)
(*                                                                         *)
(* A query is one step.  The statements of loadSchema are one Exec on one  *)
(* connection; SQLite (external) keeps what they write with the connection *)
(* until commit, and lets one connection write at a time.  A killed        *)
(* process leaves the lock and what it had not committed behind for        *)
(* nobody: the journal undoes it.                                          *)
(***************************************************************************)
EXTENDS Naturals, Sequences, FiniteSets

CONSTANTS
  Procs,     \* processes that may be started
  MaxStarts, \* bound on how often one is
  None       \* no process, no version

ASSUME StartupAssumption ==
  /\ MaxStarts \in Nat
  /\ None \notin Procs \cup {1, 2}

VARIABLES
  disk,     \* the committed schema: its tables and the version they hold
  written,  \* the same as each process sees it inside its transaction
  writer,   \* the process that may write, or None
  procs,    \* what each process does next, and how often it was started
  sshPort,  \* the process that listens for SSH, or None
  webPort,  \* the same for HTTP
  starting, \* processes whose goroutine for the web server has yet to listen
  (* history *)
  found,    \* the schema before the first start
  hindered  \* whether a process was killed or refused what it needs

ports == <<sshPort, webPort, starting>>
history == <<found, hindered>>
vars == <<disk, written, writer, procs, ports, history>>

-----------------------------------------------------------------------------

Tables == {"schema_versions", "signin_requests", "sessions", "users"}
Schema == [tables : SUBSET Tables, version : {None, 1, 2}]

Nothing == [tables |-> {}, version |-> None]
Whole   == [tables |-> Tables, version |-> 1]
\* Written by another version of the program, and by other programs.
Newer   == [tables |-> {"schema_versions", "users"}, version |-> 2]
Foreign == [tables |-> {"users"}, version |-> None]
Unversioned == [tables |-> {"schema_versions"}, version |-> None]

Files == {Nothing, Whole, Newer, Foreign, Unversioned}

\* The Exec of loadSchema.
Statement == Tables \cup {"begin", "version", "commit"}
Script ==
  <<"begin", "schema_versions", "version", "signin_requests", "sessions", "users",
    "commit">>

Phase == {"off", "name", "version", "load", "key", "ssh", "web", "up", "failed"}
Proc == [pc : Phase, line : 0..Len(Script), starts : 0..MaxStarts]

Goto(p, phase) == procs' = [procs EXCEPT ![p].pc = phase]

Init ==
  /\ disk \in Files
  /\ written = [p \in Procs |-> Nothing]
  /\ writer = None
  /\ procs = [p \in Procs |-> [pc |-> "off", line |-> 0, starts |-> 0]]
  /\ sshPort = None /\ webPort = None /\ starting = {}
  /\ found = disk /\ hindered = FALSE

Start(p) ==
  /\ procs[p].pc \in {"off", "failed"}
  /\ procs[p].starts < MaxStarts
  /\ procs' = [procs EXCEPT ![p].pc = "name", ![p].starts = @ + 1]
  /\ UNCHANGED <<disk, written, writer, ports, history>>

\* os.Exit(1): the connection closes, and what it had not committed is undone.
Exit(p) ==
  /\ procs' = [procs EXCEPT ![p].pc = "failed", ![p].line = 0]
  /\ written' = [written EXCEPT ![p] = Nothing]
  /\ writer' = IF writer = p THEN None ELSE writer

-----------------------------------------------------------------------------
(* setupDB. *)

Line(p) == Script[procs[p].line]

\* A query ends with an error: another process is committing for too long, or the file
\* cannot be read or is no database.
QueryFails(p) ==
  /\ Exit(p)
  /\ \/ /\ \E q \in Procs \ {p} : writer = q /\ Line(q) = "commit"
        /\ UNCHANGED hindered
     \/ hindered' = TRUE

\* Whether there is a schema at all.
LookForSchema(p) ==
  /\ procs[p].pc = "name"
  /\ \/ /\ IF "schema_versions" \in disk.tables
           THEN Goto(p, "version")
           ELSE procs' = [procs EXCEPT ![p].pc = "load", ![p].line = 1]
        /\ UNCHANGED <<written, writer, hindered>>
     \/ QueryFails(p)
  /\ UNCHANGED <<disk, ports, found>>

\* Any version will do.
AnyVersion(version) == TRUE
VersionFits(version) == version = 1

RefuseVersion(p) == Exit(p)

\* The table may be empty.
CheckVersion(p) ==
  /\ procs[p].pc = "version"
  /\ \/ /\ IF disk.version # None /\ VersionFits(disk.version)
           THEN Goto(p, "key") /\ UNCHANGED <<written, writer>>
           ELSE RefuseVersion(p)
        /\ UNCHANGED hindered
     \/ QueryFails(p)
  /\ UNCHANGED <<disk, ports, found>>

-----------------------------------------------------------------------------
(* loadSchema. *)

NextLine(p) == procs' = [procs EXCEPT ![p].line = @ + 1]

Apply(schema, statement) ==
  IF statement = "version"
  THEN [schema EXCEPT !.version = 1]
  ELSE [schema EXCEPT !.tables = @ \cup {statement}]

\* The script without its begin: each statement commits itself.
Autocommit(statement) == TRUE
CommitsItself(statement) == FALSE

Begin(p) ==
  /\ procs[p].pc = "load" /\ Line(p) = "begin"
  /\ NextLine(p)
  /\ UNCHANGED <<disk, written, writer, ports, history>>

\* The error is ignored, and the transaction left open.
LoadIgnored(p) ==
  /\ procs' = [procs EXCEPT ![p].pc = "key", ![p].line = 0]
  /\ UNCHANGED <<written, writer>>

LoadFailed(p) == Exit(p)

\* The first write takes the lock, and with it sees what others committed since.
Before(p) == IF writer = p THEN written[p] ELSE disk

Write(p) ==
  /\ procs[p].pc = "load" /\ Line(p) \notin {"begin", "commit"}
  /\ writer \in {None, p}
  /\ LET after == Apply(Before(p), Line(p)) IN
     IF Line(p) \in Before(p).tables
     THEN LoadFailed(p) /\ UNCHANGED disk  \* table already exists
     ELSE /\ IF CommitsItself(Line(p))
             THEN disk' = after /\ UNCHANGED <<written, writer>>
             ELSE /\ written' = [written EXCEPT ![p] = after]
                  /\ writer' = p
                  /\ UNCHANGED disk
          /\ NextLine(p)
  /\ UNCHANGED <<ports, history>>

\* Another process has the lock for too long.
Busy(p) ==
  /\ procs[p].pc = "load" /\ Line(p) \notin {"begin", "commit"}
  /\ writer \notin {None, p}
  /\ LoadFailed(p)
  /\ UNCHANGED <<disk, ports, history>>

\* The script without its commit: Exec returns no error with the transaction open.
NotCommitted(p) == disk
Committed(p) == Before(p)

Commit(p) ==
  /\ procs[p].pc = "load" /\ Line(p) = "commit"
  /\ disk' = Committed(p)
  /\ written' = [written EXCEPT ![p] = Nothing]
  /\ writer' = IF writer = p THEN None ELSE writer
  /\ procs' = [procs EXCEPT ![p].pc = "key", ![p].line = 0]
  /\ UNCHANGED <<ports, history>>

-----------------------------------------------------------------------------
(* main. *)

\* The host key is read, or is missing or unfit.
ReadPrivateKey(p) ==
  /\ procs[p].pc = "key"
  /\ \/ Goto(p, "ssh") /\ UNCHANGED <<written, writer, hindered>>
     \/ Exit(p) /\ hindered' = TRUE
  /\ UNCHANGED <<disk, ports, found>>

\* The error is printed and forgotten, as that of the web server is.
CarryOn(p) == Goto(p, "web") /\ UNCHANGED <<written, writer>>

NoSSHPort(p) == Exit(p)

\* The SSH server runs before there is a web server for its links.
StartSSHServer(p) ==
  /\ procs[p].pc = "ssh"
  /\ IF sshPort = None
     THEN /\ sshPort' = p /\ Goto(p, "web")
          /\ UNCHANGED <<written, writer>>
     ELSE NoSSHPort(p) /\ UNCHANGED sshPort
  /\ UNCHANGED <<disk, webPort, starting, history>>

\* main does not wait for the web server.
StartWebServer(p) ==
  /\ procs[p].pc = "web"
  /\ starting' = starting \cup {p}
  /\ Goto(p, "up")
  /\ UNCHANGED <<disk, written, writer, sshPort, webPort, history>>

\* Its goroutine, whose error is only printed: the port or the certificate may be
\* missing, and the process goes on without a web server.
ListenAndServe(p) ==
  /\ p \in starting
  /\ starting' = starting \ {p}
  /\ \/ webPort = None /\ webPort' = p /\ UNCHANGED hindered
     \/ hindered' = TRUE /\ UNCHANGED webPort
  /\ UNCHANGED <<disk, written, writer, procs, sshPort, found>>

\* Killed, interrupted, or cut off from power.
Kill(p) ==
  /\ procs[p].pc \notin {"off", "failed"}
  /\ procs' = [procs EXCEPT ![p].pc = "off", ![p].line = 0]
  /\ written' = [written EXCEPT ![p] = Nothing]
  /\ writer' = IF writer = p THEN None ELSE writer
  /\ sshPort' = IF sshPort = p THEN None ELSE sshPort
  /\ webPort' = IF webPort = p THEN None ELSE webPort
  /\ starting' = starting \ {p}
  /\ hindered' = TRUE
  /\ UNCHANGED <<disk, found>>

-----------------------------------------------------------------------------

Step(p) ==
  \/ LookForSchema(p) \/ CheckVersion(p)
  \/ Begin(p) \/ Write(p) \/ Busy(p) \/ Commit(p)
  \/ ReadPrivateKey(p) \/ StartSSHServer(p) \/ StartWebServer(p)
  \/ ListenAndServe(p)

Next == \E p \in Procs : Start(p) \/ Step(p) \/ Kill(p)

Spec == Init /\ [][Next]_vars

\* SQLite's wait is bounded, so that no step of a process is waited for.
FairSpec == Spec /\ \A p \in Procs : WF_vars(Step(p))

-----------------------------------------------------------------------------
(* Properties. *)

\* Only the writer has something written and uncommitted, and only while it
\* loads the schema.
TypeOK ==
  /\ disk \in Schema /\ found \in Schema
  /\ written \in [Procs -> Schema]
  /\ writer \in Procs \cup {None}
  /\ procs \in [Procs -> Proc]
  /\ sshPort \in Procs \cup {None} /\ webPort \in Procs \cup {None}
  /\ starting \subseteq Procs
  /\ hindered \in BOOLEAN
  /\ \A p \in Procs : written[p] # Nothing => writer = p
  /\ writer # None => procs[writer].pc = "load" /\ procs[writer].line > 2

\* Whoever is killed, or loses the race to create it, the schema is what it was
\* or whole; a database of another version or another program is left alone.
SchemaWhole ==
  \/ disk = found
  \/ found = Nothing /\ disk = Whole

\* A process that gets as far as its host key works on a whole schema, version 1.
ServesOnlyOnSchema ==
  \A p \in Procs :
    procs[p].pc \in {"key", "ssh", "web", "up"} \/ p \in {sshPort, webPort} => disk = Whole

\* Links are printed by the process that serves them, and a process that runs has
\* both servers or is about to, unless it was refused its certificate or port.
PortsTogether ==
  /\ webPort # None => webPort = sshPort
  /\ \A p \in Procs : procs[p].pc = "up" /\ ~hindered =>
       p = sshPort /\ (p = webPort \/ p \in starting)

\* The schema is safe from every process, and every server from every other schema.
StartsSafely == TypeOK /\ SchemaWhole /\ ServesOnlyOnSchema /\ PortsTogether

\* Two processes that create the schema at once do not both fail: one that gave
\* up has met the schema, or somebody who is about to complete it.
RaceHasWinner ==
  found = Nothing /\ ~hindered /\ (\E p \in Procs : procs[p].pc = "failed")
    => disk = Whole \/ writer # None

\* From nothing, the schema comes about once somebody starts and nobody is killed.
SchemaComes ==
  found = Nothing /\ (\E p \in Procs : procs[p].pc # "off") ~> disk = Whole \/ hindered
=============================================================================
