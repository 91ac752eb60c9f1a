---------------------------- MODULE StartupProofs ----------------------------
(***************************************************************************)
(* The safety of start-up, for any number of processes and of starts.      *)
(***************************************************************************)
EXTENDS Startup, TLAPS

\* What a transaction that is about to run this line of the script has built.
Built(line) ==
  [tables  |-> found.tables \cup ({Script[i] : i \in 2..(line - 1)} \cap Tables),
   version |-> IF line > 3 THEN 1 ELSE found.version]

\* The database is what was found or whole, and no phase is reached without reason.
Settled ==
  /\ found \in Files
  /\ SchemaWhole
  /\ \A p \in Procs :
       /\ procs[p].pc = "version" => "schema_versions" \in disk.tables
       /\ procs[p].pc \in {"key", "ssh", "web", "up"} => disk = Whole

\* A process that has written holds the lock, and what it has built so far stands on
\* what was found.
Loading ==
  \A p \in Procs : procs[p].pc = "load" =>
    /\ procs[p].line \in 1..7
    /\ procs[p].line > 2 =>
         /\ writer = p /\ written[p] = Built(procs[p].line)
         /\ disk = found /\ "schema_versions" \notin found.tables
         /\ procs[p].line = 7 => "users" \notin found.tables

\* Who has the ports, and who must.
Ported ==
  /\ \A p \in Procs : procs[p].pc \in {"web", "up"} <=> sshPort = p
  /\ webPort # None =>
       webPort = sshPort /\ procs[webPort].pc = "up" /\ webPort \notin starting
  /\ \A p \in starting : procs[p].pc = "up"
  /\ \A p \in Procs : procs[p].pc = "up" /\ ~hindered => webPort = p \/ p \in starting

IInv == TypeOK /\ Settled /\ Loading /\ Ported /\ RaceHasWinner

-----------------------------------------------------------------------------

\* The lines of the script.
LEMMA ScriptLines ==
  /\ Len(Script) = 7
  /\ Script[1] = "begin" /\ Script[2] = "schema_versions" /\ Script[3] = "version"
  /\ Script[4] = "signin_requests" /\ Script[5] = "sessions" /\ Script[6] = "users"
  /\ Script[7] = "commit"
BY DEF Script

\* The script without begin and commit.
LEMMA WriteLines ==
  ASSUME NEW line \in 1..7, Script[line] \notin {"begin", "commit"}
  PROVE  /\ line \in 2..6
         /\ line = 2 => Script[line] = "schema_versions"
         /\ line = 3 => Script[line] = "version"
         /\ line = 6 => Script[line] = "users"
         /\ line # 3 => Script[line] \in Tables
         /\ Script[line] = "users" => line = 6
         /\ Script[line] = "version" => line = 3
BY ScriptLines DEF Tables

\* A line changes one field.
LEMMA ApplyFields ==
  ASSUME NEW schema \in Schema, NEW statement
  PROVE  /\ statement = "version" =>
              Apply(schema, statement) = [tables |-> schema.tables, version |-> 1]
         /\ statement # "version" =>
              Apply(schema, statement) = [tables  |-> schema.tables \cup {statement},
                                          version |-> schema.version]
BY DEF Apply, Schema

\* Each line adds its own to what the transaction has built.
LEMMA BuiltNext ==
  ASSUME NEW line \in 2..6, found \in Schema
  PROVE  /\ Built(line) \in Schema
         /\ Built(line + 1) = Apply(Built(line), Script[line])
<1> DEFINE b == Built(line)
<1>1. /\ b \in Schema
      /\ b.tables = found.tables \cup ({Script[i] : i \in 2..(line - 1)} \cap Tables)
      /\ b.version = IF line > 3 THEN 1 ELSE found.version
  BY DEF Built, Schema
<1>2. /\ Script[line] = "version" => Apply(b, Script[line]) = [tables |-> b.tables, version |-> 1]
      /\ Script[line] # "version" =>
           Apply(b, Script[line]) = [tables  |-> b.tables \cup {Script[line]},
                                     version |-> b.version]
  BY <1>1, ApplyFields
<1> HIDE DEF b
<1>3. {Script[i] : i \in 2..((line + 1) - 1)} = {Script[i] : i \in 2..(line - 1)} \cup {Script[line]}
  OBVIOUS
<1>4. Built(line + 1) = [tables  |-> found.tables \cup ({Script[i] : i \in 2..((line + 1) - 1)} \cap Tables),
                         version |-> IF line + 1 > 3 THEN 1 ELSE found.version]
  BY DEF Built
<1>5. CASE line = 3
  <2>1. Script[line] = "version" /\ "version" \notin Tables
    BY <1>5, ScriptLines DEF Tables
  <2>2. QED
    BY <1>1, <1>2, <1>3, <1>4, <1>5, <2>1 DEF b
<1>6. CASE line # 3
  <2>1. Script[line] # "version" /\ Script[line] \in Tables
    BY <1>6, ScriptLines DEF Tables
  <2>2. (line + 1 > 3) <=> (line > 3)
    BY <1>6
  <2>3. QED
    BY <1>1, <1>2, <1>3, <1>4, <2>1, <2>2 DEF b
<1>7. QED
  BY <1>5, <1>6

\* From nothing the script builds the whole schema.
LEMMA BuiltWhole ==
  ASSUME found = Nothing
  PROVE  Built(7) = Whole
<1>1. {Script[i] : i \in 2..(7 - 1)} \cap Tables = Tables
  <2>1. \A t \in Tables : \E i \in 2..6 : Script[i] = t
    BY ScriptLines DEF Tables
  <2>2. QED
    BY <2>1
<1>2. QED
  BY <1>1 DEF Built, Nothing, Whole

\* At first nobody runs.
LEMMA InitIInv == Init => IInv
<1> SUFFICES ASSUME Init PROVE IInv
  OBVIOUS
<1>1. TypeOK
  <2>1. Files \subseteq Schema /\ Nothing \in Files
    BY DEF Files, Schema, Nothing, Whole, Newer, Foreign, Unversioned, Tables
  <2>2. [pc |-> "off", line |-> 0, starts |-> 0] \in Proc
    BY StartupAssumption, ScriptLines DEF Proc, Phase
  <2>3. QED
    BY <2>1, <2>2 DEF Init, TypeOK
<1>2. QED
  BY <1>1, StartupAssumption DEF Init, IInv, Settled, SchemaWhole, Loading, Ported, RaceHasWinner

-----------------------------------------------------------------------------
(* One lemma per action. *)

\* A process begins anew.
LEMMA StartIInv ==
  ASSUME IInv, NEW p \in Procs, Start(p)
  PROVE  IInv'
<1>1. /\ procs \in [Procs -> Proc] /\ procs[p].pc \in {"off", "failed"}
      /\ procs' = [procs EXCEPT ![p].pc = "name", ![p].starts = @ + 1]
      /\ procs[p].starts \in 0..MaxStarts /\ procs[p].starts < MaxStarts
      /\ UNCHANGED <<disk, written, writer, sshPort, webPort, starting, found, hindered>>
  BY DEF IInv, TypeOK, Start, ports, history, Proc
<1> DEFINE n == procs[p].starts + 1
<1>2. procs' = [procs EXCEPT ![p].pc = "name", ![p].starts = n] /\ n \in 0..MaxStarts
  BY <1>1, StartupAssumption
<1> HIDE DEF n
<1>3. procs' \in [Procs -> Proc]
  BY <1>1, <1>2 DEF Proc, Phase
<1>4. \A q \in Procs : procs'[q].line = procs[q].line /\ (q # p => procs'[q] = procs[q])
  BY <1>1
<1>5. procs'[p].pc = "name"
  BY <1>1
<1>6. TypeOK'
  BY <1>1, <1>3, <1>4 DEF IInv, TypeOK
<1>7. Settled' /\ Loading'
  BY <1>1, <1>4, <1>5 DEF IInv, Settled, SchemaWhole, Loading, Built
<1>8. Ported'
  BY <1>1, <1>4, <1>5, StartupAssumption DEF IInv, TypeOK, Ported
<1>9. RaceHasWinner'
  BY <1>1, <1>4, <1>5 DEF IInv, RaceHasWinner
<1>10. QED
  BY <1>6, <1>7, <1>8, <1>9 DEF IInv

\* A process at another phase and line is a process.
LEMMA ProcChanged ==
  ASSUME procs \in [Procs -> Proc], NEW p \in Procs,
         NEW phase \in Phase, NEW line \in 0..7,
         procs' = [procs EXCEPT ![p].pc = phase, ![p].line = line]
  PROVE  procs' \in [Procs -> Proc]
<1>1. Proc = [pc : Phase, line : 0..7, starts : 0..MaxStarts]
  BY ScriptLines DEF Proc
<1> HIDE DEF Proc
<1>2. procs[p] \in [pc : Phase, line : 0..7, starts : 0..MaxStarts]
  BY <1>1
<1> DEFINE new == [pc |-> phase, line |-> line, starts |-> procs[p].starts]
<1>3. new \in Proc
  BY <1>1, <1>2
<1>4. procs'[p] = new
  BY <1>2
<1> HIDE DEF new
<1>5. procs' = [q \in Procs |-> IF q = p THEN new ELSE procs[q]]
  BY <1>4
<1>6. QED
  BY <1>3, <1>5

\* What the database is when it has a version, and when it has nothing.
LEMMA WholeAtVersionOne ==
  ASSUME IInv, disk.version = 1
  PROVE  disk = Whole
BY StartupAssumption
DEF IInv, Settled, SchemaWhole, Files, Nothing, Whole, Newer, Foreign, Unversioned

\* Nobody but a process that loads the schema holds the lock.
LEMMA WriterLoads ==
  ASSUME IInv, NEW p \in Procs, writer = p
  PROVE  procs[p].pc = "load" /\ procs[p].line > 2
BY StartupAssumption DEF IInv, TypeOK

\* A process goes from one phase to another, neither of which is load.
LEMMA GotoIInv ==
  ASSUME IInv, NEW p \in Procs, NEW phase \in Phase \ {"load", "failed"},
         procs[p].pc # "load", Goto(p, phase),
         UNCHANGED <<disk, written, writer, found>>,
         hindered' \in BOOLEAN, hindered => hindered',
         sshPort' \in Procs \cup {None}, webPort' \in Procs \cup {None},
         starting' \subseteq Procs,
         phase = "version" => "schema_versions" \in disk.tables,
         phase \in {"key", "ssh", "web", "up"} => disk = Whole
  PROVE  /\ TypeOK' /\ Settled' /\ Loading' /\ RaceHasWinner'
         /\ procs'[p].pc = phase
         /\ \A q \in Procs : q # p => procs'[q] = procs[q]
<1>1. /\ procs \in [Procs -> Proc]
      /\ procs' = [procs EXCEPT ![p].pc = phase]
  BY DEF IInv, TypeOK, Goto
<1>2. procs' \in [Procs -> Proc]
  BY <1>1 DEF Proc
<1>3. /\ procs'[p].pc = phase /\ procs'[p].line = procs[p].line
      /\ \A q \in Procs : q # p => procs'[q] = procs[q]
  BY <1>1
<1>4. writer # p
  BY WriterLoads
<1>5. TypeOK'
  BY <1>2, <1>3, <1>4 DEF IInv, TypeOK
<1>6. Settled'
  BY <1>3 DEF IInv, Settled, SchemaWhole
<1>7. Loading'
  BY <1>3 DEF IInv, Loading, Built
<1>8. RaceHasWinner'
  BY <1>3 DEF IInv, RaceHasWinner
<1>9. QED
  BY <1>3, <1>5, <1>6, <1>7, <1>8

\* A process exits: of two first starts, with the other's work or lock in place.
LEMMA ExitIInv ==
  ASSUME IInv, NEW p \in Procs, Exit(p),
         UNCHANGED <<disk, sshPort, webPort, starting, found>>,
         hindered' \in BOOLEAN, hindered => hindered',
         procs[p].pc \notin {"web", "up"},
         found = Nothing /\ ~hindered' => disk = Whole \/ writer \notin {None, p}
  PROVE  IInv'
<1>1. /\ procs \in [Procs -> Proc]
      /\ procs' = [procs EXCEPT ![p].pc = "failed", ![p].line = 0]
      /\ written' = [written EXCEPT ![p] = Nothing]
      /\ writer' = IF writer = p THEN None ELSE writer
  BY DEF IInv, TypeOK, Exit
<1>2. procs' \in [Procs -> Proc]
  <2>1. "failed" \in Phase /\ 0 \in 0..7
    BY DEF Phase
  <2>2. QED
    BY <1>1, <2>1, ProcChanged
<1>3. /\ procs'[p].pc = "failed" /\ procs'[p].line = 0
      /\ \A q \in Procs : q # p => procs'[q] = procs[q] /\ written'[q] = written[q]
  BY <1>1 DEF IInv, TypeOK
<1>4. TypeOK'
  <2>1. Nothing \in Schema
    BY DEF Nothing, Schema
  <2>2. written' \in [Procs -> Schema] /\ written'[p] = Nothing
    BY <1>1, <2>1 DEF IInv, TypeOK
  <2>3. QED
    BY <1>1, <1>2, <1>3, <2>2, StartupAssumption DEF IInv, TypeOK
<1>5. Settled'
  BY <1>3 DEF IInv, Settled, SchemaWhole
<1>6. Loading'
  <2>1. \A q \in Procs : q # p /\ writer = q => writer' = q
    BY <1>1
  <2>2. QED
    BY <1>3, <2>1 DEF IInv, Loading, Built
<1>7. Ported'
  BY <1>3, StartupAssumption DEF IInv, TypeOK, Ported
<1>8. RaceHasWinner'
  BY <1>1 DEF RaceHasWinner
<1>9. QED
  BY <1>4, <1>5, <1>6, <1>7, <1>8 DEF IInv

\* A query fails because the database is being written, or for a reason of its own.
LEMMA QueryFailsIInv ==
  ASSUME IInv, NEW p \in Procs, procs[p].pc \in {"name", "version"}, QueryFails(p),
         UNCHANGED <<disk, sshPort, webPort, starting, found>>
  PROVE  IInv'
<1>1. CASE hindered' = TRUE
  BY <1>1, ExitIInv DEF QueryFails
<1>2. CASE writer \notin {None, p} /\ UNCHANGED hindered
  BY <1>2, ExitIInv DEF QueryFails, IInv, TypeOK
<1>3. QED
  BY <1>1, <1>2, StartupAssumption DEF QueryFails

\* A look that finds no schema leads to loading it, of which nothing is done yet.
LEMMA LookForSchemaIInv ==
  ASSUME IInv, NEW p \in Procs, LookForSchema(p)
  PROVE  IInv'
<1>0. CASE QueryFails(p)
  BY <1>0, QueryFailsIInv DEF LookForSchema, ports
<1> SUFFICES ASSUME ~QueryFails(p) PROVE IInv'
  BY <1>0
<1>1. /\ procs[p].pc = "name"
      /\ UNCHANGED <<disk, written, writer, sshPort, webPort, starting, found, hindered>>
      /\ writer # p
  BY WriterLoads DEF LookForSchema, ports
<1>2. CASE "schema_versions" \in disk.tables
  <2>1. Goto(p, "version")
    BY <1>2 DEF LookForSchema
  <2>2. /\ TypeOK' /\ Settled' /\ Loading' /\ RaceHasWinner' /\ procs'[p].pc = "version"
        /\ \A q \in Procs : q # p => procs'[q] = procs[q]
    BY <1>1, <1>2, <2>1, GotoIInv DEF IInv, TypeOK, Phase
  <2>3. Ported'
    BY <1>1, <2>2, StartupAssumption DEF IInv, TypeOK, Ported
  <2>4. QED
    BY <2>2, <2>3 DEF IInv
<1>3. CASE "schema_versions" \notin disk.tables
  <2>1. /\ procs \in [Procs -> Proc]
        /\ procs' = [procs EXCEPT ![p].pc = "load", ![p].line = 1]
    BY <1>3 DEF LookForSchema, IInv, TypeOK
  <2>2. procs' \in [Procs -> Proc]
    <3>1. "load" \in Phase /\ 1 \in 0..7
      BY DEF Phase
    <3>2. QED
      BY <2>1, <3>1, ProcChanged
  <2>3. /\ procs'[p].pc = "load" /\ procs'[p].line = 1
        /\ \A q \in Procs : q # p => procs'[q] = procs[q]
    BY <2>1
  <2>4. TypeOK'
    BY <1>1, <2>2, <2>3 DEF IInv, TypeOK
  <2>5. Settled' /\ Loading'
    BY <1>1, <2>3 DEF IInv, Settled, SchemaWhole, Loading, Built
  <2>6. Ported' /\ RaceHasWinner'
    BY <1>1, <2>3, StartupAssumption DEF IInv, TypeOK, Ported, RaceHasWinner
  <2>7. QED
    BY <2>4, <2>5, <2>6 DEF IInv
<1>4. QED
  BY <1>2, <1>3

\* Whoever gives up over a version has met a schema.
LEMMA CheckVersionIInv ==
  ASSUME IInv, NEW p \in Procs, CheckVersion(p)
  PROVE  IInv'
<1>0. CASE QueryFails(p)
  BY <1>0, QueryFailsIInv DEF CheckVersion, ports
<1> SUFFICES ASSUME ~QueryFails(p) PROVE IInv'
  BY <1>0
<1>1. /\ procs[p].pc = "version" /\ "schema_versions" \in disk.tables
      /\ UNCHANGED <<disk, sshPort, webPort, starting, found, hindered>>
  BY DEF CheckVersion, ports, IInv, Settled
<1>2. CASE disk.version = 1
  <2>1. disk = Whole
    BY <1>2, WholeAtVersionOne
  <2>2. Goto(p, "key") /\ UNCHANGED <<written, writer>>
    BY <1>2, StartupAssumption DEF CheckVersion, VersionFits
  <2>3. /\ TypeOK' /\ Settled' /\ Loading' /\ RaceHasWinner' /\ procs'[p].pc = "key"
        /\ \A q \in Procs : q # p => procs'[q] = procs[q]
    BY <1>1, <2>1, <2>2, GotoIInv DEF IInv, TypeOK, Phase
  <2>4. Ported'
    BY <1>1, <2>3, StartupAssumption DEF IInv, TypeOK, Ported
  <2>5. QED
    BY <2>3, <2>4 DEF IInv
<1>3. CASE disk.version # 1
  <2>1. Exit(p)
    BY <1>3 DEF CheckVersion, VersionFits, RefuseVersion
  <2>2. found = Nothing => disk = Whole
    BY <1>1 DEF IInv, Settled, SchemaWhole, Nothing
  <2>3. QED
    BY <1>1, <2>1, <2>2, ExitIInv DEF IInv, TypeOK
<1>4. QED
  BY <1>2, <1>3

\* A process that loads the schema has reached the line that is next.
LEMMA NextLineIInv ==
  ASSUME IInv, NEW p \in Procs, procs[p].pc = "load", procs[p].line < 7, NextLine(p),
         UNCHANGED <<disk, sshPort, webPort, starting, found, hindered>>,
         written' \in [Procs -> Schema],
         \A q \in Procs : q # p => written'[q] = written[q],
         writer \in {None, p}, writer' \in {writer, p},
         writer' = p => procs[p].line + 1 > 2,
         written'[p] # Nothing => writer' = p,
         procs[p].line + 1 > 2 =>
           /\ writer' = p /\ written'[p] = Built(procs[p].line + 1)
           /\ disk = found /\ "schema_versions" \notin found.tables
           /\ procs[p].line + 1 = 7 => "users" \notin found.tables
  PROVE  IInv'
<1> DEFINE n == procs[p].line + 1
<1>1. procs \in [Procs -> Proc] /\ procs[p].line \in 1..7 /\ n \in 2..7
  BY DEF IInv, TypeOK, Loading
<1>2. procs' = [procs EXCEPT ![p].line = n]
  BY <1>1 DEF NextLine
<1> HIDE DEF n
<1>3. procs' \in [Procs -> Proc]
  <2>1. Proc = [pc : Phase, line : 0..7, starts : 0..MaxStarts]
    BY ScriptLines DEF Proc
  <2> HIDE DEF Proc
  <2>2. QED
    BY <1>1, <1>2, <2>1
<1>4. /\ procs'[p].pc = "load" /\ procs'[p].line = n
      /\ \A q \in Procs : q # p => procs'[q] = procs[q]
  BY <1>1, <1>2
<1>5. TypeOK'
  <2>1. writer' # None => writer' = p
    BY StartupAssumption
  <2>2. \A q \in Procs : written'[q] # Nothing => writer' = q
    BY StartupAssumption DEF IInv, TypeOK
  <2>3. writer' = p => n > 2
    BY DEF n
  <2>4. QED
    BY <1>3, <1>4, <2>1, <2>2, <2>3 DEF IInv, TypeOK
<1>6. Settled' /\ Ported'
  <2>1. Settled'
    BY <1>4 DEF IInv, Settled, SchemaWhole
  <2>2. Ported'
    BY <1>4, StartupAssumption DEF IInv, TypeOK, Ported
  <2>3. QED
    BY <2>1, <2>2
<1>7. Loading'
  <2>1. n > 2 => /\ writer' = p /\ written'[p] = Built(n)
                 /\ disk = found /\ "schema_versions" \notin found.tables
                 /\ n = 7 => "users" \notin found.tables
    BY DEF n
  <2>2. \A q \in Procs : q # p /\ procs[q].pc = "load" => ~(procs[q].line > 2)
    BY StartupAssumption DEF IInv, Loading
  <2>4. ASSUME NEW q \in Procs, q # p, procs'[q].pc = "load"
        PROVE  procs'[q].line \in 1..7 /\ ~(procs'[q].line > 2)
    BY <1>4, <2>2, <2>4 DEF IInv, Loading
  <2>5. ASSUME NEW q \in Procs, q = p
        PROVE  /\ procs'[q].line \in 1..7
               /\ procs'[q].line > 2 =>
                    /\ writer' = q /\ written'[q] = Built(procs'[q].line)
                    /\ disk' = found' /\ "schema_versions" \notin found'.tables
                    /\ procs'[q].line = 7 => "users" \notin found'.tables
    BY <1>1, <1>4, <2>1, <2>5
  <2>6. \A k : Built(k)' = Built(k)
    BY DEF Built
  <2>7. QED
    BY <2>4, <2>5, <2>6 DEF Loading, Built
<1>8. RaceHasWinner'
  BY <1>4, StartupAssumption DEF IInv, RaceHasWinner
<1>9. QED
  BY <1>5, <1>6, <1>7, <1>8 DEF IInv

\* The transaction begins, and takes no lock yet.
LEMMA BeginIInv ==
  ASSUME IInv, NEW p \in Procs, Begin(p)
  PROVE  IInv'
<1>1. /\ procs \in [Procs -> Proc] /\ procs[p].pc = "load" /\ procs[p].line = 1
      /\ procs' = [procs EXCEPT ![p].line = @ + 1]
      /\ UNCHANGED <<disk, written, writer, sshPort, webPort, starting, found, hindered>>
  <2>1. procs[p].line \in 1..7 /\ Script[procs[p].line] = "begin"
    BY DEF Begin, Line, IInv, Loading
  <2>2. QED
    BY <2>1, ScriptLines DEF Begin, NextLine, ports, history, IInv, TypeOK
<1>2. procs' = [procs EXCEPT ![p].line = 2]
  BY <1>1
<1>3. procs' \in [Procs -> Proc]
  <2>1. Proc = [pc : Phase, line : 0..7, starts : 0..MaxStarts]
    BY ScriptLines DEF Proc
  <2> HIDE DEF Proc
  <2>2. QED
    BY <1>1, <1>2, <2>1
<1>4. /\ procs'[p].pc = "load" /\ procs'[p].line = 2 /\ writer # p
      /\ \A q \in Procs : q # p => procs'[q] = procs[q]
  BY <1>1, <1>2, WriterLoads
<1>5. TypeOK'
  BY <1>1, <1>3, <1>4 DEF IInv, TypeOK
<1>6. Settled' /\ Ported' /\ Loading'
  BY <1>1, <1>4 DEF IInv, Settled, SchemaWhole, Ported, Loading, Built
<1>7. RaceHasWinner'
  BY <1>1, <1>4 DEF IInv, RaceHasWinner
<1>8. QED
  BY <1>5, <1>6, <1>7 DEF IInv

\* A table that is already there ends the load: somebody else has created it, or what
\* was found is another program's.
LEMMA WriteIInv ==
  ASSUME IInv, NEW p \in Procs, Write(p)
  PROVE  IInv'
<1> DEFINE l == procs[p].line
           b == Before(p)
<1>1. /\ procs[p].pc = "load" /\ l \in 1..7 /\ Script[l] \notin {"begin", "commit"}
      /\ writer \in {None, p}
      /\ UNCHANGED <<sshPort, webPort, starting, found, hindered>>
  BY DEF Write, Line, ports, history, IInv, Loading
<1>2. /\ l \in 2..6
      /\ l = 2 => Script[l] = "schema_versions"
      /\ Script[l] = "users" => l = 6
      /\ l = 6 => Script[l] = "users"
  BY <1>1, WriteLines
<1>3. /\ b \in Schema /\ found \in Schema
      /\ l = 2 => writer = None /\ b = disk
      /\ l > 2 => writer = p /\ b = written[p] /\ b = Built(l)
                  /\ disk = found /\ "schema_versions" \notin found.tables
  <2>1. l = 2 => writer = None
    BY <1>1, WriterLoads
  <2>2. QED
    BY <1>1, <1>2, <2>1, StartupAssumption DEF Before, IInv, TypeOK, Loading
<1>4. CASE Script[l] \in b.tables
  <2>1. Exit(p) /\ UNCHANGED disk
    BY <1>4 DEF Write, Line, LoadFailed
  <2>2. found = Nothing => disk = Whole
    <3> SUFFICES ASSUME found = Nothing PROVE disk = Whole
      OBVIOUS
    <3>1. CASE l = 2
      BY <1>3, <1>4, <3>1 DEF IInv, Settled, SchemaWhole, Nothing
    <3>2. CASE l > 2
      <4>1. Script[l] \in {Script[i] : i \in 2..(l - 1)} /\ Script[l] \in Tables
        BY <1>3, <1>4, <3>2 DEF Built, Nothing
      <4>2. PICK i \in 2..(l - 1) : Script[i] = Script[l]
        BY <4>1
      <4>3. QED
        BY <1>2, <4>1, <4>2, ScriptLines DEF Tables
    <3>3. QED
      BY <1>2, <3>1, <3>2
  <2>3. QED
    BY <1>1, <2>1, <2>2, ExitIInv DEF IInv, TypeOK
<1>5. CASE Script[l] \notin b.tables
  <2> DEFINE after == Apply(b, Script[l])
  <2>1. /\ written' = [written EXCEPT ![p] = after] /\ writer' = p
        /\ UNCHANGED disk /\ NextLine(p)
    BY <1>5 DEF Write, Line, CommitsItself
  <2>2. l = 2 => disk = found /\ "schema_versions" \notin found.tables
    BY <1>2, <1>3, <1>5, StartupAssumption DEF IInv, Settled, SchemaWhole, Whole, Tables
  <2>3. b = Built(l)
    <3>1. CASE l = 2
      <4>1. b = found /\ found \in Schema
        BY <1>3, <2>2, <3>1
      <4>2. {Script[i] : i \in 2..(l - 1)} = {}
        BY <3>1
      <4>3. QED
        BY <3>1, <4>1, <4>2 DEF Built, Schema
    <3>2. QED
      BY <1>2, <1>3, <3>1
  <2>4. after = Built(l + 1) /\ after \in Schema
    <3>1. after = Built(l + 1)
      BY <1>2, <1>3, <2>3, BuiltNext
    <3>2. Built(l + 1) \in Schema
      BY <1>2, <1>3 DEF Built, Schema
    <3>3. QED
      BY <3>1, <3>2
  <2>5. l + 1 = 7 => "users" \notin found.tables
    <3> SUFFICES ASSUME l = 6 PROVE "users" \notin found.tables
      BY <1>2
    <3>1. "users" \notin Built(l).tables
      BY <1>2, <1>5, <2>3
    <3>2. found.tables \subseteq Built(l).tables
      BY DEF Built
    <3>3. QED
      BY <3>1, <3>2
  <2> HIDE DEF after, b
  <2>6. /\ written' \in [Procs -> Schema] /\ written'[p] = after
        /\ \A q \in Procs : q # p => written'[q] = written[q]
    BY <2>1, <2>4 DEF IInv, TypeOK
  <2>7. /\ l < 7 /\ l + 1 > 2 /\ "schema_versions" \notin found.tables /\ disk = found
    BY <1>2, <1>3, <2>2
  <2>8. QED
    BY <1>1, <2>1, <2>4, <2>5, <2>6, <2>7, NextLineIInv
<1>6. QED
  BY <1>4, <1>5

\* A process that finds the database locked leaves it to the one that locked it.
LEMMA BusyIInv ==
  ASSUME IInv, NEW p \in Procs, Busy(p)
  PROVE  IInv'
<1>1. /\ procs[p].pc = "load" /\ writer \notin {None, p} /\ Exit(p)
      /\ UNCHANGED <<disk, sshPort, webPort, starting, found, hindered>>
  BY DEF Busy, LoadFailed, ports, history
<1>2. QED
  BY <1>1, ExitIInv DEF IInv, TypeOK

\* What is committed is the whole schema.
LEMMA CommitIInv ==
  ASSUME IInv, NEW p \in Procs, Commit(p)
  PROVE  IInv'
<1>1. /\ procs[p].pc = "load" /\ procs[p].line = 7
      /\ UNCHANGED <<sshPort, webPort, starting, found, hindered>>
  <2>1. procs[p].line \in 1..7 /\ Script[procs[p].line] = "commit"
    BY DEF Commit, Line, IInv, Loading
  <2>2. QED
    BY <2>1, ScriptLines DEF Commit, ports, history
<1>2. /\ writer = p /\ written[p] = Built(7) /\ disk = found
      /\ "schema_versions" \notin found.tables /\ "users" \notin found.tables
  BY <1>1 DEF IInv, Loading
<1>3. found = Nothing
  BY <1>2 DEF IInv, Settled, Files, Whole, Newer, Foreign, Unversioned, Tables
<1>4. /\ disk' = Whole /\ writer' = None
      /\ written' = [written EXCEPT ![p] = Nothing]
      /\ procs' = [procs EXCEPT ![p].pc = "key", ![p].line = 0]
  BY <1>2, <1>3, BuiltWhole DEF Commit, Committed, Before
<1>5. procs \in [Procs -> Proc] /\ procs' \in [Procs -> Proc]
  <2>1. "key" \in Phase /\ 0 \in 0..7
    BY DEF Phase
  <2>2. QED
    BY <1>4, <2>1, ProcChanged DEF IInv, TypeOK
<1>6. /\ procs'[p].pc = "key"
      /\ \A q \in Procs : q # p => procs'[q] = procs[q] /\ written'[q] = written[q]
  BY <1>4, <1>5 DEF IInv, TypeOK
<1>7. TypeOK'
  <2>1. Nothing \in Schema /\ Whole \in Schema
    BY DEF Nothing, Whole, Schema
  <2>2. written' \in [Procs -> Schema] /\ written'[p] = Nothing
    BY <1>4, <2>1 DEF IInv, TypeOK
  <2>3. \A q \in Procs : written'[q] = Nothing
    BY <1>2, <1>6, <2>2 DEF IInv, TypeOK
  <2>4. QED
    BY <1>1, <1>4, <1>5, <2>1, <2>2, <2>3 DEF IInv, TypeOK
<1>8. Settled'
  <2>1. "schema_versions" \in Whole.tables
    BY DEF Whole, Tables
  <2>2. QED
    BY <1>1, <1>3, <1>4, <1>6, <2>1 DEF IInv, Settled, SchemaWhole
<1>9. Loading'
  <2>1. \A q \in Procs : q # p /\ procs[q].pc = "load" => ~(procs[q].line > 2)
    BY <1>2 DEF IInv, Loading
  <2>2. QED
    BY <1>6, <2>1 DEF IInv, Loading
<1>10. Ported'
  BY <1>1, <1>6, StartupAssumption DEF IInv, TypeOK, Ported
<1>11. RaceHasWinner'
  BY <1>4 DEF RaceHasWinner
<1>12. QED
  BY <1>7, <1>8, <1>9, <1>10, <1>11 DEF IInv

-----------------------------------------------------------------------------

\* The host key is read, or the process exits.
LEMMA ReadPrivateKeyIInv ==
  ASSUME IInv, NEW p \in Procs, ReadPrivateKey(p)
  PROVE  IInv'
<1>1. procs[p].pc = "key" /\ UNCHANGED <<disk, sshPort, webPort, starting, found>> /\ disk = Whole
  BY DEF ReadPrivateKey, ports, IInv, Settled
<1>2. CASE Goto(p, "ssh") /\ UNCHANGED <<written, writer, hindered>>
  <2>1. /\ TypeOK' /\ Settled' /\ Loading' /\ RaceHasWinner' /\ procs'[p].pc = "ssh"
        /\ \A q \in Procs : q # p => procs'[q] = procs[q]
    BY <1>1, <1>2, GotoIInv DEF IInv, TypeOK, Phase
  <2>2. Ported'
    BY <1>1, <1>2, <2>1, StartupAssumption DEF IInv, TypeOK, Ported
  <2>3. QED
    BY <2>1, <2>2 DEF IInv
<1>3. CASE Exit(p) /\ hindered' = TRUE
  BY <1>1, <1>3, ExitIInv
<1>4. QED
  BY <1>2, <1>3 DEF ReadPrivateKey

\* The port is free, or the process exits.
LEMMA StartSSHServerIInv ==
  ASSUME IInv, NEW p \in Procs, StartSSHServer(p)
  PROVE  IInv'
<1>1. /\ procs[p].pc = "ssh" /\ disk = Whole
      /\ UNCHANGED <<disk, webPort, starting, found, hindered>>
  BY DEF StartSSHServer, history, IInv, Settled
<1>2. CASE sshPort = None
  <2>1. sshPort' = p /\ Goto(p, "web") /\ UNCHANGED <<written, writer>>
    BY <1>2 DEF StartSSHServer
  <2>2. /\ TypeOK' /\ Settled' /\ Loading' /\ RaceHasWinner' /\ procs'[p].pc = "web"
        /\ \A q \in Procs : q # p => procs'[q] = procs[q]
    BY <1>1, <2>1, GotoIInv DEF IInv, TypeOK, Phase
  <2>3. webPort = None
    BY <1>2, StartupAssumption DEF IInv, TypeOK, Ported
  <2>4. Ported'
    BY <1>1, <1>2, <2>1, <2>2, <2>3, StartupAssumption DEF IInv, TypeOK, Ported
  <2>5. QED
    BY <2>2, <2>4 DEF IInv
<1>3. CASE sshPort # None
  <2>1. Exit(p) /\ UNCHANGED sshPort
    BY <1>3 DEF StartSSHServer, NoSSHPort
  <2>2. QED
    BY <1>1, <2>1, ExitIInv DEF IInv, TypeOK
<1>4. QED
  BY <1>2, <1>3

\* The process goes on, and leaves the other port to its goroutine.
LEMMA StartWebServerIInv ==
  ASSUME IInv, NEW p \in Procs, StartWebServer(p)
  PROVE  IInv'
<1>1. /\ procs[p].pc = "web" /\ disk = Whole /\ sshPort = p /\ Goto(p, "up")
      /\ UNCHANGED <<disk, written, writer, sshPort, webPort, found, hindered>>
      /\ starting' = starting \cup {p}
  BY DEF StartWebServer, history, IInv, Settled, Ported
<1>2. /\ TypeOK' /\ Settled' /\ Loading' /\ RaceHasWinner' /\ procs'[p].pc = "up"
      /\ \A q \in Procs : q # p => procs'[q] = procs[q]
  <2>1. "up" \in Phase \ {"load", "failed"}
    BY DEF Phase
  <2>2. QED
    BY <1>1, <2>1, GotoIInv DEF IInv, TypeOK
<1>3. \A q \in Procs : procs[q].pc = "up" => q = p
  BY <1>1 DEF IInv, Ported
<1>4. webPort = None /\ starting \subseteq Procs
  BY <1>1 DEF IInv, TypeOK, Ported
<1>5. Ported'
  BY <1>1, <1>2, <1>3, <1>4, StartupAssumption DEF IInv, TypeOK, Ported
<1>6. QED
  BY <1>2, <1>5 DEF IInv

\* The process that has the one port takes the other, or goes on without.
LEMMA ListenAndServeIInv ==
  ASSUME IInv, NEW p \in Procs, ListenAndServe(p)
  PROVE  IInv'
<1>1. /\ p \in starting /\ procs[p].pc = "up" /\ disk = Whole /\ sshPort = p
      /\ UNCHANGED <<disk, written, writer, procs, sshPort, found>>
      /\ starting' = starting \ {p}
      /\ \/ webPort' = p /\ hindered' = hindered
         \/ hindered' = TRUE /\ webPort' = webPort
  BY DEF ListenAndServe, IInv, Settled, Ported
<1>2. webPort = None /\ hindered \in BOOLEAN /\ hindered' \in BOOLEAN
  BY <1>1 DEF IInv, TypeOK, Ported
<1>3. TypeOK'
  BY <1>1, <1>2 DEF IInv, TypeOK
<1>4. Settled' /\ Loading' /\ RaceHasWinner'
  BY <1>1 DEF IInv, Settled, SchemaWhole, Loading, Built, RaceHasWinner
<1>5. Ported'
  BY <1>1, <1>2, StartupAssumption DEF IInv, TypeOK, Ported
<1>6. QED
  BY <1>3, <1>4, <1>5 DEF IInv

\* A process that is killed leaves neither lock nor port nor half a schema.
LEMMA KillIInv ==
  ASSUME IInv, NEW p \in Procs, Kill(p)
  PROVE  IInv'
<1>1. /\ procs \in [Procs -> Proc]
      /\ procs' = [procs EXCEPT ![p].pc = "off", ![p].line = 0]
      /\ written' = [written EXCEPT ![p] = Nothing]
      /\ writer' = (IF writer = p THEN None ELSE writer)
      /\ sshPort' = (IF sshPort = p THEN None ELSE sshPort)
      /\ webPort' = (IF webPort = p THEN None ELSE webPort)
      /\ starting' = starting \ {p}
      /\ hindered' = TRUE /\ UNCHANGED <<disk, found>>
  BY DEF IInv, TypeOK, Kill
<1>2. procs' \in [Procs -> Proc]
  <2>1. "off" \in Phase /\ 0 \in 0..7
    BY DEF Phase
  <2>2. QED
    BY <1>1, <2>1, ProcChanged
<1>3. /\ procs'[p].pc = "off"
      /\ \A q \in Procs : q # p => procs'[q] = procs[q] /\ written'[q] = written[q]
  BY <1>1 DEF IInv, TypeOK
<1>4. TypeOK'
  <2>1. Nothing \in Schema
    BY DEF Nothing, Schema
  <2>2. written' \in [Procs -> Schema] /\ written'[p] = Nothing
    BY <1>1, <2>1 DEF IInv, TypeOK
  <2>3. QED
    BY <1>1, <1>2, <1>3, <2>2, StartupAssumption DEF IInv, TypeOK
<1>5. Settled'
  BY <1>1, <1>3 DEF IInv, Settled, SchemaWhole
<1>6. Loading'
  <2>1. \A q \in Procs : q # p /\ writer = q => writer' = q
    BY <1>1
  <2>2. QED
    BY <1>1, <1>3, <2>1 DEF IInv, Loading, Built
<1>7. Ported'
  <2>1. \A q \in Procs : procs'[q].pc \in {"web", "up"} <=> sshPort' = q
    BY <1>1, <1>3, StartupAssumption DEF IInv, TypeOK, Ported
  <2>2. webPort' # None =>
          webPort' = sshPort' /\ procs'[webPort'].pc = "up" /\ webPort' \notin starting'
    BY <1>1, <1>3, StartupAssumption DEF IInv, TypeOK, Ported
  <2>3. \A q \in starting' : procs'[q].pc = "up"
    BY <1>1, <1>3 DEF IInv, TypeOK, Ported
  <2>4. QED
    BY <1>1, <2>1, <2>2, <2>3 DEF Ported
<1>8. RaceHasWinner'
  BY <1>1 DEF RaceHasWinner
<1>9. QED
  BY <1>4, <1>5, <1>6, <1>7, <1>8 DEF IInv

-----------------------------------------------------------------------------

\* IInv is inductive.
LEMMA IInvStep == IInv /\ [Next]_vars => IInv'
<1> SUFFICES ASSUME IInv, [Next]_vars PROVE IInv'
  OBVIOUS
<1>1. CASE UNCHANGED vars
  BY <1>1 DEF vars, ports, history, IInv, TypeOK, Settled, SchemaWhole, Loading, Built,
     Ported, RaceHasWinner
<1>2. ASSUME NEW p \in Procs, Start(p) \/ Step(p) \/ Kill(p)
      PROVE  IInv'
  BY <1>2, StartIInv, LookForSchemaIInv, CheckVersionIInv, BeginIInv, WriteIInv, BusyIInv,
     CommitIInv, ReadPrivateKeyIInv, StartSSHServerIInv, StartWebServerIInv,
     ListenAndServeIInv, KillIInv
     DEF Step
<1>3. QED
  BY <1>1, <1>2 DEF Next

\* Whoever starts, races or is killed: the schema is whole or untouched, nobody serves
\* on another, and links are printed by the process that serves them.
THEOREM SafeStart == Spec => []StartsSafely
<1>1. IInv => StartsSafely
  BY StartupAssumption
  DEF IInv, StartsSafely, Settled, ServesOnlyOnSchema, Ported, PortsTogether, TypeOK
<1>2. QED
  BY InitIInv, IInvStep, <1>1, PTL DEF Spec

\* Of any number of first starts that race, not all fail.
THEOREM SomebodyWins == Spec => []RaceHasWinner
<1>1. IInv => RaceHasWinner
  BY DEF IInv
<1>2. QED
  BY InitIInv, IInvStep, <1>1, PTL DEF Spec
=============================================================================
