------------------------------- MODULE Reports -------------------------------
(***************************************************************************)
(* The reports of gaet: check, status, diff, doctor and snapshots of the   *)
(* command line (status.go, snapshots.go) and their counterparts of the    *)
(* dashboard (server.go).  None takes the lock: each reads the settings,   *)
(* calls psql for each database in turn and looks at the snapshots, while  *)
(* commands, other programs and the network change all of it between two   *)
(* steps.                                                                  *)
(*                                                                         *)
(* A database is what its tables are: absent, there but never analyzed     *)
(* (pg_class then counts no rows), or with rows.  It is reached by a road: *)
(* the local one by the host of the settings or, without -h, the socket;   *)
(* the cloud with TLS or without.  The cloud is on another machine.        *)
(*                                                                         *)
(* past is the history of the world: what a report finds is always of the  *)
(* last one, what it says is judged against those of its time.             *)
(***************************************************************************)
EXTENDS Naturals, Integers, FiniteSets, Sequences, SequencesExt, Connect

CONSTANTS Runs,       \* executions of a report
          Beside,     \* bound: the kinds that are run beside each other
          Tables,     \* names of tables
          Snapshots,  \* names of snapshots
          Pushes,     \* those that start with gaet_
          Configs,    \* settings, and the machine with its tools
          Typed,      \* URLs that a test is given, with the setting that was meant
          Lively,     \* bound: those of them that are tested while the world changes
          Scenes,     \* socket files and TCP ports, and whom of Users the servers let in
          MaxChanges  \* bound: how often the world changes

Kinds == {"check", "status", "statusJson", "diff", "doctor", "snapshots", "apiStatus",
          "apiCheck", "apiDoctor", "apiDiff", "localTest", "remoteTest", "apiSnapshots",
          "apiDownload", "apiDetect"}
Dashboard == {"apiStatus", "apiCheck", "apiDoctor", "apiDiff", "localTest", "remoteTest",
              "apiSnapshots", "apiDownload", "apiDetect"}

(* How a setting is written as a URL.  What has a second reading is not    *)
(* meant by anybody: a user with a ':', no credentials, a host that ends   *)
(* like a port, '@' or '/' after the host but for the one before the       *)
(* database (sslrootcert=/etc/ca.pem), a database with a '?'.              *)
Credentials(user, password) == IF password = <<>> THEN user ELSE user \o <<":">> \o password
HostAndPort(host, port) == IF port = DefaultPort THEN host ELSE host \o <<":">> \o port
Written(c, query) ==
    Credentials(c.user, c.password)
      \o <<"@">> \o (HostAndPort(c.host, c.port) \o <<"/">> \o (c.db \o query))

EndsLikePort(host) == \E i \in DOMAIN host :
                         host[i] = ":" /\ \A j \in DOMAIN host : j > i => host[j] \in Digits

OneReading(c, query) ==
    /\ c \in [ok : {TRUE}, user : Seq(Chars \ {":"}), password : Seq(Chars),
              host : Seq(Chars \ {"@"}), port : {DefaultPort} \cup Seq(Digits),
              db : Seq(Chars \ {"@", "/", "?"})]
    /\ query \in Seq(Chars \ {"@", "/"}) /\ (query = <<>> \/ query[1] = "?")
    /\ c.user = <<>> => c.password # <<>>
    /\ c.host # <<>> /\ c.db # <<>>
    /\ c.port = DefaultPort => ~EndsLikePort(c.host)

ASSUME ReportsAssumption == /\ Beside \subseteq Kinds
                            /\ IsFiniteSet(Snapshots) /\ Pushes \subseteq Snapshots
                            /\ MaxChanges \in Nat
                            /\ Lively \subseteq Typed
                            /\ \A typed \in Typed :
                                 /\ typed.url \in Seq(Chars)
                                 /\ typed.meant.ok =>
                                      /\ OneReading(typed.meant, typed.query)
                                      /\ typed.url = Written(typed.meant, typed.query)
                            /\ \A scene \in Scenes :
                                 /\ scene.files \in Seq(Range(scene.files))
                                 /\ \A f \in Range(scene.files) : f.answers \subseteq Range(Users)
                                 /\ scene.tcp \in [Range(TcpPorts) -> SUBSET Range(Users)]
                            /\ \A c \in Configs : {c.near, c.tls, c.file} \subseteq BOOLEAN

VARIABLES past,    \* the worlds so far: databases, roads, snapshots by age, settings
          quiet,   \* core.Quiet of the dashboard
          report,  \* what each report has found
          overlaps \* history: two checks of the dashboard were under way at once

vars == <<past, quiet, report, overlaps>>

Databases == {"host", "socket", "cloud"}
Roads == {"host", "socket", "tls", "plain", "typed"}
TableStates == {"absent", "fresh", "full"}
Nothing == [t \in Tables |-> "absent"]
NoAnswer == [ok |-> FALSE, tables |-> Nothing]
Answers == [ok : BOOLEAN, tables : [Tables -> TableStates]]

WorldStates == [tables : [Databases -> [Tables -> TableStates]], reach : SUBSET Roads,
           files : SeqOf(Snapshots, Cardinality(Snapshots)), config : Configs]
World == Last(past)

(* What a report does after it has read the settings, in its order. *)
Order ==
    [check |-> <<"local", "cloud", "count">>,
     status |-> <<"glob", "pick", "again", "count", "local", "cloud">>,
     statusJson |-> <<"local">>,
     diff |-> <<"local", "cloud">>,
     doctor |-> <<"config", "local", "count">>,
     snapshots |-> <<"glob", "stat", "again">>,
     apiStatus |-> <<"local", "tables", "cloud">>,
     apiCheck |-> <<"note", "hush", "local", "speak", "count">>,
     apiDoctor |-> <<"config", "local", "cloud", "count">>,
     apiDiff |-> <<"local", "cloud">>,
     localTest |-> <<"local">>,
     remoteTest |-> <<"cloud">>,
     apiSnapshots |-> <<"glob", "stat">>,
     apiDownload |-> <<"look", "open">>,
     apiDetect |-> <<"detect">>]

NoInput == [meant |-> Refused, query |-> <<>>, url |-> <<>>]
Idle == [kind |-> "none", asked |-> "saved", input |-> NoInput, found |-> <<>>, left |-> <<>>, end |-> "none", since |-> 0,
         again |-> FALSE, old |-> FALSE, local |-> NoAnswer, rows |-> NoAnswer,
         cloud |-> NoAnswer, names |-> <<>>, count |-> 0, file |-> FALSE]

Running(r) == report[r].end = "running"
At(r, step) == Running(r) /\ report[r].left # <<>> /\ Head(report[r].left) = step
ConfigOf(r) == past[report[r].since].config
Psql(c) == "psql" \in Tools(c.machine)
Configured(c) == ParseConnURL(c.url).ok
-----------------------------------------------------------------------------
Init == /\ past \in {<<w>> : w \in [tables : {[d \in Databases |-> [t \in Tables |-> "full"]]},
                                    reach : {Roads}, files : {SetToSeq(Pushes)},
                                    config : Configs]}
        /\ quiet = FALSE
        /\ report = [r \in Runs |-> Idle]
        /\ overlaps = FALSE

(* The report with its first remaining step done, and over after the last. *)
Took(r, found) ==
    report' = [report EXCEPT ![r] = [found EXCEPT
                  !.left = Tail(@), !.again = FALSE,
                  !.end = IF Len(found.left) = 1 THEN "done" ELSE "running"]]

(* A report whose last steps are not taken. *)
Ended(r, end) ==
    report' = [report EXCEPT ![r] = [@ EXCEPT !.left = <<>>, !.end = end]]

(* The settings and the tools are looked up once: what a command or the  *)
(* dashboard changes later is not seen by this report.  Reports share      *)
(* core.Quiet only, so others than Beside run alone.                       *)
MayBegin(r, kind) ==
    /\ report[r].end = "none"
    /\ \A other \in Runs \ {r} :
          report[other].end # "none" => {kind, report[other].kind} \subseteq Beside

Begins(r, kind, asked, input) ==
    /\ MayBegin(r, kind)
    /\ report' = [report EXCEPT ![r] = [Idle EXCEPT
                     !.kind = kind, !.asked = asked, !.input = input, !.left = Order[kind],
                     !.end = "running", !.since = Len(past)]]
    /\ UNCHANGED <<past, quiet, overlaps>>

Begin(r, kind) == Begins(r, kind, "saved", NoInput)
BeginDownload(r, f) == Begins(r, "apiDownload", f, NoInput)

(* A test takes the URL of its request when it has one. *)
BeginTest(r, kind) ==
    /\ MayBegin(r, kind)
    /\ \E typed \in IF Len(past) = 1 THEN Typed ELSE Lively : Begins(r, kind, "typed", typed)

BeginDetect(r) ==
    /\ Len(past) = 1 /\ MayBegin(r, "apiDetect")
    /\ \E scene \in Scenes : Begins(r, "apiDetect", "saved", scene)
-----------------------------------------------------------------------------
(* psql against the local server.  When it fails by the host, and that is  *)
(* this machine, it is tried once more by the socket, except by /api/check.*)
(* A test of a typed URL goes there; of one that cannot be read, to the    *)
(* server of the settings.                                                 *)
GoesToTyped(r) == report[r].asked = "typed" /\ ParseConnURL(report[r].input.url).ok

(* The socket is not tried. *)
NeverFallsBack(r) == FALSE

FallsBack(r) == /\ ConfigOf(r).near
                /\ report[r].kind # "apiCheck"
                /\ ~GoesToTyped(r)
                /\ ~report[r].again

LocalRoad(r) == IF GoesToTyped(r) THEN "typed"
                ELSE IF report[r].again THEN "socket" ELSE "host"

Reached(road) == [ok |-> TRUE,
                  tables |-> IF road \in Databases THEN World.tables[road] ELSE Nothing]

LocalSkipped(r) == \/ ~Psql(ConfigOf(r))
                   \/ report[r].kind = "apiDiff" /\ ~Configured(ConfigOf(r))
                   \/ At(r, "tables") /\ ~report[r].local.ok

AskLocal(r) ==
    /\ At(r, "local") \/ At(r, "tables")
    /\ LET road == LocalRoad(r)
           answered == road \in World.reach
       IN  \/ /\ LocalSkipped(r)
              /\ Took(r, report[r])
           \/ /\ ~LocalSkipped(r) /\ answered
              /\ Took(r, IF At(r, "local") THEN [report[r] EXCEPT !.local = Reached(road)]
                                           ELSE [report[r] EXCEPT !.rows = Reached(road)])
           \/ /\ ~LocalSkipped(r) /\ ~answered /\ FallsBack(r)
              /\ report' = [report EXCEPT ![r].again = TRUE]
           \/ /\ ~LocalSkipped(r) /\ ~answered /\ ~FallsBack(r)
              /\ Took(r, report[r])
    /\ UNCHANGED <<past, quiet, overlaps>>

(* psql against the cloud: the dashboard asks for TLS as the settings say, *)
(* the command line leaves it to libpq, which then does without.           *)
CloudRoads(r) ==
    IF report[r].asked = "typed" THEN IF GoesToTyped(r) THEN {"typed"} ELSE {}
    ELSE IF ConfigOf(r).tls /\ report[r].kind \in Dashboard THEN {"tls"} ELSE {"tls", "plain"}

CloudAsked(r) == /\ Psql(ConfigOf(r))
                 /\ report[r].asked = "saved" => Configured(ConfigOf(r))
                 /\ report[r].kind = "apiStatus" => report[r].local.ok

AskCloud(r) ==
    /\ At(r, "cloud")
    /\ IF CloudAsked(r) /\ CloudRoads(r) \cap World.reach # {}
       THEN Took(r, [report[r] EXCEPT !.cloud = Reached("cloud")])
       ELSE Took(r, report[r])
    /\ UNCHANGED <<past, quiet, overlaps>>
-----------------------------------------------------------------------------
(* The snapshots, from the oldest to the newest by their time of change. *)
Listed(kind) == IF kind \in {"status", "doctor"} THEN Pushes ELSE Snapshots

(* A list that an earlier report made. *)
GlobKept(r) ==
    /\ At(r, "glob")
    /\ LET names == Among(past[1].files, Listed(report[r].kind))
       IN  IF names = <<>>
           THEN Ended(r, "done")
           ELSE Took(r, [report[r] EXCEPT !.names = names])
    /\ UNCHANGED <<past, quiet, overlaps>>

(* filepath.Glob.  Without a push, status says so and goes on. *)
Glob(r) ==
    /\ At(r, "glob")
    /\ LET names == Among(World.files, Listed(report[r].kind))
       IN  IF report[r].kind = "status" /\ names = <<>>
           THEN report' = [report EXCEPT ![r].left = SubSeq(@, 4, Len(@))]
           ELSE Took(r, [report[r] EXCEPT !.names = names])
    /\ UNCHANGED <<past, quiet, overlaps>>

(* A loop of os.Stat that passes over the files that are gone; the command *)
(* line sorts the others, the newest first.                                *)
Stat(r) ==
    /\ At(r, "stat")
    /\ LET there == Among(report[r].names, Range(World.files))
       IN  Took(r, [report[r] EXCEPT
                       !.names = IF report[r].kind = "snapshots" THEN Reverse(there) ELSE there])
    /\ UNCHANGED <<past, quiet, overlaps>>

(* latestFile: the newest that is still there, or else the first of the glob. *)
Pick(r) ==
    /\ At(r, "pick")
    /\ LET there == Among(report[r].names, Range(World.files))
       IN  Took(r, [report[r] EXCEPT
                       !.names = <<IF there = <<>> THEN Head(@) ELSE Last(there)>>])
    /\ UNCHANGED <<past, quiet, overlaps>>

(* The second os.Stat, whose error is dropped: the size of a file that is *)
(* gone by now is asked of a nil FileInfo.                                *)
StatAgain(r) ==
    /\ At(r, "again")
    /\ IF Range(report[r].names) \subseteq Range(World.files)
       THEN Took(r, report[r])
       ELSE Ended(r, "panic")
    /\ UNCHANGED <<past, quiet, overlaps>>

(* handleSnapshotDownload: 404 when the file is not there, 500 when it is *)
(* gone before it is opened.                                              *)
Look(r) ==
    /\ At(r, "look")
    /\ IF report[r].asked \in Range(World.files)
       THEN Took(r, [report[r] EXCEPT !.names = <<report[r].asked>>])
       ELSE Ended(r, "not found")
    /\ UNCHANGED <<past, quiet, overlaps>>

OpenFile(r) ==
    /\ At(r, "open")
    /\ IF report[r].asked \in Range(World.files) THEN Took(r, report[r]) ELSE Ended(r, "failed")
    /\ UNCHANGED <<past, quiet, overlaps>>

(* Pushes are counted once more. *)
CountTwice(r) ==
    /\ At(r, "count")
    /\ Took(r, [report[r] EXCEPT !.count = Len(World.files) + Len(Among(World.files, Pushes))])
    /\ UNCHANGED <<past, quiet, overlaps>>

Count(r) ==
    /\ At(r, "count")
    /\ LET counted == IF report[r].kind = "doctor" THEN Pushes ELSE Snapshots
       IN  Took(r, [report[r] EXCEPT !.count = Len(Among(World.files, counted))])
    /\ UNCHANGED <<past, quiet, overlaps>>

LookForConfig(r) ==
    /\ At(r, "config")
    /\ Took(r, [report[r] EXCEPT !.file = World.config.file])
    /\ UNCHANGED <<past, quiet, overlaps>>
-----------------------------------------------------------------------------
(* handleCheck silences the whole dashboard while it calls psql, and puts *)
(* back what it found.                                                    *)
Silenced(r) == report[r].kind = "apiCheck" /\ "speak" \in Range(report[r].left) /\ ~At(r, "note")

NoteQuiet(r) ==
    /\ At(r, "note")
    /\ Took(r, [report[r] EXCEPT !.old = quiet])
    /\ overlaps' = (overlaps \/ \E other \in Runs : Silenced(other))
    /\ UNCHANGED <<past, quiet>>

Hush(r) == /\ At(r, "hush")
           /\ quiet' = TRUE
           /\ Took(r, report[r])
           /\ UNCHANGED <<past, overlaps>>

(* The old value is not put back. *)
StaysQuiet(r) == /\ At(r, "speak")
                 /\ Took(r, report[r])
                 /\ UNCHANGED <<past, quiet, overlaps>>

Speak(r) == /\ At(r, "speak")
            /\ quiet' = report[r].old
            /\ Took(r, report[r])
            /\ UNCHANGED <<past, overlaps>>
-----------------------------------------------------------------------------
(* GET /api/detect: the servers that let somebody in. *)
Detect(r) ==
    /\ At(r, "detect")
    /\ LET scene == report[r].input
       IN  Took(r, [report[r] EXCEPT
                       !.found = DetectLocalDB(Tools(ConfigOf(r).machine), Users, scene.files, scene.tcp)])
    /\ UNCHANGED <<past, quiet, overlaps>>

(* What others do meanwhile. *)
Change(world) == /\ Len(past) <= MaxChanges
                 /\ \A r \in Runs : report[r].input \in Lively \cup {NoInput}
                 /\ world # World
                 /\ past' = Append(past, world)
                 /\ UNCHANGED <<quiet, report, overlaps>>

ChangeTable(d, t, state) == Change([World EXCEPT !.tables[d][t] = state])
ChangeRoad(road) == Change([World EXCEPT !.reach = SymDiff(@, {road})])
Configure(config) == Change([World EXCEPT !.config = config])

(* A snapshot is published under a name of its own, and it is the newest. *)
Publish(f) == /\ \A i \in DOMAIN past : f \notin Range(past[i].files)
              /\ Change([World EXCEPT !.files = Append(@, f)])

(* handleSnapshotDelete and applyRetention. *)
Delete(f) == Change([World EXCEPT !.files = Among(@, Snapshots \ {f})])

Step(r) == \/ AskLocal(r) \/ AskCloud(r) \/ Glob(r) \/ Stat(r) \/ Pick(r) \/ StatAgain(r)
           \/ Look(r) \/ OpenFile(r) \/ Count(r) \/ LookForConfig(r)
           \/ NoteQuiet(r) \/ Hush(r) \/ Speak(r) \/ Detect(r)

Next == \/ \E r \in Runs : Step(r)
        \/ \E r \in Runs, kind \in Kinds \ {"apiDownload", "apiDetect"} : Begin(r, kind)
        \/ \E r \in Runs, f \in Snapshots : BeginDownload(r, f)
        \/ \E r \in Runs, kind \in {"localTest", "remoteTest"} : BeginTest(r, kind)
        \/ \E r \in Runs : BeginDetect(r)
        \/ \E d \in Databases, t \in Tables, state \in TableStates : ChangeTable(d, t, state)
        \/ \E road \in Roads : ChangeRoad(road)
        \/ \E config \in Configs : Configure(config)
        \/ \E f \in Snapshots : Publish(f) \/ Delete(f)

Spec == Init /\ [][Next]_vars
-----------------------------------------------------------------------------
(* What a report says once it is done: the parts it looked at, those it    *)
(* complains about, and the tables it calls in sync.                       *)
Checks(kind, c) ==
    LET cloud == IF Configured(c) THEN {"cloud"} ELSE {}
    IN  CASE kind = "check" -> {"tools", "local"} \cup cloud
          [] kind \in {"status", "diff"} -> {"local"} \cup cloud
          [] kind = "doctor" -> {"config", "tools", "local", "backups"}
          [] kind = "apiDoctor" -> {"config", "tools", "local"} \cup cloud
          [] kind \in {"statusJson", "apiStatus", "apiCheck", "localTest"} -> {"local"}
          [] kind = "remoteTest" -> {"cloud"}
          [] kind = "apiDiff" -> {"cloud"} \cup IF Configured(c) THEN {"local"} ELSE {}
          [] OTHER -> {}

Passes(r, part) == CASE part = "tools" -> Tools(ConfigOf(r).machine) = ToolNames
                     [] part = "config" -> report[r].file
                     [] part = "local" -> report[r].local.ok
                     [] part = "cloud" -> report[r].cloud.ok
                     [] part = "backups" -> report[r].count > 0

Complaints(r) == {p \in Checks(report[r].kind, ConfigOf(r)) : ~Passes(r, p)}

(* diff compares how many tables there are, /api/diff their names. *)
Names(tables) == {t \in Tables : tables[t] # "absent"}

(* A side that did not answer has no tables. *)
SidesAgree(r) == Names(report[r].local.tables) = Names(report[r].cloud.tables)

InSync(r) ==
    /\ report[r].local.ok /\ report[r].cloud.ok
    /\ CASE report[r].kind = "diff" ->
              Cardinality(Names(report[r].local.tables)) = Cardinality(Names(report[r].cloud.tables))
         [] report[r].kind = "apiDiff" ->
              Names(report[r].local.tables) = Names(report[r].cloud.tables)

(* /api/status compares what pg_class counts: 0 rows, or less, for a table *)
(* that was never analyzed, and -1 where there is none or nobody answered. *)
Counted(answer, t) == CASE answer.tables[t] = "absent" -> -1
                        [] answer.tables[t] = "fresh" -> 0
                        [] answer.tables[t] = "full" -> 1
SyncedRows(r) == {t \in Tables : /\ Counted(report[r].rows, t) # -1
                                 /\ Counted(report[r].rows, t) = Counted(report[r].cloud, t)}
-----------------------------------------------------------------------------
TypeOK == /\ past \in Seq(WorldStates) /\ Len(past) \in 1 .. MaxChanges + 1
          /\ quiet \in BOOLEAN /\ overlaps \in BOOLEAN
          /\ \A r \in Runs :
                /\ report[r].kind \in Kinds \cup {"none"}
                /\ report[r].end \in {"none", "running", "done", "panic", "not found", "failed"}
                /\ Running(r) <=> report[r].left # <<>>
                /\ report[r].since \in 0 .. Len(past)
                /\ {report[r].local, report[r].rows, report[r].cloud} \subseteq Answers
                /\ Range(report[r].names) \subseteq Snapshots
                /\ report[r].count \in 0 .. Cardinality(Snapshots)
                /\ \A i \in DOMAIN report[r].found : report[r].found[i].user \in Range(Users)

Done(r, kind) == report[r].end = "done" /\ report[r].kind = kind
During(r) == {past[i] : i \in report[r].since .. Len(past)}

(* The state of the parts in one world, for a report: the roads that lead  *)
(* to the databases it asks about, and the database the local one leads to.*)
LocalWays(r) == IF GoesToTyped(r) THEN {"typed"}
                ELSE IF ConfigOf(r).near /\ report[r].kind # "apiCheck" THEN {"host", "socket"}
                ELSE {"host"}
LocalOf(w) == w.tables[IF "host" \in w.reach THEN "host" ELSE "socket"]

Holds(w, r, part) ==
    LET c == ConfigOf(r)
    IN  CASE part = "tools" -> \A t \in ToolNames :
                                 \/ t \in c.machine.named
                                 \/ \E dir \in Range(Dirs(c.machine)) : t \in c.machine.has[dir]
          [] part = "config" -> w.config.file
          [] part = "local" -> Psql(c) /\ LocalWays(r) \cap w.reach # {}
          [] part = "cloud" -> /\ Psql(c)
                               /\ report[r].asked = "saved" => Configured(c)
                               /\ CloudRoads(r) \cap w.reach # {}
          [] part = "backups" -> Pushes \cap Range(w.files) # {}

(* A report that ends in the world it began in tells the truth about it,   *)
(* whatever else is down: which parts fail, whether the databases are in   *)
(* sync as far as that report compares them, and which snapshots there     *)
(* are, newest first (status.go, snapshots.go, server.go:170-584).         *)
SteadyVerdicts ==
    \A r \in Runs : report[r].end = "done" /\ report[r].since = Len(past) =>
       /\ Complaints(r) = {p \in Checks(report[r].kind, ConfigOf(r)) : ~Holds(World, r, p)}
       /\ report[r].kind \in {"diff", "apiDiff"} =>
             (InSync(r) <=>
                 /\ Holds(World, r, "local") /\ Holds(World, r, "cloud")
                 /\ LET here == Names(LocalOf(World))
                        there == Names(World.tables["cloud"])
                    IN  IF report[r].kind = "diff" THEN Cardinality(here) = Cardinality(there)
                                                   ELSE here = there)
       /\ Done(r, "apiStatus") =>
             SyncedRows(r) = {t \in Tables :
                 /\ Holds(World, r, "local") /\ Holds(World, r, "cloud")
                 /\ LocalOf(World)[t] = World.tables["cloud"][t]
                 /\ LocalOf(World)[t] # "absent"}
       /\ Done(r, "snapshots") => report[r].names = Reverse(World.files)
       /\ Done(r, "apiSnapshots") => Range(report[r].names) = Range(World.files)
       /\ Done(r, "status") =>
             /\ report[r].count = Len(World.files)
             /\ \A f \in Pushes \cap Range(World.files) :
                   report[r].names # <<>> /\ ~\E i, j \in DOMAIN World.files :
                       i < j /\ World.files[i] = report[r].names[1] /\ World.files[j] \in Pushes

(* While the world changes under it, what a report says was still so at    *)
(* some moment of its time: each part it found was there, each part it     *)
(* misses was away on every way it may take, each table it calls in sync   *)
(* was so counted on each side, and a list leaves out no snapshot that was *)
(* there all along and names none that never was.                          *)
PartsWereTrue ==
    \A r \in Runs : report[r].end = "done" =>
       /\ \A p \in Checks(report[r].kind, ConfigOf(r)) :
             IF Passes(r, p) THEN \E w \in During(r) : Holds(w, r, p)
             ELSE IF p # "local" THEN \E w \in During(r) : ~Holds(w, r, p)
             ELSE Psql(ConfigOf(r)) => \A road \in LocalWays(r) : \E w \in During(r) : road \notin w.reach
       /\ report[r].kind \in {"diff", "apiDiff"} /\ InSync(r) =>
             \E w1, w2 \in During(r), d \in {"host", "socket"} :
                Cardinality(Names(w1.tables[d])) = Cardinality(Names(w2.tables["cloud"]))
       /\ Done(r, "apiStatus") => \A t \in SyncedRows(r) :
             \E w1, w2 \in During(r), d \in {"host", "socket"} :
                w1.tables[d][t] = w2.tables["cloud"][t] /\ w1.tables[d][t] # "absent"
       /\ report[r].kind \in {"snapshots", "apiSnapshots"} =>
             \A f \in Snapshots :
                /\ f \in Range(report[r].names) => \E w \in During(r) : f \in Range(w.files)
                /\ f \notin Range(report[r].names) => \E w \in During(r) : f \notin Range(w.files)

(* gaet snapshots and gaet status crash only when a snapshot is deleted    *)
(* while they run, by retention or from the dashboard (snapshots.go:50).   *)
PanicsOnlyUnderDeletion ==
    \A r \in Runs : report[r].end = "panic" =>
       \E i \in report[r].since .. Len(past) - 1 :
          \E f \in Range(report[r].names) :
             f \in Range(past[i].files) /\ f \notin Range(past[i + 1].files)

(* As long as no two checks of the dashboard were ever under way at once,  *)
(* its output is silenced only during a check (server.go:318, 329).        *)
QuietComesBack == ~overlaps /\ quiet => \E r \in Runs : Silenced(r)

(* Whatever the password, even of '@', ':' and '/', a setting that is      *)
(* typed as a URL is read as it was meant (pgurl.go:24), and whatever is   *)
(* accepted loses no part but its query.                                   *)
LosesOnlyQuery(url, c) ==
    \E colon, port \in BOOLEAN, i \in 0 .. Len(url) :
       LET userinfo == IF colon THEN c.user \o <<":">> \o c.password ELSE c.user \o c.password
           hostport == IF port THEN c.host \o <<":">> \o c.port ELSE c.host
       IN  url = userinfo \o <<"@">> \o (hostport \o <<"/">> \o (c.db \o After(url, i)))

ParsesWhatWasMeant ==
    \A r \in Runs : report[r].asked = "typed" =>
       LET c == ParseConnURL(report[r].input.url)
       IN  /\ report[r].input.meant.ok => c = report[r].input.meant
           /\ c.ok => c.host # <<>> /\ c.db # <<>> /\ LosesOnlyQuery(report[r].input.url, c)

(* What a detection that finds each server reports, of these sockets and   *)
(* TCP ports: the first user of the list whom a server lets in.            *)
Answering(files) == {i \in DOMAIN files : files[i].suffix # "lock" /\ files[i].answers # {}}
PortAt(f) == IF f.suffix = "odd" THEN "5432" ELSE f.suffix
Foremost(answers) == CHOOSE u \in answers : \A other \in answers :
                        \E i, j \in DOMAIN Users : i <= j /\ Users[i] = u /\ Users[j] = other

FindsEach(found, files, tcp) ==
    LET sockets == {PortAt(files[i]) : i \in Answering(files)}
    IN  /\ Len(found) = Cardinality(Ports(found))
        /\ Ports(found) = sockets \cup {p \in DOMAIN tcp : tcp[p] # {}}
        /\ \A instance \in Range(found) :
              /\ instance.isSocket <=> instance.port \in sockets
              /\ instance.user =
                    IF instance.isSocket
                    THEN Foremost(files[Min({i \in Answering(files) :
                                              PortAt(files[i]) = instance.port})].answers)
                    ELSE Foremost(tcp[instance.port])

(* Every port where some user is let in is reported once, by its socket if *)
(* that answers and by TCP only when the port is one of the five tried;    *)
(* the user is the first of the list whom the server lets in               *)
(* (detect.go:27-97).                                                      *)
DetectsEach ==
    \A r \in Runs : Done(r, "apiDetect") /\ Psql(ConfigOf(r)) =>
       FindsEach(report[r].found, report[r].input.files, report[r].input.tcp)
=============================================================================
