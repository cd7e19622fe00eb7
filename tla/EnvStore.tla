------------------------------ MODULE EnvStore ------------------------------
(***************************************************************************)
(* The settings of gaet: the file ~/.gaet/.env, which several processes    *)
(* read, change and write back without a lock, and the environment of the  *)
(* dashboard process, which takes precedence over the file (GetEnvStr).    *)
(*                                                                         *)
(*   set       gaet set KEY=value ... (RunSet)                             *)
(*   remote    gaet remote set-url, remove (SetEnvKey)                     *)
(*   init      gaet init, non-interactive (runNonInteractive)              *)
(*   config    POST /api/config of the dashboard (handleConfig)            *)
(*   schedule  POST /api/schedule of the dashboard (handleSchedule)        *)
(*                                                                         *)
(* All write the same way: open with O_TRUNC, then one write at offset 0.  *)
(* Four keys stand for all: GAET_LOCAL_URL, GAET_LOCAL_DB_HOST (for PORT,  *)
(* USER, NAME and PASS too), GAET_REMOTE_URL, and GAET_AUTO_BACKUP_HOURS   *)
(* (for every other key).  A URL is the host in it, and is valid.          *)
(***************************************************************************)
EXTENDS Integers, FiniteSets

CONSTANTS Writers,     \* invocations and requests under way at a time
          Values,
          Sockets,     \* values that are socket directories
          DefaultHost, \* 127.0.0.1
          Kinds,       \* the operations that happen, out of AllKinds
          AskedSets,   \* the sets of keys that set and config are asked to change
          Faults,      \* out of "read", "open", "write", "crash"
          None,        \* no such key
          MaxOps       \* bound for TLC

AllKinds == {"set", "remote", "init", "config", "schedule"}
Dashboard == {"config", "schedule"}   \* kinds that run in its process

ASSUME EnvStoreAssumption == /\ Kinds \subseteq AllKinds
                             /\ Sockets \subseteq Values
                             /\ DefaultHost \in Values
                             /\ None \notin Values
                             /\ {"keep", "unset"} \cap Values = {}
                             /\ MaxOps \in Nat

VARIABLES file,   \* what LoadEnv would find in .env
          env,    \* what the dashboard has put into its environment
          op,     \* what each writer is doing
          ops,    \* number of operations so far
          strayed \* history: an operation outside the dashboard wrote, two
                  \* operations overlapped, or one failed, since it started

vars == <<file, env, op, ops, strayed>>

Keys == {"url", "host", "remote", "hours"}
Contents == [Keys -> Values \cup {None}]
Blank == [k \in Keys |-> None]

\* What an operation is asked to do to each key: "keep" is a key that is not
\* mentioned (or posted masked), "unset" one given as KEY= .
Requests == [Keys -> Values \cup {"keep", "unset"}]
Nothing == [k \in Keys |-> "keep"]
Asked(q) == {k \in Keys : q[k] # "keep"}

Stages == {"idle", "read", "open", "write", "done"}
OpStates == [kind : AllKinds, stage : Stages, asked : Requests, before : Contents,
             next : Contents, alone : BOOLEAN, ok : BOOLEAN]
IdleOp == [kind |-> "set", stage |-> "idle", asked |-> Nothing, before |-> Blank,
           next |-> Blank, alone |-> FALSE, ok |-> FALSE]

At(w, stage) == op[w].stage = stage
Busy(w) == ~At(w, "idle")
-----------------------------------------------------------------------------
(***************************************************************************)
(* What each operation makes of the file it has read.                      *)
(***************************************************************************)
\* GetLocalDB: GAET_LOCAL_DB_HOST overrides the URL.
LocalHost(c) == IF c["host"] # None THEN c["host"]
                ELSE IF c["url"] # None THEN c["url"] ELSE DefaultHost

\* The keys that are not mentioned do not make it to the new file.
ApplyAlone(c, q) == [k \in Keys |-> IF q[k] \in Values THEN q[k] ELSE None]

Apply(c, q) == [k \in Keys |-> CASE q[k] = "keep"  -> c[k]
                                 [] q[k] = "unset" -> None
                                 [] OTHER          -> q[k]]

\* RunSet deletes the URL when it sets a host, a URL of the same call included.
SetContent(c, q) ==
  IF q["host"] \in Values THEN [Apply(c, q) EXCEPT !["url"] = None] ELSE Apply(c, q)

\* The posted URL is stored and its parts are not.
PostedOnly(c, q) == Apply(c, q)

\* handleConfig copies the parts of the URL, posted or not, over the host.
ConfigContent(c, q) ==
  LET new == Apply(c, q) IN
  IF new["url"] # None THEN [new EXCEPT !["host"] = new["url"]] ELSE new

\* buildEnvContent: a URL, or the host if that is a socket; other keys go.
InitContent(c) ==
  LET h == LocalHost(c) IN
  [Blank EXCEPT !["remote"] = c["remote"],
                !["host"] = IF h \in Sockets THEN h ELSE None,
                !["url"] = IF h \in Sockets THEN None ELSE h]

Content(kind, c, q) == CASE kind = "set"    -> SetContent(c, q)
                         [] kind = "config" -> ConfigContent(c, q)
                         [] kind = "init"   -> InitContent(c)
                         [] OTHER           -> Apply(c, q)

\* os.Setenv for what is posted only, and not for the host of the URL.
EnvOfPosted(e, new, q) == Apply(e, q)

\* os.Setenv and os.Unsetenv in handleConfig.
EnvAfter(e, new, q) ==
  IF new["url"] # None THEN [Apply(e, q) EXCEPT !["host"] = new["url"]] ELSE Apply(e, q)
-----------------------------------------------------------------------------
Init == /\ file \in Contents
        /\ env = Blank
        /\ op = [w \in Writers |-> IdleOp]
        /\ ops = 0
        /\ strayed = FALSE

\* remote and schedule ask for one key of their own, init for nothing.
AskableBy(kind) ==
  CASE kind = "init"     -> {Nothing}
    [] kind = "remote"   -> {[Nothing EXCEPT !["remote"] = v] : v \in Values \cup {"unset"}}
    [] kind = "schedule" -> {[Nothing EXCEPT !["hours"] = v] : v \in Values}
    [] OTHER             -> {q \in Requests : Asked(q) \in AskedSets}

Begin(w, kind, q) ==
  /\ At(w, "idle")
  /\ ops < MaxOps
  /\ ops' = ops + 1
  /\ op' = [op EXCEPT ![w] = [IdleOp EXCEPT !.kind = kind, !.asked = q, !.stage = "read"]]
  /\ UNCHANGED <<file, env, strayed>>

Writing(w) == At(w, "write")
Under(w) == ~At(w, "idle") /\ ~At(w, "read")   \* it has read the file

\* The operation reads c for the file and works out the new content.
ReadAs(w, c) ==
  LET o == op[w]
      new == Content(o.kind, c, o.asked) IN
  /\ op' = [op EXCEPT ![w] =
              [@ EXCEPT !.stage = "open", !.before = file, !.next = new,
                        !.alone = (c = file) /\ ~\E x \in Writers : Writing(x)]]
  /\ env' = IF o.kind = "config" THEN EnvAfter(env, new, o.asked) ELSE env

Read(w) == /\ At(w, "read")
           /\ ReadAs(w, file)
           /\ UNCHANGED <<file, ops, strayed>>

\* handleConfig sets a key in the nil map of a file that it could not read: the
\* panic ends the request, some keys given as KEY= being already unset.
Panics(w) == /\ op' = [op EXCEPT ![w].stage = "done"]
             /\ \E gone \in SUBSET {k \in Keys : op[w].asked[k] = "unset"} :
                  env' = [k \in Keys |-> IF k \in gone THEN None ELSE env[k]]

\* The file exists but cannot be opened: it is taken for an empty one, but
\* RunRemote looks at it twice, and gives up if it fails the first time.
ReadFails(w) ==
  /\ "read" \in Faults
  /\ At(w, "read")
  /\ \/ /\ op[w].kind # "config"
        /\ ReadAs(w, Blank)
     \/ /\ op[w].kind = "remote"
        /\ op' = [op EXCEPT ![w].stage = "done"]
        /\ UNCHANGED env
     \/ /\ op[w].kind = "config"
        /\ IF \E k \in Keys : op[w].asked[k] \in Values THEN Panics(w) ELSE ReadAs(w, Blank)
  /\ UNCHANGED <<file, ops, strayed>>

\* A change of the file is a change under every other operation that has
\* read it and is not done with.
Disturb(w, o) == [x \in Writers |->
                    IF x # w /\ Under(x)
                    THEN [o[x] EXCEPT !.alone = FALSE] ELSE o[x]]

\* Open with O_TRUNC; an error leaves the file as it is.
Open(w) ==
  /\ At(w, "open")
  /\ \/ /\ file' = Blank
        /\ op' = Disturb(w, [op EXCEPT ![w].stage = "write"])
     \/ /\ "open" \in Faults
        /\ op' = [op EXCEPT ![w].stage = "done"]
        /\ UNCHANGED file
  /\ UNCHANGED <<env, ops, strayed>>

\* A write at offset 0 of a file that another writer filled since: the end of
\* the other content stays, and the last line of a key counts.
Mixed(new, old) ==
  {[k \in Keys |-> IF k \in T THEN old[k] ELSE new[k]] :
     T \in SUBSET {k \in Keys : old[k] # None}}

\* One write; when it fails (disk full) nothing has been written.
Write(w) ==
  /\ At(w, "write")
  /\ \/ /\ file' \in Mixed(op[w].next, file)
        /\ op' = Disturb(w, [op EXCEPT ![w] = [@ EXCEPT !.stage = "done", !.ok = TRUE]])
     \/ /\ "write" \in Faults
        /\ op' = [op EXCEPT ![w].stage = "done"]
        /\ UNCHANGED file
  /\ UNCHANGED <<env, ops, strayed>>

\* The operation returns; handleSchedule sets the hours whether saved or not.
Return(w) ==
  LET o == op[w] IN
  /\ At(w, "done")
  /\ op' = [op EXCEPT ![w] = IdleOp]
  /\ env' = IF o.kind = "schedule" THEN Apply(env, o.asked) ELSE env
  /\ strayed' = \/ strayed \/ ~o.ok \/ ~o.alone \/ o.kind \notin Dashboard
                \/ \E x \in Writers \ {w} : Under(x)
  /\ UNCHANGED <<file, ops>>

\* A command is killed.
Crash(w) ==
  /\ "crash" \in Faults
  /\ Busy(w) /\ op[w].kind \notin Dashboard
  /\ op' = [op EXCEPT ![w] = IdleOp]
  /\ strayed' = TRUE
  /\ UNCHANGED <<file, env, ops>>

\* The dashboard is killed and started again, with a fresh environment.
RestartDashboard ==
  /\ "crash" \in Faults
  /\ env' = Blank
  /\ op' = [w \in Writers |-> IF op[w].kind \in Dashboard THEN IdleOp ELSE op[w]]
  /\ strayed' = \E w \in Writers : Busy(w)
  /\ UNCHANGED <<file, ops>>

Step(w) == Read(w) \/ ReadFails(w) \/ Open(w) \/ Write(w) \/ Return(w)

Next == \/ \E w \in Writers, kind \in Kinds : \E q \in AskableBy(kind) : Begin(w, kind, q)
        \/ \E w \in Writers : Step(w) \/ Crash(w)
        \/ RestartDashboard

Spec == Init /\ [][Next]_vars
-----------------------------------------------------------------------------
(***************************************************************************)
(* Properties                                                              *)
(***************************************************************************)
\* The type of every variable.
TypeOK == /\ file \in Contents
          /\ env \in Contents
          /\ op \in [Writers -> OpStates]
          /\ ops \in 0 .. MaxOps
          /\ strayed \in BOOLEAN

\* The operation has succeeded, and nothing else wrote meanwhile.
Undisturbed(w) == At(w, "done") /\ op[w].ok /\ op[w].alone

\* SetEnvKey (env.go:80) and RunSet change what they are asked to and keep the
\* rest: of the other keys only those go that would contradict the new ones, a
\* URL beside a host that was set, a host beside a URL that was posted.
OthersKept ==
  \A w \in Writers : Undisturbed(w) /\ op[w].kind # "init" =>
    \A k \in Keys \ Asked(op[w].asked) :
      \/ file[k] = op[w].before[k]
      \/ k = "url" /\ op[w].kind = "set" /\ op[w].asked["host"] \in Values
      \/ k = "host" /\ op[w].kind = "config" /\ file["url"] = file["host"]

\* The local database the next command works on is the one asked for: by
\* `gaet set GAET_LOCAL_DB_HOST` or by a URL posted to the dashboard, though the
\* host overrides the URL; and `gaet init` leaves both databases as they were.
TakesEffect ==
  \A w \in Writers : Undisturbed(w) =>
    LET o == op[w] IN
    /\ o.kind = "set" /\ o.asked["host"] \in Values => LocalHost(file) = o.asked["host"]
    /\ o.kind = "config" /\ o.asked["url"] \in Values => LocalHost(file) = o.asked["url"]
    /\ o.kind = "init" => /\ LocalHost(file) = LocalHost(o.before)
                          /\ file["remote"] = o.before["remote"]

\* While the dashboard alone changes the settings, one request at a time and
\* without failures, its environment, which no restart would bring back, agrees
\* with the file: it works on the databases that a command would work on.
DashboardAgrees ==
  ~strayed /\ (\A w \in Writers : ~Busy(w)) =>
    \A k \in Keys : env[k] # None => env[k] = file[k]
============================================================================
