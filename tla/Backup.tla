------------------------------- MODULE Backup -------------------------------
(***************************************************************************)
(* The four pipelines of pkg/backup/backup.go (push, fetch, restore and    *)
(* the cron push) over the local and the cloud database and the snapshot   *)
(* directory, step by step: a step is one PostgreSQL tool call or one file *)
(* operation.  Tools fail in every way their exit codes allow, snapshots   *)
(* are deleted through the dashboard, applications write to the databases, *)
(* and a process may die between or during any two steps.                  *)
(*                                                                         *)
(* A database is the versions of its public tables; a snapshot file holds  *)
(* such a content and is whole or cut short.  The lock is exclusive here:  *)
(* what the lock file adds to that is the subject of FileLock.             *)
(***************************************************************************)
EXTENDS Integers, FiniteSets

CONSTANTS Runs,          \* pipeline runs: commands, cron jobs, requests
          Tables,        \* public tables
          MaxVersion,    \* versions a table goes through
          RetentionDays, \* GAET_RETENTION_DAYS
          None,
          MaxLocks, MaxWrites, MaxDeletes, MaxCrashes  \* bounds for TLC

ASSUME BackupAssumption == /\ MaxVersion \in Nat \ {0}
                           /\ RetentionDays \in Int
                           /\ MaxLocks \in Nat
                           /\ None \notin Runs

Kinds == {"push", "fetch", "restore", "cron"}
Databases == {"local", "cloud"}
Contents == [Tables -> 0 .. MaxVersion]     \* version 0: no such table
Empty == [t \in Tables |-> 0]

\* Where a pipeline loads to; push, fetch and cron dump the other database.
TargetOf(kind) == IF kind \in {"push", "cron"} THEN "cloud" ELSE "local"
SourceOf(kind) == IF kind \in {"push", "cron"} THEN "local" ELSE "cloud"

(***************************************************************************)
(* Snapshot files are named by a prefix and the second the run began; two  *)
(* runs are assumed not to take the lock within one second of each other.  *)
(* "tmp" is gaet_<stamp>.dump.tmp, the only name *.dump does not match.    *)
(***************************************************************************)
Prefixes == {"tmp", "gaet", "cloud", "cron", "safety"}
Keys == [prefix : Prefixes, stamp : 0 .. MaxLocks]
Files == [content : Contents, whole : BOOLEAN]
Key(prefix, stamp) == [prefix |-> prefix, stamp |-> stamp]

VARIABLES db,       \* the content of each database
          files,    \* the snapshot directory: a file for each key in it
          lock,     \* the run that owns the lock, or None
          run,      \* where each run stands
          clock,    \* the stamp of the latest run to take the lock
          orphans,  \* tools left running by a process that died
          wiped,    \* history: the latest reset of each database
          deleted,  \* history: keys deleted through the dashboard
          writes, crashes

vars == <<db, files, lock, run, clock, orphans, wiped, deleted, writes, crashes>>
counters == <<deleted, writes, crashes>>

(***************************************************************************)
(* A run: its stage, its stamp, the snapshot to restore, the content its   *)
(* archive is to bring, its safety snapshot, and (history) whether only it *)
(* has touched the target database since it last dumped or reset it.       *)
(***************************************************************************)
Stages == {"idle", "wait", "dump", "dumping", "check", "publish", "stat", "safety",
           "saving", "reset", "load", "cleanup", "retain", "done"}
RunStates == [kind : Kinds, stage : Stages, stamp : 0 .. MaxLocks,
              target : Keys \cup {None}, arch : Contents, safety : Keys \cup {None},
              alone : BOOLEAN, ok : BOOLEAN]
IdleRun == [kind |-> "push", stage |-> "idle", stamp |-> 0, target |-> None,
            arch |-> Empty, safety |-> None, alone |-> FALSE, ok |-> FALSE]

\* The stage after each stage, for each pipeline.
Order == [push    |-> [dump |-> "dumping", dumping |-> "check", check |-> "publish",
                       publish |-> "stat", stat |-> "reset", reset |-> "load",
                       load |-> "retain", retain |-> "done"],
          fetch   |-> [dump |-> "dumping", dumping |-> "stat", stat |-> "safety",
                       safety |-> "saving", saving |-> "reset", reset |-> "load",
                       load |-> "cleanup", cleanup |-> "done"],
          restore |-> [check |-> "safety", safety |-> "saving", saving |-> "reset",
                       reset |-> "load", load |-> "done"],
          cron    |-> [dump |-> "dumping", dumping |-> "check", check |-> "load",
                       load |-> "cleanup", cleanup |-> "done"]]

At(r, stage) == run[r].stage = stage
Next1(r) == Order[run[r].kind][run[r].stage]
Set(r, f) == run' = [run EXCEPT ![r] = f]
Go(r, stage) == Set(r, [run[r] EXCEPT !.stage = stage])
Fail(r) == Set(r, [run[r] EXCEPT !.stage = "done", !.ok = FALSE])

\* Dumps under a name that no pattern of the program matches.
DumpUnderOtherName(r) == Key("dump", run[r].stamp)

\* A push that dumps straight into gaet_<stamp>.dump.
DumpInPlace(r) == Key(IF run[r].kind = "push" THEN "gaet" ELSE run[r].kind, run[r].stamp)

\* The file a run dumps into, and the one it checks and loads.
DumpKey(r) == Key(CASE run[r].kind = "push"  -> "tmp"
                    [] run[r].kind = "fetch" -> "cloud"
                    [] OTHER                 -> "cron", run[r].stamp)
ArchiveKey(r) == CASE run[r].kind = "restore" -> run[r].target
                   [] run[r].kind = "push" /\ ~At(r, "check") -> Key("gaet", run[r].stamp)
                   [] OTHER -> DumpKey(r)

Exists(k) == k \in DOMAIN files
Write(k, f) == files' = [x \in DOMAIN files \cup {k} |-> IF x = k THEN f ELSE files[x]]
Remove(K) == files' = [x \in DOMAIN files \ K |-> files[x]]

Init == /\ db \in [Databases -> Contents]
        /\ files = [k \in {} |-> 0]
        /\ lock = None
        /\ run = [r \in Runs |-> IdleRun]
        /\ clock = 0
        /\ orphans = {}
        /\ wiped = [d \in Databases |-> None]
        /\ deleted = {}
        /\ writes = 0
        /\ crashes = 0
-----------------------------------------------------------------------------
\* A change of database d that is not run r's own.
Touched(d, r, f) == [q \in Runs |-> IF q # r /\ TargetOf(run[q].kind) = d
                                    THEN [f[q] EXCEPT !.alone = FALSE] ELSE f[q]]

\* push, fetch or cron is called.
Begin(r, kind) == /\ At(r, "idle")
                  /\ kind # "restore"
                  /\ Set(r, [IdleRun EXCEPT !.kind = kind, !.stage = "wait"])
                  /\ UNCHANGED <<db, files, lock, clock, orphans, wiped, counters>>

\* restore chooses its snapshot before it has the lock: the latest *.dump, one
\* with the given text in its name, or a path; cut short or not, any prefix.
Resolve(r, k) == /\ At(r, "idle")
                 /\ Exists(k)
                 /\ Set(r, [IdleRun EXCEPT !.kind = "restore", !.stage = "wait", !.target = k])
                 /\ UNCHANGED <<db, files, lock, clock, orphans, wiped, counters>>

\* Dry run, missing tools, no remote, "yes" not typed, or the lock is taken.
GiveUp(r) == /\ At(r, "wait")
             /\ Set(r, IdleRun)
             /\ UNCHANGED <<db, files, lock, clock, orphans, wiped, counters>>

TakeLock(r) ==
  /\ At(r, "wait")
  /\ lock = None
  /\ clock < MaxLocks
  /\ lock' = r
  /\ clock' = clock + 1
  /\ Set(r, [run[r] EXCEPT !.stage = IF run[r].kind = "restore" THEN "check" ELSE "dump",
                           !.stamp = clock + 1])
  /\ UNCHANGED <<db, files, orphans, wiped, counters>>

\* pg_dump starts, over TCP or, from "dumping", as the socket fallback after a
\* failure: it sees one consistent state of the source and writes it out bit by
\* bit.  (The code falls back once; a further one here repeats that attempt.)
BeginDump(r) ==
  LET source == db[SourceOf(run[r].kind)] IN
  /\ At(r, "dump") \/ At(r, "dumping")
  /\ Write(DumpKey(r), [content |-> source, whole |-> FALSE])
  /\ Set(r, [run[r] EXCEPT !.stage = "dumping", !.arch = source])
  /\ UNCHANGED <<db, lock, clock, orphans, wiped, counters>>

Completed(k) == [files[k] EXCEPT !.whole = TRUE]

\* A failed dump that returns before os.Remove.
EndDumpKeepsFile(r) ==
  /\ At(r, "dumping")
  /\ \/ Exists(DumpKey(r)) /\ Write(DumpKey(r), Completed(DumpKey(r))) /\ Go(r, Next1(r))
     \/ Fail(r) /\ UNCHANGED files
  /\ UNCHANGED <<db, lock, clock, orphans, wiped, counters>>

\* Exit code 0 and the file is there, or the attempt is over and removed.
EndDump(r) ==
  /\ At(r, "dumping")
  /\ \/ Exists(DumpKey(r)) /\ Write(DumpKey(r), Completed(DumpKey(r))) /\ Go(r, Next1(r))
     \/ Remove({DumpKey(r)}) /\ Fail(r)
  /\ UNCHANGED <<db, lock, clock, orphans, wiped, counters>>

\* pg_restore --list reads the table of contents at the head of the file, so
\* a file cut short may pass; it may also fail, or time out, on a whole one.
Check(r) ==
  /\ At(r, "check")
  /\ \/ /\ Exists(ArchiveKey(r))
        /\ Set(r, [run[r] EXCEPT !.stage = Next1(r), !.arch = files[ArchiveKey(r)].content])
        /\ UNCHANGED files
     \/ /\ Fail(r)
        /\ IF run[r].kind = "restore" THEN UNCHANGED files ELSE Remove({DumpKey(r)})
  /\ UNCHANGED <<db, lock, clock, orphans, wiped, counters>>

\* push renames gaet_<stamp>.dump.tmp to gaet_<stamp>.dump.
Publish(r) ==
  LET tmp == DumpKey(r) final == Key("gaet", run[r].stamp) IN
  /\ At(r, "publish")
  /\ \/ /\ Exists(tmp)
        /\ files' = [x \in (DOMAIN files \ {tmp}) \cup {final} |->
                       IF x = final THEN files[tmp] ELSE files[x]]
        /\ Go(r, Next1(r))
     \/ Remove({tmp}) /\ Fail(r)
  /\ UNCHANGED <<db, lock, clock, orphans, wiped, counters>>

\* fi, _ := os.Stat(file); fi.Size(): a file deleted in the meantime is a nil
\* dereference, a panic that still runs the deferred Release.
StatDump(r) ==
  /\ At(r, "stat")
  /\ \/ Exists(ArchiveKey(r)) /\ Go(r, Next1(r)) /\ UNCHANGED lock
     \/ ~Exists(ArchiveKey(r)) /\ Set(r, IdleRun) /\ lock' = None
  /\ UNCHANGED <<db, files, clock, orphans, wiped, counters>>

SafetyKey(r) == Key("safety", run[r].stamp)

BeginSafety(r) ==
  /\ At(r, "safety")
  /\ Write(SafetyKey(r), [content |-> db["local"], whole |-> FALSE])
  /\ Set(r, [run[r] EXCEPT !.stage = "saving", !.alone = TRUE])
  /\ UNCHANGED <<db, lock, clock, orphans, wiped, counters>>

\* A safety dump whose exit code nobody looks at.
EndSafetyUnchecked(r) ==
  /\ At(r, "saving")
  /\ Set(r, [run[r] EXCEPT !.stage = "reset", !.safety = SafetyKey(r)])
  /\ \/ Exists(SafetyKey(r)) /\ Write(SafetyKey(r), Completed(SafetyKey(r)))
     \/ UNCHANGED files
  /\ UNCHANGED <<db, lock, clock, orphans, wiped, counters>>

\* pg_dump and then --list succeed, or the file is removed.  Without a safety
\* snapshot the pipeline warns and goes on.
EndSafety(r) ==
  /\ At(r, "saving")
  /\ \/ /\ Exists(SafetyKey(r))
        /\ Write(SafetyKey(r), Completed(SafetyKey(r)))
        /\ Set(r, [run[r] EXCEPT !.stage = "reset", !.safety = SafetyKey(r)])
     \/ /\ Remove({SafetyKey(r)})
        /\ Go(r, "reset")
  /\ UNCHANGED <<db, lock, clock, orphans, wiped, counters>>

\* What a reset of run r's target leaves to come back from: a push has the
\* snapshot it is about to load, the others the safety snapshot, if any.
Wipe(r) == IF run[r].kind = "push"
           THEN [keep |-> Key("gaet", run[r].stamp), content |-> run[r].arch, sure |-> TRUE]
           ELSE [keep |-> run[r].safety, content |-> db["local"], sure |-> run[r].alone]

\* The reset is sent to the database the archive came from.
ResetSource(r) ==
  LET d == SourceOf(run[r].kind) IN
  /\ At(r, "reset")
  /\ wiped' = [wiped EXCEPT ![d] = Wipe(r)]
  /\ db' = [db EXCEPT ![d] = Empty]
  /\ run' = Touched(d, r, [run EXCEPT ![r].stage = "load", ![r].alone = TRUE])
  /\ UNCHANGED <<files, lock, clock, orphans, counters>>

\* resetTargetObjects drops every table, view and sequence in one statement.
\* A reset reported as failed (timeout, lost connection) may have committed.
Reset(r) ==
  LET d == TargetOf(run[r].kind) IN
  /\ At(r, "reset")
  /\ wiped' = [wiped EXCEPT ![d] = Wipe(r)]
  /\ \/ /\ db' = [db EXCEPT ![d] = Empty]
        /\ run' = Touched(d, r, [run EXCEPT ![r].stage = "load", ![r].alone = TRUE])
     \/ /\ db' \in {db, [db EXCEPT ![d] = Empty]}
        /\ run' = Touched(d, r, [run EXCEPT ![r].stage = "done", ![r].ok = FALSE])
  /\ UNCHANGED <<files, lock, clock, orphans, counters>>

\* pg_restore creates the archive's tables, an error if one is there already;
\* with --clean (cron) it replaces those.
Overlay(base, arch) == [t \in Tables |-> IF arch[t] # 0 THEN arch[t] ELSE base[t]]
NoClash(base, arch) == \A t \in Tables : arch[t] = 0 \/ base[t] = 0

\* A failed pg_restore has brought in some tables, and --clean dropped some.
Partly(base, arch, clean) ==
  {c \in Contents : \A t \in Tables :
     c[t] \in {base[t]} \cup (IF arch[t] # 0 THEN {arch[t]} ELSE {})
                        \cup (IF clean /\ arch[t] # 0 THEN {0} ELSE {})}

Loads(r) == IF Exists(ArchiveKey(r))
            THEN Partly(db[TargetOf(run[r].kind)], files[ArchiveKey(r)].content,
                        run[r].kind = "cron")
            ELSE {db[TargetOf(run[r].kind)]}

\* fetch and cron remove their dump whether the load worked or not.
Load(r) ==
  LET d == TargetOf(run[r].kind) k == ArchiveKey(r) IN
  /\ At(r, "load")
  /\ \/ /\ Exists(k) /\ files[k].whole
        /\ run[r].kind = "cron" \/ NoClash(db[d], files[k].content)
        /\ db' = [db EXCEPT ![d] = Overlay(db[d], files[k].content)]
        /\ run' = Touched(d, r, [run EXCEPT ![r].stage = Next1(r), ![r].ok = TRUE,
                                 ![r].alone = @ \/ run[r].kind = "cron"])
     \/ /\ \E c \in Loads(r) : db' = [db EXCEPT ![d] = c]
        /\ run' = Touched(d, r, [run EXCEPT ![r].ok = FALSE, ![r].stage =
                    IF run[r].kind \in {"fetch", "cron"} THEN "cleanup" ELSE "done"])
  /\ UNCHANGED <<files, lock, clock, orphans, wiped, counters>>

Cleanup(r) == /\ At(r, "cleanup")
              /\ Remove({DumpKey(r)})
              /\ Go(r, "done")
              /\ UNCHANGED <<db, lock, clock, orphans, wiped, counters>>

\* applyRetention, after a successful push only.  Any of the earlier runs may
\* be days ago; this run's own snapshot is minutes old, which counts as old
\* when RetentionDays is zero or less.
Retain(r) ==
  /\ At(r, "retain")
  /\ \E cutoff \in IF RetentionDays > 0 THEN 0 .. run[r].stamp - 1 ELSE {run[r].stamp} :
       Remove({k \in DOMAIN files : /\ k.prefix \in {"gaet", "cron", "cloud"}
                                    /\ k.stamp <= cutoff})
  /\ Go(r, "done")
  /\ UNCHANGED <<db, lock, clock, orphans, wiped, counters>>

\* A return on a path that never reached the deferred Release.
FinishKeepsLock(r) == /\ At(r, "done")
                      /\ Set(r, IdleRun)
                      /\ lock' = IF run[r].ok THEN None ELSE lock
                      /\ UNCHANGED <<db, files, clock, orphans, wiped, counters>>

\* The pipeline returns its result and the deferred Release runs.
Finish(r) == /\ At(r, "done")
             /\ Set(r, IdleRun)
             /\ lock' = None
             /\ UNCHANGED <<db, files, clock, orphans, wiped, counters>>
-----------------------------------------------------------------------------
\* The process of run r dies.  The tool it was running has a process group of
\* its own and may live on: a dump may still complete its file, a psql or
\* pg_restore becomes an orphan.  The lock is stale and as good as free.
Crash(r) ==
  LET d == TargetOf(run[r].kind)
      tool == [stage |-> run[r].stage, db |-> d, arch |-> run[r].arch]
      k == IF At(r, "saving") THEN SafetyKey(r) ELSE DumpKey(r) IN
  /\ ~At(r, "idle")
  /\ crashes < MaxCrashes
  /\ crashes' = crashes + 1
  /\ lock' = IF lock = r THEN None ELSE lock
  /\ \/ (At(r, "dumping") \/ At(r, "saving")) /\ Exists(k) /\ Write(k, Completed(k))
     \/ UNCHANGED files
  /\ IF At(r, "load")
     THEN /\ \E c \in Loads(r) : db' = [db EXCEPT ![d] = c]
          /\ run' = Touched(d, r, [run EXCEPT ![r] = IdleRun])
     ELSE /\ UNCHANGED db
          /\ Set(r, IdleRun)
  /\ wiped' = IF At(r, "reset") THEN [wiped EXCEPT ![d] = Wipe(r)] ELSE wiped
  /\ orphans' \in {orphans} \cup
       IF At(r, "reset") \/ (At(r, "load") /\ Exists(ArchiveKey(r)))
       THEN {orphans \cup {tool}} ELSE {}
  /\ UNCHANGED <<clock, deleted, writes>>

\* An orphaned psql or pg_restore gets its work done after all.
Orphan(o) ==
  /\ db' = [db EXCEPT ![o.db] = IF o.stage = "reset" THEN Empty ELSE Overlay(@, o.arch)]
  /\ orphans' = orphans \ {o}
  /\ run' = Touched(o.db, None, run)
  /\ UNCHANGED <<files, lock, clock, wiped, counters>>

\* An application changes a table.
AppWrite(d, t) ==
  /\ writes < MaxWrites
  /\ writes' = writes + 1
  /\ \E v \in 0 .. MaxVersion \ {db[d][t]} : db' = [db EXCEPT ![d][t] = v]
  /\ run' = Touched(d, None, run)
  /\ UNCHANGED <<files, lock, clock, orphans, wiped, deleted, crashes>>

\* POST /api/snapshots/delete takes no lock and any name in the directory.
Delete(k) == /\ Cardinality(deleted) < MaxDeletes
             /\ Exists(k)
             /\ Remove({k})
             /\ deleted' = deleted \cup {k}
             /\ UNCHANGED <<db, lock, run, clock, orphans, wiped, writes, crashes>>
-----------------------------------------------------------------------------
Step(r) == \/ GiveUp(r) \/ TakeLock(r) \/ BeginDump(r) \/ EndDump(r) \/ Check(r)
           \/ Publish(r) \/ StatDump(r) \/ BeginSafety(r) \/ EndSafety(r) \/ Reset(r)
           \/ Load(r) \/ Cleanup(r) \/ Retain(r) \/ Finish(r)

Next == \/ \E r \in Runs, kind \in Kinds : Begin(r, kind)
        \/ \E r \in Runs, k \in DOMAIN files : Resolve(r, k)
        \/ \E r \in Runs : Step(r) \/ Crash(r)
        \/ \E o \in orphans : Orphan(o)
        \/ \E d \in Databases, t \in Tables : AppWrite(d, t)
        \/ \E k \in DOMAIN files : Delete(k)

Spec == Init /\ [][Next]_vars

(***************************************************************************)
(* Fairness: a run that has begun goes on.  RunCmd kills a tool at its     *)
(* timeout, so no call blocks for ever, and AcquireLock never waits.       *)
(***************************************************************************)
FairSpec == Spec /\ \A r \in Runs : WF_vars(Step(r))
-----------------------------------------------------------------------------
(***************************************************************************)
(* Properties                                                              *)
(***************************************************************************)
\* The type of every variable; in particular every file in the directory has
\* one of the names retention, globDumps and the dashboard know about.
TypeOK == /\ db \in [Databases -> Contents]
          /\ DOMAIN files \subseteq Keys
          /\ \A k \in DOMAIN files : files[k] \in Files
          /\ lock \in Runs \cup {None}
          /\ run \in [Runs -> RunStates]
          /\ clock \in 0 .. MaxLocks
          /\ deleted \subseteq Keys

\* backup.go:102 "Verify integrity BEFORE publishing the snapshot (atomic
\* rename)": whatever crashes, fails or is deleted, no gaet_*.dump that
\* `restore latest` could pick is ever cut short.
PublishedWhole == \A k \in DOMAIN files : k.prefix = "gaet" => files[k].whole

\* A pipeline that reports success leaves its target as the archive it loaded,
\* no table missing, none left over (cron, which does not reset, promises the
\* archive's tables only), unless an application, another operation or an
\* orphaned tool changed the target meanwhile.
SuccessMirrors ==
  \A r \in Runs : run[r].ok /\ run[r].alone =>
    \A t \in Tables :
      \/ run[r].kind = "cron" /\ run[r].arch[t] = 0
      \/ db[TargetOf(run[r].kind)][t] = run[r].arch[t]

\* After a reset, in whatever way the load then fails or the process dies, the
\* snapshot named to come back from (resetFailedError) is there, whole, and
\* holds what the reset dropped; retention of later pushes never takes it.
\* Exempt: a reset without a safety snapshot, and deletion by the user.
RecoveryPoint ==
  \A d \in Databases :
    wiped[d] # None /\ wiped[d].keep # None /\ wiped[d].keep \notin deleted =>
      /\ Exists(wiped[d].keep)
      /\ files[wiped[d].keep].whole
      /\ wiped[d].sure => files[wiped[d].keep].content = wiped[d].content

\* Unless a process has died, no error path leaves a cut dump or a temporary
\* file behind, as the os.Remove on every one of them intends.
WholeWhenQuiet ==
  crashes = 0 /\ lock = None =>
    \A k \in DOMAIN files : files[k].whole /\ k.prefix \notin {"tmp", "cron"}

\* Every operation ends and gives the lock back, on each of its failure paths
\* and the panic of StatDump included, so that the next one is not refused.
EveryRunEnds == \A r \in Runs : ~At(r, "idle") ~> (At(r, "idle") /\ lock # r)

\* The comment of RunRestore (backup.go:405): "snapshot the current DB before
\* the destructive reset, so a failed restore does not leave the database
\* emptied with no recovery point".
NoResetWithoutRecovery ==
  \A r \in Runs : run[r].kind = "restore" /\ At(r, "done") /\ ~run[r].ok /\ run[r].alone =>
    \/ db["local"] # Empty
    \/ wiped["local"].content = Empty
    \/ wiped["local"].keep # None
============================================================================
