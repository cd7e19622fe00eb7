---------------------------- MODULE BackupProofs ----------------------------
(***************************************************************************)
(* Proofs about Backup for any runs, tables, versions, retention and       *)
(* crashes: every safety property that the runs check.                     *)
(*                                                                         *)
(* The argument: a run that works owns the lock, and its stamp is the      *)
(* latest one (StampInv), so the names it writes are its own and no other  *)
(* run touches its target.  Hence the archive of a run, while it holds     *)
(* one, is the content it dumped or chose (ArchInv); a load into a         *)
(* database that was just reset makes it that content (MirrorInv); the     *)
(* snapshot that is named at a reset is whole, and later runs, under later *)
(* stamps, neither overwrite nor clean it away (RecoveryInv); and the      *)
(* files that are temporary or cut short are in use by the owner           *)
(* (LitterInv).  Each group is inductive relative to those before it.      *)
(***************************************************************************)
EXTENDS Backup, TLAPS

\* The stages a pipeline of a kind goes through.
StagesOf(kind) ==
  {"idle", "wait", "done"} \cup
  CASE kind = "push"    -> {"dump", "dumping", "check", "publish", "stat", "reset", "load", "retain"}
    [] kind = "fetch"   -> {"dump", "dumping", "stat", "safety", "saving", "reset", "load", "cleanup"}
    [] kind = "restore" -> {"check", "safety", "saving", "reset", "load"}
    [] OTHER            -> {"dump", "dumping", "check", "load", "cleanup"}

\* The tools that outlive their process.
Orphans == [stage : Stages, db : Databases, arch : Contents]
OrphansOK == orphans \subseteq Orphans
Fit == \A r \in Runs : run[r].stage \in StagesOf(run[r].kind)

TypeInv == TypeOK /\ crashes \in Nat /\ OrphansOK /\ Fit

-----------------------------------------------------------------------------
\* The order of the stages, as far as the steps use it.
LEMMA NextStage ==
  ASSUME NEW r \in Runs, run[r].kind \in Kinds
  PROVE  /\ run[r].kind = "push" =>
              /\ At(r, "dumping") => Next1(r) = "check"
              /\ At(r, "check") => Next1(r) = "publish"
              /\ At(r, "publish") => Next1(r) = "stat"
              /\ At(r, "stat") => Next1(r) = "reset"
              /\ At(r, "load") => Next1(r) = "retain"
         /\ run[r].kind = "fetch" =>
              /\ At(r, "dumping") => Next1(r) = "stat"
              /\ At(r, "stat") => Next1(r) = "safety"
              /\ At(r, "load") => Next1(r) = "cleanup"
         /\ run[r].kind = "restore" =>
              /\ At(r, "check") => Next1(r) = "safety"
              /\ At(r, "load") => Next1(r) = "done"
         /\ run[r].kind = "cron" =>
              /\ At(r, "dumping") => Next1(r) = "check"
              /\ At(r, "check") => Next1(r) = "load"
              /\ At(r, "load") => Next1(r) = "cleanup"
<1>1. CASE run[r].kind = "push"
  <2>1. Order[run[r].kind] = Order.push
    BY <1>1
  <2>. QED
    BY <1>1, <2>1 DEF Next1, Order, At
<1>2. CASE run[r].kind = "fetch"
  BY <1>2 DEF Next1, Order, At
<1>3. CASE run[r].kind = "restore"
  BY <1>3 DEF Next1, Order, At
<1>4. CASE run[r].kind = "cron"
  BY <1>4 DEF Next1, Order, At
<1>. QED
  BY <1>1, <1>2, <1>3, <1>4 DEF Kinds

\* What the helpers of Backup do to the runs and to the files.
LEMMA SetEffect ==
  ASSUME TypeOK, NEW r \in Runs, NEW f, Set(r, f)
  PROVE  /\ run'[r] = f
         /\ \A q \in Runs \ {r} : run'[q] = run[q]
         /\ f \in RunStates => run' \in [Runs -> RunStates]
BY DEF TypeOK, Set

LEMMA WriteEffect ==
  ASSUME NEW k, NEW f, Write(k, f)
  PROVE  /\ DOMAIN files' = DOMAIN files \cup {k}
         /\ files'[k] = f
         /\ \A x \in DOMAIN files \ {k} : files'[x] = files[x]
BY DEF Write

LEMMA RemoveEffect ==
  ASSUME NEW K, Remove(K)
  PROVE  /\ DOMAIN files' = DOMAIN files \ K
         /\ \A x \in DOMAIN files' : files'[x] = files[x]
BY DEF Remove

LEMMA TouchedEffect ==
  ASSUME NEW d, NEW r, NEW f \in [Runs -> RunStates], run' = Touched(d, r, f)
  PROVE  /\ run' \in [Runs -> RunStates]
         /\ \A q \in Runs :
              /\ run'[q].kind = f[q].kind
              /\ run'[q].stage = f[q].stage
              /\ run'[q].stamp = f[q].stamp
              /\ run'[q].target = f[q].target
              /\ run'[q].arch = f[q].arch
              /\ run'[q].safety = f[q].safety
              /\ run'[q].ok = f[q].ok
              /\ run'[q].alone \in BOOLEAN
              /\ run'[q].alone => f[q].alone
              /\ q # r /\ TargetOf(run[q].kind) = d => ~run'[q].alone
         /\ r \in Runs => run'[r] = f[r]
BY DEF Touched, RunStates

-----------------------------------------------------------------------------
\* The files are of their type; writing and removing keep that.
FilesOK == DOMAIN files \subseteq Keys /\ \A k \in DOMAIN files : files[k] \in Files

LEMMA FilesWrite ==
  ASSUME FilesOK, NEW k \in Keys, NEW f \in Files, Write(k, f)
  PROVE  FilesOK'
<1>1. /\ DOMAIN files' = DOMAIN files \cup {k}
      /\ files'[k] = f
      /\ \A x \in DOMAIN files \ {k} : files'[x] = files[x]
  BY WriteEffect
<1>. QED
  BY <1>1 DEF FilesOK

LEMMA FilesRemove ==
  ASSUME FilesOK, NEW K, Remove(K)
  PROVE  FilesOK'
BY RemoveEffect DEF FilesOK

\* The names a run uses and the files it completes are of their type.
LEMMA KeyTypes ==
  ASSUME TypeOK, NEW r \in Runs
  PROVE  /\ DumpKey(r) \in Keys /\ SafetyKey(r) \in Keys /\ Key("gaet", run[r].stamp) \in Keys
         /\ \A k \in DOMAIN files : Completed(k) \in Files
<1>1. run[r].stamp \in 0 .. MaxLocks
  BY DEF TypeOK, RunStates
<1>2. \A p \in Prefixes : Key(p, run[r].stamp) \in Keys
  BY <1>1 DEF Keys, Key
<1>3. \A k \in DOMAIN files : Completed(k) \in Files
  BY DEF TypeOK, Files, Completed
<1>. QED
  BY <1>2, <1>3 DEF DumpKey, SafetyKey, Prefixes

\* The values runs and databases begin with are of their type.
LEMMA IdleType == IdleRun \in RunStates
<1>1. Empty \in Contents
  BY BackupAssumption DEF Empty, Contents
<1>. QED
  BY <1>1, BackupAssumption DEF IdleRun, RunStates, Kinds, Stages

LEMMA EmptyType == Empty \in Contents
BY BackupAssumption DEF Empty, Contents

\* The stages a step of a run leads from and to.
LEMMA RunType ==
  ASSUME TypeInv, NEW r \in Runs
  PROVE  /\ run[r] \in RunStates
         /\ run[r].kind \in Kinds /\ run[r].stage \in Stages /\ run[r].stamp \in 0 .. MaxLocks
         /\ run[r].arch \in Contents /\ run[r].stage \in StagesOf(run[r].kind)
         /\ run[r].target \in Keys \cup {None} /\ run[r].safety \in Keys \cup {None}
         /\ run[r].alone \in BOOLEAN /\ run[r].ok \in BOOLEAN
BY DEF TypeInv, TypeOK, RunStates, Fit

\* The types hold at first.
LEMMA InitType == Init => TypeInv
<1> SUFFICES ASSUME Init PROVE TypeInv
  OBVIOUS
<1>1. DOMAIN files = {}
  BY DEF Init
<1>2. run \in [Runs -> RunStates]
  BY IdleType DEF Init
<1>3. TypeOK
  BY <1>1, <1>2, BackupAssumption DEF Init, TypeOK
<1>4. Fit
  BY DEF Init, Fit, IdleRun, StagesOf
<1>. QED
  BY <1>3, <1>4 DEF TypeInv, OrphansOK, Init

\* A run that changes only itself keeps the type if its new state has it.
LEMMA SetType ==
  ASSUME TypeInv, NEW r \in Runs, NEW f \in RunStates, Set(r, f), f.stage \in StagesOf(f.kind)
  PROVE  run' \in [Runs -> RunStates] /\ Fit'
BY SetEffect DEF TypeInv, Fit

\* So does a step that touches a database, whatever runs it makes not alone.
LEMMA TouchedType ==
  ASSUME TypeInv, NEW d, NEW r, NEW f \in [Runs -> RunStates], run' = Touched(d, r, f),
         \A q \in Runs : f[q].stage \in StagesOf(f[q].kind)
  PROVE  run' \in [Runs -> RunStates] /\ Fit'
BY TouchedEffect DEF Fit

\* What a load leaves in a database is a content.
LEMMA LoadsType ==
  ASSUME TypeInv, NEW r \in Runs, NEW c \in Loads(r)
  PROVE  c \in Contents
<1>1. db[TargetOf(run[r].kind)] \in Contents
  BY DEF TypeInv, TypeOK, TargetOf, Databases
<1>. QED
  BY <1>1 DEF Loads, Partly

LEMMA OverlayType ==
  ASSUME NEW base \in Contents, NEW arch \in Contents
  PROVE  Overlay(base, arch) \in Contents
BY DEF Overlay, Contents

\* Every step keeps the types.
LEMMA TypeStep == TypeInv /\ [Next]_vars => TypeInv'
<1> SUFFICES ASSUME TypeInv, [Next]_vars PROVE TypeInv'
  OBVIOUS
<1> DEFINE Rest == /\ db' \in [Databases -> Contents]
                   /\ lock' \in Runs \cup {None}
                   /\ clock' \in 0 .. MaxLocks
                   /\ deleted' \subseteq Keys
                   /\ crashes' \in Nat
                   /\ OrphansOK'
<1>1. ASSUME FilesOK', Rest, run' \in [Runs -> RunStates] /\ Fit' PROVE TypeInv'
  BY <1>1 DEF FilesOK, TypeInv, TypeOK
<1>2. /\ FilesOK /\ db \in [Databases -> Contents] /\ lock \in Runs \cup {None}
      /\ clock \in 0 .. MaxLocks /\ deleted \subseteq Keys /\ crashes \in Nat /\ OrphansOK
      /\ run \in [Runs -> RunStates] /\ Fit /\ TypeOK
  BY DEF TypeInv, TypeOK, FilesOK
<1>3. CASE UNCHANGED vars
  <2>1. FilesOK' /\ Rest
    BY <1>2, <1>3 DEF vars, counters, FilesOK, OrphansOK
  <2>2. run' \in [Runs -> RunStates] /\ Fit'
    BY <1>2, <1>3 DEF vars, Fit
  <2>. QED
    BY <1>1, <2>1, <2>2
<1>4. ASSUME NEW r \in Runs, NEW kind \in Kinds, Begin(r, kind) PROVE TypeInv'
  <2>1. FilesOK' /\ Rest
    BY <1>2, <1>4 DEF Begin, counters, FilesOK, OrphansOK
  <2>2. [IdleRun EXCEPT !.kind = kind, !.stage = "wait"] \in RunStates
    BY IdleType DEF RunStates, Stages
  <2>3. run' \in [Runs -> RunStates] /\ Fit'
    BY <1>4, <2>2, SetType DEF Begin, StagesOf, IdleRun
  <2>. QED
    BY <1>1, <2>1, <2>3
<1>5. ASSUME NEW r \in Runs, NEW k \in DOMAIN files, Resolve(r, k) PROVE TypeInv'
  <2>1. FilesOK' /\ Rest
    BY <1>2, <1>5 DEF Resolve, counters, FilesOK, OrphansOK
  <2>2. [IdleRun EXCEPT !.kind = "restore", !.stage = "wait", !.target = k] \in RunStates
    BY <1>2, IdleType DEF RunStates, Stages, Kinds, FilesOK
  <2>3. run' \in [Runs -> RunStates] /\ Fit'
    BY <1>5, <2>2, SetType DEF Resolve, StagesOf, IdleRun
  <2>. QED
    BY <1>1, <2>1, <2>3
<1>6. ASSUME NEW r \in Runs, Step(r) PROVE TypeInv'
  <2>0. /\ run[r] \in RunStates
        /\ run[r].kind \in Kinds /\ run[r].stage \in Stages /\ run[r].stamp \in 0 .. MaxLocks
        /\ run[r].arch \in Contents /\ run[r].stage \in StagesOf(run[r].kind)
        /\ DumpKey(r) \in Keys /\ SafetyKey(r) \in Keys /\ Key("gaet", run[r].stamp) \in Keys
        /\ \A k \in DOMAIN files : Completed(k) \in Files
    BY <1>2, RunType, KeyTypes
  <2>i. IdleRun \in RunStates /\ IdleRun.stage \in StagesOf(IdleRun.kind)
    BY IdleType DEF IdleRun, StagesOf
  <2>f. /\ [run[r] EXCEPT !.stage = "done", !.ok = FALSE] \in RunStates
        /\ \A s \in Stages : [run[r] EXCEPT !.stage = s] \in RunStates
    BY <2>0 DEF RunStates, Stages
  <2>d. ASSUME Fail(r) PROVE run' \in [Runs -> RunStates] /\ Fit'
    BY <2>d, <2>0, <2>f, SetType DEF Fail, StagesOf, RunStates
  <2>g. ASSUME NEW s \in Stages, Go(r, s), s \in StagesOf(run[r].kind)
        PROVE  run' \in [Runs -> RunStates] /\ Fit'
    BY <2>g, <2>0, <2>f, SetType DEF Go, RunStates
  <2>1. CASE GiveUp(r)
    <3>1. FilesOK' /\ Rest
      BY <1>2, <2>1 DEF GiveUp, counters, FilesOK, OrphansOK
    <3>2. run' \in [Runs -> RunStates] /\ Fit'
      BY <2>1, <2>i, SetType DEF GiveUp
    <3>. QED
      BY <1>1, <3>1, <3>2
  <2>2. CASE TakeLock(r)
    <3>1. FilesOK' /\ Rest
      BY <1>2, <2>2, BackupAssumption DEF TakeLock, counters, FilesOK, OrphansOK
    <3> DEFINE s == IF run[r].kind = "restore" THEN "check" ELSE "dump"
    <3>2. clock + 1 \in 0 .. MaxLocks /\ s \in Stages /\ s \in StagesOf(run[r].kind)
      BY <1>2, <2>0, <2>2, BackupAssumption DEF TakeLock, StagesOf, Kinds, Stages
    <3>3. [run[r] EXCEPT !.stage = s, !.stamp = clock + 1] \in RunStates
      BY <2>0, <3>2 DEF RunStates
    <3>4. Set(r, [run[r] EXCEPT !.stage = s, !.stamp = clock + 1])
      BY <2>2 DEF TakeLock
    <3>5. /\ [run[r] EXCEPT !.stage = s, !.stamp = clock + 1].stage = s
          /\ [run[r] EXCEPT !.stage = s, !.stamp = clock + 1].kind = run[r].kind
      BY <2>0 DEF RunStates
    <3>6. run' \in [Runs -> RunStates] /\ Fit'
      BY <3>2, <3>3, <3>4, <3>5, SetType
    <3>. QED
      BY <1>1, <3>1, <3>6
  <2>3. CASE BeginDump(r)
    <3> DEFINE source == db[SourceOf(run[r].kind)]
    <3>1. source \in Contents
      BY <1>2 DEF SourceOf, Databases
    <3>2. [content |-> source, whole |-> FALSE] \in Files
      BY <3>1 DEF Files
    <3>3. FilesOK'
      BY <1>2, <2>0, <2>3, <3>2, FilesWrite DEF BeginDump
    <3>4. Rest
      BY <1>2, <2>3 DEF BeginDump, counters, OrphansOK
    <3>5. [run[r] EXCEPT !.stage = "dumping", !.arch = source] \in RunStates
      BY <2>0, <3>1 DEF RunStates, Stages
    <3>6. "dumping" \in StagesOf(run[r].kind)
      BY <2>0, <2>3 DEF BeginDump, At, StagesOf, Kinds
    <3>7. run' \in [Runs -> RunStates] /\ Fit'
      BY <2>0, <2>3, <3>5, <3>6, SetType DEF BeginDump, RunStates
    <3>. QED
      BY <1>1, <3>3, <3>4, <3>7
  <2>4. CASE EndDump(r)
    <3>1. FilesOK'
      BY <1>2, <2>0, <2>4, FilesWrite, FilesRemove DEF EndDump, Exists
    <3>2. Rest
      BY <1>2, <2>4 DEF EndDump, counters, OrphansOK
    <3>3. run[r].kind \in {"push", "fetch", "cron"}
      BY <2>0, <2>4 DEF EndDump, At, StagesOf, Kinds
    <3>4. Next1(r) \in Stages /\ Next1(r) \in StagesOf(run[r].kind)
      BY <2>0, <2>4, <3>3, NextStage DEF EndDump, StagesOf, Stages
    <3>5. run' \in [Runs -> RunStates] /\ Fit'
      BY <2>4, <3>4, <2>d, <2>g DEF EndDump
    <3>. QED
      BY <1>1, <3>1, <3>2, <3>5
  <2>5. CASE Check(r)
    <3>1. FilesOK'
      BY <1>2, <2>5, FilesRemove DEF Check, FilesOK
    <3>2. Rest
      BY <1>2, <2>5 DEF Check, counters, OrphansOK
    <3>3. run[r].kind \in {"push", "restore", "cron"}
      BY <2>0, <2>5 DEF Check, At, StagesOf, Kinds
    <3>4. Next1(r) \in Stages /\ Next1(r) \in StagesOf(run[r].kind)
      BY <2>0, <2>5, <3>3, NextStage DEF Check, StagesOf, Stages
    <3>5. CASE Fail(r)
      BY <1>1, <2>d, <3>1, <3>2, <3>5
    <3>6. ASSUME Exists(ArchiveKey(r)),
                 Set(r, [run[r] EXCEPT !.stage = Next1(r), !.arch = files[ArchiveKey(r)].content])
          PROVE  TypeInv'
      <4> DEFINE f == [run[r] EXCEPT !.stage = Next1(r), !.arch = files[ArchiveKey(r)].content]
      <4>1. files[ArchiveKey(r)].content \in Contents
        BY <1>2, <3>6 DEF FilesOK, Exists, Files
      <4>2. f \in RunStates /\ f.stage = Next1(r) /\ f.kind = run[r].kind
        BY <2>0, <3>4, <4>1 DEF RunStates
      <4>3. run' \in [Runs -> RunStates] /\ Fit'
        BY <3>4, <3>6, <4>2, SetType
      <4>. QED
        BY <1>1, <3>1, <3>2, <4>3
    <3>. QED
      BY <2>5, <3>5, <3>6 DEF Check
  <2>6. CASE Publish(r)
    <3> DEFINE final == Key("gaet", run[r].stamp)
    <3>1. FilesOK'
      <4>1. ASSUME Exists(DumpKey(r)),
                   files' = [x \in (DOMAIN files \ {DumpKey(r)}) \cup {final} |->
                               IF x = final THEN files[DumpKey(r)] ELSE files[x]]
            PROVE FilesOK'
        BY <1>2, <2>0, <4>1 DEF FilesOK, Exists
      <4>. QED
        BY <1>2, <2>6, <4>1, FilesRemove DEF Publish
    <3>2. Rest
      BY <1>2, <2>6 DEF Publish, counters, OrphansOK
    <3>3. run[r].kind = "push"
      BY <2>0, <2>6 DEF Publish, At, StagesOf, Kinds
    <3>4. Next1(r) \in Stages /\ Next1(r) \in StagesOf(run[r].kind)
      BY <2>0, <2>6, <3>3, NextStage DEF Publish, StagesOf, Stages
    <3>5. run' \in [Runs -> RunStates] /\ Fit'
      BY <2>6, <3>4, <2>d, <2>g DEF Publish
    <3>. QED
      BY <1>1, <3>1, <3>2, <3>5
  <2>7. CASE StatDump(r)
    <3>1. FilesOK' /\ Rest
      BY <1>2, <2>7 DEF StatDump, counters, FilesOK, OrphansOK
    <3>2. run[r].kind \in {"push", "fetch"}
      BY <2>0, <2>7 DEF StatDump, At, StagesOf, Kinds
    <3>3. Next1(r) \in Stages /\ Next1(r) \in StagesOf(run[r].kind)
      BY <2>0, <2>7, <3>2, NextStage DEF StatDump, StagesOf, Stages
    <3>4. run' \in [Runs -> RunStates] /\ Fit'
      BY <2>7, <2>i, <3>3, <2>g, SetType DEF StatDump
    <3>. QED
      BY <1>1, <3>1, <3>4
  <2>8. CASE BeginSafety(r)
    <3>1. [content |-> db["local"], whole |-> FALSE] \in Files
      BY <1>2 DEF Files, Databases
    <3>2. FilesOK'
      BY <1>2, <2>0, <2>8, <3>1, FilesWrite DEF BeginSafety
    <3>3. Rest
      BY <1>2, <2>8 DEF BeginSafety, counters, OrphansOK
    <3>4. [run[r] EXCEPT !.stage = "saving", !.alone = TRUE] \in RunStates
      BY <2>0 DEF RunStates, Stages
    <3>5. "saving" \in StagesOf(run[r].kind)
      BY <2>0, <2>8 DEF BeginSafety, At, StagesOf, Kinds
    <3>6. run' \in [Runs -> RunStates] /\ Fit'
      BY <2>0, <2>8, <3>4, <3>5, SetType DEF BeginSafety, RunStates
    <3>. QED
      BY <1>1, <3>2, <3>3, <3>6
  <2>9. CASE EndSafety(r)
    <3>1. FilesOK'
      BY <1>2, <2>0, <2>9, FilesWrite, FilesRemove DEF EndSafety, Exists
    <3>2. Rest
      BY <1>2, <2>9 DEF EndSafety, counters, OrphansOK
    <3>3. "reset" \in StagesOf(run[r].kind) /\ "reset" \in Stages
      BY <2>0, <2>9 DEF EndSafety, At, StagesOf, Kinds, Stages
    <3>4. [run[r] EXCEPT !.stage = "reset", !.safety = SafetyKey(r)] \in RunStates
      BY <2>0, <3>3 DEF RunStates
    <3>5. CASE Set(r, [run[r] EXCEPT !.stage = "reset", !.safety = SafetyKey(r)])
      <4>1. run' \in [Runs -> RunStates] /\ Fit'
        BY <2>0, <3>3, <3>4, <3>5, SetType DEF RunStates
      <4>. QED
        BY <1>1, <3>1, <3>2, <4>1
    <3>6. CASE Go(r, "reset")
      BY <1>1, <2>g, <3>1, <3>2, <3>3, <3>6
    <3>. QED
      BY <2>9, <3>5, <3>6 DEF EndSafety
  <2>10. CASE Reset(r)
    <3> DEFINE d == TargetOf(run[r].kind)
    <3>1. FilesOK'
      BY <1>2, <2>10 DEF Reset, FilesOK
    <3>2. db' \in [Databases -> Contents]
      BY <1>2, <2>10, EmptyType DEF Reset
    <3>3. Rest
      BY <1>2, <2>10, <3>2 DEF Reset, counters, OrphansOK
    <3>4. "load" \in StagesOf(run[r].kind)
      BY <2>0, <2>10 DEF Reset, At, StagesOf, Kinds
    <3>5. CASE run' = Touched(d, r, [run EXCEPT ![r].stage = "load", ![r].alone = TRUE])
      <4> DEFINE f == [run EXCEPT ![r].stage = "load", ![r].alone = TRUE]
      <4>1. f \in [Runs -> RunStates]
        <5>1. [run[r] EXCEPT !.stage = "load", !.alone = TRUE] \in RunStates
          BY <1>2 DEF RunStates, Stages
        <5>2. f = [run EXCEPT ![r] = [run[r] EXCEPT !.stage = "load", !.alone = TRUE]]
          BY <1>2
        <5>. QED
          BY <1>2, <5>1, <5>2
      <4>2. \A q \in Runs : f[q].stage \in StagesOf(f[q].kind)
        BY <1>2, <3>4 DEF Fit, RunStates
      <4>3. run' \in [Runs -> RunStates] /\ Fit'
        BY <3>5, <4>1, <4>2, TouchedType
      <4>. QED
        BY <1>1, <3>1, <3>3, <4>3
    <3>6. CASE run' = Touched(d, r, [run EXCEPT ![r].stage = "done", ![r].ok = FALSE])
      <4> DEFINE f == [run EXCEPT ![r].stage = "done", ![r].ok = FALSE]
      <4>1. f \in [Runs -> RunStates]
        <5>1. [run[r] EXCEPT !.stage = "done", !.ok = FALSE] \in RunStates
          BY <1>2 DEF RunStates, Stages
        <5>2. f = [run EXCEPT ![r] = [run[r] EXCEPT !.stage = "done", !.ok = FALSE]]
          BY <1>2
        <5>. QED
          BY <1>2, <5>1, <5>2
      <4>2. \A q \in Runs : f[q].stage \in StagesOf(f[q].kind)
        BY <1>2 DEF Fit, RunStates, StagesOf
      <4>3. run' \in [Runs -> RunStates] /\ Fit'
        BY <3>6, <4>1, <4>2, TouchedType
      <4>. QED
        BY <1>1, <3>1, <3>3, <4>3
    <3>. QED
      BY <2>10, <3>5, <3>6 DEF Reset
  <2>11. CASE Load(r)
    <3> DEFINE d == TargetOf(run[r].kind)
               s == IF run[r].kind \in {"fetch", "cron"} THEN "cleanup" ELSE "done"
    <3>1. FilesOK'
      BY <1>2, <2>11 DEF Load, FilesOK
    <3>2. d \in Databases /\ db[d] \in Contents
      BY <1>2 DEF TargetOf, Databases
    <3>3. At(r, "load") /\ Next1(r) \in Stages /\ Next1(r) \in StagesOf(run[r].kind)
      BY <2>0, <2>11, NextStage DEF Load, StagesOf, Stages, Kinds
    <3>4. s \in Stages /\ s \in StagesOf(run[r].kind)
      BY <2>0 DEF StagesOf, Stages, Kinds
    <3>5. ASSUME Exists(ArchiveKey(r)),
                 db' = [db EXCEPT ![d] = Overlay(db[d], files[ArchiveKey(r)].content)],
                 run' = Touched(d, r, [run EXCEPT ![r].stage = Next1(r), ![r].ok = TRUE,
                                 ![r].alone = @ \/ run[r].kind = "cron"])
          PROVE  TypeInv'
      <4> DEFINE f == [run EXCEPT ![r].stage = Next1(r), ![r].ok = TRUE,
                                 ![r].alone = @ \/ run[r].kind = "cron"]
      <4>1. files[ArchiveKey(r)].content \in Contents
        BY <1>2, <3>5 DEF FilesOK, Exists, Files
      <4>2. db' \in [Databases -> Contents]
        BY <1>2, <3>2, <3>5, <4>1, OverlayType
      <4>3. Rest
        BY <1>2, <2>11, <4>2 DEF Load, counters, OrphansOK
      <4>4. f \in [Runs -> RunStates]
        BY <1>2, <3>3 DEF RunStates
      <4>5. \A q \in Runs : f[q].stage \in StagesOf(f[q].kind)
        BY <1>2, <3>3 DEF Fit, RunStates
      <4>6. run' \in [Runs -> RunStates] /\ Fit'
        BY <3>5, <4>4, <4>5, TouchedType
      <4>. QED
        BY <1>1, <3>1, <4>3, <4>6
    <3>6. ASSUME NEW c \in Loads(r), db' = [db EXCEPT ![d] = c],
                 run' = Touched(d, r, [run EXCEPT ![r].ok = FALSE, ![r].stage = s])
          PROVE  TypeInv'
      <4> DEFINE f == [run EXCEPT ![r].ok = FALSE, ![r].stage = s]
      <4>1. db' \in [Databases -> Contents]
        BY <1>2, <3>2, <3>6, LoadsType
      <4>2. Rest
        BY <1>2, <2>11, <4>1 DEF Load, counters, OrphansOK
      <4>3. f \in [Runs -> RunStates]
        BY <1>2, <3>4 DEF RunStates
      <4>4. \A q \in Runs : f[q].stage \in StagesOf(f[q].kind)
        BY <1>2, <3>4 DEF Fit, RunStates
      <4>5. run' \in [Runs -> RunStates] /\ Fit'
        BY <3>6, <4>3, <4>4, TouchedType
      <4>. QED
        BY <1>1, <3>1, <4>2, <4>5
    <3>. QED
      BY <2>11, <3>5, <3>6 DEF Load
  <2>12. CASE Cleanup(r)
    <3>1. FilesOK' /\ Rest
      BY <1>2, <2>12, FilesRemove DEF Cleanup, counters, OrphansOK
    <3>2. run' \in [Runs -> RunStates] /\ Fit'
      BY <2>12, <2>g DEF Cleanup, StagesOf, Stages
    <3>. QED
      BY <1>1, <3>1, <3>2
  <2>13. CASE Retain(r)
    <3>1. FilesOK' /\ Rest
      BY <1>2, <2>13, FilesRemove DEF Retain, counters, OrphansOK
    <3>2. run' \in [Runs -> RunStates] /\ Fit'
      BY <2>13, <2>g DEF Retain, StagesOf, Stages
    <3>. QED
      BY <1>1, <3>1, <3>2
  <2>14. CASE Finish(r)
    <3>1. FilesOK' /\ Rest
      BY <1>2, <2>14 DEF Finish, counters, FilesOK, OrphansOK
    <3>2. run' \in [Runs -> RunStates] /\ Fit'
      BY <2>14, <2>i, SetType DEF Finish
    <3>. QED
      BY <1>1, <3>1, <3>2
  <2>. QED
    BY <1>6, <2>1, <2>2, <2>3, <2>4, <2>5, <2>6, <2>7, <2>8, <2>9, <2>10, <2>11, <2>12,
       <2>13, <2>14 DEF Step
<1>7. ASSUME NEW r \in Runs, Crash(r) PROVE TypeInv'
  <2> DEFINE d == TargetOf(run[r].kind)
             k == IF At(r, "saving") THEN SafetyKey(r) ELSE DumpKey(r)
             tool == [stage |-> run[r].stage, db |-> d, arch |-> run[r].arch]
  <2>0. /\ run[r] \in RunStates /\ run[r].stage \in Stages /\ run[r].arch \in Contents
        /\ k \in Keys /\ \A x \in DOMAIN files : Completed(x) \in Files
        /\ d \in Databases
    BY <1>2, RunType, KeyTypes DEF TargetOf, Databases
  <2>i. IdleRun \in RunStates /\ IdleRun.stage \in StagesOf(IdleRun.kind)
    BY IdleType DEF IdleRun, StagesOf
  <2>1. FilesOK'
    <3>1. CASE Exists(k) /\ Write(k, Completed(k))
      BY <1>2, <2>0, <3>1, FilesWrite DEF Exists
    <3>2. CASE UNCHANGED files
      BY <1>2, <3>2 DEF FilesOK
    <3>. QED
      BY <1>7, <3>1, <3>2 DEF Crash
  <2>2. tool \in Orphans
    BY <2>0 DEF Orphans
  <2>3. OrphansOK' /\ crashes' \in Nat /\ lock' \in Runs \cup {None}
    BY <1>2, <1>7, <2>2 DEF Crash, OrphansOK
  <2>4. clock' \in 0 .. MaxLocks /\ deleted' \subseteq Keys
    BY <1>2, <1>7 DEF Crash
  <2>5. CASE At(r, "load")
    <3>1. PICK c \in Loads(r) : db' = [db EXCEPT ![d] = c]
      BY <1>7, <2>5 DEF Crash
    <3>2. db' \in [Databases -> Contents]
      BY <1>2, <2>0, <3>1, LoadsType
    <3> DEFINE f == [run EXCEPT ![r] = IdleRun]
    <3>3. run' = Touched(d, r, f)
      BY <1>7, <2>5 DEF Crash
    <3>4. f \in [Runs -> RunStates]
      BY <1>2, <2>i
    <3>5. \A q \in Runs : f[q].stage \in StagesOf(f[q].kind)
      BY <1>2, <2>i DEF Fit
    <3>6. run' \in [Runs -> RunStates] /\ Fit'
      BY <3>3, <3>4, <3>5, TouchedType
    <3>. QED
      BY <1>1, <2>1, <2>3, <2>4, <3>2, <3>6
  <2>6. CASE ~At(r, "load")
    <3>1. UNCHANGED db /\ Set(r, IdleRun)
      BY <1>7, <2>6 DEF Crash
    <3>2. run' \in [Runs -> RunStates] /\ Fit'
      BY <2>i, <3>1, SetType
    <3>. QED
      BY <1>1, <1>2, <2>1, <2>3, <2>4, <3>1, <3>2
  <2>. QED
    BY <2>5, <2>6
<1>8. ASSUME NEW o \in orphans, Orphan(o) PROVE TypeInv'
  <2>1. o.db \in Databases /\ o.arch \in Contents
    BY <1>2 DEF OrphansOK, Orphans
  <2>2. Overlay(db[o.db], o.arch) \in Contents
    BY <1>2, <2>1, OverlayType
  <2>3. db' \in [Databases -> Contents]
    BY <1>2, <1>8, <2>1, <2>2, EmptyType DEF Orphan
  <2>4. FilesOK' /\ Rest
    BY <1>2, <1>8, <2>3 DEF Orphan, counters, FilesOK, OrphansOK
  <2>5. run' \in [Runs -> RunStates] /\ Fit'
    BY <1>2, <1>8, TouchedType DEF Orphan, Fit
  <2>. QED
    BY <1>1, <2>4, <2>5
<1>9. ASSUME NEW d \in Databases, NEW t \in Tables, AppWrite(d, t) PROVE TypeInv'
  <2>1. PICK v \in 0 .. MaxVersion : db' = [db EXCEPT ![d][t] = v]
    BY <1>9 DEF AppWrite
  <2>2. [db[d] EXCEPT ![t] = v] \in Contents
    BY <1>2, <2>1 DEF Contents
  <2>3. db' \in [Databases -> Contents]
    BY <1>2, <2>1, <2>2
  <2>4. FilesOK' /\ Rest
    BY <1>2, <1>9, <2>3 DEF AppWrite, FilesOK, OrphansOK
  <2>5. run' \in [Runs -> RunStates] /\ Fit'
    BY <1>2, <1>9, TouchedType DEF AppWrite, Fit
  <2>. QED
    BY <1>1, <2>4, <2>5
<1>10. ASSUME NEW k \in DOMAIN files, Delete(k) PROVE TypeInv'
  <2>1. FilesOK' /\ Rest
    BY <1>2, <1>10, FilesRemove DEF Delete, FilesOK, OrphansOK
  <2>2. run' \in [Runs -> RunStates] /\ Fit'
    BY <1>2, <1>10 DEF Delete, Fit
  <2>. QED
    BY <1>1, <2>1, <2>2
<1>. QED
  BY <1>3, <1>4, <1>5, <1>6, <1>7, <1>8, <1>9, <1>10 DEF Next

-----------------------------------------------------------------------------
\* A run is left as it was, except that it may no longer be alone on its target.
SameRun(q) == /\ run'[q].kind = run[q].kind
              /\ run'[q].stage = run[q].stage
              /\ run'[q].stamp = run[q].stamp
              /\ run'[q].target = run[q].target
              /\ run'[q].arch = run[q].arch
              /\ run'[q].safety = run[q].safety
              /\ run'[q].ok = run[q].ok
              /\ run'[q].alone => run[q].alone
OthersSame(r) == \A q \in Runs \ {r} : SameRun(q)

\* A step of one run leaves the others so.
LEMMA SetOthers ==
  ASSUME TypeOK, NEW r \in Runs, NEW f, Set(r, f)
  PROVE  OthersSame(r)
BY SetEffect DEF OthersSame, SameRun

LEMMA TouchedOthers ==
  ASSUME TypeOK, NEW d, NEW r \in Runs, NEW f \in [Runs -> RunStates], run' = Touched(d, r, f),
         \A q \in Runs \ {r} : f[q] = run[q]
  PROVE  OthersSame(r) /\ run'[r] = f[r]
BY TouchedEffect DEF OthersSame, SameRun

\* A run's reset or load of its target.
LEMMA ResetEffect ==
  ASSUME TypeInv, NEW r \in Runs, Reset(r)
  PROVE  /\ OthersSame(r)
         /\ \/ run'[r] = [run[r] EXCEPT !.stage = "load", !.alone = TRUE]
            \/ run'[r] = [run[r] EXCEPT !.stage = "done", !.ok = FALSE]
<1>1. run \in [Runs -> RunStates] /\ TypeOK
  BY DEF TypeInv, TypeOK
<1>2. ASSUME NEW f, run' = Touched(TargetOf(run[r].kind), r, f),
             \/ f = [run EXCEPT ![r].stage = "load", ![r].alone = TRUE]
             \/ f = [run EXCEPT ![r].stage = "done", ![r].ok = FALSE]
      PROVE  /\ OthersSame(r)
             /\ \/ run'[r] = [run[r] EXCEPT !.stage = "load", !.alone = TRUE]
                \/ run'[r] = [run[r] EXCEPT !.stage = "done", !.ok = FALSE]
  <2>1. f \in [Runs -> RunStates]
    BY <1>1, <1>2 DEF RunStates, Stages
  <2>2. \A q \in Runs \ {r} : f[q] = run[q]
    BY <1>1, <1>2
  <2>3. OthersSame(r) /\ run'[r] = f[r]
    BY <1>1, <1>2, <2>1, <2>2, TouchedOthers
  <2>. QED
    BY <1>1, <1>2, <2>3
<1>. QED
  BY <1>2 DEF Reset

\* A load changes its target and takes the run on.
LEMMA LoadEffect ==
  ASSUME TypeInv, NEW r \in Runs, Load(r)
  PROVE  /\ OthersSame(r)
         /\ \/ run'[r] = [run[r] EXCEPT !.stage = Next1(r), !.ok = TRUE,
                                        !.alone = @ \/ run[r].kind = "cron"]
            \/ run'[r] = [run[r] EXCEPT !.ok = FALSE, !.stage =
                            IF run[r].kind \in {"fetch", "cron"} THEN "cleanup" ELSE "done"]
<1> DEFINE s == IF run[r].kind \in {"fetch", "cron"} THEN "cleanup" ELSE "done"
           d == TargetOf(run[r].kind)
<1>1. run \in [Runs -> RunStates] /\ TypeOK
  BY DEF TypeInv, TypeOK
<1>2. Next1(r) \in Stages /\ s \in Stages
  BY RunType, NextStage DEF Load, Stages, Kinds
<1>3. ASSUME NEW f, run' = Touched(d, r, f),
             f = [run EXCEPT ![r].stage = Next1(r), ![r].ok = TRUE,
                             ![r].alone = @ \/ run[r].kind = "cron"]
      PROVE  OthersSame(r) /\ run'[r] = [run[r] EXCEPT !.stage = Next1(r), !.ok = TRUE,
                                           !.alone = @ \/ run[r].kind = "cron"]
  <2>1. f \in [Runs -> RunStates]
    BY <1>1, <1>2, <1>3 DEF RunStates
  <2>0. run' = Touched(d, r, f)
    BY <1>3
  <2>2. \A q \in Runs \ {r} : f[q] = run[q]
    BY <1>1, <1>3
  <2>3. OthersSame(r) /\ run'[r] = f[r]
    BY <1>1, <2>0, <2>1, <2>2, TouchedOthers, Zenon
  <2>. QED
    BY <1>1, <1>3, <2>3
<1>4. ASSUME NEW f, run' = Touched(d, r, f), f = [run EXCEPT ![r].ok = FALSE, ![r].stage = s]
      PROVE  OthersSame(r) /\ run'[r] = [run[r] EXCEPT !.ok = FALSE, !.stage = s]
  <2>1. f \in [Runs -> RunStates]
    BY <1>1, <1>2, <1>4 DEF RunStates
  <2>0. run' = Touched(d, r, f)
    BY <1>4
  <2>2. \A q \in Runs \ {r} : f[q] = run[q]
    BY <1>1, <1>4
  <2>3. OthersSame(r) /\ run'[r] = f[r]
    BY <1>1, <2>0, <2>1, <2>2, TouchedOthers, Zenon
  <2>. QED
    BY <1>1, <1>4, <2>3
<1>. QED
  BY <1>3, <1>4 DEF Load

\* A crash returns the run to idle and may leave its tool behind.
LEMMA CrashEffect ==
  ASSUME TypeInv, NEW r \in Runs, Crash(r)
  PROVE  OthersSame(r) /\ run'[r] = IdleRun
<1>1. run \in [Runs -> RunStates] /\ TypeOK
  BY DEF TypeInv, TypeOK
<1> DEFINE f == [run EXCEPT ![r] = IdleRun]
<1>2. CASE run' = Touched(TargetOf(run[r].kind), r, f)
  <2>1. f \in [Runs -> RunStates]
    BY <1>1, IdleType
  <2>2. \A q \in Runs \ {r} : f[q] = run[q]
    BY <1>1
  <2>. QED
    BY <1>1, <1>2, <2>1, <2>2, TouchedOthers
<1>3. CASE Set(r, IdleRun)
  BY <1>1, <1>3, SetEffect, SetOthers
<1>. QED
  BY <1>2, <1>3 DEF Crash

\* Orphans and applications touch databases only.
LEMMA OutsideEffect ==
  ASSUME TypeInv,
         \/ \E o \in orphans : Orphan(o)
         \/ \E d \in Databases, t \in Tables : AppWrite(d, t)
  PROVE  /\ \A q \in Runs : SameRun(q)
         /\ \E d \in Databases :
              /\ \A e \in Databases \ {d} : db'[e] = db[e]
              /\ \A q \in Runs : TargetOf(run[q].kind) = d => ~run'[q].alone
         /\ UNCHANGED <<files, lock, clock, wiped, deleted, crashes>>
<1>1. run \in [Runs -> RunStates] /\ TypeOK /\ db \in [Databases -> Contents]
  BY DEF TypeInv, TypeOK
<1>2. ASSUME NEW d \in Databases, run' = Touched(d, None, run)
      PROVE  /\ \A q \in Runs : SameRun(q)
             /\ \A q \in Runs : TargetOf(run[q].kind) = d => ~run'[q].alone
  <2>1. None \notin Runs
    BY BackupAssumption
  <2>. QED
    BY <1>1, <1>2, <2>1, TouchedEffect DEF SameRun
<1>3. ASSUME NEW o \in orphans, Orphan(o) PROVE o.db \in Databases
  BY DEF TypeInv, OrphansOK, Orphans
<1>4. ASSUME NEW o \in orphans, Orphan(o)
      PROVE  /\ \A e \in Databases \ {o.db} : db'[e] = db[e]
             /\ UNCHANGED <<files, lock, clock, wiped, deleted, crashes>>
  BY <1>1, <1>4 DEF Orphan, counters
<1>5. ASSUME NEW d \in Databases, NEW t \in Tables, AppWrite(d, t)
      PROVE  /\ \A e \in Databases \ {d} : db'[e] = db[e]
             /\ UNCHANGED <<files, lock, clock, wiped, deleted, crashes>>
  BY <1>1, <1>5 DEF AppWrite
<1>6. CASE \E o \in orphans : Orphan(o)
  BY <1>2, <1>3, <1>4, <1>6 DEF Orphan
<1>7. CASE \E d \in Databases, t \in Tables : AppWrite(d, t)
  BY <1>2, <1>5, <1>7 DEF AppWrite
<1>. QED
  BY <1>6, <1>7

-----------------------------------------------------------------------------
\* A run that is past the lock owns it, under the latest stamp; files and targets are older.
Active(r) == run[r].stage \notin {"idle", "wait"}

Exclusive == \A r \in Runs : Active(r) => lock = r /\ run[r].stamp = clock
StampsOld == \A k \in DOMAIN files : k.stamp <= clock
TargetsOld == \A r \in Runs : run[r].kind = "restore" =>
                /\ run[r].target \in Keys
                /\ run[r].target.stamp <= clock
                /\ Active(r) => run[r].target.stamp < clock
StampInv == Exclusive /\ StampsOld /\ TargetsOld

\* The steps of a run that owns the lock, other than its end and its death.
Work(r) == \/ BeginDump(r) \/ EndDump(r) \/ Check(r) \/ Publish(r) \/ StatDump(r) \/ BeginSafety(r)
           \/ EndSafety(r) \/ Reset(r) \/ Load(r) \/ Cleanup(r) \/ Retain(r)

SameJob(r) == /\ run'[r].kind = run[r].kind
              /\ run'[r].stamp = run[r].stamp
              /\ run'[r].target = run[r].target

\* The names a run writes or renames.
OwnKeys(r) == {DumpKey(r), SafetyKey(r), Key("gaet", run[r].stamp)}

\* A step of work keeps lock, clock and job, and touches no other run and no older file but by retention.
LEMMA WorkEffect ==
  ASSUME TypeInv, NEW r \in Runs, Work(r)
  PROVE  /\ Active(r) /\ OthersSame(r)
         /\ UNCHANGED <<clock, deleted, crashes>>
         /\ \/ SameJob(r) /\ lock' = lock
            \/ run'[r] = IdleRun /\ lock' = None
         /\ DOMAIN files' \subseteq DOMAIN files \cup OwnKeys(r)
<1> DEFINE Goal == /\ Active(r) /\ OthersSame(r)
                   /\ UNCHANGED <<clock, deleted, crashes>>
                   /\ \/ SameJob(r) /\ lock' = lock
                      \/ run'[r] = IdleRun /\ lock' = None
                   /\ DOMAIN files' \subseteq DOMAIN files \cup OwnKeys(r)
<1>1. TypeOK /\ run[r] \in RunStates
  BY RunType DEF TypeInv
<1>2. /\ \A f \in RunStates :
           Set(r, f) => OthersSame(r) /\ run'[r] = f
      /\ Set(r, IdleRun) => OthersSame(r) /\ run'[r] = IdleRun
  BY <1>1, SetEffect, SetOthers
<1>0. ASSUME NEW f, Set(r, f), f.kind = run[r].kind, f.stamp = run[r].stamp, f.target = run[r].target
      PROVE  OthersSame(r) /\ SameJob(r)
  BY <1>0, <1>1, SetEffect, SetOthers, Zenon DEF SameJob
<1>3. ASSUME NEW s, Go(r, s) PROVE OthersSame(r) /\ SameJob(r)
  BY <1>1, <1>0, <1>3 DEF Go, RunStates
<1>4. ASSUME Fail(r) PROVE OthersSame(r) /\ SameJob(r)
  BY <1>1, <1>0, <1>4 DEF Fail, RunStates
<1>5. /\ UNCHANGED files => DOMAIN files' \subseteq DOMAIN files
      /\ \A K : Remove(K) => DOMAIN files' \subseteq DOMAIN files
      /\ \A k, f : Write(k, f) => DOMAIN files' \subseteq DOMAIN files \cup {k}
  BY DEF Remove, Write
<1>6. CASE BeginDump(r)
  <2>1. OthersSame(r) /\ SameJob(r)
    BY <1>1, <1>0, <1>6 DEF BeginDump, RunStates
  <2>. QED
    BY <1>5, <1>6, <2>1 DEF BeginDump, Active, At, counters, OwnKeys
<1>7. CASE EndDump(r)
  BY <1>3, <1>4, <1>5, <1>7 DEF EndDump, Active, At, counters, OwnKeys
<1>8. CASE Check(r)
  <2>1. OthersSame(r) /\ SameJob(r)
    BY <1>1, <1>0, <1>4, <1>8 DEF Check, RunStates
  <2>. QED
    BY <1>5, <1>8, <2>1 DEF Check, Active, At, counters
<1>9. CASE Publish(r)
  BY <1>3, <1>4, <1>5, <1>9 DEF Publish, Active, At, counters, OwnKeys
<1>10. CASE StatDump(r)
  BY <1>2, <1>3, <1>5, <1>10 DEF StatDump, Active, At, counters
<1>11. CASE BeginSafety(r)
  <2>1. OthersSame(r) /\ SameJob(r)
    BY <1>1, <1>0, <1>11 DEF BeginSafety, RunStates
  <2>. QED
    BY <1>5, <1>11, <2>1 DEF BeginSafety, Active, At, counters, OwnKeys
<1>12. CASE EndSafety(r)
  <2>1. OthersSame(r) /\ SameJob(r)
    BY <1>1, <1>0, <1>3, <1>12 DEF EndSafety, RunStates
  <2>. QED
    BY <1>5, <1>12, <2>1 DEF EndSafety, Active, At, counters, OwnKeys
<1>13. CASE Reset(r)
  <2>1. OthersSame(r) /\ SameJob(r)
    BY <1>1, <1>13, ResetEffect DEF SameJob, RunStates
  <2>. QED
    BY <1>5, <1>13, <2>1 DEF Reset, Active, At, counters
<1>14. CASE Load(r)
  <2>1. OthersSame(r) /\ SameJob(r)
    BY <1>1, <1>14, LoadEffect DEF SameJob, RunStates
  <2>. QED
    BY <1>5, <1>14, <2>1 DEF Load, Active, At, counters
<1>15. CASE Cleanup(r)
  BY <1>3, <1>5, <1>15 DEF Cleanup, Active, At, counters
<1>16. CASE Retain(r)
  BY <1>3, <1>5, <1>16 DEF Retain, Active, At, counters
<1>. QED
  BY <1>6, <1>7, <1>8, <1>9, <1>10, <1>11, <1>12, <1>13, <1>14, <1>15, <1>16 DEF Work

\* What an action of a run does to the stages and stamps of the others.
LEMMA CallEffect ==
  ASSUME TypeInv, NEW r \in Runs
  PROVE  /\ \A kind \in Kinds : Begin(r, kind) =>
              /\ OthersSame(r)
              /\ run'[r] = [IdleRun EXCEPT !.kind = kind, !.stage = "wait"]
         /\ \A k \in DOMAIN files : Resolve(r, k) =>
              /\ OthersSame(r)
              /\ run'[r] = [IdleRun EXCEPT !.kind = "restore", !.stage = "wait", !.target = k]
         /\ GiveUp(r) \/ Finish(r) => OthersSame(r) /\ run'[r] = IdleRun
         /\ TakeLock(r) =>
              /\ OthersSame(r)
              /\ run'[r] = [run[r] EXCEPT !.stage = IF run[r].kind = "restore" THEN "check" ELSE "dump",
                                          !.stamp = clock + 1]
BY SetEffect, SetOthers DEF TypeInv, Begin, Resolve, GiveUp, Finish, TakeLock

\* Every step keeps one run at work, under the latest stamp.
LEMMA StampStep == TypeInv /\ StampInv /\ [Next]_vars => StampInv'
<1> SUFFICES ASSUME TypeInv, StampInv, [Next]_vars PROVE StampInv'
  OBVIOUS
<1>1. /\ Exclusive /\ StampsOld /\ TargetsOld /\ clock \in Nat /\ TypeOK
      /\ \A r \in Runs : run[r].target \in Keys => run[r].target.stamp \in Nat
      /\ \A k \in Keys : k.stamp \in Nat
  BY BackupAssumption DEF StampInv, TypeInv, TypeOK, Keys
<1>2. \A r, q \in Runs : Active(r) /\ r # q => ~Active(q)
  BY <1>1 DEF Exclusive
<1>3. CASE UNCHANGED vars
  BY <1>1, <1>3 DEF vars, counters, StampInv, Exclusive, StampsOld, TargetsOld, Active
<1>4. ASSUME NEW r \in Runs, NEW kind \in Kinds, Begin(r, kind) PROVE StampInv'
  <2>0. OthersSame(r) /\ run'[r] = [IdleRun EXCEPT !.kind = kind, !.stage = "wait"]
    BY <1>4, CallEffect
  <2>1. OthersSame(r) /\ run'[r].stage = "wait" /\ run'[r].kind = kind /\ kind # "restore"
    BY <1>4, <2>0 DEF Begin, IdleRun
  <2>2. UNCHANGED <<files, lock, clock>>
    BY <1>4 DEF Begin
  <2>. QED
    BY <1>1, <2>1, <2>2 DEF StampInv, Exclusive, StampsOld, TargetsOld, Active, OthersSame, SameRun
<1>5. ASSUME NEW r \in Runs, NEW k \in DOMAIN files, Resolve(r, k) PROVE StampInv'
  <2>0. /\ OthersSame(r)
        /\ run'[r] = [IdleRun EXCEPT !.kind = "restore", !.stage = "wait", !.target = k]
    BY <1>5, CallEffect
  <2>1. OthersSame(r) /\ run'[r].stage = "wait" /\ run'[r].target = k
    BY <2>0 DEF IdleRun
  <2>2. UNCHANGED <<files, lock, clock>>
    BY <1>5 DEF Resolve
  <2>3. k \in Keys /\ k.stamp <= clock
    BY <1>1 DEF StampsOld, TypeOK
  <2>. QED
    BY <1>1, <2>1, <2>2, <2>3 DEF StampInv, Exclusive, StampsOld, TargetsOld, Active, OthersSame, SameRun
<1>6. ASSUME NEW r \in Runs, GiveUp(r) PROVE StampInv'
  <2>0. OthersSame(r) /\ run'[r] = IdleRun
    BY <1>6, CallEffect
  <2>1. OthersSame(r) /\ run'[r].stage = "idle" /\ run'[r].kind = "push"
    BY <2>0 DEF IdleRun
  <2>2. UNCHANGED <<files, lock, clock>>
    BY <1>6 DEF GiveUp
  <2>. QED
    BY <1>1, <2>1, <2>2 DEF StampInv, Exclusive, StampsOld, TargetsOld, Active, OthersSame, SameRun
<1>7. ASSUME NEW r \in Runs, TakeLock(r) PROVE StampInv'
  <2>1. /\ OthersSame(r) /\ run'[r].stamp = clock + 1
        /\ run'[r].kind = run[r].kind /\ run'[r].target = run[r].target
    BY <1>7, CallEffect, RunType DEF RunStates
  <2>2. UNCHANGED files /\ lock = None /\ lock' = r /\ clock' = clock + 1
    BY <1>7 DEF TakeLock
  <2>3. \A q \in Runs : ~Active(q)
    BY <1>1, <2>2, BackupAssumption DEF Exclusive
  <2>4. \A q \in Runs \ {r} : run'[q].stage \in {"idle", "wait"}
    BY <2>1, <2>3 DEF OthersSame, SameRun, Active
  <2>5. Exclusive'
    BY <2>1, <2>2, <2>4 DEF Exclusive, Active
  <2>6. StampsOld'
    BY <1>1, <2>2 DEF StampsOld, TypeOK
  <2>7. TargetsOld'
    <3> SUFFICES ASSUME NEW q \in Runs, run'[q].kind = "restore"
                 PROVE  run'[q].target \in Keys /\ run'[q].target.stamp < clock'
      BY <2>2, <1>1 DEF TargetsOld
    <3>1. run'[q].target = run[q].target /\ run[q].kind = "restore"
      BY <2>1 DEF OthersSame, SameRun
    <3>. QED
      BY <1>1, <2>2, <3>1 DEF TargetsOld
  <2>. QED
    BY <2>5, <2>6, <2>7 DEF StampInv
<1>8. ASSUME NEW r \in Runs, Work(r) PROVE StampInv'
  <2>1. /\ Active(r) /\ OthersSame(r) /\ clock' = clock
        /\ \/ SameJob(r) /\ lock' = lock
           \/ run'[r] = IdleRun /\ lock' = None
        /\ DOMAIN files' \subseteq DOMAIN files \cup OwnKeys(r)
    BY <1>8, WorkEffect
  <2>2. lock = r /\ run[r].stamp = clock /\ \A q \in Runs \ {r} : ~Active(q)
    BY <1>1, <1>2, <2>1 DEF Exclusive
  <2>3. \A q \in Runs \ {r} : run'[q].stage \in {"idle", "wait"}
    BY <2>1, <2>2 DEF OthersSame, SameRun, Active
  <2>4. Exclusive'
    BY <2>1, <2>2, <2>3 DEF Exclusive, Active, SameJob, IdleRun
  <2>5. \A k \in OwnKeys(r) : k.stamp = clock
    BY <2>2 DEF OwnKeys, DumpKey, SafetyKey, Key
  <2>6. StampsOld'
    BY <1>1, <2>1, <2>5 DEF StampsOld
  <2>7. TargetsOld'
    <3> SUFFICES ASSUME NEW q \in Runs, run'[q].kind = "restore"
                 PROVE  /\ run'[q].target \in Keys /\ run'[q].target.stamp <= clock'
                        /\ Active(q)' => run'[q].target.stamp < clock'
      BY DEF TargetsOld
    <3>1. CASE q = r
      BY <1>1, <2>1, <3>1 DEF TargetsOld, SameJob, IdleRun
    <3>2. CASE q # r
      BY <1>1, <2>1, <2>3, <3>2 DEF TargetsOld, OthersSame, SameRun, Active
    <3>. QED
      BY <3>1, <3>2
  <2>. QED
    BY <2>4, <2>6, <2>7 DEF StampInv
<1>9. ASSUME NEW r \in Runs, Finish(r) \/ Crash(r) PROVE StampInv'
  <2>1. OthersSame(r) /\ run'[r] = IdleRun
    BY <1>9, CallEffect, CrashEffect
  <2>2. clock' = clock /\ run[r].stage # "idle" /\ lock' \in {lock, None} /\ (Finish(r) => Active(r))
        /\ (lock' = None => lock = r \/ Finish(r) \/ lock = None)
    BY <1>9 DEF Finish, Crash, Active, At
  <2>3. \A q \in Runs \ {r} : Active(q) => lock' = lock
    BY <1>1, <1>2, <2>2, BackupAssumption DEF Exclusive
  <2>4. Exclusive'
    BY <1>1, <2>1, <2>2, <2>3 DEF Exclusive, Active, OthersSame, SameRun, IdleRun
  <2>5. DOMAIN files' \subseteq DOMAIN files
    BY <1>9 DEF Finish, Crash, Exists, Write
  <2>6. StampsOld'
    BY <1>1, <2>2, <2>5 DEF StampsOld
  <2>7. TargetsOld'
    BY <1>1, <2>1, <2>2 DEF TargetsOld, OthersSame, SameRun, IdleRun, Active
  <2>. QED
    BY <2>4, <2>6, <2>7 DEF StampInv
<1>10. CASE \/ \E o \in orphans : Orphan(o)
            \/ \E d \in Databases, t \in Tables : AppWrite(d, t)
  <2>1. (\A q \in Runs : SameRun(q)) /\ UNCHANGED <<files, lock, clock>>
    BY <1>10, OutsideEffect
  <2>. QED
    BY <1>1, <2>1 DEF StampInv, Exclusive, StampsOld, TargetsOld, Active, SameRun
<1>11. ASSUME NEW k \in DOMAIN files, Delete(k) PROVE StampInv'
  <2>1. UNCHANGED <<run, lock, clock>> /\ DOMAIN files' \subseteq DOMAIN files
    BY <1>11, RemoveEffect DEF Delete
  <2>. QED
    BY <1>1, <2>1 DEF StampInv, Exclusive, StampsOld, TargetsOld, Active
<1>. QED
  BY <1>3, <1>4, <1>5, <1>6, <1>7, <1>8, <1>9, <1>10, <1>11 DEF Next, Step, Work

-----------------------------------------------------------------------------
\* Where each step takes a run.
SameRest(r) == /\ run'[r].safety = run[r].safety
               /\ run'[r].ok => run[r].ok
Failed(r) == run'[r].stage = "done" /\ ~run'[r].ok /\ run'[r].alone = run[r].alone

LEMMA GoEffect ==
  ASSUME TypeInv, NEW r \in Runs
  PROVE  /\ Fail(r) => Failed(r)
         /\ \A s : Go(r, s) => /\ run'[r].stage = s /\ run'[r].arch = run[r].arch
                               /\ run'[r].safety = run[r].safety
                               /\ run'[r].alone = run[r].alone /\ run'[r].ok = run[r].ok
<1>1. TypeOK /\ run[r] \in RunStates
  BY RunType DEF TypeInv
<1>2. ASSUME Fail(r) PROVE Failed(r)
  <2>1. run'[r] = [run[r] EXCEPT !.stage = "done", !.ok = FALSE]
    BY <1>1, <1>2, SetEffect DEF Fail
  <2>. QED
    BY <1>1, <2>1 DEF RunStates, Failed
<1>3. ASSUME NEW s, Go(r, s)
      PROVE  /\ run'[r].stage = s /\ run'[r].arch = run[r].arch
             /\ run'[r].safety = run[r].safety
             /\ run'[r].alone = run[r].alone /\ run'[r].ok = run[r].ok
  <2>1. run'[r] = [run[r] EXCEPT !.stage = s]
    BY <1>1, <1>3, SetEffect DEF Go
  <2>. QED
    BY <1>1, <2>1 DEF RunStates
<1>. QED
  BY <1>2, <1>3

LEMMA BeginDumpMoves ==
  ASSUME TypeInv, NEW r \in Runs, BeginDump(r)
  PROVE  /\ run'[r].stage = "dumping" /\ run'[r].arch = db[SourceOf(run[r].kind)]
         /\ run'[r].safety = run[r].safety /\ run'[r].ok = run[r].ok
<1>1. TypeOK /\ run[r] \in RunStates
  BY RunType DEF TypeInv
<1>2. run'[r] = [run[r] EXCEPT !.stage = "dumping", !.arch = db[SourceOf(run[r].kind)]]
  BY <1>1, SetEffect DEF BeginDump
<1>. QED
  BY <1>1, <1>2 DEF RunStates

LEMMA CheckMoves ==
  ASSUME TypeInv, NEW r \in Runs, Check(r)
  PROVE  \/ /\ run'[r].stage = Next1(r) /\ run'[r].arch = files[ArchiveKey(r)].content
            /\ run'[r].safety = run[r].safety /\ run'[r].ok = run[r].ok
            /\ UNCHANGED files
         \/ /\ Failed(r)
            /\ UNCHANGED files \/ (Remove({DumpKey(r)}) /\ run[r].kind # "restore")
<1>1. TypeOK /\ run[r] \in RunStates
  BY RunType DEF TypeInv
<1>2. ASSUME Set(r, [run[r] EXCEPT !.stage = Next1(r), !.arch = files[ArchiveKey(r)].content])
      PROVE  /\ run'[r].stage = Next1(r) /\ run'[r].arch = files[ArchiveKey(r)].content
             /\ run'[r].safety = run[r].safety /\ run'[r].ok = run[r].ok
  <2>1. run'[r] = [run[r] EXCEPT !.stage = Next1(r), !.arch = files[ArchiveKey(r)].content]
    BY <1>1, <1>2, SetEffect
  <2>. QED
    BY <1>1, <2>1 DEF RunStates
<1>. QED
  BY <1>2, GoEffect DEF Check

LEMMA BeginSafetyMoves ==
  ASSUME TypeInv, NEW r \in Runs, BeginSafety(r)
  PROVE  /\ run'[r].stage = "saving" /\ run'[r].arch = run[r].arch
         /\ run'[r].safety = run[r].safety /\ run'[r].ok = run[r].ok
<1>1. TypeOK /\ run[r] \in RunStates
  BY RunType DEF TypeInv
<1>2. run'[r] = [run[r] EXCEPT !.stage = "saving", !.alone = TRUE]
  BY <1>1, SetEffect DEF BeginSafety
<1>. QED
  BY <1>1, <1>2 DEF RunStates

LEMMA EndSafetyMoves ==
  ASSUME TypeInv, NEW r \in Runs, EndSafety(r)
  PROVE  /\ run'[r].stage = "reset" /\ run'[r].arch = run[r].arch
         /\ run'[r].ok = run[r].ok /\ run'[r].alone = run[r].alone
         /\ \/ /\ Exists(SafetyKey(r)) /\ Write(SafetyKey(r), Completed(SafetyKey(r)))
               /\ run'[r].safety = SafetyKey(r)
            \/ /\ Remove({SafetyKey(r)})
               /\ run'[r].safety = run[r].safety
<1>1. TypeOK /\ run[r] \in RunStates
  BY RunType DEF TypeInv
<1>2. ASSUME Set(r, [run[r] EXCEPT !.stage = "reset", !.safety = SafetyKey(r)])
      PROVE  /\ run'[r].stage = "reset" /\ run'[r].arch = run[r].arch
             /\ run'[r].ok = run[r].ok /\ run'[r].alone = run[r].alone
             /\ run'[r].safety = SafetyKey(r)
  <2>1. run'[r] = [run[r] EXCEPT !.stage = "reset", !.safety = SafetyKey(r)]
    BY <1>1, <1>2, SetEffect
  <2>. QED
    BY <1>1, <2>1 DEF RunStates
<1>. QED
  BY <1>2, GoEffect DEF EndSafety

LEMMA ResetMoves ==
  ASSUME TypeInv, NEW r \in Runs, Reset(r)
  PROVE  /\ run'[r].arch = run[r].arch
         /\ \/ run'[r].stage = "load" /\ run'[r].ok = run[r].ok
            \/ run'[r].stage = "done" /\ ~run'[r].ok
<1>1. run[r] \in RunStates
  BY RunType
<1>2. \/ run'[r] = [run[r] EXCEPT !.stage = "load", !.alone = TRUE]
      \/ run'[r] = [run[r] EXCEPT !.stage = "done", !.ok = FALSE]
  BY ResetEffect
<1>. QED
  BY <1>1, <1>2 DEF RunStates

LEMMA LoadMoves ==
  ASSUME TypeInv, NEW r \in Runs, Load(r)
  PROVE  /\ run'[r].stage \in {"retain", "cleanup", "done"}
         /\ run'[r].stage = "retain" => run[r].kind = "push"
         /\ run[r].kind = "cron" => run'[r].stage = "cleanup"
         /\ run'[r].arch = run[r].arch
         /\ \/ /\ Exists(ArchiveKey(r))
               /\ db' = [db EXCEPT ![TargetOf(run[r].kind)] = Overlay(@, files[ArchiveKey(r)].content)]
               /\ run'[r].alone => run[r].alone \/ run[r].kind = "cron"
            \/ ~run'[r].ok
<1>1. run[r] \in RunStates /\ At(r, "load")
  BY RunType DEF Load
<1>2. /\ Next1(r) \in {"retain", "cleanup", "done"}
      /\ Next1(r) = "retain" => run[r].kind = "push"
      /\ run[r].kind = "cron" => Next1(r) = "cleanup"
  BY <1>1, RunType, NextStage DEF Kinds
<1>3. ASSUME run'[r] = [run[r] EXCEPT !.stage = Next1(r), !.ok = TRUE,
                                      !.alone = @ \/ run[r].kind = "cron"]
      PROVE  /\ run'[r].stage = Next1(r) /\ run'[r].arch = run[r].arch /\ run'[r].ok
             /\ run'[r].alone => run[r].alone \/ run[r].kind = "cron"
  BY <1>1, <1>3 DEF RunStates
<1>4. ASSUME run'[r] = [run[r] EXCEPT !.ok = FALSE, !.stage =
                          IF run[r].kind \in {"fetch", "cron"} THEN "cleanup" ELSE "done"]
      PROVE  /\ run'[r].stage = IF run[r].kind \in {"fetch", "cron"} THEN "cleanup" ELSE "done"
             /\ run'[r].arch = run[r].arch /\ ~run'[r].ok
  BY <1>1, <1>4 DEF RunStates
<1>5. \/ run'[r] = [run[r] EXCEPT !.stage = Next1(r), !.ok = TRUE,
                                  !.alone = @ \/ run[r].kind = "cron"]
      \/ run'[r] = [run[r] EXCEPT !.ok = FALSE, !.stage =
                      IF run[r].kind \in {"fetch", "cron"} THEN "cleanup" ELSE "done"]
  BY LoadEffect
<1>6. \/ /\ Exists(ArchiveKey(r))
         /\ db' = [db EXCEPT ![TargetOf(run[r].kind)] = Overlay(@, files[ArchiveKey(r)].content)]
      \/ ~run'[r].ok
  <2> DEFINE d == TargetOf(run[r].kind)
             f == [run EXCEPT ![r].ok = FALSE, ![r].stage =
                    IF run[r].kind \in {"fetch", "cron"} THEN "cleanup" ELSE "done"]
  <2>1. ASSUME run' = Touched(d, r, f) PROVE ~run'[r].ok
    <3>1. run'[r] = f[r]
      BY <2>1 DEF Touched
    <3>2. run \in [Runs -> RunStates]
      BY DEF TypeInv, TypeOK
    <3>. QED
      BY <3>1, <3>2 DEF RunStates
  <2>. QED
    BY <2>1 DEF Load
<1>. QED
  BY <1>2, <1>3, <1>4, <1>5, <1>6

-----------------------------------------------------------------------------
\* The file a run is dumping or has dumped, is loading or has chosen.
HoldsDump(r) ==
  \/ run[r].kind = "push" /\ run[r].stage \in {"dumping", "check", "publish"}
  \/ run[r].kind = "fetch" /\ run[r].stage \in {"dumping", "stat", "safety", "saving", "reset", "load"}
  \/ run[r].kind = "cron" /\ run[r].stage \in {"dumping", "check", "load"}
HoldsSnapshot(r) == run[r].kind = "push" /\ run[r].stage \in {"stat", "reset", "load"}
HoldsTarget(r) == run[r].kind = "restore" /\ run[r].stage \in {"safety", "saving", "reset", "load"}

IsArch(k, r) == Exists(k) => files[k].content = run[r].arch
Dumped(r) == HoldsDump(r) =>
               /\ IsArch(DumpKey(r), r)
               /\ ~At(r, "dumping") /\ Exists(DumpKey(r)) => files[DumpKey(r)].whole
\* The archive of a run is the file it holds, and a dump is whole once it is finished.
ArchOK(r) == /\ Dumped(r)
             /\ HoldsSnapshot(r) => IsArch(Key("gaet", run[r].stamp), r)
             /\ HoldsTarget(r) => IsArch(run[r].target, r)
ArchInv == (\A r \in Runs : ArchOK(r)) /\ PublishedWhole

\* Files may go, but those left are as they were.
FewerFiles == /\ DOMAIN files' \subseteq DOMAIN files
              /\ \A k \in DOMAIN files' : files'[k] = files[k]

\* A step that leaves a run and its files alone keeps its archive; one that holds none has nothing to keep.
LEMMA ArchKept ==
  ASSUME NEW r \in Runs, ArchOK(r), SameRun(r), FewerFiles
  PROVE  ArchOK(r)'
BY DEF ArchOK, SameRun, FewerFiles, Dumped, IsArch, Exists, HoldsDump, HoldsSnapshot, HoldsTarget,
       DumpKey, Key, At

LEMMA ArchNone ==
  ASSUME NEW r \in Runs, run'[r].stage \in {"idle", "wait", "dump", "retain", "cleanup", "done"}
  PROVE  ArchOK(r)'
BY DEF ArchOK, Dumped, HoldsDump, HoldsSnapshot, HoldsTarget

LEMMA WholeKept ==
  ASSUME PublishedWhole, FewerFiles
  PROVE  PublishedWhole'
BY DEF PublishedWhole, FewerFiles

\* Writing or removing a file that has another prefix.
LEMMA WholeWrite ==
  ASSUME PublishedWhole, NEW k, NEW f, Write(k, f), k.prefix # "gaet" \/ f.whole
  PROVE  PublishedWhole'
<1>1. /\ DOMAIN files' = DOMAIN files \cup {k}
      /\ files'[k] = f
      /\ \A x \in DOMAIN files \ {k} : files'[x] = files[x]
  BY WriteEffect
<1>. QED
  BY <1>1 DEF PublishedWhole

LEMMA RemoveFewer ==
  ASSUME NEW K, Remove(K)
  PROVE  FewerFiles
BY RemoveEffect DEF FewerFiles

\* Every step keeps archives and published snapshots.
LEMMA ArchStep == TypeInv /\ StampInv /\ ArchInv /\ [Next]_vars => ArchInv'
<1> SUFFICES ASSUME TypeInv, StampInv, ArchInv, [Next]_vars PROVE ArchInv'
  OBVIOUS
<1>1. /\ Exclusive /\ TargetsOld /\ PublishedWhole /\ TypeOK /\ clock \in Nat
      /\ \A q \in Runs : ArchOK(q)
  BY BackupAssumption DEF StampInv, ArchInv, TypeInv, TypeOK
<1>2. \A r, q \in Runs : Active(r) /\ r # q => run[q].stage \in {"idle", "wait"}
  BY <1>1 DEF Exclusive, Active
\* A step of run r leaves the others alone, so run r and the whole files remain.
<1>3. ASSUME NEW r \in Runs, OthersSame(r), FewerFiles, ArchOK(r)' PROVE ArchInv'
  <2>1. ASSUME NEW q \in Runs PROVE ArchOK(q)'
    BY <1>1, <1>3, ArchKept DEF OthersSame
  <2>. QED
    BY <1>1, <1>3, <2>1, WholeKept DEF ArchInv
<1>4. ASSUME NEW r \in Runs, OthersSame(r), Active(r), ArchOK(r)', PublishedWhole' PROVE ArchInv'
  <2>1. ASSUME NEW q \in Runs PROVE ArchOK(q)'
    <3>1. CASE q # r
      BY <1>2, <1>4, <3>1, ArchNone DEF OthersSame, SameRun
    <3>. QED
      BY <1>4, <3>1
  <2>. QED
    BY <1>4, <2>1 DEF ArchInv
<1>5. UNCHANGED files => FewerFiles
  BY DEF FewerFiles
<1>6. CASE UNCHANGED vars
  <2>1. \A q \in Runs : SameRun(q)
    BY <1>6 DEF vars, SameRun
  <2>. QED
    BY <1>1, <1>5, <1>6, <2>1, ArchKept, WholeKept DEF vars, ArchInv
<1>7. ASSUME NEW r \in Runs, NEW kind \in Kinds, Begin(r, kind) PROVE ArchInv'
  <2>1. OthersSame(r) /\ run'[r] = [IdleRun EXCEPT !.kind = kind, !.stage = "wait"]
    BY <1>7, CallEffect
  <2>2. run'[r].stage = "wait"
    BY <2>1 DEF IdleRun
  <2>. QED
    BY <1>3, <1>5, <1>7, <2>1, <2>2, ArchNone DEF Begin
<1>8. ASSUME NEW r \in Runs, NEW k \in DOMAIN files, Resolve(r, k) PROVE ArchInv'
  <2>1. /\ OthersSame(r)
        /\ run'[r] = [IdleRun EXCEPT !.kind = "restore", !.stage = "wait", !.target = k]
    BY <1>8, CallEffect
  <2>2. run'[r].stage = "wait"
    BY <2>1 DEF IdleRun
  <2>. QED
    BY <1>3, <1>5, <1>8, <2>1, <2>2, ArchNone DEF Resolve
<1>9. ASSUME NEW r \in Runs, GiveUp(r) \/ Finish(r) PROVE ArchInv'
  <2>1. OthersSame(r) /\ run'[r] = IdleRun
    BY <1>9, CallEffect
  <2>2. run'[r].stage = "idle"
    BY <2>1 DEF IdleRun
  <2>. QED
    BY <1>3, <1>5, <1>9, <2>1, <2>2, ArchNone DEF GiveUp, Finish
<1>10. ASSUME NEW r \in Runs, TakeLock(r) PROVE ArchInv'
  <2>1. /\ OthersSame(r)
        /\ run'[r].kind = run[r].kind
        /\ run'[r].stage = IF run[r].kind = "restore" THEN "check" ELSE "dump"
    BY <1>10, CallEffect, RunType DEF RunStates
  <2>2. ArchOK(r)'
    BY <2>1 DEF ArchOK, Dumped, HoldsDump, HoldsSnapshot, HoldsTarget
  <2>. QED
    BY <1>3, <1>5, <1>10, <2>1, <2>2 DEF TakeLock
<1>11. ASSUME NEW r \in Runs, Work(r) PROVE ArchInv'
  <2>1. /\ Active(r) /\ OthersSame(r) /\ clock' = clock
        /\ SameJob(r) \/ run'[r] = IdleRun
        /\ run[r].stamp = clock /\ ArchOK(r)
    BY <1>1, <1>11, WorkEffect DEF Exclusive
  <2>2. /\ run[r].kind \in Kinds /\ run[r].stage \in StagesOf(run[r].kind)
        /\ run'[r].kind \in Kinds
    <3>1. run'[r].kind \in Kinds
      BY <2>1, RunType DEF SameJob, IdleRun, Kinds
    <3>. QED
      BY <3>1, RunType
  <2>3. /\ DumpKey(r).prefix \in {"tmp", "cloud", "cron"} /\ SafetyKey(r).prefix = "safety"
        /\ DumpKey(r).stamp = clock /\ SafetyKey(r).stamp = clock
        /\ Key("gaet", run[r].stamp) \notin {DumpKey(r), SafetyKey(r)}
        /\ DumpKey(r) # SafetyKey(r)
    BY <2>1 DEF DumpKey, SafetyKey, Key
  <2>4. HoldsTarget(r) => run[r].target.stamp # clock
    BY <1>1, <2>1 DEF HoldsTarget, TargetsOld, Keys
  <2>5. CASE BeginDump(r)
    <3>1. run'[r].stage = "dumping" /\ run'[r].arch = db[SourceOf(run[r].kind)] /\ SameJob(r)
      BY <2>1, <2>5, BeginDumpMoves DEF IdleRun
    <3>2. files'[DumpKey(r)] = [content |-> db[SourceOf(run[r].kind)], whole |-> FALSE]
      BY <2>5, WriteEffect DEF BeginDump
    <3>3. DumpKey(r)' = DumpKey(r)
      BY <3>1 DEF SameJob, DumpKey
    <3>4. ArchOK(r)'
      BY <3>1, <3>2, <3>3 DEF ArchOK, Dumped, HoldsDump, HoldsSnapshot, HoldsTarget, IsArch, At
    <3>5. PublishedWhole'
      BY <1>1, <2>3, <2>5, WholeWrite DEF BeginDump
    <3>. QED
      BY <1>4, <2>1, <3>4, <3>5
  <2>6. CASE EndDump(r)
    <3>1. CASE Exists(DumpKey(r)) /\ Write(DumpKey(r), Completed(DumpKey(r))) /\ Go(r, Next1(r))
      <4>1. run'[r].stage = Next1(r) /\ run'[r].arch = run[r].arch
        BY <3>1, GoEffect
      <4>2. run[r].kind \in {"push", "fetch", "cron"} /\ At(r, "dumping")
        BY <2>2, <2>6 DEF EndDump, At, StagesOf, Kinds
      <4>3. run'[r].stage = IF run[r].kind = "fetch" THEN "stat" ELSE "check"
        BY <2>2, <4>1, <4>2, NextStage
      <4>4. SameJob(r)
        BY <2>1, <4>2, <4>3 DEF IdleRun
      <4>5. DumpKey(r)' = DumpKey(r)
        BY <4>4 DEF SameJob, DumpKey
      <4>6. Completed(DumpKey(r)).whole /\ Completed(DumpKey(r)).content = run[r].arch
        <5>1. files[DumpKey(r)] \in Files /\ files[DumpKey(r)].content = run[r].arch
          BY <1>1, <2>1, <3>1, <4>2 DEF TypeOK, Exists, ArchOK, Dumped, HoldsDump, IsArch, At
        <5>. QED
          BY <5>1 DEF Completed, Files
      <4>7. files'[DumpKey(r)] = Completed(DumpKey(r))
        BY <3>1, WriteEffect
      <4>8. ArchOK(r)'
        BY <4>1, <4>2, <4>3, <4>4, <4>5, <4>6, <4>7
           DEF ArchOK, Dumped, HoldsDump, HoldsSnapshot, HoldsTarget, IsArch, At, SameJob
      <4>9. PublishedWhole'
        BY <1>1, <2>3, <3>1, WholeWrite
      <4>. QED
        BY <1>4, <2>1, <4>8, <4>9
    <3>2. CASE Remove({DumpKey(r)}) /\ Fail(r)
      BY <1>3, <2>1, <3>2, GoEffect, RemoveFewer, ArchNone DEF Failed
    <3>. QED
      BY <2>6, <3>1, <3>2 DEF EndDump
  <2>7. CASE Check(r)
    <3>1. CASE /\ run'[r].stage = Next1(r) /\ run'[r].arch = files[ArchiveKey(r)].content
               /\ UNCHANGED files
      <4>1. run[r].kind \in {"push", "restore", "cron"} /\ At(r, "check")
        BY <2>2, <2>7 DEF Check, At, StagesOf, Kinds
      <4>2. run'[r].stage = CASE run[r].kind = "push" -> "publish"
                              [] run[r].kind = "restore" -> "safety"
                              [] OTHER -> "load"
        BY <2>2, <3>1, <4>1, NextStage
      <4>3. SameJob(r)
        BY <2>1, <4>1, <4>2 DEF IdleRun
      <4>4. DumpKey(r)' = DumpKey(r)
        BY <4>3 DEF SameJob, DumpKey
      <4>5. ArchiveKey(r) = IF run[r].kind = "restore" THEN run[r].target ELSE DumpKey(r)
        BY <4>1 DEF ArchiveKey, At
      <4>6. ArchOK(r)'
        BY <2>1, <3>1, <4>1, <4>2, <4>3, <4>4, <4>5
           DEF ArchOK, Dumped, HoldsDump, HoldsSnapshot, HoldsTarget, IsArch, At, SameJob, Exists
      <4>. QED
        BY <1>3, <1>5, <2>1, <3>1, <4>6
    <3>2. CASE Failed(r) /\ (UNCHANGED files \/ Remove({DumpKey(r)}))
      BY <1>3, <1>5, <2>1, <3>2, RemoveFewer, ArchNone DEF Failed
    <3>. QED
      BY <2>7, <3>1, <3>2, CheckMoves
  <2>8. CASE Publish(r)
    <3> DEFINE final == Key("gaet", run[r].stamp)
    <3>1. ASSUME Exists(DumpKey(r)), Go(r, Next1(r)),
                 files' = [x \in (DOMAIN files \ {DumpKey(r)}) \cup {final} |->
                             IF x = final THEN files[DumpKey(r)] ELSE files[x]]
          PROVE  ArchInv'
      <4>1. run'[r].stage = Next1(r) /\ run'[r].arch = run[r].arch
        BY <3>1, GoEffect
      <4>2. run[r].kind = "push" /\ At(r, "publish")
        BY <2>2, <2>8 DEF Publish, At, StagesOf, Kinds
      <4>3. run'[r].stage = "stat"
        BY <2>2, <4>1, <4>2, NextStage
      <4>4. SameJob(r)
        BY <2>1, <4>3 DEF IdleRun
      <4>5. files'[final] = files[DumpKey(r)] /\ \A k \in DOMAIN files' \ {final} : files'[k] = files[k]
            /\ k \in DOMAIN files
        BY <3>1
      <4>6. files[DumpKey(r)].whole /\ files[DumpKey(r)].content = run[r].arch
        BY <2>1, <3>1, <4>2 DEF ArchOK, Dumped, HoldsDump, IsArch, At
      <4>7. ArchOK(r)'
        BY <4>1, <4>2, <4>3, <4>4, <4>5, <4>6
           DEF ArchOK, Dumped, HoldsDump, HoldsSnapshot, HoldsTarget, IsArch, SameJob
      <4>8. PublishedWhole'
        BY <1>1, <4>5, <4>6 DEF PublishedWhole
      <4>. QED
        BY <1>4, <2>1, <4>7, <4>8
    <3>2. CASE Remove({DumpKey(r)}) /\ Fail(r)
      BY <1>3, <2>1, <3>2, GoEffect, RemoveFewer, ArchNone DEF Failed
    <3>. QED
      BY <2>8, <3>1, <3>2 DEF Publish
  <2>9. CASE StatDump(r)
    <3>1. CASE Go(r, Next1(r))
      <4>1. run'[r].stage = Next1(r) /\ run'[r].arch = run[r].arch
        BY <3>1, GoEffect
      <4>2. run[r].kind \in {"push", "fetch"} /\ At(r, "stat") /\ UNCHANGED files
        BY <2>2, <2>9 DEF StatDump, At, StagesOf, Kinds
      <4>3. run'[r].stage = IF run[r].kind = "push" THEN "reset" ELSE "safety"
        BY <2>2, <4>1, <4>2, NextStage
      <4>4. SameJob(r)
        BY <2>1, <4>3 DEF IdleRun
      <4>5. DumpKey(r)' = DumpKey(r)
        BY <4>4 DEF SameJob, DumpKey
      <4>6. ArchOK(r)'
        BY <2>1, <4>1, <4>2, <4>3, <4>4, <4>5
           DEF ArchOK, Dumped, HoldsDump, HoldsSnapshot, HoldsTarget, IsArch, At, SameJob, Exists
      <4>. QED
        BY <1>3, <1>5, <2>1, <4>2, <4>6
    <3>2. CASE Set(r, IdleRun)
      <4>1. run'[r].stage = "idle"
        BY <1>1, <3>2, SetEffect DEF IdleRun
      <4>. QED
        BY <1>3, <1>5, <2>1, <2>9, <4>1, ArchNone DEF StatDump
    <3>. QED
      BY <2>9, <3>1, <3>2 DEF StatDump
  <2>10. CASE BeginSafety(r) \/ EndSafety(r)
    <3>1. /\ run[r].kind \in {"fetch", "restore"}
          /\ run[r].stage \in {"safety", "saving"} /\ run'[r].stage \in {"saving", "reset"}
          /\ run'[r].arch = run[r].arch
      BY <2>2, <2>10, BeginSafetyMoves, EndSafetyMoves
         DEF BeginSafety, EndSafety, At, StagesOf, Kinds
    <3>2. SameJob(r)
      BY <2>1, <3>1 DEF IdleRun
    <3>3. /\ DOMAIN files' \subseteq DOMAIN files \cup {SafetyKey(r)}
          /\ \A k \in DOMAIN files' \ {SafetyKey(r)} : files'[k] = files[k]
      BY <2>10 DEF BeginSafety, EndSafety, Write, Remove
    <3>4. DumpKey(r)' = DumpKey(r)
      BY <3>2 DEF SameJob, DumpKey
    <3>5. HoldsTarget(r) => run[r].target # SafetyKey(r)
      BY <2>3, <2>4
    <3>6. ArchOK(r)'
      BY <2>1, <2>3, <3>1, <3>2, <3>3, <3>4, <3>5
         DEF ArchOK, Dumped, HoldsDump, HoldsSnapshot, HoldsTarget, IsArch, At, SameJob, Exists
    <3>7. PublishedWhole'
      BY <1>1, <2>3, <3>3 DEF PublishedWhole
    <3>. QED
      BY <1>4, <2>1, <3>6, <3>7
  <2>11. CASE Reset(r)
    <3>1. /\ At(r, "reset") /\ run[r].kind # "cron" /\ UNCHANGED files
          /\ run'[r].stage \in {"load", "done"} /\ run'[r].arch = run[r].arch
      BY <2>2, <2>11, ResetMoves DEF Reset, At, StagesOf, Kinds
    <3>2. SameJob(r)
      BY <2>1, <3>1 DEF IdleRun
    <3>3. DumpKey(r)' = DumpKey(r)
      BY <3>2 DEF SameJob, DumpKey
    <3>4. ArchOK(r)'
      BY <2>1, <2>2, <3>1, <3>2, <3>3
         DEF ArchOK, Dumped, HoldsDump, HoldsSnapshot, HoldsTarget, IsArch, At, SameJob, Exists
    <3>. QED
      BY <1>3, <1>5, <2>1, <3>1, <3>4
  <2>12. CASE Load(r) \/ Cleanup(r) \/ Retain(r)
    <3>1. run'[r].stage \in {"retain", "cleanup", "done"}
      BY <2>12, LoadMoves, GoEffect DEF Cleanup, Retain
    <3>2. FewerFiles
      BY <1>5, <2>12, RemoveFewer DEF Load, Cleanup, Retain
    <3>. QED
      BY <1>3, <2>1, <3>1, <3>2, ArchNone
  <2>. QED
    BY <1>11, <2>5, <2>6, <2>7, <2>8, <2>9, <2>10, <2>11, <2>12 DEF Work
<1>12. ASSUME NEW r \in Runs, Crash(r) PROVE ArchInv'
  <2>1. OthersSame(r) /\ run'[r].stage = "idle"
    BY <1>12, CrashEffect DEF IdleRun
  <2>2. CASE UNCHANGED files
    BY <1>3, <1>5, <2>1, <2>2, ArchNone
  <2>3. CASE ~UNCHANGED files
    <3> DEFINE k == IF At(r, "saving") THEN SafetyKey(r) ELSE DumpKey(r)
    <3>1. /\ At(r, "dumping") \/ At(r, "saving")
          /\ Exists(k) /\ Write(k, Completed(k))
      BY <1>12, <2>3 DEF Crash
    <3>2. Completed(k).whole
      BY <1>1, <3>1 DEF Completed, Exists, TypeOK, Files
    <3>3. PublishedWhole'
      BY <1>1, <3>1, <3>2, WholeWrite
    <3>4. Active(r)
      BY <3>1 DEF At, Active
    <3>. QED
      BY <1>4, <2>1, <3>3, <3>4, ArchNone
  <2>. QED
    BY <2>2, <2>3
<1>13. CASE \/ \E o \in orphans : Orphan(o)
            \/ \E d \in Databases, t \in Tables : AppWrite(d, t)
  <2>1. (\A q \in Runs : SameRun(q)) /\ UNCHANGED files
    BY <1>13, OutsideEffect
  <2>. QED
    BY <1>1, <1>5, <2>1, ArchKept, WholeKept DEF ArchInv
<1>14. ASSUME NEW k \in DOMAIN files, Delete(k) PROVE ArchInv'
  <2>1. FewerFiles /\ \A q \in Runs : SameRun(q)
    BY <1>14, RemoveFewer DEF Delete, SameRun
  <2>. QED
    BY <1>1, <2>1, ArchKept, WholeKept DEF ArchInv
<1>. QED
  BY <1>6, <1>7, <1>8, <1>9, <1>10, <1>11, <1>12, <1>13, <1>14 DEF Next, Step, Work

-----------------------------------------------------------------------------
\* A load into an empty database makes it the archive, unless something else writes to it.
Mirrors(r) == run[r].ok /\ run[r].alone =>
                \A t \in Tables :
                  \/ run[r].kind = "cron" /\ run[r].arch[t] = 0
                  \/ db[TargetOf(run[r].kind)][t] = run[r].arch[t]
MirrorOK(r) ==
  /\ At(r, "load") /\ run[r].kind # "cron" /\ run[r].alone => db[TargetOf(run[r].kind)] = Empty
  /\ run[r].ok => run[r].stage \in {"cleanup", "retain", "done"}
  /\ Mirrors(r)
MirrorInv == \A r \in Runs : MirrorOK(r)

\* A database that is left alone stays a mirror.
LEMMA MirrorKept ==
  ASSUME NEW r \in Runs, MirrorOK(r), SameRun(r),
         \/ db'[TargetOf(run[r].kind)] = db[TargetOf(run[r].kind)]
         \/ ~run'[r].alone
  PROVE  MirrorOK(r)'
BY DEF MirrorOK, SameRun, Mirrors, At

LEMMA MirrorNone ==
  ASSUME NEW r \in Runs, ~run'[r].ok, run'[r].stage = "load" => run'[r].kind = "cron"
  PROVE  MirrorOK(r)'
BY DEF MirrorOK, Mirrors, At

\* Every step keeps the mirrors.
LEMMA MirrorStep == TypeInv /\ StampInv /\ ArchInv /\ MirrorInv /\ [Next]_vars => MirrorInv'
<1> SUFFICES ASSUME TypeInv, StampInv, ArchInv, MirrorInv, [Next]_vars PROVE MirrorInv'
  OBVIOUS
<1>1. /\ Exclusive /\ TypeOK
      /\ \A q \in Runs : ArchOK(q) /\ MirrorOK(q)
      /\ db \in [Databases -> Contents]
  BY DEF StampInv, ArchInv, MirrorInv, TypeInv, TypeOK
<1>2. \A r, q \in Runs : Active(r) /\ r # q => run[q].stage \in {"idle", "wait"} /\ ~run[q].ok
  BY <1>1 DEF Exclusive, Active, MirrorOK
<1>3. ASSUME NEW r \in Runs, OthersSame(r), UNCHANGED db, MirrorOK(r)' PROVE MirrorInv'
  BY <1>1, <1>3, MirrorKept DEF OthersSame, MirrorInv
<1>4. ASSUME NEW r \in Runs, OthersSame(r), Active(r), MirrorOK(r)' PROVE MirrorInv'
  <2>1. ASSUME NEW q \in Runs PROVE MirrorOK(q)'
    <3>1. CASE q # r
      BY <1>2, <1>4, <3>1, MirrorNone DEF OthersSame, SameRun
    <3>. QED
      BY <1>4, <3>1
  <2>. QED
    BY <2>1 DEF MirrorInv
<1>5. CASE UNCHANGED vars
  <2>1. \A q \in Runs : SameRun(q) /\ UNCHANGED db
    BY <1>5 DEF vars, SameRun
  <2>. QED
    BY <1>1, <2>1, MirrorKept DEF MirrorInv
<1>6. ASSUME NEW r \in Runs, NEW kind \in Kinds, Begin(r, kind) PROVE MirrorInv'
  <2>1. OthersSame(r) /\ run'[r] = [IdleRun EXCEPT !.kind = kind, !.stage = "wait"]
    BY <1>6, CallEffect
  <2>2. run'[r].stage = "wait" /\ ~run'[r].ok
    BY <2>1 DEF IdleRun
  <2>. QED
    BY <1>3, <1>6, <2>1, <2>2, MirrorNone DEF Begin
<1>7. ASSUME NEW r \in Runs, NEW k \in DOMAIN files, Resolve(r, k) PROVE MirrorInv'
  <2>1. /\ OthersSame(r)
        /\ run'[r] = [IdleRun EXCEPT !.kind = "restore", !.stage = "wait", !.target = k]
    BY <1>7, CallEffect
  <2>2. run'[r].stage = "wait" /\ ~run'[r].ok
    BY <2>1 DEF IdleRun
  <2>. QED
    BY <1>3, <1>7, <2>1, <2>2, MirrorNone DEF Resolve
<1>8. ASSUME NEW r \in Runs, GiveUp(r) \/ Finish(r) PROVE MirrorInv'
  <2>1. OthersSame(r) /\ run'[r] = IdleRun
    BY <1>8, CallEffect
  <2>2. run'[r].stage = "idle" /\ ~run'[r].ok
    BY <2>1 DEF IdleRun
  <2>. QED
    BY <1>3, <1>8, <2>1, <2>2, MirrorNone DEF GiveUp, Finish
<1>9. ASSUME NEW r \in Runs, TakeLock(r) PROVE MirrorInv'
  <2>1. /\ OthersSame(r) /\ run'[r].ok = run[r].ok
        /\ run'[r].stage = IF run[r].kind = "restore" THEN "check" ELSE "dump"
    BY <1>9, CallEffect, RunType DEF RunStates
  <2>2. ~run[r].ok
    BY <1>1, <1>9 DEF TakeLock, At, MirrorOK
  <2>. QED
    BY <1>3, <1>9, <2>1, <2>2, MirrorNone DEF TakeLock
<1>10. ASSUME NEW r \in Runs, Work(r) PROVE MirrorInv'
  <2>1. /\ Active(r) /\ OthersSame(r) /\ MirrorOK(r) /\ ArchOK(r)
        /\ SameJob(r) \/ run'[r] = IdleRun
        /\ run[r].kind \in Kinds /\ run[r].stage \in StagesOf(run[r].kind)
    BY <1>1, <1>10, WorkEffect, RunType
  <2>2. TargetOf(run[r].kind) \in Databases
    BY DEF TargetOf, Databases
  <2>3. CASE BeginDump(r)
    <3>1. run'[r].stage = "dumping" /\ ~run'[r].ok
      BY <2>1, <2>3, BeginDumpMoves DEF BeginDump, MirrorOK, At
    <3>. QED
      BY <1>4, <2>1, <3>1, MirrorNone
  <2>4. CASE EndDump(r)
    <3>1. run'[r].stage # "load" /\ ~run'[r].ok
      BY <2>1, <2>4, GoEffect, NextStage DEF EndDump, MirrorOK, At, Kinds, StagesOf, Failed
    <3>. QED
      BY <1>4, <2>1, <3>1, MirrorNone
  <2>5. CASE Check(r)
    <3>1. ~run[r].ok /\ At(r, "check")
      BY <2>1, <2>5 DEF Check, MirrorOK, At
    <3>2. ~run'[r].ok /\ run'[r].stage \in {Next1(r), "done"}
      BY <2>5, <3>1, CheckMoves DEF Failed
    <3>3. Next1(r) = "load" => run[r].kind = "cron"
      BY <2>1, <3>1, NextStage DEF Kinds, StagesOf, At
    <3>4. run'[r].stage = "load" => run'[r].kind = "cron"
      BY <2>1, <3>2, <3>3 DEF SameJob, IdleRun
    <3>. QED
      BY <1>4, <2>1, <3>2, <3>4, MirrorNone
  <2>6. CASE Publish(r)
    <3>1. run'[r].stage # "load" /\ ~run'[r].ok
      BY <2>1, <2>6, GoEffect, NextStage DEF Publish, MirrorOK, At, Kinds, StagesOf, Failed
    <3>. QED
      BY <1>4, <2>1, <3>1, MirrorNone
  <2>7. CASE StatDump(r)
    <3>1. CASE Go(r, Next1(r))
      <4>1. run'[r].stage # "load" /\ ~run'[r].ok
        BY <2>1, <2>7, <3>1, GoEffect, NextStage DEF StatDump, MirrorOK, At, Kinds, StagesOf
      <4>. QED
        BY <1>4, <2>1, <4>1, MirrorNone
    <3>2. CASE Set(r, IdleRun)
      <4>1. run'[r].stage = "idle" /\ ~run'[r].ok
        BY <1>1, <3>2, SetEffect DEF IdleRun
      <4>. QED
        BY <1>4, <2>1, <4>1, MirrorNone
    <3>. QED
      BY <2>7, <3>1, <3>2 DEF StatDump
  <2>8. CASE BeginSafety(r) \/ EndSafety(r)
    <3>1. run'[r].stage # "load" /\ ~run'[r].ok
      BY <2>1, <2>8, BeginSafetyMoves, EndSafetyMoves DEF BeginSafety, EndSafety, MirrorOK, At
    <3>. QED
      BY <1>4, <2>1, <3>1, MirrorNone
  <2>9. CASE Reset(r)
    <3>1. ~run[r].ok /\ At(r, "reset")
      BY <2>1, <2>9 DEF Reset, MirrorOK, At
    <3>2. CASE run'[r].stage = "load" /\ run'[r].ok = run[r].ok
      <4>1. SameJob(r)
        BY <2>1, <3>2 DEF IdleRun
      <4>2. db' = [db EXCEPT ![TargetOf(run[r].kind)] = Empty]
        <5> DEFINE f == [run EXCEPT ![r].stage = "done", ![r].ok = FALSE]
        <5>1. ASSUME run' = Touched(TargetOf(run[r].kind), r, f) PROVE FALSE
          <6>1. run'[r] = f[r]
            BY <5>1 DEF Touched
          <6>2. run \in [Runs -> RunStates]
            BY <1>1 DEF TypeOK
          <6>. QED
            BY <3>2, <6>1, <6>2 DEF RunStates
        <5>. QED
          BY <2>9, <5>1 DEF Reset
      <4>3. db'[TargetOf(run[r].kind)] = Empty
        BY <1>1, <2>2, <4>2
      <4>4. MirrorOK(r)'
        BY <3>1, <3>2, <4>1, <4>3 DEF MirrorOK, Mirrors, SameJob, At
      <4>. QED
        BY <1>4, <2>1, <4>4
    <3>3. CASE run'[r].stage = "done" /\ ~run'[r].ok
      BY <1>4, <2>1, <3>3, MirrorNone
    <3>. QED
      BY <2>9, <3>2, <3>3, ResetMoves
  <2>10. CASE Load(r)
    <3>1. /\ At(r, "load") /\ run'[r].stage \in {"retain", "cleanup", "done"}
          /\ run'[r].arch = run[r].arch
      BY <2>10, LoadMoves DEF Load
    <3>2. CASE ~run'[r].ok
      BY <1>4, <2>1, <3>1, <3>2, MirrorNone
    <3>3. ASSUME Exists(ArchiveKey(r)),
                 db' = [db EXCEPT ![TargetOf(run[r].kind)] = Overlay(@, files[ArchiveKey(r)].content)],
                 run'[r].alone => run[r].alone \/ run[r].kind = "cron"
          PROVE  MirrorInv'
      <4> DEFINE d == TargetOf(run[r].kind)
      <4>1. SameJob(r)
        BY <2>1, <3>1 DEF IdleRun
      <4>2. files[ArchiveKey(r)].content = run[r].arch
        BY <2>1, <3>1, <3>3
           DEF ArchiveKey, ArchOK, Dumped, IsArch, HoldsDump, HoldsSnapshot, HoldsTarget, At, Kinds
      <4>3. db'[d] = Overlay(db[d], run[r].arch)
        BY <1>1, <2>2, <3>3, <4>2
      <4>4. \A t \in Tables : db'[d][t] = IF run[r].arch[t] # 0 THEN run[r].arch[t] ELSE db[d][t]
        BY <4>3 DEF Overlay
      <4>5. run'[r].alone /\ run[r].kind # "cron" => \A t \in Tables : db[d][t] = 0
        BY <2>1, <3>1, <3>3 DEF MirrorOK, Empty
      <4>6. MirrorOK(r)'
        BY <3>1, <4>1, <4>4, <4>5 DEF MirrorOK, Mirrors, SameJob, At
      <4>. QED
        BY <1>4, <2>1, <4>6
    <3>. QED
      BY <2>10, <3>2, <3>3, LoadMoves
  <2>11. CASE Cleanup(r) \/ Retain(r)
    <3>1. /\ run'[r].stage = "done" /\ run'[r].arch = run[r].arch /\ run'[r].ok = run[r].ok
          /\ run'[r].alone = run[r].alone /\ UNCHANGED db
      BY <2>11, GoEffect DEF Cleanup, Retain
    <3>2. SameJob(r)
      BY <2>1, <3>1 DEF IdleRun
    <3>3. MirrorOK(r)'
      BY <2>1, <3>1, <3>2 DEF MirrorOK, Mirrors, SameJob, At
    <3>. QED
      BY <1>4, <2>1, <3>3
  <2>. QED
    BY <1>10, <2>3, <2>4, <2>5, <2>6, <2>7, <2>8, <2>9, <2>10, <2>11 DEF Work
<1>11. ASSUME NEW r \in Runs, Crash(r) PROVE MirrorInv'
  <2>1. OthersSame(r) /\ run'[r].stage = "idle" /\ ~run'[r].ok
    BY <1>11, CrashEffect DEF IdleRun
  <2>2. Active(r) \/ UNCHANGED db
    BY <1>11 DEF Crash, At, Active
  <2>. QED
    BY <1>3, <1>4, <2>1, <2>2, MirrorNone
<1>12. CASE \/ \E o \in orphans : Orphan(o)
            \/ \E d \in Databases, t \in Tables : AppWrite(d, t)
  <2>1. /\ \A q \in Runs : SameRun(q)
        /\ \E d \in Databases :
             /\ \A e \in Databases \ {d} : db'[e] = db[e]
             /\ \A q \in Runs : TargetOf(run[q].kind) = d => ~run'[q].alone
    BY <1>12, OutsideEffect
  <2>2. \A q \in Runs : TargetOf(run[q].kind) \in Databases
    BY DEF TargetOf, Databases
  <2>3. \A q \in Runs : \/ db'[TargetOf(run[q].kind)] = db[TargetOf(run[q].kind)]
                        \/ ~run'[q].alone
    BY <2>1, <2>2
  <2>. QED
    BY <1>1, <2>1, <2>3, MirrorKept DEF MirrorInv
<1>13. ASSUME NEW k \in DOMAIN files, Delete(k) PROVE MirrorInv'
  <2>1. UNCHANGED db /\ \A q \in Runs : SameRun(q)
    BY <1>13 DEF Delete, SameRun
  <2>. QED
    BY <1>1, <2>1, MirrorKept DEF MirrorInv
<1>. QED
  BY <1>5, <1>6, <1>7, <1>8, <1>9, <1>10, <1>11, <1>12, <1>13 DEF Next, Step, Work

-----------------------------------------------------------------------------
\* Before the reset a run may write files; the ones to come back from are older.
Early == {"dump", "dumping", "check", "publish", "stat", "safety", "saving"}

KeptOrDeleted(k) == Exists(k) \/ k \in deleted
Saves(k, r) == Exists(k) /\ run[r].alone => files[k].content = db["local"]
SafeOK(r) ==
  /\ run[r].stage \in Early \cup {"wait"} => run[r].safety = None
  /\ At(r, "saving") => Saves(SafetyKey(r), r)
  /\ At(r, "reset") /\ run[r].kind = "push" => KeptOrDeleted(Key("gaet", run[r].stamp))
  /\ At(r, "reset") /\ run[r].kind # "push" /\ run[r].safety # None =>
       /\ run[r].safety = SafetyKey(r)
       /\ KeptOrDeleted(SafetyKey(r))
       /\ Exists(SafetyKey(r)) => files[SafetyKey(r)].whole
       /\ Saves(SafetyKey(r), r)

\* The latest reset of a database has named a snapshot, and that is what it was.
Named(d) == wiped[d] # None /\ wiped[d].keep # None
KeepOK(d) == Named(d) =>
  /\ wiped[d].keep \in Keys
  /\ wiped[d].keep.prefix = IF d = "cloud" THEN "gaet" ELSE "safety"
  /\ wiped[d].keep.stamp <= clock
  /\ \A r \in Runs : run[r].stage \in Early => wiped[d].keep.stamp < clock
  /\ \A r \in Runs : d = "cloud" /\ run[r].kind = "push" /\ run[r].stage \in {"load", "retain"}
                       => wiped[d].keep.stamp = clock
Recovers(d) == Named(d) /\ wiped[d].keep \notin deleted =>
  /\ Exists(wiped[d].keep)
  /\ files[wiped[d].keep].whole
  /\ wiped[d].sure => files[wiped[d].keep].content = wiped[d].content
RecoveryInv == /\ \A r \in Runs : SafeOK(r)
               /\ \A d \in Databases : KeepOK(d) /\ Recovers(d)
               /\ wiped = [d \in Databases |-> wiped[d]]

\* Steps of others leave what a run keeps; runs not begun keep nothing.
LEMMA SafeKept ==
  ASSUME NEW r \in Runs, SafeOK(r), SameRun(r), UNCHANGED files, deleted \subseteq deleted',
         At(r, "saving") \/ (At(r, "reset") /\ run[r].kind # "push") =>
           db'["local"] = db["local"] \/ ~run'[r].alone
  PROVE  SafeOK(r)'
<1> DEFINE k == SafetyKey(r)
           g == Key("gaet", run[r].stamp)
<1>1. SafetyKey(r)' = k /\ Key("gaet", run[r].stamp)' = g
  BY DEF SameRun, SafetyKey, Key
<1>2. run'[r].stage \in Early \cup {"wait"} => run'[r].safety = None
  BY DEF SafeOK, SameRun
<1>3. run'[r].stage = "saving" => Saves(SafetyKey(r), r)'
  BY <1>1 DEF SafeOK, SameRun, At, Saves, Exists
<1>4. run'[r].stage = "reset" /\ run'[r].kind = "push" => KeptOrDeleted(Key("gaet", run[r].stamp))'
  BY <1>1 DEF SafeOK, SameRun, At, KeptOrDeleted, Exists
<1>5. run'[r].stage = "reset" /\ run'[r].kind # "push" /\ run'[r].safety # None =>
        /\ run'[r].safety = SafetyKey(r)'
        /\ KeptOrDeleted(SafetyKey(r))'
        /\ Exists(SafetyKey(r))' => files'[SafetyKey(r)'].whole
        /\ Saves(SafetyKey(r), r)'
  BY <1>1 DEF SafeOK, SameRun, At, KeptOrDeleted, Exists, Saves
<1>. QED
  BY <1>2, <1>3, <1>4, <1>5 DEF SafeOK, At

LEMMA SafeNone ==
  ASSUME NEW r \in Runs,
         \/ run'[r].stage \in {"idle", "load", "cleanup", "retain", "done"}
         \/ run'[r].stage \in (Early \cup {"wait"}) \ {"saving"} /\ run'[r].safety = None
  PROVE  SafeOK(r)'
BY DEF SafeOK, At, Early

\* Files other than the ones of the latest stamp stay.
OldFilesStay == \A k \in DOMAIN files : k.stamp # clock => k \in DOMAIN files' /\ files'[k] = files[k]

\* A named snapshot stays named, and stays what it was, when files of the latest stamp only change.
LEMMA KeepKept ==
  ASSUME NEW d \in Databases, KeepOK(d), wiped'[d] = wiped[d], clock' = clock,
         \A q \in Runs : /\ run'[q].stage \in Early =>
                              \E p \in Runs : run[p].stage \in Early
                         /\ run'[q].kind = "push" /\ run'[q].stage \in {"load", "retain"} =>
                              run[q].kind = "push" /\ run[q].stage \in {"load", "retain"}
  PROVE  KeepOK(d)'
BY DEF KeepOK, Named

LEMMA RecoversKept ==
  ASSUME NEW d \in Databases, Recovers(d), wiped'[d] = wiped[d], deleted \subseteq deleted',
         Named(d) /\ Exists(wiped[d].keep) =>
            \/ wiped[d].keep \in deleted'
            \/ /\ wiped[d].keep \in DOMAIN files'
               /\ files'[wiped[d].keep].whole = files[wiped[d].keep].whole
               /\ files'[wiped[d].keep].content = files[wiped[d].keep].content
  PROVE  Recovers(d)'
BY DEF Recovers, Named, Exists

\* What a reset records is there to come back from.
LEMMA RecoverFrom ==
  ASSUME TypeInv, StampInv, ArchInv, NEW r \in Runs, SafeOK(r), At(r, "reset"),
         NEW d \in Databases, d = TargetOf(run[r].kind),
         UNCHANGED <<files, deleted>>, wiped'[d] = Wipe(r)
  PROVE  /\ Recovers(d)'
         /\ Wipe(r).keep # None =>
              /\ Wipe(r).keep \in Keys
              /\ Wipe(r).keep.prefix = IF d = "cloud" THEN "gaet" ELSE "safety"
              /\ Wipe(r).keep.stamp = clock
<1>1. /\ run[r].stage = "reset" /\ run[r].kind \in {"push", "fetch", "restore"}
      /\ run[r].stamp = clock /\ ArchOK(r) /\ PublishedWhole
      /\ SafetyKey(r) \in Keys /\ Key("gaet", run[r].stamp) \in Keys
      /\ SafetyKey(r).stamp = clock /\ SafetyKey(r).prefix = "safety"
      /\ Key("gaet", run[r].stamp).stamp = clock /\ Key("gaet", run[r].stamp).prefix = "gaet"
  BY RunType, KeyTypes DEF TypeInv, StampInv, ArchInv, Exclusive, Active, At, StagesOf, Kinds,
     SafetyKey, Key
<1>2. CASE run[r].kind = "push"
  <2> DEFINE g == Key("gaet", run[r].stamp)
  <2>1. /\ Wipe(r).keep = g /\ Wipe(r).content = run[r].arch /\ d = "cloud"
    BY <1>2 DEF Wipe, TargetOf
  <2>2. KeptOrDeleted(g) /\ (Exists(g) => files[g].content = run[r].arch /\ files[g].whole)
    BY <1>1, <1>2 DEF SafeOK, At, ArchOK, HoldsSnapshot, IsArch, PublishedWhole, Exists
  <2>3. Recovers(d)'
    BY <2>1, <2>2 DEF Recovers, Named, KeptOrDeleted, Exists
  <2>. QED
    BY <1>1, <2>1, <2>3
<1>3. CASE run[r].kind \in {"fetch", "restore"}
  <2>1. /\ Wipe(r).keep = run[r].safety /\ Wipe(r).content = db["local"]
        /\ Wipe(r).sure = run[r].alone /\ d = "local"
    BY <1>3 DEF Wipe, TargetOf
  <2>2. run[r].safety # None =>
          /\ run[r].safety = SafetyKey(r)
          /\ KeptOrDeleted(SafetyKey(r))
          /\ Exists(SafetyKey(r)) => files[SafetyKey(r)].whole
          /\ Saves(SafetyKey(r), r)
    BY <1>1, <1>3 DEF SafeOK, At
  <2>3. Recovers(d)'
    BY <2>1, <2>2 DEF Recovers, Named, KeptOrDeleted, Exists, Saves
  <2>. QED
    BY <1>1, <2>1, <2>2, <2>3
<1>. QED
  BY <1>1, <1>2, <1>3

\* Every step keeps a way back from the latest reset, as long as files are retained for a day.
LEMMA RecoveryStep ==
  ASSUME RetentionDays > 0, TypeInv, StampInv, ArchInv, RecoveryInv, [Next]_vars
  PROVE  RecoveryInv'
<1>1. /\ Exclusive /\ TypeOK /\ PublishedWhole
      /\ \A q \in Runs : ArchOK(q) /\ SafeOK(q)
      /\ \A d \in Databases : KeepOK(d) /\ Recovers(d)
      /\ wiped = [d \in Databases |-> wiped[d]]
      /\ clock \in Nat /\ None \notin Runs
  BY BackupAssumption DEF StampInv, ArchInv, RecoveryInv, TypeInv, TypeOK
<1>2. \A r, q \in Runs : Active(r) /\ r # q => run[q].stage \in {"idle", "wait"}
  BY <1>1 DEF Exclusive, Active
<1>3. \A q \in Runs : At(q, "saving") \/ (At(q, "reset") /\ run[q].kind # "push") =>
        TargetOf(run[q].kind) = "local"
  BY RunType DEF At, StagesOf, TargetOf, Kinds
\* A step that starts or ends run r and touches neither files nor databases.
<1>4. ASSUME NEW r \in Runs, OthersSame(r), UNCHANGED <<db, files, wiped, deleted, clock>>,
             run'[r].stage \in {"idle", "wait"}, run'[r].safety = None
      PROVE  RecoveryInv'
  <2>1. ASSUME NEW q \in Runs PROVE SafeOK(q)'
    <3>1. CASE q = r
      BY <1>4, <3>1, SafeNone
    <3>2. CASE q # r
      BY <1>1, <1>4, <3>2, SafeKept DEF OthersSame
    <3>. QED
      BY <3>1, <3>2
  <2>2. \A q \in Runs : /\ run'[q].stage \in Early =>
                              \E p \in Runs : run[p].stage \in Early
                        /\ run'[q].kind = "push" /\ run'[q].stage \in {"load", "retain"} =>
                              run[q].kind = "push" /\ run[q].stage \in {"load", "retain"}
    BY <1>4 DEF OthersSame, SameRun, Early
  <2>3. ASSUME NEW d \in Databases PROVE KeepOK(d)' /\ Recovers(d)'
    BY <1>1, <1>4, <2>2, KeepKept, RecoversKept DEF Exists
  <2>. QED
    BY <1>1, <1>4, <2>1, <2>3 DEF RecoveryInv
\* A step of the run that works, which resets nothing.
<1>5. ASSUME NEW r \in Runs, OthersSame(r), Active(r), UNCHANGED <<wiped, clock>>,
             deleted \subseteq deleted', SafeOK(r)',
             run'[r].stage \in Early => run[r].stage \in Early,
             run'[r].kind = "push" /\ run'[r].stage \in {"load", "retain"} =>
               run[r].kind = "push" /\ run[r].stage \in {"load", "retain"},
             \A d \in Databases : Named(d) /\ Exists(wiped[d].keep) =>
               /\ wiped[d].keep \in DOMAIN files'
               /\ files'[wiped[d].keep].whole = files[wiped[d].keep].whole
               /\ files'[wiped[d].keep].content = files[wiped[d].keep].content
      PROVE  RecoveryInv'
  <2>1. ASSUME NEW q \in Runs PROVE SafeOK(q)'
    <3>1. CASE q # r
      <4>1. /\ run'[q].stage = run[q].stage /\ run'[q].safety = run[q].safety
            /\ run[q].stage \in {"idle", "wait"} /\ SafeOK(q)
        BY <1>1, <1>2, <1>5, <3>1 DEF OthersSame, SameRun
      <4>. QED
        BY <4>1, SafeNone DEF SafeOK, Early
    <3>. QED
      BY <1>5, <3>1
  <2>2. \A q \in Runs : /\ run'[q].stage \in Early =>
                              \E p \in Runs : run[p].stage \in Early
                        /\ run'[q].kind = "push" /\ run'[q].stage \in {"load", "retain"} =>
                              run[q].kind = "push" /\ run[q].stage \in {"load", "retain"}
    BY <1>5 DEF OthersSame, SameRun
  <2>3. ASSUME NEW d \in Databases PROVE KeepOK(d)' /\ Recovers(d)'
    <3>1. KeepOK(d)'
      BY <1>1, <1>5, <2>2, KeepKept
    <3>2. Recovers(d)'
      BY <1>1, <1>5, RecoversKept
    <3>. QED
      BY <3>1, <3>2
  <2>. QED
    BY <1>1, <1>5, <2>1, <2>3 DEF RecoveryInv
\* Before its reset the run that works has touched none of the files to come back from.
<1>6. ASSUME NEW r \in Runs, run[r].stage \in Early, OldFilesStay
      PROVE  \A d \in Databases : Named(d) /\ Exists(wiped[d].keep) =>
               /\ wiped[d].keep \in DOMAIN files'
               /\ files'[wiped[d].keep].whole = files[wiped[d].keep].whole
               /\ files'[wiped[d].keep].content = files[wiped[d].keep].content
  <2>1. \A d \in Databases : Named(d) => wiped[d].keep.stamp # clock
    <3> SUFFICES ASSUME NEW d \in Databases, Named(d) PROVE wiped[d].keep.stamp # clock
      OBVIOUS
    <3>1. wiped[d].keep.stamp < clock /\ wiped[d].keep.stamp \in Nat
      BY <1>1, <1>6, BackupAssumption DEF KeepOK, Keys
    <3>. QED
      BY <1>1, <3>1
  <2>. QED
    BY <1>6, <2>1 DEF OldFilesStay, Exists
<1>7. CASE UNCHANGED vars
  <2>1. \A q \in Runs : SameRun(q)
    BY <1>7 DEF vars, SameRun
  <2>2. UNCHANGED <<db, files, wiped, deleted, clock, run>>
    BY <1>7 DEF vars, counters
  <2>3. \A q \in Runs : SafeOK(q)'
    BY <1>1, <2>1, <2>2, SafeKept
  <2>4. ASSUME NEW d \in Databases PROVE KeepOK(d)' /\ Recovers(d)'
    BY <1>1, <2>2, KeepKept, RecoversKept DEF Exists
  <2>. QED
    BY <1>1, <2>2, <2>3, <2>4 DEF RecoveryInv
<1>8. ASSUME NEW r \in Runs, NEW kind \in Kinds, Begin(r, kind) PROVE RecoveryInv'
  <2>1. OthersSame(r) /\ run'[r] = [IdleRun EXCEPT !.kind = kind, !.stage = "wait"]
    BY <1>8, CallEffect
  <2>2. run'[r].stage = "wait" /\ run'[r].safety = None
    BY <2>1 DEF IdleRun
  <2>. QED
    BY <1>4, <1>8, <2>1, <2>2 DEF Begin, counters
<1>9. ASSUME NEW r \in Runs, NEW k \in DOMAIN files, Resolve(r, k) PROVE RecoveryInv'
  <2>1. /\ OthersSame(r)
        /\ run'[r] = [IdleRun EXCEPT !.kind = "restore", !.stage = "wait", !.target = k]
    BY <1>9, CallEffect
  <2>2. run'[r].stage = "wait" /\ run'[r].safety = None
    BY <2>1 DEF IdleRun
  <2>. QED
    BY <1>4, <1>9, <2>1, <2>2 DEF Resolve, counters
<1>10. ASSUME NEW r \in Runs, GiveUp(r) \/ Finish(r) PROVE RecoveryInv'
  <2>1. OthersSame(r) /\ run'[r] = IdleRun
    BY <1>10, CallEffect
  <2>2. run'[r].stage = "idle" /\ run'[r].safety = None
    BY <2>1 DEF IdleRun
  <2>. QED
    BY <1>4, <1>10, <2>1, <2>2 DEF GiveUp, Finish, counters
<1>11. ASSUME NEW r \in Runs, TakeLock(r) PROVE RecoveryInv'
  <2>1. /\ OthersSame(r) /\ run'[r].safety = run[r].safety
        /\ run'[r].stage = IF run[r].kind = "restore" THEN "check" ELSE "dump"
    BY <1>11, CallEffect, RunType DEF RunStates
  <2>2. /\ run[r].safety = None /\ lock = None /\ clock' = clock + 1
        /\ UNCHANGED <<db, files, wiped, deleted>>
    BY <1>1, <1>11 DEF TakeLock, At, SafeOK, counters
  <2>3. \A q \in Runs : run[q].stage \in {"idle", "wait"}
    BY <1>1, <2>2 DEF Exclusive, Active
  <2>4. ASSUME NEW q \in Runs PROVE SafeOK(q)'
    <3>1. CASE q = r
      BY <2>1, <2>2, <3>1, SafeNone DEF Early
    <3>2. CASE q # r
      BY <1>1, <2>1, <2>2, <3>2, SafeKept DEF OthersSame
    <3>. QED
      BY <3>1, <3>2
  <2>5. ASSUME NEW d \in Databases PROVE KeepOK(d)' /\ Recovers(d)'
    <3>1. Recovers(d)'
      BY <1>1, <2>2, RecoversKept DEF Exists
    <3>2. \A q \in Runs : run'[q].stage \notin {"load", "retain"}
      BY <2>1, <2>3 DEF OthersSame, SameRun
    <3>3. Named(d) => wiped[d].keep.stamp \in Nat /\ wiped[d].keep.stamp <= clock
      BY <1>1, BackupAssumption DEF KeepOK, Keys
    <3>4. Named(d) => wiped[d].keep.stamp < clock + 1 /\ wiped[d].keep.stamp <= clock + 1
      BY <1>1, <3>3
    <3>5. KeepOK(d)'
      BY <1>1, <2>2, <3>2, <3>4 DEF KeepOK, Named
    <3>. QED
      BY <3>1, <3>5
  <2>. QED
    BY <1>1, <2>2, <2>4, <2>5 DEF RecoveryInv
<1>12. ASSUME NEW r \in Runs, Work(r) PROVE RecoveryInv'
  <2>1. /\ Active(r) /\ OthersSame(r) /\ UNCHANGED <<clock, deleted>>
        /\ SameJob(r) \/ run'[r] = IdleRun
        /\ run[r].kind \in Kinds /\ run[r].stage \in StagesOf(run[r].kind)
        /\ run[r].stamp = clock /\ SafeOK(r)
    BY <1>1, <1>12, WorkEffect, RunType DEF Exclusive
  <2>2. /\ DumpKey(r).stamp = clock /\ SafetyKey(r).stamp = clock
        /\ Key("gaet", run[r].stamp).stamp = clock
        /\ DumpKey(r).prefix \in {"tmp", "cloud", "cron"}
    BY <2>1 DEF DumpKey, SafetyKey, Key
  <2>3. /\ UNCHANGED files \/ Remove({DumpKey(r)}) => OldFilesStay
        /\ \A f : Write(DumpKey(r), f) => OldFilesStay
        /\ \A f : Write(SafetyKey(r), f) => OldFilesStay
        /\ Remove({SafetyKey(r)}) => OldFilesStay
    BY <2>2 DEF OldFilesStay, Write, Remove
  <2>4. ASSUME UNCHANGED wiped, run[r].stage \in Early, OldFilesStay, SafeOK(r)',
               run'[r].kind = "push" => run'[r].stage \notin {"load", "retain"}
        PROVE  RecoveryInv'
    BY <1>5, <1>6, <2>1, <2>4
  <2>5. CASE BeginDump(r)
    <3>1. /\ run'[r].stage = "dumping" /\ run'[r].safety = None
          /\ run[r].stage \in Early
      BY <2>1, <2>5, BeginDumpMoves DEF BeginDump, At, SafeOK, Early
    <3>2. UNCHANGED wiped /\ OldFilesStay
      BY <2>3, <2>5 DEF BeginDump
    <3>. QED
      BY <2>4, <3>1, <3>2, SafeNone DEF Early
  <2>6. CASE EndDump(r)
    <3>1. /\ run'[r].stage \in {"check", "stat", "done"}
          /\ run'[r].stage # "done" => run'[r].safety = run[r].safety
      BY <2>1, <2>6, GoEffect, NextStage DEF EndDump, At, Kinds, StagesOf, Failed
    <3>2. run[r].stage \in Early /\ run[r].safety = None
      BY <2>1, <2>6 DEF EndDump, At, Early, SafeOK
    <3>3. UNCHANGED wiped /\ OldFilesStay
      BY <2>3, <2>6 DEF EndDump
    <3>. QED
      BY <2>4, <3>1, <3>2, <3>3, SafeNone DEF Early
  <2>7. CASE Check(r)
    <3>1. run[r].stage \in Early /\ run[r].safety = None /\ At(r, "check")
      BY <2>1, <2>7 DEF Check, At, Early, SafeOK
    <3>2. Next1(r) \in {"publish", "safety", "load"} /\ (run[r].kind = "push" => Next1(r) = "publish")
      BY <2>1, <3>1, NextStage DEF At, Kinds, StagesOf
    <3>3. /\ run'[r].stage \in {Next1(r), "done"}
          /\ run'[r].stage # "done" => run'[r].safety = run[r].safety
      BY <2>7, CheckMoves DEF Failed
    <3>4. UNCHANGED wiped /\ OldFilesStay
      BY <2>3, <2>7, CheckMoves DEF Check
    <3>5. run'[r].kind = "push" => run'[r].stage \notin {"load", "retain"}
      BY <2>1, <3>2, <3>3 DEF SameJob, IdleRun
    <3>. QED
      BY <2>4, <3>1, <3>2, <3>3, <3>4, <3>5, SafeNone DEF Early
  <2>8. CASE Publish(r)
    <3>1. /\ run'[r].stage \in {"stat", "done"}
          /\ run'[r].stage # "done" => run'[r].safety = run[r].safety
      BY <2>1, <2>8, GoEffect, NextStage DEF Publish, At, Kinds, StagesOf, Failed
    <3>2. run[r].stage \in Early /\ run[r].safety = None
      BY <2>1, <2>8 DEF Publish, At, Early, SafeOK
    <3>3. UNCHANGED wiped /\ OldFilesStay
      BY <2>2, <2>3, <2>8 DEF Publish, OldFilesStay
    <3>. QED
      BY <2>4, <3>1, <3>2, <3>3, SafeNone DEF Early
  <2>9. CASE StatDump(r)
    <3>1. run[r].stage \in Early /\ run[r].safety = None /\ At(r, "stat")
      BY <2>1, <2>9 DEF StatDump, At, Early, SafeOK
    <3>2. UNCHANGED <<wiped, files>> /\ OldFilesStay
      BY <2>3, <2>9 DEF StatDump
    <3>3. CASE Exists(ArchiveKey(r)) /\ Go(r, Next1(r))
      <4>1. run'[r].stage = Next1(r) /\ run'[r].safety = None
        BY <3>1, <3>3, GoEffect
      <4>2. Next1(r) = IF run[r].kind = "push" THEN "reset" ELSE "safety"
        BY <2>1, <3>1, NextStage DEF At, Kinds, StagesOf
      <4>3. SameJob(r)
        BY <2>1, <4>1, <4>2 DEF IdleRun
      <4>4. run[r].kind = "push" => Exists(Key("gaet", run[r].stamp))
        BY <3>1, <3>3 DEF ArchiveKey, At
      <4>5. SafeOK(r)'
        BY <3>2, <4>1, <4>2, <4>3, <4>4 DEF SafeOK, At, SameJob, KeptOrDeleted, Exists, Early
      <4>. QED
        BY <2>4, <3>1, <3>2, <4>1, <4>2, <4>5
    <3>4. CASE Set(r, IdleRun)
      <4>1. run'[r].stage = "idle"
        BY <1>1, <3>4, SetEffect DEF IdleRun
      <4>. QED
        BY <2>4, <3>1, <3>2, <4>1, SafeNone
    <3>. QED
      BY <2>9, <3>3, <3>4 DEF StatDump
  <2>10. CASE BeginSafety(r)
    <3>1. /\ run[r].stage \in Early /\ run[r].safety = None /\ run'[r].stage = "saving"
          /\ run'[r].safety = run[r].safety
      BY <2>1, <2>10, BeginSafetyMoves DEF BeginSafety, At, Early, SafeOK
    <3>2. UNCHANGED <<wiped, db>> /\ OldFilesStay
      BY <2>3, <2>10 DEF BeginSafety
    <3>3. SameJob(r)
      BY <2>1, <3>1 DEF IdleRun
    <3>4. SafetyKey(r)' = SafetyKey(r)
      BY <3>3 DEF SameJob, SafetyKey
    <3>5. files'[SafetyKey(r)] = [content |-> db["local"], whole |-> FALSE]
      BY <2>10, WriteEffect DEF BeginSafety
    <3>6. SafeOK(r)'
      BY <3>1, <3>2, <3>4, <3>5 DEF SafeOK, At, Saves
    <3>. QED
      BY <2>4, <3>1, <3>2, <3>6
  <2>11. CASE EndSafety(r)
    <3>1. /\ run[r].stage \in Early /\ run[r].safety = None /\ run'[r].stage = "reset"
          /\ run'[r].alone = run[r].alone /\ At(r, "saving") /\ Saves(SafetyKey(r), r)
      BY <2>1, <2>11, EndSafetyMoves DEF EndSafety, At, Early, SafeOK
    <3>2. UNCHANGED <<wiped, db>> /\ OldFilesStay
      BY <2>3, <2>11 DEF EndSafety
    <3>3. SameJob(r) /\ run[r].kind # "push"
      BY <2>1, <3>1 DEF IdleRun, At, StagesOf
    <3>4. SafetyKey(r)' = SafetyKey(r)
      BY <3>3 DEF SameJob, SafetyKey
    <3>5. CASE /\ Exists(SafetyKey(r)) /\ Write(SafetyKey(r), Completed(SafetyKey(r)))
               /\ run'[r].safety = SafetyKey(r)
      <4>1. /\ SafetyKey(r) \in DOMAIN files' /\ files'[SafetyKey(r)] = Completed(SafetyKey(r))
        BY <3>5, WriteEffect
      <4>2. /\ Completed(SafetyKey(r)).whole
            /\ Completed(SafetyKey(r)).content = files[SafetyKey(r)].content
        BY <1>1, <3>5 DEF Completed, Exists, TypeOK, Files
      <4>3. SafeOK(r)'
        BY <3>1, <3>2, <3>3, <3>4, <3>5, <4>1, <4>2
           DEF SafeOK, At, Saves, KeptOrDeleted, Exists, SameJob, Early
      <4>. QED
        BY <2>4, <3>1, <3>2, <4>3
    <3>6. CASE run'[r].safety = run[r].safety
      <4>1. SafeOK(r)'
        BY <3>1, <3>3, <3>6 DEF SafeOK, At, SameJob, Early
      <4>. QED
        BY <2>4, <3>1, <3>2, <4>1
    <3>. QED
      BY <2>11, <3>5, <3>6, EndSafetyMoves
  <2>12. CASE Reset(r)
    <3>0. PICK d \in Databases : d = TargetOf(run[r].kind)
      BY DEF TargetOf, Databases
    <3>1. /\ At(r, "reset") /\ UNCHANGED files /\ run'[r].stage \in {"load", "done"}
          /\ wiped' = [wiped EXCEPT ![d] = Wipe(r)]
      BY <2>12, <3>0, ResetMoves DEF Reset
    <3>2. /\ \A e \in Databases \ {d} : wiped'[e] = wiped[e]
          /\ wiped'[d] = Wipe(r) /\ wiped' = [e \in Databases |-> wiped'[e]]
      BY <1>1, <3>1
    <3>3. \A q \in Runs : SafeOK(q)'
      <4> SUFFICES ASSUME NEW q \in Runs PROVE SafeOK(q)'
        OBVIOUS
      <4>1. CASE q = r
        BY <3>1, <4>1, SafeNone
      <4>2. CASE q # r
        <5>1. /\ run'[q].stage = run[q].stage /\ run'[q].safety = run[q].safety
              /\ run[q].stage \in {"idle", "wait"} /\ SafeOK(q)
          BY <1>1, <1>2, <2>1, <4>2 DEF OthersSame, SameRun
        <5>. QED
          BY <5>1, SafeNone DEF SafeOK, Early
      <4>. QED
        BY <4>1, <4>2
    <3>4. /\ \A q \in Runs : run'[q].stage \notin Early
          /\ \A q \in Runs \ {r} : run'[q].stage \notin {"load", "retain"}
      BY <1>2, <2>1, <3>1 DEF OthersSame, SameRun, Early
    <3>5. run[r].kind = "push" <=> d = "cloud"
      BY <2>1, <3>0, <3>1 DEF TargetOf, At, StagesOf, Kinds
    <3>6. KeepOK(d)' /\ Recovers(d)'
      <4>1. /\ Recovers(d)'
            /\ Wipe(r).keep # None =>
                 /\ Wipe(r).keep \in Keys
                 /\ Wipe(r).keep.prefix = IF d = "cloud" THEN "gaet" ELSE "safety"
                 /\ Wipe(r).keep.stamp = clock
        BY <2>1, <3>0, <3>1, <3>2, RecoverFrom
      <4>2. KeepOK(d)'
        BY <1>1, <2>1, <3>2, <3>4, <4>1 DEF KeepOK, Named
      <4>. QED
        BY <4>1, <4>2
    <3>7. ASSUME NEW e \in Databases \ {d} PROVE KeepOK(e)' /\ Recovers(e)'
      <4>1. Recovers(e)'
        BY <1>1, <2>1, <3>1, <3>2, RecoversKept DEF Exists
      <4>2. e = "cloud" => run'[r].kind # "push" \/ run'[r].stage \notin {"load", "retain"}
        BY <2>1, <3>1, <3>5, <3>7 DEF Databases, SameJob, IdleRun
      <4>3. KeepOK(e)'
        BY <1>1, <2>1, <3>2, <3>4, <4>2 DEF KeepOK, Named
      <4>. QED
        BY <4>1, <4>3
    <3>. QED
      BY <3>2, <3>3, <3>6, <3>7 DEF RecoveryInv
  <2>13. CASE Load(r)
    <3>1. /\ run'[r].stage \in {"retain", "cleanup", "done"}
          /\ run'[r].stage = "retain" => run[r].kind = "push"
          /\ run[r].stage = "load" /\ UNCHANGED <<files, wiped>>
      BY <2>13, LoadMoves DEF Load, At
    <3>2. SafeOK(r)'
      BY <3>1, SafeNone
    <3>3. \A e \in Databases : Named(e) /\ Exists(wiped[e].keep) => wiped[e].keep \in DOMAIN files'
      BY <3>1 DEF Exists
    <3>4. run'[r].stage \notin Early
      BY <3>1 DEF Early
    <3>. QED
      BY <1>5, <2>1, <3>1, <3>2, <3>3, <3>4
  <2>14. CASE Cleanup(r)
    <3>1. run'[r].stage = "done" /\ UNCHANGED wiped /\ Remove({DumpKey(r)})
      BY <2>14, GoEffect DEF Cleanup
    <3>2. SafeOK(r)'
      BY <3>1, SafeNone
    <3>3. ASSUME NEW e \in Databases, Named(e), Exists(wiped[e].keep)
          PROVE  /\ wiped[e].keep \in DOMAIN files'
                 /\ files'[wiped[e].keep] = files[wiped[e].keep]
      <4>1. wiped[e].keep # DumpKey(r)
        BY <1>1, <2>2, <3>3 DEF KeepOK
      <4>. QED
        BY <3>1, <3>3, <4>1 DEF Exists, Remove
    <3>4. run'[r].stage \notin Early
      BY <3>1 DEF Early
    <3>. QED
      BY <1>5, <2>1, <3>1, <3>2, <3>3, <3>4
  <2>15. CASE Retain(r)
    <3>1. run'[r].stage = "done" /\ UNCHANGED wiped /\ run[r].kind = "push" /\ At(r, "retain")
      BY <2>1, <2>15, GoEffect DEF Retain, At, StagesOf, Kinds
    <3>2. SafeOK(r)'
      BY <3>1, SafeNone
    <3>3. PICK cutoff \in 0 .. clock - 1 :
            Remove({k \in DOMAIN files : /\ k.prefix \in {"gaet", "cron", "cloud"}
                                         /\ k.stamp <= cutoff})
      BY <2>1, <2>15, BackupAssumption DEF Retain
    <3>4. ASSUME NEW e \in Databases, Named(e), Exists(wiped[e].keep)
          PROVE  /\ wiped[e].keep \in DOMAIN files'
                 /\ files'[wiped[e].keep] = files[wiped[e].keep]
      <4>1. \/ wiped[e].keep.prefix = "safety"
            \/ wiped[e].keep.stamp = clock
        BY <1>1, <3>1, <3>4 DEF KeepOK, At
      <4>2. ~(wiped[e].keep.prefix \in {"gaet", "cron", "cloud"} /\ wiped[e].keep.stamp <= cutoff)
        BY <1>1, <3>3, <4>1
      <4>. QED
        BY <3>3, <3>4, <4>2 DEF Exists, Remove
    <3>5. run'[r].stage \notin Early
      BY <3>1 DEF Early
    <3>. QED
      BY <1>5, <2>1, <3>1, <3>2, <3>4, <3>5
  <2>. QED
    BY <1>12, <2>5, <2>6, <2>7, <2>8, <2>9, <2>10, <2>11, <2>12, <2>13, <2>14, <2>15 DEF Work
<1>13. ASSUME NEW r \in Runs, Crash(r) PROVE RecoveryInv'
  <2> DEFINE k == IF At(r, "saving") THEN SafetyKey(r) ELSE DumpKey(r)
  <2>1. /\ OthersSame(r) /\ run'[r].stage = "idle" /\ run'[r].safety = None
        /\ UNCHANGED <<clock, deleted>>
    <3>1. OthersSame(r) /\ run'[r] = IdleRun
      BY <1>13, CrashEffect
    <3>2. UNCHANGED <<clock, deleted>>
      BY <1>13 DEF Crash
    <3>. QED
      BY <3>1, <3>2 DEF IdleRun
  <2>2. CASE At(r, "wait")
    <3>1. UNCHANGED <<db, files, wiped>>
      BY <1>13, <2>2 DEF Crash, At
    <3>. QED
      BY <1>4, <2>1, <3>1
  <2>3. CASE ~At(r, "wait") /\ ~At(r, "reset")
    <3>1. UNCHANGED wiped /\ Active(r)
      BY <1>13, <2>3 DEF Crash, At, Active
    <3>2. ASSUME NEW e \in Databases, Named(e), Exists(wiped[e].keep)
          PROVE  /\ wiped[e].keep \in DOMAIN files'
                 /\ files'[wiped[e].keep].whole = files[wiped[e].keep].whole
                 /\ files'[wiped[e].keep].content = files[wiped[e].keep].content
      <4>1. CASE UNCHANGED files
        BY <3>2, <4>1 DEF Exists
      <4>2. CASE (At(r, "dumping") \/ At(r, "saving")) /\ Exists(k) /\ Write(k, Completed(k))
        <5>1. k.stamp = clock /\ run[r].stage \in Early
          BY <1>1, <3>1, <4>2 DEF Exclusive, DumpKey, SafetyKey, Key, At, Early
        <5>2. OldFilesStay
          BY <4>2, <5>1 DEF OldFilesStay, Write
        <5>. QED
          BY <1>6, <3>2, <5>1, <5>2
      <4>. QED
        BY <1>13, <4>1, <4>2 DEF Crash
    <3>3. run'[r].stage \notin Early \cup {"load", "retain"} /\ SafeOK(r)'
      BY <2>1, SafeNone DEF Early
    <3>. QED
      BY <1>5, <2>1, <3>1, <3>2, <3>3
  <2>4. CASE At(r, "reset")
    <3>0. PICK d \in Databases : d = TargetOf(run[r].kind)
      BY DEF TargetOf, Databases
    <3>1. wiped' = [wiped EXCEPT ![d] = Wipe(r)] /\ UNCHANGED files /\ Active(r)
      BY <1>13, <2>4, <3>0 DEF Crash, At, Active
    <3>2. /\ \A e \in Databases \ {d} : wiped'[e] = wiped[e]
          /\ wiped'[d] = Wipe(r) /\ wiped' = [e \in Databases |-> wiped'[e]]
      BY <1>1, <3>1
    <3>3. \A q \in Runs : run'[q].stage \in {"idle", "wait"}
      BY <1>2, <2>1, <3>1 DEF OthersSame, SameRun
    <3>4. ASSUME NEW q \in Runs PROVE SafeOK(q)'
      <4>1. CASE q = r
        BY <2>1, <4>1, SafeNone
      <4>2. CASE q # r
        BY <1>1, <1>2, <2>1, <3>1, <4>2, SafeNone DEF OthersSame, SameRun, SafeOK, Early
      <4>. QED
        BY <4>1, <4>2
    <3>5. KeepOK(d)' /\ Recovers(d)'
      <4>1. /\ Recovers(d)'
            /\ Wipe(r).keep # None =>
                 /\ Wipe(r).keep \in Keys
                 /\ Wipe(r).keep.prefix = IF d = "cloud" THEN "gaet" ELSE "safety"
                 /\ Wipe(r).keep.stamp = clock
        BY <1>1, <2>1, <2>4, <3>0, <3>1, <3>2, RecoverFrom
      <4>2. KeepOK(d)'
        BY <1>1, <2>1, <3>2, <3>3, <4>1 DEF KeepOK, Named, Early
      <4>. QED
        BY <4>1, <4>2
    <3>6. ASSUME NEW e \in Databases \ {d} PROVE KeepOK(e)' /\ Recovers(e)'
      BY <1>1, <2>1, <3>1, <3>2, <3>3, RecoversKept DEF Exists, KeepOK, Named, Early
    <3>. QED
      BY <3>2, <3>4, <3>5, <3>6 DEF RecoveryInv
  <2>. QED
    BY <2>2, <2>3, <2>4
<1>14. CASE \/ \E o \in orphans : Orphan(o)
            \/ \E d \in Databases, t \in Tables : AppWrite(d, t)
  <2>1. /\ \A q \in Runs : SameRun(q)
        /\ \E d \in Databases :
             /\ \A e \in Databases \ {d} : db'[e] = db[e]
             /\ \A q \in Runs : TargetOf(run[q].kind) = d => ~run'[q].alone
        /\ UNCHANGED <<files, clock, wiped, deleted>>
    BY <1>14, OutsideEffect
  <2>2. \A q \in Runs : TargetOf(run[q].kind) = "local" => db'["local"] = db["local"] \/ ~run'[q].alone
    BY <2>1 DEF Databases
  <2>3. \A q \in Runs : SafeOK(q)'
    BY <1>1, <1>3, <2>1, <2>2, SafeKept
  <2>4. ASSUME NEW d \in Databases PROVE KeepOK(d)' /\ Recovers(d)'
    BY <1>1, <2>1, KeepKept, RecoversKept DEF Exists, SameRun
  <2>. QED
    BY <1>1, <2>1, <2>3, <2>4 DEF RecoveryInv
<1>15. ASSUME NEW k \in DOMAIN files, Delete(k) PROVE RecoveryInv'
  <2>1. /\ UNCHANGED <<db, run, clock, wiped>> /\ deleted' = deleted \cup {k} /\ Remove({k})
    BY <1>15 DEF Delete
  <2>2. FewerFiles /\ \A x \in DOMAIN files \ {k} : x \in DOMAIN files' /\ files'[x] = files[x]
    BY <2>1, RemoveFewer, RemoveEffect
  <2>3. ASSUME NEW q \in Runs PROVE SafeOK(q)'
    BY <1>1, <2>1, <2>2 DEF SafeOK, At, Saves, KeptOrDeleted, SafetyKey, Exists, FewerFiles, Key
  <2>4. ASSUME NEW d \in Databases PROVE KeepOK(d)' /\ Recovers(d)'
    <3>1. KeepOK(d)'
      BY <1>1, <2>1 DEF KeepOK, Named
    <3>2. Recovers(d)'
      BY <1>1, <2>1, <2>2, RecoversKept DEF Exists
    <3>. QED
      BY <3>1, <3>2
  <2>. QED
    BY <1>1, <2>1, <2>3, <2>4 DEF RecoveryInv
<1>. QED
  BY <1>7, <1>8, <1>9, <1>10, <1>11, <1>12, <1>13, <1>14, <1>15 DEF Next, Step, Work

-----------------------------------------------------------------------------
\* The files that may be cut short or temporary, as long as nobody dies.
InUse(r, k) ==
  \/ k = DumpKey(r) /\ At(r, "dumping")
  \/ k = DumpKey(r) /\ run[r].kind = "push" /\ run[r].stage \in {"check", "publish"}
  \/ k = DumpKey(r) /\ run[r].kind = "cron" /\ run[r].stage \in {"check", "load", "cleanup"}
  \/ k = SafetyKey(r) /\ At(r, "saving")
Clean(k) == files[k].whole /\ k.prefix \notin {"tmp", "cron"}
LitterInv == crashes = 0 => \A k \in DOMAIN files :
               Clean(k) \/ \E r \in Runs : lock = r /\ InUse(r, k)

\* Steps that write no file and leave the owner alone leave no litter.
LEMMA LitterKept ==
  ASSUME LitterInv, FewerFiles, UNCHANGED <<lock, crashes>>,
         \A r \in Runs : lock = r => SameRun(r)
  PROVE  LitterInv'
<1> SUFFICES ASSUME crashes = 0, NEW k \in DOMAIN files'
             PROVE  Clean(k)' \/ \E r \in Runs : lock' = r /\ InUse(r, k)'
  BY DEF LitterInv
<1>1. k \in DOMAIN files /\ files'[k] = files[k]
  BY DEF FewerFiles
<1>2. CASE Clean(k)
  BY <1>1, <1>2 DEF Clean
<1>3. ASSUME NEW r \in Runs, lock = r, InUse(r, k) PROVE lock' = r /\ InUse(r, k)'
  BY <1>3 DEF InUse, SameRun, DumpKey, SafetyKey, Key, At
<1>. QED
  BY <1>1, <1>2, <1>3 DEF LitterInv

\* Every step keeps litter to the files in use.
LEMMA LitterStep == TypeInv /\ StampInv /\ ArchInv /\ LitterInv /\ [Next]_vars => LitterInv'
<1> SUFFICES ASSUME TypeInv, StampInv, ArchInv, LitterInv, [Next]_vars PROVE LitterInv'
  OBVIOUS
<1>1. /\ Exclusive /\ TypeOK /\ None \notin Runs /\ crashes \in Nat
      /\ \A q \in Runs : ArchOK(q)
  BY BackupAssumption DEF StampInv, ArchInv, TypeInv
<1>2. UNCHANGED files => FewerFiles
  BY DEF FewerFiles
\* The owner of the lock leaves nothing behind, or holds on to what it uses.
<1>3. ASSUME NEW r \in Runs, Active(r), crashes' = crashes,
             \A k \in DOMAIN files' :
               \/ Clean(k)'
               \/ lock' = r /\ InUse(r, k)'
               \/ k \in DOMAIN files /\ files'[k] = files[k] /\ ~InUse(r, k)
      PROVE  LitterInv'
  <2> SUFFICES ASSUME crashes = 0, NEW k \in DOMAIN files',
                      k \in DOMAIN files, files'[k] = files[k], ~InUse(r, k)
               PROVE  Clean(k)'
    BY <1>3 DEF LitterInv
  <2>1. lock = r
    BY <1>1, <1>3 DEF Exclusive
  <2>2. Clean(k)
    BY <2>1 DEF LitterInv
  <2>. QED
    BY <2>2 DEF Clean
<1>4. CASE UNCHANGED vars
  BY <1>2, <1>4, LitterKept DEF vars, counters, SameRun
<1>5. ASSUME NEW r \in Runs, OthersSame(r), ~Active(r), UNCHANGED <<files, lock, crashes>>
      PROVE  LitterInv'
  <2> SUFFICES ASSUME crashes = 0, NEW k \in DOMAIN files
               PROVE  Clean(k)' \/ \E q \in Runs : lock' = q /\ InUse(q, k)'
    BY <1>5 DEF LitterInv
  <2>1. CASE Clean(k)
    BY <1>5, <2>1 DEF Clean
  <2>2. ASSUME NEW q \in Runs, lock = q, InUse(q, k) PROVE lock' = q /\ InUse(q, k)'
    <3>1. q # r
      BY <1>5, <2>2 DEF Active, InUse, At
    <3>2. SameRun(q)
      BY <1>5, <3>1 DEF OthersSame
    <3>. QED
      BY <1>5, <2>2, <3>2 DEF InUse, SameRun, DumpKey, SafetyKey, Key, At
  <2>. QED
    BY <2>1, <2>2 DEF LitterInv
<1>6. ASSUME NEW r \in Runs,
             \/ \E kind \in Kinds : Begin(r, kind)
             \/ \E k \in DOMAIN files : Resolve(r, k)
             \/ GiveUp(r)
      PROVE  LitterInv'
  <2>1. OthersSame(r) /\ ~Active(r) /\ UNCHANGED <<files, lock, crashes>>
    BY <1>6, CallEffect DEF Begin, Resolve, GiveUp, At, Active, counters
  <2>. QED
    BY <1>5, <2>1
<1>7. ASSUME NEW r \in Runs, TakeLock(r) PROVE LitterInv'
  <2>1. lock = None /\ UNCHANGED <<files, crashes>>
    BY <1>7 DEF TakeLock, counters
  <2>. QED
    BY <1>1, <2>1 DEF LitterInv, Clean
<1>8. ASSUME NEW r \in Runs, Work(r) PROVE LitterInv'
  <2>1. /\ Active(r) /\ crashes' = crashes
        /\ (SameJob(r) /\ lock' = lock) \/ run'[r] = IdleRun
        /\ run[r].kind \in Kinds /\ run[r].stage \in StagesOf(run[r].kind)
        /\ lock = r /\ ArchOK(r)
    BY <1>1, <1>8, WorkEffect, RunType DEF Exclusive
  <2>2. /\ DumpKey(r).prefix = (CASE run[r].kind = "push" -> "tmp" [] run[r].kind = "fetch" -> "cloud"
                                  [] OTHER -> "cron")
        /\ SafetyKey(r).prefix = "safety"
    BY DEF DumpKey, SafetyKey, Key
  <2>3. SameJob(r) => DumpKey(r)' = DumpKey(r) /\ SafetyKey(r)' = SafetyKey(r)
    BY DEF SameJob, DumpKey, SafetyKey
  <2>4. \A k \in DOMAIN files : Completed(k).whole
    BY <1>1 DEF Completed, TypeOK, Files
  <2>5. CASE BeginDump(r)
    <3>1. /\ run'[r].stage = "dumping" /\ run[r].stage \in {"dump", "dumping"}
      BY <2>5, BeginDumpMoves DEF BeginDump, At
    <3>2. SameJob(r) /\ lock' = lock
      BY <2>1, <3>1 DEF IdleRun
    <3>3. \A k \in DOMAIN files' \ {DumpKey(r)} : k \in DOMAIN files /\ files'[k] = files[k] /\ ~InUse(r, k)
      BY <2>5, <3>1 DEF BeginDump, Write, InUse, At
    <3>4. InUse(r, DumpKey(r))'
      BY <2>3, <3>1, <3>2 DEF InUse, At
    <3>5. ASSUME NEW k \in DOMAIN files', k = DumpKey(r) PROVE InUse(r, k)'
      BY <2>3, <3>1, <3>2, <3>5 DEF InUse, At
    <3>. QED
      BY <1>3, <2>1, <3>2, <3>3, <3>5
  <2>6. CASE EndDump(r)
    <3>1. At(r, "dumping") /\ run[r].kind \in {"push", "fetch", "cron"}
      BY <2>1, <2>6 DEF EndDump, At, StagesOf, Kinds
    <3>2. CASE Exists(DumpKey(r)) /\ Write(DumpKey(r), Completed(DumpKey(r))) /\ Go(r, Next1(r))
      <4>1. run'[r].stage = IF run[r].kind = "fetch" THEN "stat" ELSE "check"
        BY <2>1, <3>1, <3>2, GoEffect, NextStage
      <4>2. SameJob(r) /\ lock' = lock
        BY <2>1, <4>1 DEF IdleRun
      <4>3. \A k \in DOMAIN files' \ {DumpKey(r)} : k \in DOMAIN files /\ files'[k] = files[k] /\ ~InUse(r, k)
        BY <3>1, <3>2 DEF Write, InUse, At
      <4>4. files'[DumpKey(r)].whole
        BY <2>4, <3>2, WriteEffect DEF Exists
      <4>5. ASSUME NEW k \in DOMAIN files', k = DumpKey(r) PROVE Clean(k)' \/ InUse(r, k)'
        BY <2>2, <2>3, <3>1, <4>1, <4>2, <4>4, <4>5 DEF InUse, Clean, SameJob
      <4>. QED
        BY <1>3, <2>1, <4>2, <4>3, <4>5
    <3>3. CASE Remove({DumpKey(r)}) /\ Fail(r)
      <4>1. \A k \in DOMAIN files' : k \in DOMAIN files /\ files'[k] = files[k] /\ ~InUse(r, k)
        BY <3>1, <3>3 DEF Remove, InUse, At
      <4>. QED
        BY <1>3, <2>1, <4>1
    <3>. QED
      BY <2>6, <3>2, <3>3 DEF EndDump
  <2>7. CASE Check(r)
    <3>1. At(r, "check") /\ run[r].kind \in {"push", "restore", "cron"}
      BY <2>1, <2>7 DEF Check, At, StagesOf, Kinds
    <3>2. CASE run'[r].stage = Next1(r) /\ UNCHANGED files
      <4>1. run'[r].stage = CASE run[r].kind = "push" -> "publish"
                              [] run[r].kind = "restore" -> "safety"
                              [] OTHER -> "load"
        BY <2>1, <3>1, <3>2, NextStage
      <4>2. SameJob(r) /\ lock' = lock
        BY <2>1, <3>1, <4>1 DEF IdleRun
      <4>3. \A k : InUse(r, k) => k = DumpKey(r) /\ run[r].kind # "restore"
        BY <3>1 DEF InUse, At
      <4>4. run[r].kind # "restore" => \A k \in DOMAIN files' : k = DumpKey(r) => InUse(r, k)'
        BY <2>3, <3>1, <4>1, <4>2 DEF InUse, SameJob
      <4>. QED
        BY <1>3, <2>1, <3>2, <4>2, <4>3, <4>4
    <3>3. CASE UNCHANGED files /\ run[r].kind = "restore"
      <4>1. \A k : ~InUse(r, k)
        BY <3>1, <3>3 DEF InUse, At
      <4>. QED
        BY <1>3, <2>1, <3>3, <4>1
    <3>4. CASE Remove({DumpKey(r)})
      <4>1. \A k \in DOMAIN files' : k \in DOMAIN files /\ files'[k] = files[k] /\ ~InUse(r, k)
        BY <3>1, <3>4 DEF Remove, InUse, At
      <4>. QED
        BY <1>3, <2>1, <4>1
    <3>5. \/ run'[r].stage = Next1(r) /\ UNCHANGED files
          \/ UNCHANGED files /\ run[r].kind = "restore"
          \/ Remove({DumpKey(r)})
      <4>1. CASE Fail(r) /\ IF run[r].kind = "restore" THEN UNCHANGED files ELSE Remove({DumpKey(r)})
        BY <4>1
      <4>2. CASE /\ Set(r, [run[r] EXCEPT !.stage = Next1(r), !.arch = files[ArchiveKey(r)].content])
                 /\ UNCHANGED files
        <5>1. run'[r] = [run[r] EXCEPT !.stage = Next1(r), !.arch = files[ArchiveKey(r)].content]
          BY <1>1, <4>2, SetEffect
        <5>. QED
          BY <4>2, <5>1, RunType DEF RunStates
      <4>. QED
        BY <2>7, <4>1, <4>2 DEF Check
    <3>. QED
      BY <3>2, <3>3, <3>4, <3>5
  <2>8. CASE Publish(r)
    <3> DEFINE final == Key("gaet", run[r].stamp)
    <3>1. At(r, "publish") /\ run[r].kind = "push"
      BY <2>1, <2>8 DEF Publish, At, StagesOf, Kinds
    <3>2. CASE Remove({DumpKey(r)})
      <4>1. \A k \in DOMAIN files' : k \in DOMAIN files /\ files'[k] = files[k] /\ ~InUse(r, k)
        BY <3>1, <3>2 DEF Remove, InUse, At
      <4>. QED
        BY <1>3, <2>1, <4>1
    <3>3. ASSUME Exists(DumpKey(r)),
                 files' = [x \in (DOMAIN files \ {DumpKey(r)}) \cup {final} |->
                             IF x = final THEN files[DumpKey(r)] ELSE files[x]]
          PROVE  LitterInv'
      <4>1. files[DumpKey(r)].whole
        BY <2>1, <3>1, <3>3 DEF ArchOK, Dumped, HoldsDump, At
      <4>2. final.prefix = "gaet"
        BY DEF Key
      <4>3. ASSUME NEW k \in DOMAIN files', k = final PROVE Clean(k)'
        BY <3>3, <4>1, <4>2, <4>3 DEF Clean
      <4>4. \A k \in DOMAIN files' \ {final} : k \in DOMAIN files /\ files'[k] = files[k] /\ ~InUse(r, k)
        BY <3>1, <3>3 DEF InUse, At
      <4>. QED
        BY <1>3, <2>1, <4>3, <4>4
    <3>. QED
      BY <2>8, <3>2, <3>3 DEF Publish
  <2>9. CASE BeginSafety(r)
    <3>1. run'[r].stage = "saving" /\ At(r, "safety")
      BY <2>9, BeginSafetyMoves DEF BeginSafety
    <3>2. SameJob(r) /\ lock' = lock
      BY <2>1, <3>1 DEF IdleRun
    <3>3. \A k \in DOMAIN files' \ {SafetyKey(r)} : k \in DOMAIN files /\ files'[k] = files[k] /\ ~InUse(r, k)
      BY <2>9, <3>1 DEF BeginSafety, Write, InUse, At
    <3>4. ASSUME NEW k \in DOMAIN files', k = SafetyKey(r) PROVE InUse(r, k)'
      BY <2>3, <3>1, <3>2, <3>4 DEF InUse, At
    <3>. QED
      BY <1>3, <2>1, <3>2, <3>3, <3>4
  <2>10. CASE EndSafety(r)
    <3>1. At(r, "saving")
      BY <2>10 DEF EndSafety
    <3>2. \A k \in DOMAIN files' \ {SafetyKey(r)} : k \in DOMAIN files /\ files'[k] = files[k] /\ ~InUse(r, k)
      BY <2>10, <3>1 DEF EndSafety, Write, Remove, InUse, At
    <3>3. CASE Exists(SafetyKey(r)) /\ Write(SafetyKey(r), Completed(SafetyKey(r)))
      <4>1. files'[SafetyKey(r)].whole
        BY <2>4, <3>3, WriteEffect DEF Exists
      <4>2. ASSUME NEW k \in DOMAIN files', k = SafetyKey(r) PROVE Clean(k)'
        BY <2>2, <4>1, <4>2 DEF Clean
      <4>. QED
        BY <1>3, <2>1, <3>2, <4>2
    <3>4. CASE Remove({SafetyKey(r)})
      <4>1. SafetyKey(r) \notin DOMAIN files'
        BY <3>4 DEF Remove
      <4>. QED
        BY <1>3, <2>1, <3>2, <4>1
    <3>. QED
      BY <2>10, <3>3, <3>4 DEF EndSafety
  <2>11. CASE Load(r) /\ run[r].kind = "cron"
    <3>1. run'[r].stage = "cleanup" /\ At(r, "load") /\ UNCHANGED files
      BY <2>11, LoadMoves DEF Load
    <3>2. SameJob(r) /\ lock' = lock
      BY <2>1, <3>1 DEF IdleRun
    <3>3. \A k : InUse(r, k) => k = DumpKey(r)
      BY <3>1 DEF InUse, At
    <3>4. \A k \in DOMAIN files' : k = DumpKey(r) => InUse(r, k)'
      BY <2>3, <2>11, <3>1, <3>2 DEF InUse, SameJob
    <3>. QED
      BY <1>3, <2>1, <3>1, <3>2, <3>3, <3>4
  <2>12. CASE StatDump(r) \/ Reset(r) \/ Retain(r) \/ (Load(r) /\ run[r].kind # "cron")
    <3>1. \A k : ~InUse(r, k)
      BY <2>12 DEF StatDump, Reset, Retain, Load, InUse, At
    <3>2. FewerFiles
      BY <1>2, <2>12, RemoveFewer DEF StatDump, Reset, Retain, Load
    <3>. QED
      BY <1>3, <2>1, <3>1, <3>2 DEF FewerFiles
  <2>13. CASE Cleanup(r)
    <3>1. \A k \in DOMAIN files' : k \in DOMAIN files /\ files'[k] = files[k] /\ ~InUse(r, k)
      BY <2>13 DEF Cleanup, Remove, InUse, At
    <3>. QED
      BY <1>3, <2>1, <3>1
  <2>. QED
    BY <1>8, <2>5, <2>6, <2>7, <2>8, <2>9, <2>10, <2>11, <2>12, <2>13 DEF Work
<1>9. ASSUME NEW r \in Runs, Finish(r) PROVE LitterInv'
  <2>1. /\ Active(r) /\ UNCHANGED <<files, crashes>> /\ \A k : ~InUse(r, k)
    BY <1>9 DEF Finish, counters, Active, At, InUse
  <2>. QED
    BY <1>3, <2>1
<1>10. ASSUME NEW r \in Runs, Crash(r) PROVE LitterInv'
  BY <1>1, <1>10 DEF Crash, LitterInv
<1>11. CASE \/ \E o \in orphans : Orphan(o)
            \/ \E d \in Databases, t \in Tables : AppWrite(d, t)
  <2>1. (\A q \in Runs : SameRun(q)) /\ UNCHANGED <<files, lock, crashes>>
    BY <1>11, OutsideEffect
  <2>. QED
    BY <1>2, <2>1, LitterKept
<1>12. ASSUME NEW k \in DOMAIN files, Delete(k) PROVE LitterInv'
  <2>1. FewerFiles /\ (\A q \in Runs : SameRun(q)) /\ UNCHANGED <<lock, crashes>>
    BY <1>12, RemoveFewer DEF Delete, SameRun
  <2>. QED
    BY <2>1, LitterKept
<1>. QED
  BY <1>4, <1>6, <1>7, <1>8, <1>9, <1>10, <1>11, <1>12 DEF Next, Step, Work

-----------------------------------------------------------------------------
\* All of it holds at first.
LEMMA InitInvs == Init => StampInv /\ ArchInv /\ MirrorInv /\ RecoveryInv /\ LitterInv
<1> SUFFICES ASSUME Init PROVE StampInv /\ ArchInv /\ MirrorInv /\ RecoveryInv /\ LitterInv
  OBVIOUS
<1>1. /\ DOMAIN files = {}
      /\ \A r \in Runs : run[r].stage = "idle" /\ run[r].kind = "push" /\ ~run[r].ok
      /\ wiped = [d \in Databases |-> None]
  BY DEF Init, IdleRun
<1>2. StampInv
  BY <1>1 DEF StampInv, Exclusive, StampsOld, TargetsOld, Active
<1>3. ArchInv
  BY <1>1 DEF ArchInv, ArchOK, Dumped, HoldsDump, HoldsSnapshot, HoldsTarget, PublishedWhole
<1>4. MirrorInv
  BY <1>1 DEF MirrorInv, MirrorOK, Mirrors, At
<1>5. RecoveryInv
  BY <1>1 DEF RecoveryInv, SafeOK, KeepOK, Recovers, Named, At, Early
<1>6. LitterInv
  BY <1>1 DEF LitterInv
<1>. QED
  BY <1>2, <1>3, <1>4, <1>5, <1>6

\* Every variable keeps its type, in every behaviour of the pipelines of
\* backup.go and of whatever happens around them.
THEOREM TypeCorrect == Spec => []TypeOK
<1>1. TypeInv => TypeOK
  BY DEF TypeInv
<1>. QED
  BY <1>1, InitType, TypeStep, PTL DEF Spec

\* What the theorems share.
LEMMA Archives == Spec => [](TypeInv /\ StampInv /\ ArchInv)
BY InitType, InitInvs, TypeStep, StampStep, ArchStep, PTL DEF Spec

\* A snapshot under its final name was never cut short: push renames it
\* after pg_restore --list has read it, whatever tools fail or processes die.
THEOREM PublishedIsWhole == Spec => []PublishedWhole
<1>1. ArchInv => PublishedWhole
  BY DEF ArchInv
<1>. QED
  BY <1>1, Archives, PTL

\* A run that reports success has made its target what its archive holds,
\* unless another writer worked on the target meanwhile; cron leaves tables
\* that the archive does not have.
THEOREM SuccessIsMirror == Spec => []SuccessMirrors
<1>1. MirrorInv => SuccessMirrors
  BY DEF MirrorInv, MirrorOK, Mirrors, SuccessMirrors
<1>2. Spec => []MirrorInv
  BY Archives, InitInvs, MirrorStep, PTL DEF Spec
<1>. QED
  BY <1>1, <1>2, PTL

\* After the reset of a database, through failures, crashes, later runs and
\* retention, the snapshot taken before it is there, whole and of the old
\* content, unless someone deleted it.  With a retention of 0 days the code
\* removes snapshots at once, so a positive one is assumed.
THEOREM ThereIsARecoveryPoint == RetentionDays > 0 => (Spec => []RecoveryPoint)
<1> SUFFICES ASSUME RetentionDays > 0 PROVE Spec => []RecoveryPoint
  OBVIOUS
<1>1. RecoveryInv => RecoveryPoint
  BY DEF RecoveryInv, Recovers, Named, RecoveryPoint
<1>2. TypeInv /\ StampInv /\ ArchInv /\ RecoveryInv /\ [Next]_vars => RecoveryInv'
  BY RecoveryStep
<1>3. Spec => []RecoveryInv
  BY <1>2, Archives, InitInvs, PTL DEF Spec
<1>. QED
  BY <1>1, <1>3, PTL

\* When no run is under way and none has died, no temporary and no cut file
\* is left: every error path of backup.go removes what it began.
THEOREM QuietIsWhole == Spec => []WholeWhenQuiet
<1>1. LitterInv => WholeWhenQuiet
  BY BackupAssumption DEF LitterInv, Clean, WholeWhenQuiet
<1>2. Spec => []LitterInv
  BY Archives, InitInvs, LitterStep, PTL DEF Spec
<1>. QED
  BY <1>1, <1>2, PTL
=============================================================================
