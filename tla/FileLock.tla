------------------------------ MODULE FileLock ------------------------------
(***************************************************************************)
(* The lock file of gaet (pkg/core/lock.go, lock_unix.go), one action per  *)
(* system call of AcquireLock and Release, so that the calls of different  *)
(* runs interleave the way the kernel may interleave them.                 *)
(*                                                                         *)
(* A run is one call of AcquireLock: a CLI command, a cron job or a        *)
(* request goroutine of `gaet serve`; several runs may share one process.  *)
(* The environment may end or crash a process, start a new one under a     *)
(* PID used before, let the lock file grow an hour old, or make the write  *)
(* of the PID fail (AcquireLock ignores that error).                       *)
(***************************************************************************)
EXTENDS FiniteSets

CONSTANTS Runs,      \* runs that may ask for the lock
          Pids,      \* process identifiers
          Faults,    \* the faults the environment may commit, see FaultKinds
          PidReuse,  \* may a dead process's PID be given to a new process?
          None       \* no file, no PID

FaultKinds == {"exit", "crash", "write"}

ASSUME FileLockAssumption ==
         /\ Faults \subseteq FaultKinds
         /\ PidReuse \in BOOLEAN
         /\ None \notin Pids
         /\ None \notin [by : Runs, pid : Pids \cup {None}, old : BOOLEAN]

VARIABLES file,   \* the lock file: its creator, the PID in it, over an hour old?
          pc,     \* where each run stands in AcquireLock .. Release
          proc,   \* the process each run belongs to
          seen,   \* the PID each run read from the lock file
          alive,  \* the PIDs of running processes
          used,   \* history: the PIDs some process has had
          faults, \* history: the faults committed so far
          stolen  \* history: a live owner's lock file was removed by another run

vars == <<file, pc, proc, seen, alive, used, faults, stolen>>
processes == <<proc, alive, used, faults>>

PCs == {"idle", "open", "read", "stat", "probe", "remove", "retry", "write", "held"}
LockFile == [by : Runs, pid : Pids \cup {None}, old : BOOLEAN]

\* AcquireLock has created the file for these; "write" still has the PID to write.
Owners == {r \in Runs : pc[r] \in {"write", "held"}}

Goto(r, label) == pc' = [pc EXCEPT ![r] = label]

Init == /\ file = None
        /\ pc = [r \in Runs |-> "idle"]
        /\ proc \in [Runs -> Pids]
        /\ seen = [r \in Runs |-> None]
        /\ alive \in SUBSET Pids
        /\ used = alive
        /\ faults = {}
        /\ stolen = FALSE
-----------------------------------------------------------------------------
\* A command or a request in process p calls AcquireLock.
Start(r, p) == /\ pc[r] = "idle"
               /\ p \in alive
               /\ proc' = [proc EXCEPT ![r] = p]
               /\ Goto(r, "open")
               /\ UNCHANGED <<file, seen, alive, used, faults, stolen>>

Create(r) == /\ file = None
             /\ file' = [by |-> r, pid |-> None, old |-> FALSE]
             /\ Goto(r, "write")

\* O_CREATE without O_EXCL: the open succeeds whatever is there.
SharedCreate(r) == /\ file' = [by |-> r, pid |-> None, old |-> FALSE]
                   /\ Goto(r, "write")

\* The first O_EXCL open: create the file, or find it there.
OpenShared(r) == /\ pc[r] = "open"
                 /\ SharedCreate(r)
                 /\ UNCHANGED <<processes, seen, stolen>>

OpenExcl(r) == /\ pc[r] = "open"
               /\ \/ Create(r)
                  \/ file # None /\ Goto(r, "read") /\ UNCHANGED file
               /\ UNCHANGED <<processes, seen, stolen>>

\* EnsureDir fails, or the open fails for another reason than "exists".
OpenFails(r) == /\ pc[r] = "open"
                /\ Goto(r, "idle")
                /\ UNCHANGED <<file, processes, seen, stolen>>

\* isLockStale reads the file.  If it is gone, or empty and younger than an
\* hour, the Stat that follows at once cannot find it an hour old: refused.
Judge(r, whenEmpty) ==
  /\ pc[r] = "read"
  /\ CASE file = None -> Goto(r, "idle") /\ UNCHANGED seen
       [] file # None -> /\ seen' = [seen EXCEPT ![r] = file.pid]
                         /\ Goto(r, IF file.pid = None THEN whenEmpty ELSE "probe")
  /\ UNCHANGED <<file, processes, stolen>>

ReadEmptyIsStale(r) == Judge(r, "remove")

ReadLock(r) == Judge(r, IF file # None /\ file.old THEN "stat" ELSE "idle")

\* The empty file is stale if it is still there and over an hour old.
StatLock(r) == /\ pc[r] = "stat"
               /\ Goto(r, IF file # None /\ file.old THEN "remove" ELSE "idle")
               /\ UNCHANGED <<file, processes, seen, stolen>>

ProbeNeverStale(r) == /\ pc[r] = "probe"
                      /\ Goto(r, "idle")
                      /\ UNCHANGED <<file, processes, seen, stolen>>

\* A file with a PID is stale when signal 0 cannot reach that process,
\* whatever the age of the file.
Probe(r) == /\ pc[r] = "probe"
            /\ Goto(r, IF seen[r] \in alive THEN "idle" ELSE "remove")
            /\ UNCHANGED <<file, processes, seen, stolen>>

\* os.Remove by path: whatever file is there now, judged or not.
RemoveStale(r) == /\ pc[r] = "remove"
                  /\ stolen' = (stolen \/ (file # None /\ file.by \in Owners))
                  /\ file' = None
                  /\ Goto(r, "retry")
                  /\ UNCHANGED <<processes, seen>>

RetryOpen(r) == /\ pc[r] = "retry"
                /\ \/ Create(r)
                   \/ Goto(r, "idle") /\ UNCHANGED file
                /\ UNCHANGED <<processes, seen, stolen>>

\* The PID goes to the file this run created, if that is still the one at
\* the path; a failed write is ignored and leaves the file empty.
WritePid(r) ==
  /\ pc[r] = "write"
  /\ \/ /\ file' = IF file # None /\ file.by = r
                   THEN [file EXCEPT !.pid = proc[r], !.old = FALSE] ELSE file
        /\ UNCHANGED faults
     \/ /\ "write" \in Faults
        /\ faults' = faults \cup {"write"}
        /\ UNCHANGED file
  /\ Goto(r, "held")
  /\ UNCHANGED <<proc, alive, used, seen, stolen>>

\* An early return that closes the file and forgets to remove it.
ReleaseCloseOnly(r) == /\ pc[r] = "held"
                       /\ Goto(r, "idle")
                       /\ UNCHANGED <<file, processes, seen, stolen>>

\* The deferred Release at the end of the operation: remove by path.
Release(r) == /\ pc[r] = "held"
              /\ file' = None
              /\ Goto(r, "idle")
              /\ UNCHANGED <<processes, seen, stolen>>
-----------------------------------------------------------------------------
RunsOf(p) == {r \in Runs : pc[r] # "idle" /\ proc[r] = p}

\* A CLI command returns from main once its run is over.
Exit(p) == /\ "exit" \in Faults
           /\ p \in alive
           /\ RunsOf(p) = {}
           /\ alive' = alive \ {p}
           /\ faults' = faults \cup {"exit"}
           /\ UNCHANGED <<file, pc, proc, seen, used, stolen>>

\* SIGKILL, a panic, a power cut: no deferred Release runs.
Crash(p) == /\ "crash" \in Faults
            /\ p \in alive
            /\ RunsOf(p) # {}
            /\ alive' = alive \ {p}
            /\ pc' = [r \in Runs |-> IF r \in RunsOf(p) THEN "idle" ELSE pc[r]]
            /\ faults' = faults \cup {"crash"}
            /\ UNCHANGED <<file, proc, seen, used, stolen>>

\* A new process: gaet itself, or any other program given the PID.
Spawn(p) == /\ p \notin alive
            /\ PidReuse \/ p \notin used
            /\ alive' = alive \cup {p}
            /\ used' = used \cup {p}
            /\ UNCHANGED <<file, pc, proc, seen, faults, stolen>>

\* An hour passes.  Timing assumption: a living creator does not take an hour
\* between creating the file and writing its PID, nor a run between reading
\* the file and its Stat (see ReadLock).
GrowOld == /\ file # None
           /\ pc[file.by] # "write"
           /\ file' = [file EXCEPT !.old = TRUE]
           /\ UNCHANGED <<processes, pc, seen, stolen>>
-----------------------------------------------------------------------------
AcquireStep(r) == \/ OpenExcl(r) \/ OpenFails(r) \/ ReadLock(r) \/ StatLock(r)
                  \/ Probe(r) \/ RemoveStale(r) \/ RetryOpen(r) \/ WritePid(r)

Next == \/ \E r \in Runs, p \in Pids : Start(r, p)
        \/ \E r \in Runs : AcquireStep(r) \/ Release(r)
        \/ \E p \in Pids : Exit(p) \/ Crash(p) \/ Spawn(p)
        \/ GrowOld

Spec == Init /\ [][Next]_vars

(***************************************************************************)
(* Fairness: a running process is scheduled (AcquireStep); every operation *)
(* ends because its tool calls have timeouts (Release); the timer keeps    *)
(* starting backups (Start); no open fails for ever (strong fairness of    *)
(* OpenExcl); the clock runs (GrowOld).  Faults and new processes are      *)
(* never forced.                                                           *)
(***************************************************************************)
FairSpec == /\ Spec
            /\ \A r \in Runs : /\ WF_vars(AcquireStep(r))
                               /\ WF_vars(Release(r))
                               /\ SF_vars(OpenExcl(r))
            /\ WF_vars(\E r \in Runs, p \in Pids : Start(r, p))
            /\ WF_vars(GrowOld)
-----------------------------------------------------------------------------
(***************************************************************************)
(* Properties                                                              *)
(***************************************************************************)
\* The type of every variable: a lock file is empty or holds the PID of some
\* process, and running processes have PIDs that were given out.
TypeOK == /\ file \in LockFile \cup {None}
          /\ pc \in [Runs -> PCs]
          /\ proc \in [Runs -> Pids]
          /\ seen \in [Runs -> Pids \cup {None}]
          /\ alive \subseteq Pids
          /\ used \subseteq Pids
          /\ alive \subseteq used
          /\ faults \subseteq Faults
          /\ stolen \in BOOLEAN

\* docs/architecture.md:466 on AcquireLock: "Atomic file creation guarantees
\* mutual exclusion", at most one run at a time owns the lock.
MutualExclusion == \A r, s \in Owners : r = s

\* The one way two runs come to own the lock: a run that judged one lock file
\* stale removed the file of a live owner.  Nothing else in AcquireLock and
\* Release (open, retry, late write, removal by path) breaks exclusion.
ExclusiveUnlessStolen == ~stolen => MutualExclusion

\* Without process deaths and failed PID writes no live owner ever loses its
\* file: runs that share one long-lived process (`gaet serve`) exclude each
\* other in every interleaving of the stale-lock path.
StolenOnlyAfterFault == stolen => faults # {}

\* While nothing has gone wrong the lock file exists exactly as long as its
\* creator owns the lock: no refused or finished run leaves one behind.
FileIffOwned == faults = {} =>
  IF file = None THEN Owners = {} ELSE file.by \in Owners

\* architecture.md:467 "Stale locks auto-recovered via PID liveness probe": a
\* file whose creator died goes away, by the PID in it or, when the creator
\* died before writing one, after an hour.  The way out is a process being
\* alive to try, no endless series of crashes, and the PID not being given to
\* another process: then the lock stays refused however old it gets.
Orphaned == file # None /\ file.by \notin Owners /\ file.pid \notin alive
StaleLockRecovered ==
  <>[][~\E p \in Pids : Crash(p)]_vars => (Orphaned ~> (~Orphaned \/ alive = {}))

\* What the callers rely on: see LockService.
Service == INSTANCE LockService WITH owners <- Owners
ImplementsLockService == Service!Spec
============================================================================
