--------------------------- MODULE FileLockProofs ---------------------------
(***************************************************************************)
(* Proofs about FileLock for every set of runs, processes and faults.      *)
(*                                                                         *)
(* The argument: while no live owner's file has been removed, the file at  *)
(* the path is the one its owner created (OwnerHasFile), so O_EXCL lets no *)
(* second run in.  And as long as nothing has gone wrong, every PID a run  *)
(* may probe belongs to a living process (NothingLooksStale), so no run    *)
(* gets as far as removing a file.                                         *)
(***************************************************************************)
EXTENDS FileLock, TLAPS

\* The owner's file is at the path: what ExclusiveUnlessStolen rests on.
OwnerHasFile == ~stolen => \A r \in Owners : file # None /\ file.by = r

\* Without faults no run can judge the file stale.
NothingLooksStale ==
  faults = {} =>
    /\ ~stolen
    /\ \A r \in Runs : /\ pc[r] \notin {"stat", "remove", "retry"}
                       /\ pc[r] # "idle" => proc[r] \in alive
                       /\ pc[r] = "probe" => seen[r] \in alive
    /\ file # None => /\ file.by \in Owners
                      /\ file.pid = None => pc[file.by] = "write" /\ ~file.old
                      /\ file.pid # None => file.pid \in alive

\* Every variable stays within its type.
THEOREM TypeCorrect == Spec => []TypeOK
<1>1. Init => TypeOK
  BY FileLockAssumption DEF Init, TypeOK, PCs
<1>2. TypeOK /\ [Next]_vars => TypeOK'
  <2> SUFFICES ASSUME TypeOK, [Next]_vars PROVE TypeOK'
    OBVIOUS
  <2> USE FileLockAssumption DEF TypeOK, PCs, LockFile
  <2>1. ASSUME NEW r \in Runs, NEW p \in Pids, Start(r, p) PROVE TypeOK'
    BY <2>1 DEF Start, Goto
  <2>2. ASSUME NEW r \in Runs, OpenExcl(r) PROVE TypeOK'
    <3>1. CASE Create(r)
      <4>1. [by |-> r, pid |-> None, old |-> FALSE] \in LockFile
        BY DEF LockFile
      <4>2. file' = [by |-> r, pid |-> None, old |-> FALSE] /\ pc' = [pc EXCEPT ![r] = "write"]
        BY <3>1 DEF Create, Goto
      <4>3. UNCHANGED <<proc, seen, alive, used, faults, stolen>>
        BY <2>2 DEF OpenExcl, processes
      <4>. QED
        BY <4>1, <4>2, <4>3
    <3>2. CASE ~Create(r)
      BY <2>2, <3>2 DEF OpenExcl, Goto, processes
    <3>3. QED
      BY <3>1, <3>2
  <2>3. ASSUME NEW r \in Runs, OpenFails(r) PROVE TypeOK'
    BY <2>3 DEF OpenFails, Goto, processes
  <2>4. ASSUME NEW r \in Runs, ReadLock(r) PROVE TypeOK'
    BY <2>4 DEF ReadLock, Judge, Goto, processes
  <2>5. ASSUME NEW r \in Runs, StatLock(r) PROVE TypeOK'
    BY <2>5 DEF StatLock, Goto, processes
  <2>6. ASSUME NEW r \in Runs, Probe(r) PROVE TypeOK'
    BY <2>6 DEF Probe, Goto, processes
  <2>7. ASSUME NEW r \in Runs, RemoveStale(r) PROVE TypeOK'
    BY <2>7 DEF RemoveStale, Goto, processes
  <2>8. ASSUME NEW r \in Runs, RetryOpen(r) PROVE TypeOK'
    <3>1. CASE Create(r)
      <4>1. [by |-> r, pid |-> None, old |-> FALSE] \in LockFile
        BY DEF LockFile
      <4>2. file' = [by |-> r, pid |-> None, old |-> FALSE] /\ pc' = [pc EXCEPT ![r] = "write"]
        BY <3>1 DEF Create, Goto
      <4>3. UNCHANGED <<proc, seen, alive, used, faults, stolen>>
        BY <2>8 DEF RetryOpen, processes
      <4>. QED
        BY <4>1, <4>2, <4>3
    <3>2. CASE ~Create(r)
      BY <2>8, <3>2 DEF RetryOpen, Goto, processes
    <3>3. QED
      BY <3>1, <3>2
  <2>9. ASSUME NEW r \in Runs, WritePid(r) PROVE TypeOK'
    BY <2>9 DEF WritePid, Goto
  <2>10. ASSUME NEW r \in Runs, Release(r) PROVE TypeOK'
    BY <2>10 DEF Release, Goto, processes
  <2>11. ASSUME NEW p \in Pids, Exit(p) PROVE TypeOK'
    BY <2>11 DEF Exit, RunsOf
  <2>12. ASSUME NEW p \in Pids, Crash(p) PROVE TypeOK'
    BY <2>12 DEF Crash, RunsOf
  <2>13. ASSUME NEW p \in Pids, Spawn(p) PROVE TypeOK'
    BY <2>13 DEF Spawn
  <2>14. CASE GrowOld
    BY <2>14 DEF GrowOld, processes
  <2>15. CASE UNCHANGED vars
    BY <2>15 DEF vars
  <2>16. QED
    BY <2>1, <2>2, <2>3, <2>4, <2>5, <2>6, <2>7, <2>8, <2>9, <2>10, <2>11, <2>12, <2>13, <2>14, <2>15 DEF Next, AcquireStep
<1>3. QED
  BY <1>1, <1>2, PTL DEF Spec

\* While no file was stolen, the file at the path belongs to its owner.
LEMMA OwnerHasFileInv == Spec => []OwnerHasFile
<1>1. Init => OwnerHasFile
  BY DEF Init, OwnerHasFile, Owners
<1>2. TypeOK /\ OwnerHasFile /\ [Next]_vars => OwnerHasFile'
  <2> SUFFICES ASSUME TypeOK, OwnerHasFile, [Next]_vars PROVE OwnerHasFile'
    OBVIOUS
  <2> USE FileLockAssumption DEF TypeOK, LockFile, OwnerHasFile, Owners
  <2>1. ASSUME NEW r \in Runs, NEW p \in Pids, Start(r, p) PROVE OwnerHasFile'
    BY <2>1 DEF Start, Goto
  <2>2. ASSUME NEW r \in Runs, OpenExcl(r) PROVE OwnerHasFile'
    <3>1. CASE Create(r)
      <4>1. file' # None /\ file'.by = r /\ pc' = [pc EXCEPT ![r] = "write"]
        <5>1. [by |-> r, pid |-> None, old |-> FALSE] \in LockFile
          BY DEF LockFile
        <5>2. file' = [by |-> r, pid |-> None, old |-> FALSE]
          BY <3>1 DEF Create
        <5>3. pc' = [pc EXCEPT ![r] = "write"]
          BY <3>1 DEF Create, Goto
        <5>. QED
          BY <5>1, <5>2, <5>3
      <4>2. ~stolen => Owners = {}
        BY <3>1 DEF Create
      <4>. QED
        BY <2>2, <4>1, <4>2 DEF OpenExcl, processes
    <3>2. CASE ~Create(r)
      BY <2>2, <3>2 DEF OpenExcl, Goto, processes
    <3>3. QED
      BY <3>1, <3>2
  <2>3. ASSUME NEW r \in Runs, OpenFails(r) PROVE OwnerHasFile'
    BY <2>3 DEF OpenFails, Goto, processes
  <2>4. ASSUME NEW r \in Runs, ReadLock(r) PROVE OwnerHasFile'
    BY <2>4 DEF ReadLock, Judge, Goto, processes
  <2>5. ASSUME NEW r \in Runs, StatLock(r) PROVE OwnerHasFile'
    BY <2>5 DEF StatLock, Goto, processes
  <2>6. ASSUME NEW r \in Runs, Probe(r) PROVE OwnerHasFile'
    BY <2>6 DEF Probe, Goto, processes
  <2>7. ASSUME NEW r \in Runs, RemoveStale(r) PROVE OwnerHasFile'
    BY <2>7 DEF RemoveStale, Goto, processes
  <2>8. ASSUME NEW r \in Runs, RetryOpen(r) PROVE OwnerHasFile'
    <3>1. CASE Create(r)
      <4>1. file' # None /\ file'.by = r /\ pc' = [pc EXCEPT ![r] = "write"]
        <5>1. [by |-> r, pid |-> None, old |-> FALSE] \in LockFile
          BY DEF LockFile
        <5>2. file' = [by |-> r, pid |-> None, old |-> FALSE]
          BY <3>1 DEF Create
        <5>3. pc' = [pc EXCEPT ![r] = "write"]
          BY <3>1 DEF Create, Goto
        <5>. QED
          BY <5>1, <5>2, <5>3
      <4>2. ~stolen => Owners = {}
        BY <3>1 DEF Create
      <4>. QED
        BY <2>8, <4>1, <4>2 DEF RetryOpen, processes
    <3>2. CASE ~Create(r)
      BY <2>8, <3>2 DEF RetryOpen, Goto, processes
    <3>3. QED
      BY <3>1, <3>2
  <2>9. ASSUME NEW r \in Runs, WritePid(r) PROVE OwnerHasFile'
    <3>1. Owners' = Owners /\ stolen' = stolen
      BY <2>9 DEF WritePid, Goto
    <3>2. file # None => file' # None /\ file'.by = file.by
      <4> SUFFICES ASSUME file # None PROVE file' # None /\ file'.by = file.by
        OBVIOUS
      <4>1. file \in LockFile
        OBVIOUS
      <4>2. [file EXCEPT !.pid = proc[r], !.old = FALSE] \in LockFile
        BY <4>1
      <4>3. [file EXCEPT !.pid = proc[r], !.old = FALSE].by = file.by
        BY <4>1
      <4>4. file' = file \/ file' = [file EXCEPT !.pid = proc[r], !.old = FALSE]
        BY <2>9 DEF WritePid
      <4>5. file' \in LockFile
        BY <4>1, <4>2, <4>4 DEF LockFile
      <4>. QED
        BY <4>3, <4>4, <4>5
    <3>3. QED
      BY <3>1, <3>2
  <2>10. ASSUME NEW r \in Runs, Release(r) PROVE OwnerHasFile'
    BY <2>10 DEF Release, Goto, processes
  <2>11. ASSUME NEW p \in Pids, Exit(p) PROVE OwnerHasFile'
    BY <2>11 DEF Exit, RunsOf
  <2>12. ASSUME NEW p \in Pids, Crash(p) PROVE OwnerHasFile'
    BY <2>12 DEF Crash, RunsOf
  <2>13. ASSUME NEW p \in Pids, Spawn(p) PROVE OwnerHasFile'
    BY <2>13 DEF Spawn
  <2>14. CASE GrowOld
    BY <2>14 DEF GrowOld, processes
  <2>15. CASE UNCHANGED vars
    BY <2>15 DEF vars
  <2>16. QED
    BY <2>1, <2>2, <2>3, <2>4, <2>5, <2>6, <2>7, <2>8, <2>9, <2>10, <2>11, <2>12, <2>13, <2>14, <2>15 DEF Next, AcquireStep
<1>3. QED
  BY <1>1, <1>2, TypeCorrect, PTL DEF Spec

\* Without a fault nothing a run sees makes it remove the file.
LEMMA NothingLooksStaleInv == Spec => []NothingLooksStale
<1>1. Init => NothingLooksStale
  BY FileLockAssumption DEF Init, NothingLooksStale
<1>2. TypeOK /\ OwnerHasFile /\ NothingLooksStale /\ [Next]_vars => NothingLooksStale'
  <2> SUFFICES ASSUME TypeOK, OwnerHasFile, NothingLooksStale, [Next]_vars
               PROVE NothingLooksStale'
    OBVIOUS
  <2> USE FileLockAssumption DEF TypeOK, LockFile, OwnerHasFile, NothingLooksStale, Owners
  <2>1. ASSUME NEW r \in Runs, NEW p \in Pids, Start(r, p) PROVE NothingLooksStale'
    BY <2>1 DEF Start, Goto
  <2>2. ASSUME NEW r \in Runs, OpenExcl(r) PROVE NothingLooksStale'
    BY <2>2 DEF OpenExcl, Create, Goto, processes
  <2>3. ASSUME NEW r \in Runs, OpenFails(r) PROVE NothingLooksStale'
    BY <2>3 DEF OpenFails, Goto, processes
  <2>4. ASSUME NEW r \in Runs, ReadLock(r) PROVE NothingLooksStale'
    BY <2>4 DEF ReadLock, Judge, Goto, processes
  <2>5. ASSUME NEW r \in Runs, StatLock(r) PROVE NothingLooksStale'
    BY <2>5 DEF StatLock, Goto, processes
  <2>6. ASSUME NEW r \in Runs, Probe(r) PROVE NothingLooksStale'
    BY <2>6 DEF Probe, Goto, processes
  <2>7. ASSUME NEW r \in Runs, RemoveStale(r) PROVE NothingLooksStale'
    BY <2>7 DEF RemoveStale, Goto, processes
  <2>8. ASSUME NEW r \in Runs, RetryOpen(r) PROVE NothingLooksStale'
    BY <2>8 DEF RetryOpen, Create, Goto, processes
  <2>9. ASSUME NEW r \in Runs, WritePid(r) PROVE NothingLooksStale'
    BY <2>9 DEF WritePid, Goto
  <2>10. ASSUME NEW r \in Runs, Release(r) PROVE NothingLooksStale'
    BY <2>10 DEF Release, Goto, processes
  <2>11. ASSUME NEW p \in Pids, Exit(p) PROVE NothingLooksStale'
    BY <2>11 DEF Exit, RunsOf
  <2>12. ASSUME NEW p \in Pids, Crash(p) PROVE NothingLooksStale'
    BY <2>12 DEF Crash, RunsOf
  <2>13. ASSUME NEW p \in Pids, Spawn(p) PROVE NothingLooksStale'
    BY <2>13 DEF Spawn
  <2>14. CASE GrowOld
    BY <2>14 DEF GrowOld, processes
  <2>15. CASE UNCHANGED vars
    BY <2>15 DEF vars
  <2>16. QED
    BY <2>1, <2>2, <2>3, <2>4, <2>5, <2>6, <2>7, <2>8, <2>9, <2>10, <2>11, <2>12, <2>13, <2>14, <2>15 DEF Next, AcquireStep
<1>3. QED
  BY <1>1, <1>2, TypeCorrect, OwnerHasFileInv, PTL DEF Spec

\* Only the removal of a live owner's file lets two runs own the lock
\* (AcquireLock and Release, pkg/core/lock.go:19-57).
THEOREM Exclusion == Spec => []ExclusiveUnlessStolen
<1>1. OwnerHasFile => ExclusiveUnlessStolen
  BY DEF OwnerHasFile, ExclusiveUnlessStolen, MutualExclusion
<1>2. QED
  BY <1>1, OwnerHasFileInv, PTL

\* Runs inside processes that stay alive never steal each other's lock: the
\* stale-lock path of AcquireLock is harmless inside one `gaet serve`.
THEOREM NoTheftWithoutFault == Spec => []StolenOnlyAfterFault
<1>1. NothingLooksStale => StolenOnlyAfterFault
  BY DEF NothingLooksStale, StolenOnlyAfterFault
<1>2. QED
  BY <1>1, NothingLooksStaleInv, PTL

\* Without faults the lock file exists exactly while its creator owns the lock.
THEOREM NoFileLeftBehind == Spec => []FileIffOwned
<1>1. OwnerHasFile /\ NothingLooksStale => FileIffOwned
  BY DEF OwnerHasFile, NothingLooksStale, FileIffOwned
<1>2. QED
  BY <1>1, OwnerHasFileInv, NothingLooksStaleInv, PTL

\* Creating the file is the moment AcquireLock hands out the lock.
LEMMA CreateAcquires ==
  ASSUME TypeOK, OwnerHasFile, NEW r \in Runs, pc[r] \notin {"write", "held"},
         Create(r), UNCHANGED stolen
  PROVE  Service!Acquire(r)
<1>1. ~stolen => Owners = {}
  BY DEF Create, OwnerHasFile
<1>2. r \notin Owners /\ Owners' = Owners \cup {r}
  BY DEF Create, Goto, Owners, TypeOK
<1>3. QED
  BY <1>1, <1>2 DEF Service!Acquire, TypeOK

\* The lock file implements the lock the operations rely on (LockService).
THEOREM Implements == Spec => ImplementsLockService
<1>1. Init => Service!Init
  BY DEF Init, Service!Init, Owners
<1>2. TypeOK /\ OwnerHasFile /\ [Next]_vars => [Service!Next]_(Service!vars)
  <2> SUFFICES ASSUME TypeOK, OwnerHasFile, [Next]_vars
               PROVE  Service!Next \/ UNCHANGED <<Owners, stolen>>
    BY DEF Service!vars
  <2>1. ASSUME NEW r \in Runs, OpenExcl(r)
        PROVE  Service!Acquire(r) \/ UNCHANGED <<Owners, stolen>>
    <3>1. CASE Create(r)
      BY <2>1, <3>1, CreateAcquires DEF OpenExcl
    <3>2. CASE ~Create(r)
      BY <2>1, <3>2 DEF OpenExcl, Goto, Owners, TypeOK
    <3>3. QED
      BY <3>1, <3>2
  <2>2. ASSUME NEW r \in Runs, RetryOpen(r)
        PROVE  Service!Acquire(r) \/ UNCHANGED <<Owners, stolen>>
    <3>1. CASE Create(r)
      BY <2>2, <3>1, CreateAcquires DEF RetryOpen
    <3>2. CASE ~Create(r)
      BY <2>2, <3>2 DEF RetryOpen, Goto, Owners, TypeOK
    <3>3. QED
      BY <3>1, <3>2
  <2>3. ASSUME NEW r \in Runs, Release(r) PROVE Service!Release(r)
    <3>1. r \in Owners /\ Owners' = Owners \ {r}
      BY <2>3 DEF Release, Goto, Owners, TypeOK
    <3>2. QED
      BY <2>3, <3>1 DEF Release, Service!Release
  <2>4. ASSUME NEW p \in Pids, Crash(p) PROVE Service!Vanish(RunsOf(p))
    <3>1. Owners' = Owners \ RunsOf(p)
      BY <2>4 DEF Crash, RunsOf, Owners, TypeOK
    <3>2. QED
      BY <2>4, <3>1 DEF Crash, Service!Vanish
  <2>5. ASSUME NEW r \in Runs, RemoveStale(r)
        PROVE  Service!Steal \/ UNCHANGED <<Owners, stolen>>
    <3>1. Owners' = Owners
      BY <2>5 DEF RemoveStale, Goto, Owners, TypeOK
    <3>2. CASE file # None /\ file.by \in Owners
      BY <2>5, <3>1, <3>2 DEF RemoveStale, Service!Steal
    <3>3. CASE ~(file # None /\ file.by \in Owners)
      BY <2>5, <3>1, <3>3 DEF RemoveStale, TypeOK
    <3>4. QED
      BY <3>2, <3>3
  <2>6. ASSUME NEW r \in Runs,
               \/ \E p \in Pids : Start(r, p)
               \/ OpenFails(r) \/ ReadLock(r) \/ StatLock(r) \/ Probe(r) \/ WritePid(r)
        PROVE  UNCHANGED <<Owners, stolen>>
    BY <2>6 DEF Start, OpenFails, ReadLock, Judge, StatLock, Probe, WritePid, Goto,
                Owners, TypeOK
  <2>7. ASSUME \/ \E p \in Pids : Exit(p) \/ Spawn(p)
               \/ GrowOld
               \/ UNCHANGED vars
        PROVE  UNCHANGED <<Owners, stolen>>
    BY <2>7 DEF Exit, Spawn, GrowOld, vars, Owners
  <2>8. \A p \in Pids : RunsOf(p) \in SUBSET Runs
    BY DEF RunsOf
  <2>9. QED
    BY <2>1, <2>2, <2>3, <2>4, <2>5, <2>6, <2>7, <2>8
    DEF Next, AcquireStep, Service!Next
<1>3. QED
  BY <1>1, <1>2, TypeCorrect, OwnerHasFileInv, PTL DEF Spec, ImplementsLockService, Service!Spec
============================================================================
