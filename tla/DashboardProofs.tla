-------------------------- MODULE DashboardProofs --------------------------
(***************************************************************************)
(* Proofs about the dashboards: about Serve for every number of dashboards,*)
(* commands, requests and tool calls, and about Sdk, the client that starts*)
(* and stops dashboards, for every number of its calls and polls; of both  *)
(* for every set of faults.                                                *)
(*                                                                         *)
(* The argument for Serve: the operations that own the lock are exactly    *)
(* those in a stage from AcquireLock to Release (OwnersWork), and a command*)
(* ends only the operation it has begun itself (OwnProcess); the rest      *)
(* follows from the order of the steps of an operation.                    *)
(*                                                                         *)
(* The argument for Sdk: as long as nothing happened that is blamed, one   *)
(* start is under way at a time (OneStart), a child that does not listen   *)
(* yet is one that its start is waiting for (StartingIsPolled), and so,    *)
(* when a start goes past its question whether a server runs, no child does*)
(* (FreeToSpawn): the child it spawns takes the place of none in           *)
(* spawnedProcess.                                                         *)
(***************************************************************************)
EXTENDS Serve, Sdk, TLAPS

\* Owning the lock is being between AcquireLock and Release, and a tool runs only
\* while there is something left to do.
OwnersWork ==
  \A r \in Ops : /\ r \in owners <=> op[r].stage \in {"working", "unwinding"}
                 /\ op[r].tool => op[r].stage = "working" /\ op[r].left > 0

\* A command's operation is in the command, a request's in a dashboard.
OwnProcess ==
  /\ \A c \in Commands : /\ op[c].proc = IF proc[c] = "none" THEN None ELSE c
                         /\ proc[c] = "none" => op[c].stage = "none"
  /\ \A r \in Requests : op[r].proc \in Dashboards \cup {None}

\* Success is decided when nothing is left, and told as it was decided.
SuccessIsDone ==
  \A r \in Ops : op[r].result = "ok" \/ op[r].told = "ok" => op[r].left = 0

LEMMA InitialOp == NoOp \in OpStates
  BY ServeAssumption DEF NoOp, OpStates, Stages

\* The initial state.
LEMMA InitInv == Init => TypeOK /\ OwnersWork /\ OwnProcess /\ SuccessIsDone
<1> SUFFICES ASSUME Init PROVE TypeOK /\ OwnersWork /\ OwnProcess /\ SuccessIsDone
  OBVIOUS
<1>1. TypeOK
  BY ServeAssumption, InitialOp DEF Init, TypeOK, ProcStages
<1>2. OwnersWork /\ OwnProcess /\ SuccessIsDone
  BY ServeAssumption DEF Init, OwnersWork, OwnProcess, SuccessIsDone, NoOp, Ops, Procs
<1>3. QED
  BY <1>1, <1>2

\* The types: a tool that ends has been one of those left.
LEMMA TypeStep == TypeOK /\ OwnersWork /\ [Next]_vars => TypeOK'
<1> SUFFICES ASSUME TypeOK, OwnersWork, [Next]_vars PROVE TypeOK'
  OBVIOUS
<1> USE ServeAssumption DEF TypeOK, ProcStages, OpStates, Stages, Procs, Ops,
        procVars, opVars
<1>0. ASSUME NEW p \in Procs, Gone(p), signalled' = signalled,
             crashed' = crashed \/ crashed' = crashed \cup {p}
      PROVE TypeOK'
  <2>1. op' \in [Ops -> OpStates]
    <3>1. ASSUME NEW r \in Ops
          PROVE [op[r] EXCEPT !.stage = "lost", !.tool = FALSE,
                              !.told = IF @ = None THEN "reset" ELSE @] \in OpStates
      <4>1. op[r] \in OpStates
        OBVIOUS
      <4>. QED
        BY <4>1
    <3>2. op' = [r \in Ops |-> IF r \notin OpsOf(p) THEN op[r]
                               ELSE [op[r] EXCEPT !.stage = "lost", !.tool = FALSE,
                                                  !.told = IF @ = None THEN "reset" ELSE @]]
      BY <1>0 DEF Gone
    <3>. HIDE DEF OpStates
    <3>. QED
      BY <3>1, <3>2
  <2>2. owners' \subseteq Ops /\ orphans' \subseteq Ops
    BY <1>0 DEF Gone, OpsOf, Lock!Vanish
  <2>3. proc' \in [Procs -> ProcStages] /\ listener' \in Dashboards \cup {None}
    BY <1>0 DEF Gone
  <2>. QED
    BY <1>0, <2>1, <2>2, <2>3
<1>1. ASSUME NEW d \in Dashboards, StartServe(d) PROVE TypeOK'
  BY <1>1 DEF StartServe
<1>2. ASSUME NEW d \in Dashboards, Listen(d) PROVE TypeOK'
  BY <1>2 DEF Listen
<1>3. ASSUME NEW d \in Dashboards, Close(d) PROVE TypeOK'
  BY <1>3 DEF Close
<1>4. ASSUME NEW c \in Commands, StartCommand(c) PROVE TypeOK'
  <2>1. [op[c] EXCEPT !.proc = c, !.stage = "asked"] \in OpStates
    <3>1. op[c] \in OpStates
      OBVIOUS
    <3>. QED
      BY <3>1
  <2>2. op' = [op EXCEPT ![c] = [op[c] EXCEPT !.proc = c, !.stage = "asked"]]
    BY <1>4 DEF StartCommand
  <2>3. op' \in [Ops -> OpStates]
    BY <2>1, <2>2
  <2>. QED
    BY <1>4, <2>3 DEF StartCommand
<1>5. ASSUME NEW p \in Procs, Signal(p) PROVE TypeOK'
  BY <1>5 DEF Signal
<1>6. ASSUME NEW p \in Procs, Exit(p) PROVE TypeOK'
  BY <1>6, <1>0 DEF Exit, Gone
<1>7. ASSUME NEW p \in Procs, Crash(p) PROVE TypeOK'
  BY <1>7, <1>0 DEF Crash, Gone
<1>8. ASSUME NEW r \in Requests, Ask(r) PROVE TypeOK'
  <2>1. [op[r] EXCEPT !.proc = listener, !.stage = "asked"] \in OpStates
    <3>1. op[r] \in OpStates
      OBVIOUS
    <3>. QED
      BY <3>1
  <2>2. op' = [op EXCEPT ![r] = [op[r] EXCEPT !.proc = listener, !.stage = "asked"]]
    BY <1>8 DEF Ask
  <2>3. op' \in [Ops -> OpStates]
    BY <2>1, <2>2
  <2>. QED
    BY <1>8, <2>3 DEF Ask
<1>9. ASSUME NEW r \in Ops, AcquireLock(r) PROVE TypeOK'
  BY <1>9 DEF AcquireLock, Lock!Acquire
<1>10. ASSUME NEW r \in Ops, StartTool(r) PROVE TypeOK'
  <2>1. /\ [op[r] EXCEPT !.stage = "unwinding", !.tool = FALSE] \in OpStates
        /\ [op[r] EXCEPT !.tool = TRUE] \in OpStates
    <3>1. op[r] \in OpStates
      OBVIOUS
    <3>. QED
      BY <3>1
  <2>2. \/ op' = [op EXCEPT ![r] = [op[r] EXCEPT !.stage = "unwinding", !.tool = FALSE]]
        \/ op' = [op EXCEPT ![r] = [op[r] EXCEPT !.tool = TRUE]]
    BY <1>10 DEF StartTool, Fail
  <2>3. op' \in [Ops -> OpStates]
    <3>. HIDE DEF OpStates
    <3>. QED
      BY <2>1, <2>2
  <2>. QED
    BY <1>10, <2>3 DEF StartTool
<1>11. ASSUME NEW r \in Ops, ToolEnds(r) PROVE TypeOK'
  BY <1>11 DEF ToolEnds, Fail, OwnersWork
<1>12. ASSUME NEW r \in Ops, Succeed(r) PROVE TypeOK'
  BY <1>12 DEF Succeed
<1>13. ASSUME NEW r \in Ops, Release(r) PROVE TypeOK'
  BY <1>13 DEF Release, Lock!Release
<1>14. ASSUME NEW r \in Ops, Answer(r) PROVE TypeOK'
  BY <1>14 DEF Answer
<1>15. ASSUME NEW r \in Ops, Abort(r) PROVE TypeOK'
  BY <1>15 DEF Abort
<1>16. CASE UNCHANGED vars
  BY <1>16 DEF vars
<1>17. QED
  BY <1>1, <1>2, <1>3, <1>4, <1>5, <1>6, <1>7, <1>8, <1>9, <1>10, <1>11, <1>12, <1>13,
     <1>14, <1>15, <1>16 DEF Next, OpStep

\* What the end of a process does to one operation.
LEMMA GoneOp ==
  ASSUME TypeOK, NEW p \in Procs, Gone(p), NEW r \in Ops
  PROVE  /\ r \notin OpsOf(p) => op'[r] = op[r] /\ (r \in owners' <=> r \in owners)
         /\ r \in OpsOf(p) =>
              /\ op'[r] = [op[r] EXCEPT !.stage = "lost", !.tool = FALSE,
                                        !.told = IF @ = None THEN "reset" ELSE @]
              /\ op'[r].stage = "lost" /\ ~op'[r].tool
              /\ op'[r].proc = op[r].proc /\ op'[r].left = op[r].left
              /\ op'[r].result = op[r].result
              /\ op'[r].told = IF op[r].told = None THEN "reset" ELSE op[r].told
              /\ r \notin owners'
<1>1. op[r] \in OpStates
  BY DEF TypeOK
<1>2. /\ r \notin OpsOf(p) => op'[r] = op[r]
      /\ r \in OpsOf(p) =>
           op'[r] = [op[r] EXCEPT !.stage = "lost", !.tool = FALSE,
                                  !.told = IF @ = None THEN "reset" ELSE @]
  BY DEF Gone
<1>3. owners' = owners \ OpsOf(p)
  BY DEF Gone, Lock!Vanish
<1>4. QED
  BY <1>1, <1>2, <1>3 DEF OpStates

\* Owning the lock and being at work come and go together.
LEMMA OwnersStep == TypeOK /\ OwnersWork /\ OwnProcess /\ [Next]_vars => OwnersWork'
<1> SUFFICES ASSUME TypeOK, OwnersWork, OwnProcess, [Next]_vars PROVE OwnersWork'
  OBVIOUS
<1> USE ServeAssumption DEF TypeOK, OpStates, Stages, Procs, Ops, OwnersWork, OwnProcess,
        procVars, opVars, At
<1>1. ASSUME NEW p \in Procs, Gone(p) PROVE OwnersWork'
  <2> SUFFICES ASSUME NEW r \in Ops
               PROVE  /\ r \in owners' <=> op'[r].stage \in {"working", "unwinding"}
                      /\ op'[r].tool => op'[r].stage = "working" /\ op'[r].left > 0
    OBVIOUS
  <2>. QED
    BY <1>1, GoneOp
<1>2. ASSUME NEW d \in Dashboards, StartServe(d) \/ Listen(d) \/ Close(d) PROVE OwnersWork'
  BY <1>2 DEF StartServe, Listen, Close
<1>3. ASSUME NEW c \in Commands, StartCommand(c) PROVE OwnersWork'
  BY <1>3 DEF StartCommand
<1>4. ASSUME NEW p \in Procs, Signal(p) \/ Exit(p) \/ Crash(p) PROVE OwnersWork'
  BY <1>4, <1>1 DEF Signal, Exit, Crash
<1>5. ASSUME NEW r \in Requests, Ask(r) PROVE OwnersWork'
  BY <1>5 DEF Ask
<1>6. ASSUME NEW r \in Ops, AcquireLock(r) PROVE OwnersWork'
  BY <1>6 DEF AcquireLock, Lock!Acquire
<1>7. ASSUME NEW r \in Ops, StartTool(r) PROVE OwnersWork'
  BY <1>7 DEF StartTool, Fail
<1>8. ASSUME NEW r \in Ops, ToolEnds(r) PROVE OwnersWork'
  BY <1>8 DEF ToolEnds, Fail
<1>9. ASSUME NEW r \in Ops, Succeed(r) PROVE OwnersWork'
  BY <1>9 DEF Succeed
<1>10. ASSUME NEW r \in Ops, Release(r) PROVE OwnersWork'
  BY <1>10 DEF Release, Lock!Release
<1>11. ASSUME NEW r \in Ops, Answer(r) \/ Abort(r) PROVE OwnersWork'
  BY <1>11 DEF Answer, Abort
<1>12. CASE UNCHANGED vars
  BY <1>12 DEF vars
<1>13. QED
  BY <1>2, <1>3, <1>4, <1>5, <1>6, <1>7, <1>8, <1>9, <1>10, <1>11, <1>12 DEF Next, OpStep

\* Nobody moves an operation to another process.
LEMMA OwnProcessStep == TypeOK /\ OwnersWork /\ OwnProcess /\ [Next]_vars => OwnProcess'
<1> SUFFICES ASSUME TypeOK, OwnersWork, OwnProcess, [Next]_vars PROVE OwnProcess'
  OBVIOUS
<1> USE ServeAssumption DEF TypeOK, OpStates, Stages, Procs, Ops, OwnersWork, OwnProcess,
        procVars, opVars, At, ProcStages
<1>1. ASSUME NEW p \in Procs, Gone(p), Runs(p) PROVE OwnProcess'
  <2>1. ASSUME NEW r \in Ops
        PROVE  op'[r].proc = op[r].proc /\ (op'[r].stage = op[r].stage \/ op[r].proc = p)
    BY <1>1, GoneOp DEF OpsOf
  <2>2. \A q \in Procs : proc'[q] = "none" <=> proc[q] = "none"
    BY <1>1 DEF Gone, Runs
  <2>3. ASSUME NEW c \in Commands
        PROVE  /\ op'[c].proc = IF proc'[c] = "none" THEN None ELSE c
               /\ proc'[c] = "none" => op'[c].stage = "none"
    BY <2>1, <2>2
  <2>. QED
    BY <2>1, <2>3
<1>2. ASSUME NEW d \in Dashboards, StartServe(d) \/ Listen(d) \/ Close(d) PROVE OwnProcess'
  BY <1>2 DEF StartServe, Listen, Close
<1>3. ASSUME NEW c \in Commands, StartCommand(c) PROVE OwnProcess'
  BY <1>3 DEF StartCommand
<1>4. ASSUME NEW p \in Procs, Signal(p) \/ Exit(p) \/ Crash(p) PROVE OwnProcess'
  BY <1>4, <1>1 DEF Signal, Exit, Crash
<1>5. ASSUME NEW r \in Requests, Ask(r) PROVE OwnProcess'
  BY <1>5 DEF Ask
<1>6. ASSUME NEW r \in Ops, AcquireLock(r) PROVE OwnProcess'
  BY <1>6 DEF AcquireLock, Lock!Acquire
<1>7. ASSUME NEW r \in Ops, StartTool(r) PROVE OwnProcess'
  BY <1>7 DEF StartTool, Fail
<1>8. ASSUME NEW r \in Ops, ToolEnds(r) PROVE OwnProcess'
  BY <1>8 DEF ToolEnds, Fail
<1>9. ASSUME NEW r \in Ops, Succeed(r) PROVE OwnProcess'
  BY <1>9 DEF Succeed
<1>10. ASSUME NEW r \in Ops, Release(r) PROVE OwnProcess'
  BY <1>10 DEF Release, Lock!Release
<1>11. ASSUME NEW r \in Ops, Answer(r) \/ Abort(r) PROVE OwnProcess'
  BY <1>11 DEF Answer, Abort
<1>12. CASE UNCHANGED vars
  BY <1>12 DEF vars
<1>13. QED
  BY <1>2, <1>3, <1>4, <1>5, <1>6, <1>7, <1>8, <1>9, <1>10, <1>11, <1>12 DEF Next, OpStep

\* What is left only grows less while a tool runs, and then nothing is decided yet.
LEMMA SuccessStep == TypeOK /\ OwnersWork /\ SuccessIsDone /\ [Next]_vars => SuccessIsDone'
<1> SUFFICES ASSUME TypeOK, OwnersWork, SuccessIsDone, [Next]_vars PROVE SuccessIsDone'
  OBVIOUS
<1> USE ServeAssumption DEF TypeOK, OpStates, Stages, Procs, Ops, OwnersWork, SuccessIsDone,
        procVars, opVars, At
<1>1. ASSUME NEW p \in Procs, Gone(p) PROVE SuccessIsDone'
  BY <1>1 DEF Gone, OpsOf
<1>2. ASSUME NEW d \in Dashboards, StartServe(d) \/ Listen(d) \/ Close(d) PROVE SuccessIsDone'
  BY <1>2 DEF StartServe, Listen, Close
<1>3. ASSUME NEW c \in Commands, StartCommand(c) PROVE SuccessIsDone'
  BY <1>3 DEF StartCommand
<1>4. ASSUME NEW p \in Procs, Signal(p) \/ Exit(p) \/ Crash(p) PROVE SuccessIsDone'
  BY <1>4, <1>1 DEF Signal, Exit, Crash
<1>5. ASSUME NEW r \in Requests, Ask(r) PROVE SuccessIsDone'
  BY <1>5 DEF Ask
<1>6. ASSUME NEW r \in Ops, AcquireLock(r) PROVE SuccessIsDone'
  BY <1>6 DEF AcquireLock
<1>7. ASSUME NEW r \in Ops, StartTool(r) PROVE SuccessIsDone'
  BY <1>7 DEF StartTool, Fail
<1>8. ASSUME NEW r \in Ops, ToolEnds(r) PROVE SuccessIsDone'
  BY <1>8 DEF ToolEnds, Fail
<1>9. ASSUME NEW r \in Ops, Succeed(r) PROVE SuccessIsDone'
  BY <1>9 DEF Succeed
<1>10. ASSUME NEW r \in Ops, Release(r) PROVE SuccessIsDone'
  BY <1>10 DEF Release
<1>11. ASSUME NEW r \in Ops, Answer(r) PROVE SuccessIsDone'
  BY <1>11 DEF Answer
<1>12. ASSUME NEW r \in Ops, Abort(r) PROVE SuccessIsDone'
  BY <1>12 DEF Abort
<1>13. CASE UNCHANGED vars
  BY <1>13 DEF vars
<1>14. QED
  BY <1>2, <1>3, <1>4, <1>5, <1>6, <1>7, <1>8, <1>9, <1>10, <1>11, <1>12, <1>13 DEF Next, OpStep

\* A command exits when its own operation is over, and no other process ends it.
LEMMA CommandStep ==
  TypeOK /\ OwnersWork /\ OwnProcess /\ CommandStopsClean /\ [Next]_vars => CommandStopsClean'
<1> SUFFICES ASSUME TypeOK, OwnersWork, OwnProcess, CommandStopsClean, [Next]_vars
             PROVE  CommandStopsClean'
  OBVIOUS
<1> USE ServeAssumption DEF TypeOK, OpStates, Stages, Procs, Ops, OwnersWork, OwnProcess,
        CommandStopsClean, procVars, opVars, At, ProcStages
<1>1. ASSUME NEW p \in Procs, Gone(p), Runs(p), crashed \subseteq crashed',
             p \in Commands => OpsOf(p) = {} \/ p \in crashed'
      PROVE  CommandStopsClean'
  <2> SUFFICES ASSUME NEW c \in Commands, c \notin crashed'
               PROVE  /\ c \notin orphans'
                      /\ proc'[c] = "exited" => c \notin owners' /\ op'[c].stage = "answered"
    OBVIOUS
  <2>1. c \notin OpsOf(p)
    BY <1>1 DEF OpsOf
  <2>2. op'[c] = op[c] /\ (c \in owners' <=> c \in owners)
    BY <1>1, <2>1, GoneOp
  <2>3. c \notin orphans'
    BY <1>1, <2>1 DEF Gone
  <2>4. CASE p = c
    <3>1. op[c].stage = "answered"
      BY <1>1, <2>1, <2>4 DEF OpsOf, Runs
    <3>. QED
      BY <2>2, <2>3, <3>1
  <2>5. CASE p # c
    <3>1. proc'[c] = proc[c]
      BY <1>1, <2>5 DEF Gone
    <3>. QED
      BY <1>1, <2>2, <2>3, <3>1
  <2>. QED
    BY <2>4, <2>5
<1>2. ASSUME NEW d \in Dashboards, StartServe(d) \/ Listen(d) \/ Close(d)
      PROVE  CommandStopsClean'
  BY <1>2 DEF StartServe, Listen, Close
<1>3. ASSUME NEW c \in Commands, StartCommand(c) PROVE CommandStopsClean'
  BY <1>3 DEF StartCommand
<1>4. ASSUME NEW p \in Procs, Signal(p) PROVE CommandStopsClean'
  BY <1>4 DEF Signal
<1>5. ASSUME NEW p \in Procs, Exit(p) PROVE CommandStopsClean'
  BY <1>5, <1>1 DEF Exit
<1>6. ASSUME NEW p \in Procs, Crash(p) PROVE CommandStopsClean'
  BY <1>6, <1>1 DEF Crash
<1>7. ASSUME NEW r \in Requests, Ask(r) PROVE CommandStopsClean'
  BY <1>7 DEF Ask
<1>8. ASSUME NEW r \in Ops, AcquireLock(r) PROVE CommandStopsClean'
  BY <1>8 DEF AcquireLock, Lock!Acquire
<1>9. ASSUME NEW r \in Ops, StartTool(r) PROVE CommandStopsClean'
  BY <1>9 DEF StartTool, Fail
<1>10. ASSUME NEW r \in Ops, ToolEnds(r) PROVE CommandStopsClean'
  BY <1>10 DEF ToolEnds, Fail
<1>11. ASSUME NEW r \in Ops, Succeed(r) \/ Answer(r) \/ Abort(r) PROVE CommandStopsClean'
  BY <1>11 DEF Succeed, Answer, Abort
<1>12. ASSUME NEW r \in Ops, Release(r) PROVE CommandStopsClean'
  BY <1>12 DEF Release, Lock!Release
<1>13. CASE UNCHANGED vars
  BY <1>13 DEF vars
<1>14. QED
  BY <1>2, <1>3, <1>4, <1>5, <1>6, <1>7, <1>8, <1>9, <1>10, <1>11, <1>12, <1>13 DEF Next, OpStep
-----------------------------------------------------------------------------
\* The invariant from which the theorems follow.
LEMMA Invariant == Spec => [](TypeOK /\ OwnersWork /\ OwnProcess /\ SuccessIsDone)
<1>1. TypeOK /\ OwnersWork /\ OwnProcess /\ SuccessIsDone /\ [Next]_vars
      => (TypeOK /\ OwnersWork /\ OwnProcess /\ SuccessIsDone)'
  BY TypeStep, OwnersStep, OwnProcessStep, SuccessStep
<1>2. QED
  BY <1>1, InitInv, PTL DEF Spec

\* Every variable stays within its type.
THEOREM TypeCorrect == Spec => []TypeOK
BY Invariant, PTL

\* The tools of living processes run one at a time: only one operation owns the
\* lock, and only an owner is at work.
THEOREM Exclusive == Spec => []OneToolAtATime
<1> DEFINE AtMostOne == \A r, s \in owners : r = s
<1>1. Init => AtMostOne
  BY DEF Init
<1>2. TypeOK /\ OwnersWork /\ AtMostOne /\ [Next]_vars => AtMostOne'
  <2> SUFFICES ASSUME AtMostOne, [Next]_vars PROVE AtMostOne'
    OBVIOUS
  <2>1. owners' \subseteq owners \/ (owners = {} /\ \E r \in Ops : owners' = {r})
    BY DEF Next, OpStep, vars, procVars, opVars, StartServe, Listen, Close, StartCommand, Signal,
           Exit, Crash, Gone, Lock!Vanish, Ask, AcquireLock, Lock!Acquire, StartTool, ToolEnds,
           Succeed, Release, Lock!Release, Answer, Abort
  <2>. QED
    BY <2>1
<1>3. OwnersWork /\ AtMostOne => OneToolAtATime
  BY DEF OwnersWork, OneToolAtATime
<1>4. QED
  BY <1>1, <1>2, <1>3, Invariant, PTL DEF Spec

\* A command that was not killed leaves neither a lock nor a running tool behind.
THEOREM CommandsStopClean == Spec => []CommandStopsClean
<1>1. Init => CommandStopsClean
  BY ServeAssumption DEF Init, CommandStopsClean, Procs
<1>2. QED
  BY <1>1, CommandStep, Invariant, PTL DEF Spec

\* Whoever is told "ok" can rely on it.
THEOREM SuccessTold == Spec => []OkMeansDone
<1>1. SuccessIsDone => OkMeansDone
  BY DEF SuccessIsDone, OkMeansDone
<1>2. QED
  BY <1>1, Invariant, PTL
-----------------------------------------------------------------------------
(***************************************************************************)
(* The client of the SDK.                                                  *)
(***************************************************************************)
\* The port is held by one that serves or is about to end.
Listens == /\ \A p \in Servers : server[p] = "serving" => port = p
           /\ port # Nobody => server[port] \in {"serving", "stopping"}

\* A child has a process only once its call has spawned it.
NotBefore == \A c \in Starts :
               call[c].stage \in {"none", "asking", "importing"} => server[c] = "none"

OneStart == causes = {} => \A c, d \in Starts : UnderWay(c) /\ UnderWay(d) => c = d

StartingIsPolled ==
  causes = {} => \A c \in Starts : server[c] = "starting" => call[c].stage = "polling"

FreeToSpawn ==
  causes = {} => \A c, d \in Starts : call[c].stage = "importing" => ~Alive(d)

ClientInv == SdkTypeOK /\ Listens /\ NotBefore /\ OneStart /\ StartingIsPolled
               /\ FreeToSpawn /\ NoneLeftBehind

Calls == [stage : {"none", "asking", "importing", "polling", "done"}, polls : 0 .. MaxPolls,
          told : {"nothing", "already running", "started", "failed"}]

LEMMA InitClient == SdkInit => ClientInv
  BY SdkAssumption
  DEF SdkInit, ClientInv, SdkTypeOK, Listens, NotBefore, OneStart, StartingIsPolled,
      FreeToSpawn, NoneLeftBehind, NoCall, UnderWay, Alive, Servers

LEMMA EndsCalls ==
  ASSUME call \in [Starts -> Calls], NEW c \in Starts,
         NEW told \in {"nothing", "already running", "started", "failed"}, Ends(c, told)
  PROVE  /\ call' \in [Starts -> Calls]
         /\ call'[c].stage = "done"
         /\ \A d \in Starts \ {c} : call'[d] = call[d]
<1>1. call[c] \in Calls
  OBVIOUS
<1>2. [call[c] EXCEPT !.stage = "done", !.told = told] \in Calls
  BY <1>1 DEF Calls
<1>3. [call[c] EXCEPT !.stage = "done", !.told = told].stage = "done"
  BY <1>1 DEF Calls
<1>4. call' = [call EXCEPT ![c] = [call[c] EXCEPT !.stage = "done", !.told = told]]
  BY DEF Ends
<1>. HIDE DEF Calls
<1>. QED
  BY <1>2, <1>3, <1>4

LEMMA StageCalls ==
  ASSUME call \in [Starts -> Calls], NEW c \in Starts, NEW stage,
         call' = [call EXCEPT ![c].stage = stage]
  PROVE  /\ call'[c].stage = stage
         /\ \A d \in Starts \ {c} : call'[d] = call[d]
<1>1. call[c] \in Calls
  OBVIOUS
<1>2. [call[c] EXCEPT !.stage = stage].stage = stage
  BY <1>1 DEF Calls
<1>3. call' = [call EXCEPT ![c] = [call[c] EXCEPT !.stage = stage]]
  OBVIOUS
<1>. HIDE DEF Calls
<1>. QED
  BY <1>2, <1>3

LEMMA OneMore == ASSUME NEW m \in Nat, NEW n \in 0 .. m, n < m PROVE n + 1 \in 0 .. m
  OBVIOUS

\* The types.
LEMMA ClientTypeStep == SdkTypeOK /\ [SdkNext]_sdkVars => SdkTypeOK'
<1> SUFFICES ASSUME SdkTypeOK, [SdkNext]_sdkVars PROVE SdkTypeOK'
  OBVIOUS
<1> USE SdkAssumption
    DEF SdkTypeOK, Servers, Blame, serverVars, clientVars
<1>0. call \in [Starts -> Calls]
  BY DEF Calls
<1>1. ASSUME NEW c \in Starts, Start(c) PROVE SdkTypeOK'
  BY <1>1 DEF Start
<1>2. ASSUME NEW c \in Starts, AlreadyRuns(c) PROVE SdkTypeOK'
  <2>1. call' \in [Starts -> Calls]
    BY <1>0, <1>2, EndsCalls DEF AlreadyRuns
  <2>. QED
    BY <1>2, <2>1 DEF AlreadyRuns, Calls
<1>3. ASSUME NEW c \in Starts, NotRunning(c) PROVE SdkTypeOK'
  BY <1>3 DEF NotRunning
<1>4. ASSUME NEW c \in Starts, Spawn(c) PROVE SdkTypeOK'
  BY <1>4 DEF Spawn
<1>5. ASSUME NEW c \in Starts, Poll(c) PROVE SdkTypeOK'
  <2>1. CASE Serves /\ spawned # Nobody
    <3>1. call' \in [Starts -> Calls]
      BY <1>0, <1>5, <2>1, EndsCalls DEF Poll
    <3>. QED
      BY <1>5, <2>1, <3>1 DEF Poll, Calls
  <2>2. CASE ~(Serves /\ spawned # Nobody)
    <3>1. call[c] \in Calls
      BY <1>0
    <3>2. call[c].polls + 1 \in 0 .. MaxPolls
      <4>1. call[c].polls \in 0 .. MaxPolls
        BY <3>1 DEF Calls
      <4>2. call[c].polls < MaxPolls
        BY <1>5 DEF Poll
      <4>. QED
        BY <4>1, <4>2, OneMore DEF SdkAssumption
    <3>3. [call[c] EXCEPT !.polls = @ + 1] \in Calls
      BY <3>1, <3>2 DEF Calls
    <3>4. call' = [call EXCEPT ![c] = [call[c] EXCEPT !.polls = @ + 1]]
      BY <1>5, <2>2 DEF Poll
    <3>5. call' \in [Starts -> Calls]
      <4>. HIDE DEF Calls
      <4>. QED
        BY <1>0, <3>3, <3>4
    <3>. QED
      BY <1>5, <2>2, <3>5 DEF Poll, Calls
  <2>. QED
    BY <2>1, <2>2
<1>6. ASSUME NEW c \in Starts, GiveUp(c) PROVE SdkTypeOK'
  <2>1. call' \in [Starts -> Calls]
    BY <1>0, <1>6, EndsCalls DEF GiveUp
  <2>. QED
    BY <1>6, <2>1 DEF GiveUp, Calls
<1>7. ASSUME NEW s \in Stops, Stop(s) PROVE SdkTypeOK'
  BY <1>7 DEF Stop, Kill
<1>8. ASSUME NEW p \in Servers, ServerListens(p) PROVE SdkTypeOK'
  BY <1>8 DEF ServerListens
<1>9. ASSUME NEW p \in Servers, ServerTerminates(p) \/ ServerCrashes(p) PROVE SdkTypeOK'
  BY <1>9 DEF ServerTerminates, ServerCrashes, ServerEnds
<1>10. CASE StartOther \/ StopOther
  BY <1>10 DEF StartOther, StopOther, Kill
<1>11. CASE UNCHANGED sdkVars
  BY <1>11 DEF sdkVars
<1>12. QED
  BY <1>1, <1>2, <1>3, <1>4, <1>5, <1>6, <1>7, <1>8, <1>9, <1>10, <1>11
  DEF SdkNext, StartStep

\* The strengthening.
LEMMA ClientStep == ClientInv /\ [SdkNext]_sdkVars => ClientInv'
<1> SUFFICES ASSUME ClientInv, [SdkNext]_sdkVars PROVE ClientInv'
  OBVIOUS
<1>0. SdkTypeOK /\ SdkTypeOK'
  BY ClientTypeStep DEF ClientInv
<1>00. call \in [Starts -> Calls]
  BY <1>0 DEF SdkTypeOK, Calls
<1>typed. /\ server \in [Servers -> {"none", "starting", "serving", "stopping", "gone"}]
         /\ port \in Servers \cup {Nobody}
         /\ spawned \in Starts \cup {Nobody}
  BY <1>0 DEF SdkTypeOK
<1>kept. ASSUME Listens', NotBefore', OneStart', StartingIsPolled', FreeToSpawn',
               NoneLeftBehind'
        PROVE ClientInv'
  BY <1>0, <1>kept DEF ClientInv
<1> USE SdkAssumption, <1>typed
    DEF ClientInv, Servers, Listens, NotBefore, OneStart, StartingIsPolled, FreeToSpawn,
        NoneLeftBehind, UnderWay, Alive, Serves,
        serverVars, clientVars
<1>1. ASSUME NEW c \in Starts, Start(c) PROVE ClientInv'
  <2>1. /\ call'[c].stage = "asking" /\ call[c].stage = "none"
        /\ \A d \in Starts \ {c} : call'[d] = call[d]
    BY <1>1, <1>00, StageCalls DEF Start
  <2>2. causes' = {} => causes = {} /\ \A d \in Starts : ~UnderWay(d)
    BY <1>1 DEF Start, Blame
  <2>3. UNCHANGED <<server, port, spawned>>
    BY <1>1 DEF Start
  <2>. QED
    BY <2>1, <2>2, <2>3, <1>kept
<1>2. ASSUME NEW c \in Starts, AlreadyRuns(c) PROVE ClientInv'
  <2>1. /\ call'[c].stage = "done" /\ call[c].stage = "asking"
        /\ \A d \in Starts \ {c} : call'[d] = call[d]
    BY <1>2, <1>00, EndsCalls DEF AlreadyRuns
  <2>2. UNCHANGED <<server, port, spawned, causes>>
    BY <1>2 DEF AlreadyRuns
  <2>. QED
    BY <2>1, <2>2, <1>kept
<1>3. ASSUME NEW c \in Starts, NotRunning(c) PROVE ClientInv'
  <2>1. /\ call'[c].stage = "importing" /\ call[c].stage = "asking"
        /\ \A d \in Starts \ {c} : call'[d] = call[d]
    BY <1>3, <1>00, StageCalls DEF NotRunning
  <2>2. UNCHANGED <<server, port, spawned>>
    BY <1>3 DEF NotRunning
  <2>3. causes' = {} => causes = {} /\ ~Serves
    BY <1>3 DEF NotRunning, Blame
  <2>4. causes' = {} => \A d \in Starts : ~Alive(d)
    BY <2>1, <2>3
  <2>. QED
    BY <2>1, <2>2, <2>3, <2>4, <1>kept
<1>4. ASSUME NEW c \in Starts, Spawn(c) PROVE ClientInv'
  <2>1. /\ call'[c].stage = "polling" /\ call[c].stage = "importing"
        /\ \A d \in Starts \ {c} : call'[d] = call[d]
    BY <1>4, <1>00, StageCalls DEF Spawn
  <2>2. /\ server[c] = "none" /\ server'[c] \in {"starting", "gone"}
        /\ \A p \in Servers \ {c} : server'[p] = server[p]
        /\ UNCHANGED <<port, causes>> /\ spawned' = c
    BY <1>4 DEF Spawn
  <2>3. port' # c
    BY <2>2
  <2>4. Listens'
    BY <2>1, <2>2, <2>3
  <2>5. NotBefore' /\ OneStart'
    BY <2>1, <2>2, <2>3
  <2>6. StartingIsPolled' /\ FreeToSpawn'
    BY <2>1, <2>2, <2>3
  <2>7. NoneLeftBehind'
    BY <2>1, <2>2, <2>3
  <2>. QED
    BY <2>4, <2>5, <2>6, <2>7, <1>kept
<1>5. ASSUME NEW c \in Starts, Poll(c) PROVE ClientInv'
  <2>1. CASE Serves /\ spawned # Nobody
    <3>1. /\ call'[c].stage = "done" /\ call[c].stage = "polling"
          /\ \A d \in Starts \ {c} : call'[d] = call[d]
      BY <1>5, <2>1, <1>00, EndsCalls DEF Poll
    <3>2. UNCHANGED <<server, port, spawned>>
      BY <1>5 DEF Poll
    <3>3. causes' = {} => causes = {} /\ port = c
      BY <1>5, <2>1 DEF Poll, Blame
    <3>. QED
      BY <2>1, <3>1, <3>2, <3>3, <1>kept
  <2>2. CASE ~(Serves /\ spawned # Nobody)
    <3>0. call[c] \in Calls
      BY <1>00
    <3>01. [call[c] EXCEPT !.polls = @ + 1].stage = call[c].stage
      BY <3>0 DEF Calls
    <3>02. call' = [call EXCEPT ![c] = [call[c] EXCEPT !.polls = @ + 1]]
      BY <1>5, <2>2 DEF Poll
    <3>1. \A d \in Starts : call'[d].stage = call[d].stage
      <4>. HIDE DEF Calls
      <4>. QED
        BY <1>00, <3>01, <3>02
    <3>2. UNCHANGED <<server, port, spawned, causes>>
      BY <1>5, <2>2 DEF Poll
    <3>. QED
      BY <3>1, <3>2, <1>kept
  <2>. QED
    BY <2>1, <2>2
<1>6. ASSUME NEW c \in Starts, GiveUp(c) PROVE ClientInv'
  <2>1. /\ call'[c].stage = "done" /\ call[c].stage = "polling"
        /\ \A d \in Starts \ {c} : call'[d] = call[d]
    BY <1>6, <1>00, EndsCalls DEF GiveUp
  <2>2. UNCHANGED <<server, port, spawned>>
    BY <1>6 DEF GiveUp
  <2>3. causes' = {} => causes = {} /\ ~Alive(c)
    BY <1>6 DEF GiveUp, Blame
  <2>. QED
    BY <2>1, <2>2, <2>3, <1>kept
<1>7. ASSUME NEW p \in Servers, Kill(p), UNCHANGED <<port, call, causes>>,
             spawned' = spawned \/ (p = spawned /\ spawned' = Nobody)
      PROVE ClientInv'
  <2>1. /\ server'[p] = IF Alive(p) THEN "stopping" ELSE server[p]
        /\ \A q \in Servers \ {p} : server'[q] = server[q]
    BY <1>7 DEF Kill
  <2>2. Listens'
    BY <1>7, <2>1
  <2>3. NotBefore' /\ OneStart'
    BY <1>7, <2>1
  <2>4. StartingIsPolled' /\ FreeToSpawn'
    BY <1>7, <2>1
  <2>5. NoneLeftBehind'
    BY <1>7, <2>1
  <2>. QED
    BY <2>2, <2>3, <2>4, <2>5, <1>kept
<1>8. ASSUME NEW s \in Stops, Stop(s) PROVE ClientInv'
  <2>1. CASE spawned = Nobody
    BY <1>8, <2>1, <1>kept DEF Stop
  <2>2. CASE spawned # Nobody
    BY <1>8, <2>2, <1>7 DEF Stop
  <2>. QED
    BY <2>1, <2>2
<1>9. ASSUME NEW p \in Servers, ServerListens(p) PROVE ClientInv'
  <2>1. /\ server[p] = "starting"
        /\ server'[p] = IF Serves THEN "gone" ELSE "serving"
        /\ \A q \in Servers \ {p} : server'[q] = server[q]
        /\ port' = IF Serves THEN port ELSE p
    BY <1>9 DEF ServerListens
  <2>2. UNCHANGED clientVars
    BY <1>9 DEF ServerListens
  <2>3. Listens'
    BY <2>1, <2>2
  <2>4. NotBefore' /\ OneStart'
    BY <2>1, <2>2
  <2>5. StartingIsPolled' /\ FreeToSpawn'
    BY <2>1, <2>2
  <2>6. NoneLeftBehind'
    BY <2>1, <2>2
  <2>. QED
    BY <2>3, <2>4, <2>5, <2>6, <1>kept
<1>10. ASSUME NEW p \in Servers, ServerTerminates(p) \/ ServerCrashes(p) PROVE ClientInv'
  <2>1. /\ server[p] # "none" /\ server'[p] = "gone"
        /\ \A q \in Servers \ {p} : server'[q] = server[q]
        /\ port' = IF port = p THEN Nobody ELSE port
    BY <1>10 DEF ServerTerminates, ServerCrashes, ServerEnds
  <2>2. UNCHANGED clientVars
    BY <1>10 DEF ServerTerminates, ServerCrashes, ServerEnds
  <2>3. Listens'
    BY <2>1, <2>2
  <2>4. NotBefore' /\ OneStart'
    BY <2>1, <2>2
  <2>5. StartingIsPolled' /\ FreeToSpawn'
    BY <2>1, <2>2
  <2>6. NoneLeftBehind'
    BY <2>1, <2>2
  <2>. QED
    BY <2>3, <2>4, <2>5, <2>6, <1>kept
<1>11. CASE StartOther
  <2>1. /\ server'[Other] = "starting" /\ server[Other] = "none"
        /\ \A q \in Starts : server'[q] = server[q] /\ q # Other
    <3>1. Other \in Servers /\ \A q \in Starts : q # Other
      BY DEF Servers
    <3>. QED
      BY <1>11, <3>1 DEF StartOther
  <2>2. UNCHANGED <<port, clientVars>>
    BY <1>11 DEF StartOther
  <2>3. Listens'
    BY <2>1, <2>2
  <2>4. NotBefore' /\ OneStart'
    BY <2>1, <2>2
  <2>5. StartingIsPolled' /\ FreeToSpawn'
    BY <2>1, <2>2
  <2>6. NoneLeftBehind'
    BY <2>1, <2>2
  <2>. QED
    BY <2>3, <2>4, <2>5, <2>6, <1>kept
<1>12. CASE StopOther
  BY <1>12, <1>7 DEF StopOther
<1>13. CASE UNCHANGED sdkVars
  BY <1>13, <1>kept DEF sdkVars
<1>14. QED
  BY <1>1, <1>2, <1>3, <1>4, <1>5, <1>6, <1>8, <1>9, <1>10, <1>11, <1>12, <1>13
  DEF SdkNext, StartStep
-----------------------------------------------------------------------------
\* The type of every variable.
THEOREM ClientTypes == SdkSpec => []SdkTypeOK
<1>1. SdkInit => SdkTypeOK
  BY InitClient DEF ClientInv
<1>2. QED
  BY <1>1, ClientTypeStep, PTL DEF SdkSpec

\* A server that runs is the one that stopServer would stop, unless something
\* happened that is blamed for it (client.ts:85, 107, 143).
THEOREM ChildrenKept == SdkSpec => []NoneLeftBehind
<1>1. ClientInv => NoneLeftBehind
  BY DEF ClientInv
<1>2. QED
  BY <1>1, InitClient, ClientStep, PTL DEF SdkSpec
=============================================================================
