-------------------------------- MODULE Serve --------------------------------
(***************************************************************************)
(* Processes of gaet and the operations in them: dashboards (RunServe),    *)
(* whose requests run push, fetch and restore, and commands, which run one *)
(* each; what SIGTERM or Ctrl+C does to them; and clients that give a      *)
(* request up (client.ts).                                                 *)
(*                                                                         *)
(* The lock is the one of LockService, while nothing is stolen: the lock   *)
(* of a process that is gone is free at once.  An operation takes it, runs *)
(* Tools tools that must succeed, and gives it back; what the tools do is  *)
(* Backup's.  Requests here are answered when the operation is over;    *)
(* asynchronous ones are in Jobs.                                          *)
(***************************************************************************)
EXTENDS Naturals, FiniteSets

CONSTANTS Dashboards,  \* processes that run gaet serve, all on the same port
          Commands,    \* processes that run one operation
          Requests,    \* operations asked of a dashboard
          Tools,       \* tool calls of an operation
          Faults,      \* out of "crash", "tool", "patience"
          None

ASSUME ServeAssumption == /\ Dashboards \cap Commands = {}
                          /\ Requests \cap Commands = {}
                          /\ None \notin Dashboards \cup Commands
                          /\ None \notin {"ok", "failed", "timeout", "reset"}
                          /\ Tools \in Nat \ {0}

VARIABLES proc,      \* where each process is
          signalled, \* processes whose context is cancelled
          crashed,   \* history: processes that were killed
          listener,  \* the dashboard that has the port
          op,        \* the operation of each request and command
          owners,    \* the operations that own the lock
          orphans    \* history: operations whose process was gone before their tool

vars == <<proc, signalled, crashed, listener, op, owners, orphans>>

Procs == Dashboards \cup Commands
Ops == Requests \cup Commands
Lock == INSTANCE LockService WITH Runs <- Ops, stolen <- FALSE

ProcStages == {"none", "starting", "serving", "closing", "exited"}
Stages == {"none", "asked", "working", "unwinding", "returned", "answered", "lost"}
OpStates == [proc : Procs \cup {None}, stage : Stages, tool : BOOLEAN, left : 0 .. Tools,
             result : {"ok", "failed"}, told : {None, "ok", "failed", "timeout", "reset"}]
NoOp == [proc |-> None, stage |-> "none", tool |-> FALSE, left |-> Tools,
         result |-> "failed", told |-> None]

Runs(p) == proc[p] \notin {"none", "exited"}
At(r, stage) == op[r].stage = stage
OpsOf(p) == {r \in Ops : op[r].proc = p /\ ~At(r, "answered")}
-----------------------------------------------------------------------------
Init == /\ proc = [p \in Procs |-> "none"]
        /\ signalled = {}
        /\ crashed = {}
        /\ listener = None
        /\ op = [r \in Ops |-> NoOp]
        /\ owners = {}
        /\ orphans = {}

procVars == <<proc, signalled, crashed, listener>>
opVars == <<op, owners, orphans>>

\* A user or the service manager runs gaet serve.
StartServe(d) ==
  /\ proc[d] = "none"
  /\ proc' = [proc EXCEPT ![d] = "starting"]
  /\ UNCHANGED <<signalled, crashed, listener, opVars>>

\* A user or cron runs a command, and its operation begins.
StartCommand(c) ==
  /\ proc[c] = "none"
  /\ proc' = [proc EXCEPT ![c] = "serving"]
  /\ op' = [op EXCEPT ![c].proc = c, ![c].stage = "asked"]
  /\ UNCHANGED <<signalled, crashed, listener, owners, orphans>>

\* The signal is looked at, but in another context than the one cancelled.
NotCancelled(p) == FALSE

\* The context that main installs and that every tool and the server use.
Cancelled(p) == p \in signalled

\* ListenAndServe, which fails when the port is taken.
Listen(d) ==
  /\ proc[d] = "starting"
  /\ IF listener = None
     THEN /\ listener' = d
          /\ proc' = [proc EXCEPT ![d] = "serving"]
     ELSE /\ proc' = [proc EXCEPT ![d] = "exited"]
          /\ UNCHANGED listener
  /\ UNCHANGED <<signalled, crashed, opVars>>

\* SIGTERM or Ctrl+C.
Signal(p) ==
  /\ Runs(p) /\ p \notin signalled
  /\ signalled' = signalled \cup {p}
  /\ UNCHANGED <<proc, crashed, listener, opVars>>

\* Shutdown closes the listener, and ListenAndServe returns at once, or as soon
\* as it is called.
Close(d) ==
  /\ Cancelled(d)
  /\ proc[d] \in {"starting", "serving"} /\ d \in Dashboards
  /\ proc' = [proc EXCEPT ![d] = "closing"]
  /\ listener' = IF listener = d THEN None ELSE listener
  /\ UNCHANGED <<signalled, crashed, opVars>>

\* The process ends with the operations in it: no deferred Release runs, nobody
\* gets an answer, and a tool, which has a process group of its own, goes on.
Gone(p) ==
  /\ proc' = [proc EXCEPT ![p] = "exited"]
  /\ listener' = IF listener = p THEN None ELSE listener
  /\ op' = [r \in Ops |-> IF r \notin OpsOf(p) THEN op[r]
                          ELSE [op[r] EXCEPT !.stage = "lost", !.tool = FALSE,
                                             !.told = IF @ = None THEN "reset" ELSE @]]
  /\ orphans' = orphans \cup {r \in OpsOf(p) : op[r].tool}
  /\ Lock!Vanish(OpsOf(p))
  /\ UNCHANGED <<signalled>>

\* A signal ends the process as it does by default.
ExitAtOnce(p) ==
  /\ Runs(p)
  /\ Cancelled(p) \/ (p \in Commands /\ OpsOf(p) = {})
  /\ Gone(p)
  /\ UNCHANGED crashed

\* main returns: a command when its operation is over, a dashboard when
\* ListenAndServe has returned, without waiting for Shutdown.
Exit(p) ==
  /\ Runs(p)
  /\ IF p \in Commands THEN OpsOf(p) = {} ELSE proc[p] = "closing"
  /\ Gone(p)
  /\ UNCHANGED crashed

Crash(p) ==
  /\ "crash" \in Faults
  /\ Runs(p)
  /\ Gone(p)
  /\ crashed' = crashed \cup {p}
-----------------------------------------------------------------------------
\* POST /api/push, fetch or restore reaches the dashboard.
Ask(r) ==
  /\ At(r, "none")
  /\ listener # None
  /\ op' = [op EXCEPT ![r].proc = listener, ![r].stage = "asked"]
  /\ UNCHANGED <<procVars, owners, orphans>>

\* An operation that does not get the lock is none.
LockBusyIsOk(r) ==
  /\ At(r, "asked")
  /\ \/ /\ Lock!Acquire(r)
        /\ op' = [op EXCEPT ![r].stage = "working"]
     \/ /\ owners # {}
        /\ op' = [op EXCEPT ![r].stage = "returned", ![r].result = "ok"]
        /\ UNCHANGED owners
  /\ UNCHANGED <<procVars, orphans>>

\* AcquireLock never waits.  The settings or the tools may be missing as well.
AcquireLock(r) ==
  /\ At(r, "asked")
  /\ \/ /\ Lock!Acquire(r)
        /\ op' = [op EXCEPT ![r].stage = "working"]
     \/ /\ owners # {} \/ "tool" \in Faults
        /\ op' = [op EXCEPT ![r].stage = "returned"]
        /\ UNCHANGED owners
  /\ UNCHANGED <<procVars, orphans>>

Fail(r) == op' = [op EXCEPT ![r].stage = "unwinding", ![r].tool = FALSE]

\* RunCmd fails at once when the context is cancelled.
StartTool(r) ==
  /\ At(r, "working") /\ ~op[r].tool /\ op[r].left > 0
  /\ IF Cancelled(op[r].proc) THEN Fail(r) ELSE op' = [op EXCEPT ![r].tool = TRUE]
  /\ UNCHANGED <<procVars, owners, orphans>>

\* The tool ends by itself, or it is killed because of a signal or its timeout.
ToolEnds(r) ==
  /\ op[r].tool
  /\ \/ op' = [op EXCEPT ![r].tool = FALSE, ![r].left = @ - 1]
     \/ ("tool" \in Faults \/ Cancelled(op[r].proc)) /\ Fail(r)
  /\ UNCHANGED <<procVars, owners, orphans>>

Succeed(r) ==
  /\ At(r, "working") /\ op[r].left = 0
  /\ op' = [op EXCEPT ![r].stage = "unwinding", ![r].result = "ok"]
  /\ UNCHANGED <<procVars, owners, orphans>>

\* The lock goes back as soon as the first tool has been called.
ReleaseEarly(r) ==
  /\ op[r].stage \in {"working", "unwinding"} /\ r \in owners
  /\ Lock!Release(r)
  /\ op' = IF At(r, "unwinding") THEN [op EXCEPT ![r].stage = "returned"] ELSE op
  /\ UNCHANGED <<procVars, orphans>>

\* The deferred Release.
Release(r) ==
  /\ At(r, "unwinding")
  /\ Lock!Release(r)
  /\ op' = [op EXCEPT ![r].stage = "returned"]
  /\ UNCHANGED <<procVars, orphans>>

\* The handler answers, or the command ends with its exit code.
Answer(r) ==
  /\ At(r, "returned")
  /\ op' = [op EXCEPT ![r].stage = "answered", ![r].told = IF @ = None THEN op[r].result ELSE @]
  /\ UNCHANGED <<procVars, owners, orphans>>

\* request() aborts after its timeout; the handler does not notice.
Abort(r) ==
  /\ "patience" \in Faults
  /\ r \in Requests /\ op[r].told = None /\ op[r].stage \notin {"none", "answered"}
  /\ op' = [op EXCEPT ![r].told = "timeout"]
  /\ UNCHANGED <<procVars, owners, orphans>>
-----------------------------------------------------------------------------
OpStep(r) == AcquireLock(r) \/ StartTool(r) \/ ToolEnds(r) \/ Succeed(r) \/ Release(r) \/ Answer(r)

Next == \/ \E d \in Dashboards : StartServe(d) \/ Listen(d) \/ Close(d)
        \/ \E c \in Commands : StartCommand(c)
        \/ \E p \in Procs : Signal(p) \/ Exit(p) \/ Crash(p)
        \/ \E r \in Requests : Ask(r)
        \/ \E r \in Ops : OpStep(r) \/ Abort(r)

Spec == Init /\ [][Next]_vars

\* The scheduler of goroutines and of the system is fair, and a tool has a
\* timeout; nobody has to send signals or requests.
FairSpec == /\ Spec
            /\ \A d \in Dashboards : WF_vars(Listen(d)) /\ WF_vars(Close(d))
            /\ \A p \in Procs : WF_vars(Exit(p))
            /\ \A r \in Ops : WF_vars(OpStep(r))
-----------------------------------------------------------------------------
(***************************************************************************)
(* Properties                                                              *)
(***************************************************************************)
\* The type of every variable.
TypeOK == /\ proc \in [Procs -> ProcStages]
          /\ signalled \subseteq Procs
          /\ crashed \subseteq Procs
          /\ listener \in Dashboards \cup {None}
          /\ op \in [Ops -> OpStates]
          /\ owners \subseteq Ops
          /\ orphans \subseteq Ops

\* What overlaps, two requests, a request and a command, never changes a database at
\* the same time: the tools of living processes run one at a time, however signals
\* and failures cut operations short.
OneToolAtATime == \A r, s \in Ops : op[r].tool /\ op[s].tool => r = s

\* exec.go:43: children "are not orphaned".  A command that is stopped by a signal
\* waits for its tool to be killed and gives the lock back before it exits.
CommandStopsClean ==
  \A c \in Commands \ crashed :
    /\ c \notin orphans
    /\ proc[c] = "exited" => c \notin owners /\ At(c, "answered")

\* A client that is told ok, or a command that exits with 0, has had every step of
\* its own operation done; neither a lock that was busy nor a signal is taken for
\* success.
OkMeansDone == \A r \in Ops : op[r].told = "ok" => op[r].left = 0

\* A process that is told to stop does, whatever it is doing.
StopEnds == \A p \in Procs : p \in signalled ~> proc[p] = "exited"
=============================================================================
