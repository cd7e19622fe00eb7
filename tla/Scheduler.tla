------------------------------ MODULE Scheduler ------------------------------
(***************************************************************************)
(* The background services of gaet: the timer that runs `gaet push --cron` *)
(* and the unit that runs the dashboard, named after GAET_SERVICE_PREFIX,  *)
(* under systemd, launchd or the Windows Task Scheduler (scheduler.go).    *)
(*                                                                         *)
(*   auto       gaet auto N, gaet push --auto=N   (EnableAuto)             *)
(*   serve      gaet serve --auto                 (EnableServeAuto)        *)
(*   unserve    gaet serve --stop                 (DisableServeAuto)       *)
(*   stop       gaet stop, POST /api/stop, DELETE /api/schedule            *)
(*   uninstall  gaet uninstall                    (runUninstall)           *)
(*   schedule   POST /api/schedule of the dashboard                        *)
(*                                                                         *)
(* An operation is the sequence of its file operations and tool calls; two *)
(* of them may interleave, every one may fail.  That `disable --now` also  *)
(* ends a backup under way belongs to Backup (Crash).                      *)
(***************************************************************************)
EXTENDS Naturals, Sequences, FiniteSets

CONSTANTS Writers,   \* operations under way at a time
          Prefixes,
          DefaultPrefix,
          Hours, Ports,
          Faults,    \* out of "tool", "write", "kill", "boot"
          None,
          MaxOps     \* bound for TLC

VARIABLES platform,  \* the service manager, the same for ever
          settings,  \* prefix and hours in .env
          disk,      \* definitions: unit files, plists, registered tasks
          enabled,   \* systemd's links to the units that start at boot
          loaded,    \* what the manager runs, and with which definition
          installed, \* the binary is there
          op, ops,   \* operations under way, and their number so far
          stopped,   \* history: prefixes stopped without failure, not enabled since
          clean      \* history: nothing failed, was killed or overlapped so far

vars == <<platform, settings, disk, enabled, loaded, installed, op, ops, stopped, clean>>

Platforms == {"systemd", "launchd", "tasks"}
Units == {"backup", "serve"}
Commands == {"gaet", "blank"}   \* what the timer runs: cliPath, or nothing

\* The files of a prefix.  Under systemd the backup is a service and a timer;
\* a plist or task is both at once.
NoFiles == [service |-> None, timer |-> None, serve |-> None]
Files == [service : Commands \cup {None}, timer : Hours \cup {None}, serve : Ports \cup {None}]
NoUnits == [backup |-> None, serve |-> None]
Backups == [cmd : Commands, hours : Hours]
Loads == [backup : Backups \cup {None}, serve : Ports \cup {None}]

ASSUME SchedulerAssumption == /\ DefaultPrefix \in Prefixes
                              /\ MaxOps \in Nat
                              /\ None \notin Hours \cup Ports \cup Commands \cup Backups

Kinds == {"auto", "serve", "unserve", "stop", "uninstall", "schedule"}
OnDashboard == {"stop", "schedule"}   \* kinds that a request may ask for
IdleOp == [kind |-> "stop", todo |-> <<>>, busy |-> FALSE, host |-> None, dying |-> FALSE,
           prefix |-> None, hours |-> None, port |-> None, cmd |-> "gaet",
           ok |-> TRUE, alone |-> TRUE, known |-> NoUnits]
Busy(w) == op[w].busy
Quiet == \A w \in Writers : ~Busy(w)
-----------------------------------------------------------------------------
(***************************************************************************)
(* The steps of each operation                                             *)
(***************************************************************************)
\* The manager is called before the definition is written.
EnableAutoEarly ==
  CASE platform = "systemd" -> << <<"reload", "all">>, <<"enable", "backup">>,
                                  <<"write", "service">>, <<"write", "timer">> >>
    [] platform = "launchd" -> << <<"enable", "backup">>, <<"write", "backup">> >>
    [] platform = "tasks"   -> << <<"create", "backup">> >>

EnableAuto ==
  CASE platform = "systemd" -> << <<"write", "service">>, <<"write", "timer">>,
                                  <<"reload", "all">>, <<"enable", "backup">> >>
    [] platform = "launchd" -> << <<"write", "backup">>, <<"enable", "backup">> >>
    [] platform = "tasks"   -> << <<"create", "backup">> >>

EnableServeAuto ==
  CASE platform = "systemd" -> << <<"write", "serve">>, <<"reload", "all">>, <<"enable", "serve">> >>
    [] platform = "launchd" -> << <<"write", "serve">>, <<"enable", "serve">> >>
    [] platform = "tasks"   -> << <<"create", "serve">> >>

\* The dashboard's plist is unloaded and stays where launchd looks for it.
DisableServeUnload ==
  IF platform = "tasks" THEN << <<"delete", "serve">> >> ELSE << <<"disable", "serve">> >>

DisableServeAuto ==
  CASE platform = "systemd" -> << <<"disable", "serve">>, <<"reload", "all">> >>
    [] platform = "launchd" -> << <<"disable", "serve">>, <<"remove", "serve">> >>
    [] platform = "tasks"   -> << <<"delete", "serve">> >>

\* The plists are unloaded and stay where launchd looks for them at login.
DisableAutoUnload ==
  IF platform = "tasks" THEN << <<"delete", "backup">>, <<"delete", "serve">> >>
  ELSE << <<"disable", "backup">>, <<"disable", "serve">> >>

DisableAuto ==
  CASE platform = "systemd" -> << <<"disable", "backup">>, <<"disable", "serve">>, <<"reload", "all">> >>
    [] platform = "launchd" -> << <<"disable", "backup">>, <<"disable", "serve">>,
                                  <<"remove", "backup">>, <<"remove", "serve">> >>
    [] platform = "tasks"   -> << <<"delete", "backup">>, <<"delete", "serve">> >>

RemoveFiles ==
  IF platform = "systemd"
  THEN << <<"remove", "service">>, <<"remove", "timer">>, <<"remove", "serve">>, <<"reload", "all">> >>
  ELSE <<>>

\* handleSchedule saves the hours first.
Steps(kind, save) ==
  CASE kind = "auto"      -> EnableAuto
    [] kind = "schedule"  -> << <<"save", "hours">> >> \o EnableAuto
    [] kind = "serve"     -> EnableServeAuto
    [] kind = "unserve"   -> DisableServeAuto
    [] kind = "stop"      -> DisableAuto
    [] kind = "uninstall" -> DisableAuto \o RemoveFiles \o << <<"uninstall", "binary">> >>
                             \o (IF save THEN <<>> ELSE << <<"uninstall", "data">> >>)
-----------------------------------------------------------------------------
(***************************************************************************)
(* What the service manager makes of the definitions                       *)
(***************************************************************************)
\* A timer without its service is started.
OnDiskTimerOnly(p, u) ==
  IF u = "serve" THEN disk[p].serve
  ELSE IF disk[p].timer # None
       THEN [cmd |-> disk[p].service, hours |-> disk[p].timer] ELSE None

\* The definition of a unit as it is on disk; a timer without its service
\* cannot be started.
OnDisk(p, u) ==
  IF u = "serve" THEN disk[p].serve
  ELSE IF disk[p].service # None /\ disk[p].timer # None
       THEN [cmd |-> disk[p].service, hours |-> disk[p].timer] ELSE None

\* The file by which a unit is named is there.
Defined(p, u) == IF u = "serve" THEN disk[p].serve # None ELSE disk[p].timer # None

\* launchd loads every plist in its directory, tasks are registered for good.
AtBoot(p, u) == /\ OnDisk(p, u) # None
                /\ platform = "systemd" => <<p, u>> \in enabled

\* systemctl start of an active service does not restart it, launchctl does not
\* load a label twice; a timer goes by the reloaded definition.
Started(p, u) ==
  IF loaded[p][u] # None /\ (u = "serve" \/ platform = "launchd") THEN loaded[p][u]
  ELSE OnDisk(p, u)
-----------------------------------------------------------------------------
Init == /\ platform \in Platforms
        /\ settings = [prefix |-> DefaultPrefix, hours |-> None]
        /\ disk = [p \in Prefixes |-> NoFiles]
        /\ enabled = {}
        /\ loaded = [p \in Prefixes |-> NoUnits]
        /\ installed = TRUE
        /\ op = [w \in Writers |-> IdleOp]
        /\ ops = 0
        /\ stopped = {}
        /\ clean = TRUE

\* A command, a dashboard run by hand, and the dashboards run by units.
Hosts(kind) ==
  (IF kind \in OnDashboard THEN {"manual"} \cup {p \in Prefixes : loaded[p].serve # None} ELSE {})
  \cup (IF kind = "schedule" THEN {} ELSE {"command"})

\* EnableAuto takes cliPath as it is, and handleSchedule passes none.
Begin(w, kind, host, h, port, save) ==
  /\ ~Busy(w)
  /\ ops < MaxOps
  /\ installed
  /\ host \in Hosts(kind)
  /\ ops' = ops + 1
  /\ op' = [x \in Writers |->
              IF x = w
              THEN [IdleOp EXCEPT !.kind = kind, !.todo = Steps(kind, save), !.busy = TRUE,
                                  !.host = host, !.prefix = settings.prefix, !.hours = h,
                                  !.port = port, !.alone = Quiet,
                                  !.cmd = IF kind = "schedule" THEN "blank" ELSE "gaet",
                                  !.known = loaded[settings.prefix]]
              ELSE [op[x] EXCEPT !.alone = FALSE]]
  /\ stopped' = IF kind \in {"auto", "schedule", "serve"} THEN stopped \ {settings.prefix} ELSE stopped
  /\ clean' = (clean /\ Quiet)
  /\ UNCHANGED <<platform, settings, disk, enabled, loaded, installed>>

Next1(w) == op[w].todo[1]
Doing(w, verb) == Busy(w) /\ op[w].todo # <<>> /\ Next1(w)[1] = verb
Item(w) == Next1(w)[2]
Prefix(w) == op[w].prefix

\* The step is done, and the operation goes on; ok is whether it succeeded.
GoOn(w, o, ok) == [o EXCEPT ![w].todo = Tail(@), ![w].ok = @ /\ ok]
\* The step has failed, and the operation returns an error.
GiveUp(w, o) == [o EXCEPT ![w].todo = <<>>, ![w].ok = FALSE]

\* A tool may fail; once the process has been told to stop it does
\* (RunCmdSimple uses the cancelled context).
ToolFails(w) == "tool" \in Faults \/ op[w].dying

Written(p, item, o) ==
  [disk EXCEPT ![p] = [service |-> IF item \in {"service", "backup"} THEN o.cmd ELSE @.service,
                       timer |-> IF item \in {"timer", "backup"} THEN o.hours ELSE @.timer,
                       serve |-> IF item = "serve" THEN o.port ELSE @.serve]]

Removed(p, item) ==
  [disk EXCEPT ![p] = [service |-> IF item \in {"service", "backup"} THEN None ELSE @.service,
                       timer |-> IF item \in {"timer", "backup"} THEN None ELSE @.timer,
                       serve |-> IF item = "serve" THEN None ELSE @.serve]]

Write(w) ==
  /\ Doing(w, "write")
  /\ \/ /\ disk' = Written(Prefix(w), Item(w), op[w])
        /\ op' = GoOn(w, op, TRUE)
     \/ /\ "write" \in Faults
        /\ op' = GiveUp(w, op)
        /\ UNCHANGED disk
  /\ UNCHANGED <<platform, settings, enabled, loaded, installed, ops, stopped, clean>>

\* systemctl daemon-reload, whose failure is ignored.
Reload(w) ==
  /\ Doing(w, "reload")
  /\ \/ /\ ~op[w].dying
        /\ loaded' = [p \in Prefixes |->
             [loaded[p] EXCEPT !.backup = IF @ # None /\ OnDisk(p, "backup") # None
                                          THEN OnDisk(p, "backup") ELSE @]]
        /\ op' = GoOn(w, op, TRUE)
     \/ /\ ToolFails(w)
        /\ op' = GoOn(w, op, FALSE)
        /\ UNCHANGED loaded
  /\ UNCHANGED <<platform, settings, disk, enabled, installed, ops, stopped, clean>>

\* systemctl enable --now, launchctl load.  systemd may have linked the unit and
\* then fail to start it.
Enable(w) ==
  LET p == Prefix(w)
      u == Item(w)
      linked == IF platform = "systemd" THEN enabled \cup {<<p, u>>} ELSE enabled IN
  /\ Doing(w, "enable")
  /\ \/ /\ OnDisk(p, u) # None /\ ~op[w].dying
        /\ enabled' = linked
        /\ loaded' = [loaded EXCEPT ![p][u] = Started(p, u)]
        /\ op' = GoOn(w, op, TRUE)
     \/ /\ OnDisk(p, u) = None \/ ToolFails(w)
        /\ enabled' \in {enabled} \cup (IF Defined(p, u) THEN {linked} ELSE {})
        /\ op' = GiveUp(w, op)
        /\ UNCHANGED loaded
  /\ UNCHANGED <<platform, settings, disk, installed, ops, stopped, clean>>

\* schtasks /Create: /SC HOURLY counts at once, /SC ONSTART from the next boot on.
Create(w) ==
  LET p == Prefix(w)
      o == op[w] IN
  /\ Doing(w, "create")
  /\ \/ /\ ~o.dying
        /\ disk' = Written(p, Item(w), o)
        /\ loaded' = IF Item(w) = "backup"
                     THEN [loaded EXCEPT ![p].backup = [cmd |-> o.cmd, hours |-> o.hours]] ELSE loaded
        /\ op' = GoOn(w, op, TRUE)
     \/ /\ ToolFails(w)
        /\ op' = GiveUp(w, op)
        /\ UNCHANGED <<disk, loaded>>
  /\ UNCHANGED <<platform, settings, enabled, installed, ops, stopped, clean>>

\* A unit that is stopped ends the dashboard in it, requests included.
Ended(o, p, u) == [x \in Writers |-> IF u = "serve" /\ o[x].busy /\ o[x].host = p
                                     THEN [o[x] EXCEPT !.dying = TRUE] ELSE o[x]]

\* systemctl disable --now, launchctl unload: nothing happens to a unit without
\* its file.  Failures are ignored.
Disable(w) ==
  LET p == Prefix(w)
      u == Item(w) IN
  /\ Doing(w, "disable")
  /\ \/ /\ Defined(p, u) /\ ~op[w].dying
        /\ enabled' = enabled \ {<<p, u>>}
        /\ loaded' = [loaded EXCEPT ![p][u] = None]
        /\ op' = Ended(GoOn(w, op, TRUE), p, u)
     \/ /\ ~Defined(p, u) \/ ToolFails(w)
        /\ op' = GoOn(w, op, ~Defined(p, u) /\ loaded[p][u] = None)
        /\ UNCHANGED <<enabled, loaded>>
  /\ UNCHANGED <<platform, settings, disk, installed, ops, stopped, clean>>

\* schtasks /Delete leaves a dashboard that the task has started running.
Delete(w) ==
  LET p == Prefix(w) IN
  /\ Doing(w, "delete")
  /\ \/ /\ ~op[w].dying
        /\ disk' = Removed(p, Item(w))
        /\ loaded' = IF Item(w) = "backup" THEN [loaded EXCEPT ![p].backup = None] ELSE loaded
        /\ op' = GoOn(w, op, TRUE)
     \/ /\ ToolFails(w)
        /\ op' = GoOn(w, op, FALSE)
        /\ UNCHANGED <<disk, loaded>>
  /\ UNCHANGED <<platform, settings, enabled, installed, ops, stopped, clean>>

Remove(w) ==
  /\ Doing(w, "remove")
  /\ disk' = Removed(Prefix(w), Item(w))
  /\ op' = GoOn(w, op, TRUE)
  /\ UNCHANGED <<platform, settings, enabled, loaded, installed, ops, stopped, clean>>

\* SetEnvKey of handleSchedule, whose error is ignored.
Save(w) ==
  /\ Doing(w, "save")
  /\ \/ /\ settings' = [settings EXCEPT !.hours = op[w].hours]
        /\ op' = GoOn(w, op, TRUE)
     \/ /\ "write" \in Faults
        /\ op' = GoOn(w, op, FALSE)
        /\ UNCHANGED settings
  /\ UNCHANGED <<platform, disk, enabled, loaded, installed, ops, stopped, clean>>

\* The end of runUninstall: the binary and, without --save, ~/.gaet.
Uninstall(w) ==
  /\ Doing(w, "uninstall")
  /\ installed' = FALSE
  /\ settings' = IF Item(w) = "data" THEN [prefix |-> DefaultPrefix, hours |-> None] ELSE settings
  /\ op' = GoOn(w, op, TRUE)
  /\ UNCHANGED <<platform, disk, enabled, loaded, ops, stopped, clean>>

Finished(w) == Busy(w) /\ op[w].todo = <<>>

Return(w) ==
  /\ Finished(w)
  /\ op' = [op EXCEPT ![w] = IdleOp]
  /\ stopped' = IF op[w].kind \in {"stop", "uninstall"} /\ op[w].ok /\ op[w].alone
                THEN stopped \cup {Prefix(w)} ELSE stopped
  /\ clean' = (clean /\ op[w].ok)
  /\ UNCHANGED <<platform, settings, disk, enabled, loaded, installed, ops>>

\* The process of an operation ends: main exits once it is told to, see Serve.
Kill(w) ==
  /\ Busy(w)
  /\ op[w].dying \/ "kill" \in Faults
  /\ op' = [op EXCEPT ![w] = IdleOp]
  /\ clean' = FALSE
  /\ UNCHANGED <<platform, settings, disk, enabled, loaded, installed, ops, stopped>>

\* gaet set GAET_SERVICE_PREFIX=p.
SetPrefix(p) ==
  /\ installed
  /\ p # settings.prefix
  /\ settings' = [settings EXCEPT !.prefix = p]
  /\ UNCHANGED <<platform, disk, enabled, loaded, installed, op, ops, stopped, clean>>

Reboot ==
  /\ "boot" \in Faults
  /\ loaded' = [p \in Prefixes |->
                  [u \in Units |-> IF AtBoot(p, u) THEN OnDisk(p, u) ELSE None]]
  /\ op' = [w \in Writers |-> IdleOp]
  /\ clean' = (clean /\ Quiet)
  /\ UNCHANGED <<platform, settings, disk, enabled, installed, ops, stopped>>

Step(w) == \/ Write(w) \/ Reload(w) \/ Enable(w) \/ Create(w) \/ Disable(w) \/ Delete(w)
           \/ Remove(w) \/ Save(w) \/ Uninstall(w) \/ Return(w)

Next == \/ \E w \in Writers, kind \in Kinds, host \in {"command", "manual"} \cup Prefixes,
              h \in Hours, port \in Ports, save \in BOOLEAN : Begin(w, kind, host, h, port, save)
        \/ \E w \in Writers : Step(w) \/ Kill(w)
        \/ \E p \in Prefixes : SetPrefix(p)
        \/ Reboot

Spec == Init /\ [][Next]_vars
-----------------------------------------------------------------------------
(***************************************************************************)
(* Properties                                                              *)
(***************************************************************************)
\* The type of every variable.
TypeOK == /\ platform \in Platforms
          /\ settings \in [prefix : Prefixes, hours : Hours \cup {None}]
          /\ disk \in [Prefixes -> Files]
          /\ enabled \subseteq Prefixes \X Units
          /\ \A p \in Prefixes : loaded[p] \in Loads
          /\ installed \in BOOLEAN
          /\ \A w \in Writers : op[w].kind \in Kinds /\ Len(op[w].todo) <= 9
          /\ ops \in 0 .. MaxOps
          /\ stopped \subseteq Prefixes
          /\ clean \in BOOLEAN

\* README.md:250: `gaet stop` stops the backup timer and the dashboard's service.
\* Once it, or uninstall, has run without a failing step, nothing of that prefix
\* runs or comes back with a reboot until it is enabled again; a dashboard that
\* the Task Scheduler has started stays until then.
StoppedStaysStopped ==
  \A p \in stopped : \A u \in Units :
    /\ ~AtBoot(p, u)
    /\ (platform = "tasks" /\ u = "serve") \/ loaded[p][u] = None

\* As long as every operation has run to its end alone, a reboot changes nothing:
\* what runs is what was enabled.
SameAfterBoot ==
  Quiet /\ clean =>
    \A p \in Prefixes, u \in Units :
      (platform = "tasks" /\ u = "serve") \/ (loaded[p][u] # None) = AtBoot(p, u)

\* The answer "enabled every N hours" is true: when EnableAuto returns without an
\* error and alone, the timer runs at the new interval, and .env says so too if the
\* dashboard has asked.  launchd goes on with a plist it has loaded before.
ScheduleTold ==
  \A w \in Writers :
    LET o == op[w] IN
    Finished(w) /\ o.ok /\ o.alone /\ o.kind \in {"auto", "schedule"} =>
      /\ \/ platform = "launchd" /\ o.known.backup # None
         \/ loaded[o.prefix].backup = [cmd |-> o.cmd, hours |-> o.hours]
      /\ AtBoot(o.prefix, "backup")
      /\ o.kind = "schedule" => settings.hours = o.hours
=============================================================================
