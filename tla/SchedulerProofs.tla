-------------------------- MODULE SchedulerProofs --------------------------
(***************************************************************************)
(* Proofs about Scheduler for any writers, prefixes, hours, ports, faults  *)
(* and number of operations: every safety property that its run checks.    *)
(*                                                                         *)
(* The argument: the unit of an operation that enables starts with its     *)
(* last step and with no other (Shaped), so until then the work of such an *)
(* operation is on definitions only.  A step that an operation has behind  *)
(* it without a failure, and with nobody else at work, has had its effect  *)
(* on the unit (EndsTakeEffect, EnablingTakesEffect); hence, at its end, a *)
(* unit it stopped is over, and the timer it enabled is the one asked for. *)
(* What runs differs from what a boot would start only for the unit of the *)
(* operation under way (CleanAgrees).  That what was stopped stays so      *)
(* through the operations of others needs NoneEnables: who enables a unit  *)
(* of a prefix has taken the prefix off the list when it began.            *)
(*                                                                         *)
(* Laid out as: the invariant; shapes of the operations; what each action  *)
(* does (Effects, one lemma per action); what the effects keep; the        *)
(* actions that begin or end operations; the theorems.                     *)
(***************************************************************************)
EXTENDS Scheduler, SequenceTheorems, TLAPS

\* The unit an operation is about, and the operations that make units run or end.
UnitOf(kind) == IF kind \in {"serve", "unserve"} THEN "serve" ELSE "backup"
Enabling == {"auto", "schedule", "serve"}
Disabling(kind, u) == kind \in {"stop", "uninstall"} \/ (kind = "unserve" /\ u = "serve")
Concerns(kind, u) == kind \in {"stop", "uninstall"} \/ u = UnitOf(kind)

\* The step that makes the unit of an operation run, and the one that ends a unit.
LastOf(kind) == <<IF platform = "tasks" THEN "create" ELSE "enable", UnitOf(kind)>>
EndOf(u) == <<IF platform = "tasks" THEN "delete" ELSE "disable", u>>

\* What an operation may consist of.
Verbs == {"write", "reload", "enable", "create", "disable", "delete", "remove", "save", "uninstall"}
Items == {"service", "timer", "backup", "serve", "all", "hours", "binary", "data"}
Allowed(kind) ==
  {<<"reload", "all">>} \cup
  (CASE kind = "serve"     -> {<<"write", "serve">>, LastOf(kind)}
     [] kind = "auto"      -> {<<"write", "service">>, <<"write", "timer">>, <<"write", "backup">>, LastOf(kind)}
     [] kind = "schedule"  -> {<<"write", "service">>, <<"write", "timer">>, <<"write", "backup">>, LastOf(kind),
                               <<"save", "hours">>}
     [] kind = "unserve"   -> {EndOf("serve"), <<"remove", "serve">>}
     [] kind = "stop"      -> {EndOf("backup"), EndOf("serve"), <<"remove", "backup">>, <<"remove", "serve">>}
     [] kind = "uninstall" -> {EndOf("backup"), EndOf("serve"), <<"remove", "backup">>, <<"remove", "serve">>,
                               <<"remove", "service">>, <<"remove", "timer">>,
                               <<"uninstall", "binary">>, <<"uninstall", "data">>})

\* A step is still to be done.
Due(todo, step) == \E i \in 1 .. Len(todo) : todo[i] = step

Operations == [kind : Kinds, todo : Seq(Verbs \X Items), busy : BOOLEAN,
               host : {None, "command", "manual"} \cup Prefixes, dying : BOOLEAN,
               prefix : Prefixes \cup {None}, hours : Hours \cup {None}, port : Ports \cup {None},
               cmd : Commands, ok : BOOLEAN, alone : BOOLEAN, known : Loads]

\* The step that makes a unit run is the last one of its operation.
Shaped(o) == /\ o.todo \in Seq(Allowed(o.kind))
             /\ Len(o.todo) <= 9
             /\ o.kind \in Enabling =>
                  \A i \in 1 .. Len(o.todo) : o.todo[i] = LastOf(o.kind) <=> i = Len(o.todo)
             /\ o.busy => o.prefix \in Prefixes /\ o.hours \in Hours /\ o.port \in Ports

WorldTyped == /\ platform \in Platforms
              /\ settings \in [prefix : Prefixes, hours : Hours \cup {None}]
              /\ disk \in [Prefixes -> Files]
              /\ enabled \subseteq Prefixes \X Units
              /\ loaded \in [Prefixes -> Loads]
              /\ installed \in BOOLEAN
              /\ ops \in 0 .. MaxOps
              /\ stopped \subseteq Prefixes
              /\ clean \in BOOLEAN

Typed == /\ WorldTyped
         /\ op \in [Writers -> Operations]
         /\ \A w \in Writers, o \in Operations : op[w] = o => Shaped(o)

\* Every step so far has succeeded, and nobody else was at work.
Steady(w) == Busy(w) /\ op[w].ok /\ op[w].alone

AloneIsAlone == \A w, x \in Writers : Busy(w) /\ op[w].alone /\ Busy(x) => x = w
CleanIsAlone == \A w \in Writers : clean /\ Busy(w) => op[w].alone

\* An operation that enables something of a prefix has taken it off the list.
NoneEnables == \A w \in Writers : Busy(w) /\ op[w].prefix \in stopped => op[w].kind \notin Enabling

\* A dashboard that the Task Scheduler started lives until the next boot.
Exempt(u) == platform = "tasks" /\ u = "serve"
Over(p, u) == Exempt(u) \/ loaded[p][u] = None

\* What stop, uninstall and serve --stop have done to a unit so far.
EndsTakeEffect ==
  \A w \in Writers, p \in Prefixes, u \in Units :
    Steady(w) /\ op[w].prefix = p /\ Disabling(op[w].kind, u) =>
      /\ ~Due(op[w].todo, EndOf(u)) => Over(p, u) /\ (platform # "launchd" => ~AtBoot(p, u))
      /\ platform = "launchd" /\ ~Due(op[w].todo, <<"remove", u>>) => ~AtBoot(p, u)

\* What auto and the dashboard's schedule have done so far.
Told(w, p) == \/ platform = "launchd" /\ op[w].known.backup # None
              \/ loaded[p].backup = [cmd |-> op[w].cmd, hours |-> op[w].hours]
Unwritten(todo, file) == Due(todo, <<"write", file>>) \/ Due(todo, <<"write", "backup">>)
                         \/ Due(todo, <<"create", "backup">>)
EnablingOf(w, p) ==
  /\ ~Unwritten(op[w].todo, "service") => disk[p].service = op[w].cmd
  /\ ~Unwritten(op[w].todo, "timer") => disk[p].timer = op[w].hours
  /\ platform = "launchd" /\ op[w].known.backup = None /\ op[w].todo # <<>> => loaded[p].backup = None
  /\ op[w].todo = <<>> => Told(w, p) /\ AtBoot(p, "backup")
  /\ op[w].kind = "schedule" /\ ~Due(op[w].todo, <<"save", "hours">>) => settings.hours = op[w].hours
EnablingTakesEffect ==
  \A w \in Writers, p \in Prefixes :
    Steady(w) /\ op[w].prefix = p /\ op[w].kind \in {"auto", "schedule"} => EnablingOf(w, p)

\* Whether a unit runs is what a boot would make of it, but for the operation under way.
Agrees(p, u) == Exempt(u) \/ (loaded[p][u] # None <=> AtBoot(p, u))
UnderWay(p, u) == \E w \in Writers : /\ Busy(w) /\ op[w].prefix = p /\ Concerns(op[w].kind, u)
                                     /\ op[w].todo # <<>> \/ ~op[w].ok
CleanAgrees == clean => \A p \in Prefixes, u \in Units : Agrees(p, u) \/ UnderWay(p, u)

IInv == /\ Typed /\ AloneIsAlone /\ CleanIsAlone /\ NoneEnables
        /\ StoppedStaysStopped /\ EndsTakeEffect /\ EnablingTakesEffect /\ CleanAgrees
-----------------------------------------------------------------------------
\* What a concatenation leaves to be done.
LEMMA DueConcat ==
  ASSUME NEW T, NEW s \in Seq(T), NEW t \in Seq(T), NEW x
  PROVE  Due(s \o t, x) <=> Due(s, x) \/ Due(t, x)
<1>1. /\ Len(s \o t) = Len(s) + Len(t) /\ Len(s) \in Nat /\ Len(t) \in Nat
      /\ \A i \in 1 .. Len(s) + Len(t) : (s \o t)[i] = IF i <= Len(s) THEN s[i] ELSE t[i - Len(s)]
  BY ConcatProperties, LenProperties
<1>2. ASSUME NEW i \in 1 .. Len(t) PROVE i + Len(s) \in 1 .. Len(s) + Len(t) /\ (s \o t)[i + Len(s)] = t[i]
  BY <1>1
<1>3. QED
  BY <1>1, <1>2 DEF Due

\* A longer list leaves no less to be done.
LEMMA ConcatGrows ==
  ASSUME NEW T, NEW s \in Seq(T), NEW t \in Seq(T)
  PROVE  /\ s \o t \in Seq(T) /\ Len(s \o t) = Len(s) + Len(t)
         /\ \A x : Due(s, x) => Due(s \o t, x)
<1>1. s \o t \in Seq(T) /\ Len(s \o t) = Len(s) + Len(t)
  BY ConcatProperties
<1>2. QED
  BY <1>1, DueConcat

\* What is left after the first step.
LEMMA DueTail ==
  ASSUME NEW T, NEW s \in Seq(T), s # <<>>, NEW x
  PROVE  /\ Due(s, x) <=> s[1] = x \/ Due(Tail(s), x)
         /\ Len(Tail(s)) = Len(s) - 1 /\ Len(s) \in Nat \ {0} /\ Tail(s) \in Seq(T)
         /\ \A i \in 1 .. Len(s) - 1 : Tail(s)[i] = s[i + 1]
<1>1. /\ Len(Tail(s)) = Len(s) - 1 /\ Len(s) \in Nat \ {0} /\ Tail(s) \in Seq(T)
      /\ \A i \in 1 .. Len(s) - 1 : Tail(s)[i] = s[i + 1]
  BY EmptySeq, LenProperties, HeadTailProperties
<1>2. ASSUME NEW i \in 1 .. Len(s), i # 1
      PROVE  i - 1 \in 1 .. Len(Tail(s)) /\ Tail(s)[i - 1] = s[i]
  <2>1. i - 1 \in 1 .. Len(s) - 1 /\ (i - 1) + 1 = i
    BY <1>1, <1>2
  <2>2. QED
    BY <1>1, <2>1
<1>3. Due(s, x) => s[1] = x \/ Due(Tail(s), x)
  BY <1>1, <1>2 DEF Due
<1>4. s[1] = x => Due(s, x)
  BY <1>1 DEF Due
<1>5. ASSUME NEW i \in 1 .. Len(Tail(s)) PROVE i + 1 \in 1 .. Len(s) /\ s[i + 1] = Tail(s)[i]
  BY <1>1
<1>6. Due(Tail(s), x) => Due(s, x)
  BY <1>5 DEF Due
<1>7. QED
  BY <1>1, <1>3, <1>4, <1>6

\* The steps of EnableAuto: both definitions, and the timer last.
LEMMA ShapeEnableAuto ==
  ASSUME platform \in Platforms
  PROVE  /\ EnableAuto \in Seq(Allowed("auto")) /\ Len(EnableAuto) \in 1 .. 4
         /\ \A i \in 1 .. Len(EnableAuto) : EnableAuto[i] = LastOf("auto") <=> i = Len(EnableAuto)
         /\ Due(EnableAuto, LastOf("auto"))
         /\ \/ Due(EnableAuto, <<"write", "service">>) /\ Due(EnableAuto, <<"write", "timer">>)
            \/ Due(EnableAuto, <<"write", "backup">>)
            \/ Due(EnableAuto, <<"create", "backup">>)
<1>1. CASE platform = "systemd"
  BY <1>1 DEF EnableAuto, Allowed, LastOf, UnitOf, Due
<1>2. CASE platform = "launchd"
  BY <1>2 DEF EnableAuto, Allowed, LastOf, UnitOf, Due
<1>3. CASE platform = "tasks"
  BY <1>3 DEF EnableAuto, Allowed, LastOf, UnitOf, Due
<1>4. QED
  BY <1>1, <1>2, <1>3 DEF Platforms

\* The steps of EnableServeAuto: the unit last.
LEMMA ShapeEnableServeAuto ==
  ASSUME platform \in Platforms
  PROVE  /\ EnableServeAuto \in Seq(Allowed("serve")) /\ Len(EnableServeAuto) \in 1 .. 3
         /\ \A i \in 1 .. Len(EnableServeAuto) :
               EnableServeAuto[i] = LastOf("serve") <=> i = Len(EnableServeAuto)
<1>1. CASE platform = "systemd"
  BY <1>1 DEF EnableServeAuto, Allowed, LastOf, UnitOf
<1>2. CASE platform = "launchd"
  BY <1>2 DEF EnableServeAuto, Allowed, LastOf, UnitOf
<1>3. CASE platform = "tasks"
  BY <1>3 DEF EnableServeAuto, Allowed, LastOf, UnitOf
<1>4. QED
  BY <1>1, <1>2, <1>3 DEF Platforms

\* The steps of DisableServeAuto: the unit is ended, under launchd its plist removed.
LEMMA ShapeDisableServeAuto ==
  ASSUME platform \in Platforms
  PROVE  /\ DisableServeAuto \in Seq(Allowed("unserve")) /\ Len(DisableServeAuto) \in 1 .. 2
         /\ Due(DisableServeAuto, EndOf("serve"))
         /\ platform = "launchd" => Due(DisableServeAuto, <<"remove", "serve">>)
<1>1. CASE platform = "systemd"
  BY <1>1 DEF DisableServeAuto, Allowed, EndOf, Due
<1>2. CASE platform = "launchd"
  BY <1>2 DEF DisableServeAuto, Allowed, EndOf, Due
<1>3. CASE platform = "tasks"
  BY <1>3 DEF DisableServeAuto, Allowed, EndOf, Due
<1>4. QED
  BY <1>1, <1>2, <1>3 DEF Platforms

\* The steps of DisableAuto: both units are ended, under launchd their plists removed.
LEMMA ShapeDisableAuto ==
  ASSUME platform \in Platforms
  PROVE  /\ DisableAuto \in Seq(Allowed("stop")) /\ Len(DisableAuto) \in 1 .. 4
         /\ \A u \in Units : /\ Due(DisableAuto, EndOf(u))
                             /\ platform = "launchd" => Due(DisableAuto, <<"remove", u>>)
<1>1. CASE platform = "systemd"
  BY <1>1 DEF DisableAuto, Allowed, EndOf, Due, Units
<1>2. CASE platform = "launchd"
  BY <1>2 DEF DisableAuto, Allowed, EndOf, Due, Units
<1>3. CASE platform = "tasks"
  BY <1>3 DEF DisableAuto, Allowed, EndOf, Due, Units
<1>4. QED
  BY <1>1, <1>2, <1>3 DEF Platforms

\* The shape of every operation when it begins.
LEMMA ShapeSteps ==
  ASSUME platform \in Platforms, NEW kind \in Kinds, NEW save \in BOOLEAN, NEW s, s = Steps(kind, save)
  PROVE  /\ s \in Seq(Allowed(kind)) /\ Len(s) \in 1 .. 9
         /\ kind \in Enabling => \A i \in 1 .. Len(s) : s[i] = LastOf(kind) <=> i = Len(s)
         /\ kind \in {"auto", "schedule"} =>
              \/ Due(s, <<"write", "service">>) /\ Due(s, <<"write", "timer">>)
              \/ Due(s, <<"write", "backup">>)
              \/ Due(s, <<"create", "backup">>)
         /\ kind = "schedule" => Due(s, <<"save", "hours">>)
         /\ \A u \in Units : Disabling(kind, u) =>
              /\ Due(s, EndOf(u))
              /\ platform = "launchd" => Due(s, <<"remove", u>>)
<1>1. CASE kind = "auto"
  <2>1. s = EnableAuto
    BY <1>1 DEF Steps
  <2>2. kind # "schedule" /\ \A u \in Units : ~Disabling(kind, u)
    BY <1>1 DEF Disabling
  <2>3. QED
    BY <1>1, <2>1, <2>2, ShapeEnableAuto
<1>2. CASE kind = "schedule"
  <2> DEFINE e == EnableAuto
             h == << <<"save", "hours">> >>
  <2>1. s = h \o e
    BY <1>2 DEF Steps
  <2>2. /\ e \in Seq(Allowed("auto")) /\ Len(e) \in 1 .. 4
        /\ \A i \in 1 .. Len(e) : e[i] = LastOf("auto") <=> i = Len(e)
        /\ \/ Due(e, <<"write", "service">>) /\ Due(e, <<"write", "timer">>)
           \/ Due(e, <<"write", "backup">>)
           \/ Due(e, <<"create", "backup">>)
    BY ShapeEnableAuto
  <2>3. h \in Seq(Allowed(kind)) /\ Len(h) = 1 /\ h[1] = <<"save", "hours">> /\ Due(h, <<"save", "hours">>)
    BY <1>2 DEF Allowed, Due
  <2>4. Allowed("auto") \subseteq Allowed(kind) /\ LastOf(kind) = LastOf("auto") /\ LastOf(kind) # <<"save", "hours">>
    BY <1>2 DEF Allowed, LastOf, UnitOf
  <2> HIDE DEF e, h
  <2>5. e \in Seq(Allowed(kind))
    BY <2>2, <2>4, SeqMonotonic
  <2>6. /\ s \in Seq(Allowed(kind)) /\ Len(s) = 1 + Len(e)
        /\ \A i \in 1 .. 1 + Len(e) : s[i] = IF i <= 1 THEN h[i] ELSE e[i - 1]
    <3>1. /\ h \o e \in Seq(Allowed(kind)) /\ Len(h \o e) = Len(h) + Len(e)
          /\ \A i \in 1 .. Len(h) + Len(e) : (h \o e)[i] = IF i <= Len(h) THEN h[i] ELSE e[i - Len(h)]
      BY <2>3, <2>5, ConcatProperties
    <3>2. QED
      BY <2>1, <2>3, <3>1
  <2>7. \A x : Due(s, x) <=> Due(h, x) \/ Due(e, x)
    BY <2>1, <2>3, <2>5, DueConcat
  <2>8. ASSUME NEW i \in 1 .. Len(s) PROVE s[i] = LastOf(kind) <=> i = Len(s)
    <3>1. CASE i = 1
      BY <3>1, <2>2, <2>3, <2>4, <2>6
    <3>2. CASE i # 1
      <4>1. i - 1 \in 1 .. Len(e) /\ s[i] = e[i - 1] /\ (i = Len(s) <=> i - 1 = Len(e))
        BY <3>2, <2>2, <2>6
      <4>2. QED
        BY <4>1, <2>2, <2>4
    <3>3. QED
      BY <3>1, <3>2
  <2>9. \A u \in Units : ~Disabling(kind, u)
    BY <1>2 DEF Disabling
  <2>10. /\ Due(s, <<"save", "hours">>)
         /\ \/ Due(s, <<"write", "service">>) /\ Due(s, <<"write", "timer">>)
            \/ Due(s, <<"write", "backup">>)
            \/ Due(s, <<"create", "backup">>)
    BY <2>2, <2>3, <2>7
  <2>11. Len(s) \in 1 .. 9
    <3>1. PICK n, m : n = Len(s) /\ m = Len(e)
      OBVIOUS
    <3>2. m \in 1 .. 4 /\ n = 1 + m
      BY <2>2, <2>6, <3>1
    <3>3. n \in 1 .. 9
      BY <3>2
    <3>4. QED
      BY <3>1, <3>3
  <2>12. QED
    BY <2>6, <2>8, <2>9, <2>10, <2>11
<1>3. CASE kind = "serve"
  <2>1. s = EnableServeAuto
    BY <1>3 DEF Steps
  <2>2. kind \notin {"auto", "schedule"} /\ \A u \in Units : ~Disabling(kind, u)
    BY <1>3 DEF Disabling
  <2>3. QED
    BY <1>3, <2>1, <2>2, ShapeEnableServeAuto
<1>4. CASE kind = "unserve"
  <2>1. s = DisableServeAuto
    BY <1>4 DEF Steps
  <2>2. kind \notin Enabling /\ kind \notin {"auto", "schedule"} /\ \A u \in Units : Disabling(kind, u) <=> u = "serve"
    BY <1>4 DEF Disabling, Enabling
  <2>3. QED
    BY <1>4, <2>1, <2>2, ShapeDisableServeAuto
<1>5. CASE kind = "stop"
  <2>1. s = DisableAuto
    BY <1>5 DEF Steps
  <2>2. kind \notin Enabling /\ kind \notin {"auto", "schedule"}
    BY <1>5 DEF Enabling
  <2>3. s \in Seq(Allowed(kind)) /\ Len(s) \in 1 .. 9
    BY <1>5, <2>1, ShapeDisableAuto
  <2>4. \A u \in Units : Due(s, EndOf(u)) /\ (platform = "launchd" => Due(s, <<"remove", u>>))
    <3>1. \A u \in Units : Due(DisableAuto, EndOf(u))
      BY ShapeDisableAuto
    <3>2. platform = "launchd" => \A u \in Units : Due(DisableAuto, <<"remove", u>>)
      BY ShapeDisableAuto
    <3>3. QED
      BY <2>1, <3>1, <3>2
  <2>5. QED
    BY <2>2, <2>3, <2>4
<1>6. CASE kind = "uninstall"
  <2> DEFINE d == DisableAuto
             r == RemoveFiles
             b == << <<"uninstall", "binary">> >>
             a == IF save THEN <<>> ELSE << <<"uninstall", "data">> >>
  <2>1. s = d \o r \o b \o a
    BY <1>6 DEF Steps
  <2>2. /\ d \in Seq(Allowed("stop")) /\ Len(d) \in 1 .. 4
        /\ \A u \in Units : /\ Due(d, EndOf(u))
                            /\ platform = "launchd" => Due(d, <<"remove", u>>)
        /\ platform = "systemd" => Len(d) = 3
    BY ShapeDisableAuto DEF DisableAuto
  <2>3. Allowed("stop") \subseteq Allowed(kind)
    BY <1>6 DEF Allowed
  <2>4. r \in Seq(Allowed(kind)) /\ (IF platform = "systemd" THEN Len(r) = 4 ELSE Len(r) = 0)
    <3>1. CASE platform = "systemd"
      BY <1>6, <3>1 DEF Allowed, RemoveFiles
    <3>2. CASE platform # "systemd"
      BY <3>2 DEF RemoveFiles
    <3>3. QED
      BY <3>1, <3>2
  <2>5. b \in Seq(Allowed(kind)) /\ Len(b) = 1
    BY <1>6 DEF Allowed
  <2>6. a \in Seq(Allowed(kind)) /\ Len(a) \in 0 .. 1
    BY <1>6 DEF Allowed
  <2> HIDE DEF d, r, b, a
  <2>7. d \in Seq(Allowed(kind))
    BY <2>2, <2>3, SeqMonotonic
  <2>8. PICK c1 : c1 = d \o r
    OBVIOUS
  <2>9. PICK c2 : c2 = c1 \o b
    OBVIOUS
  <2>10. /\ c1 \in Seq(Allowed(kind)) /\ Len(c1) = Len(d) + Len(r)
         /\ \A x : Due(d, x) => Due(c1, x)
    <3>1. r \in Seq(Allowed(kind))
      BY <2>4
    <3>2. QED
      BY <2>7, <2>8, <3>1, ConcatGrows
  <2>11. /\ c2 \in Seq(Allowed(kind)) /\ Len(c2) = Len(c1) + 1
         /\ \A x : Due(c1, x) => Due(c2, x)
    <3>1. /\ c1 \in Seq(Allowed(kind)) /\ b \in Seq(Allowed(kind)) /\ Len(b) = 1
      BY <2>5, <2>10
    <3>2. QED
      BY <2>9, <3>1, ConcatGrows
  <2>12. s = c2 \o a
    BY <2>1, <2>8, <2>9
  <2>13. /\ s \in Seq(Allowed(kind)) /\ Len(s) = Len(c2) + Len(a)
         /\ \A x : Due(c2, x) => Due(s, x)
    <3>1. c2 \in Seq(Allowed(kind)) /\ a \in Seq(Allowed(kind))
      BY <2>6, <2>11
    <3>2. QED
      BY <2>12, <3>1, ConcatGrows
  <2>14. Len(s) \in 1 .. 9
    <3>1. Len(s) = Len(d) + Len(r) + 1 + Len(a)
      BY <2>10, <2>11, <2>13
    <3>2. Len(d) \in 1 .. 4 /\ Len(a) \in 0 .. 1
      BY <2>2, <2>6
    <3>3. PICK n, dn, rn, an : n = Len(s) /\ dn = Len(d) /\ rn = Len(r) /\ an = Len(a)
      OBVIOUS
    <3>4. /\ n = dn + rn + 1 + an /\ dn \in 1 .. 4 /\ an \in 0 .. 1
          /\ (dn = 3 /\ rn = 4) \/ rn = 0
      BY <2>2, <2>4, <3>1, <3>2, <3>3
    <3>5. n \in 1 .. 9
      BY <3>4
    <3>6. QED
      BY <3>3, <3>5
  <2>15. \A u \in Units : Due(s, EndOf(u)) /\ (platform = "launchd" => Due(s, <<"remove", u>>))
    BY <2>2, <2>10, <2>11, <2>13
  <2>16. kind \notin Enabling /\ kind \notin {"auto", "schedule"}
    BY <1>6 DEF Enabling
  <2>17. QED
    BY <2>13, <2>14, <2>15, <2>16
<1>7. QED
  BY <1>1, <1>2, <1>3, <1>4, <1>5, <1>6 DEF Kinds
-----------------------------------------------------------------------------
\* What a step of a writer does to the operations.
Advances(w) ==
  /\ op' \in [Writers -> Operations]
  /\ \A x \in Writers : /\ op'[x].kind = op[x].kind /\ op'[x].busy = op[x].busy
                        /\ op'[x].prefix = op[x].prefix /\ op'[x].hours = op[x].hours
                        /\ op'[x].port = op[x].port /\ op'[x].cmd = op[x].cmd
                        /\ op'[x].alone = op[x].alone /\ op'[x].known = op[x].known
  /\ \A x \in Writers \ {w} : op'[x].todo = op[x].todo /\ op'[x].ok = op[x].ok
  /\ \/ op'[w].todo = Tail(op[w].todo) /\ (op'[w].ok => op[w].ok)
     \/ op'[w].todo = <<>> /\ ~op'[w].ok

\* The step of an operation that comes next is one of its kind.
LEMMA NextStep ==
  ASSUME Typed, NEW w \in Writers, op[w].busy, op[w].todo # <<>>
  PROVE  /\ op[w] \in Operations /\ op[w].kind \in Kinds /\ op[w].todo[1] \in Allowed(op[w].kind)
         /\ op[w].prefix \in Prefixes /\ op[w].hours \in Hours /\ op[w].port \in Ports
         /\ op[w].cmd \in Commands /\ op[w].ok \in BOOLEAN
         /\ op[w].todo \in Seq(Verbs \X Items) /\ Tail(op[w].todo) \in Seq(Verbs \X Items)
         /\ op[w].kind \in Enabling => (op[w].todo[1] = LastOf(op[w].kind) <=> Tail(op[w].todo) = <<>>)
<1>1. op[w] \in Operations /\ Shaped(op[w])
  BY DEF Typed
<1>2. /\ op[w].kind \in Kinds /\ op[w].cmd \in Commands /\ op[w].ok \in BOOLEAN
      /\ op[w].todo \in Seq(Verbs \X Items)
  BY <1>1 DEF Operations
<1>3. op[w].prefix \in Prefixes /\ op[w].hours \in Hours /\ op[w].port \in Ports
  BY <1>1 DEF Shaped
<1>4. op[w].todo \in Seq(Allowed(op[w].kind))
  BY <1>1 DEF Shaped
<1>5. /\ Len(op[w].todo) \in Nat \ {0} /\ Len(Tail(op[w].todo)) = Len(op[w].todo) - 1
      /\ Tail(op[w].todo) \in Seq(Verbs \X Items)
  BY <1>2, DueTail
<1>6. op[w].todo[1] \in Allowed(op[w].kind)
  BY <1>4, <1>5, ElementOfSeq
<1>7. op[w].kind \in Enabling => (op[w].todo[1] = LastOf(op[w].kind) <=> Len(op[w].todo) = 1)
  <2>1. 1 \in 1 .. Len(op[w].todo)
    BY <1>5
  <2>2. op[w].kind \in Enabling => (op[w].todo[1] = LastOf(op[w].kind) <=> 1 = Len(op[w].todo))
    BY <1>1, <2>1 DEF Shaped
  <2>3. QED
    BY <2>2
<1>8. Tail(op[w].todo) = <<>> <=> Len(op[w].todo) = 1
  <2>1. Tail(op[w].todo) = <<>> <=> Len(Tail(op[w].todo)) = 0
    BY <1>5, EmptySeq
  <2>2. QED
    BY <1>5, <2>1
<1>9. QED
  BY <1>1, <1>2, <1>3, <1>5, <1>6, <1>7, <1>8

\* The operation goes on, and nothing else changes in it.
LEMMA GoOnEffect ==
  ASSUME Typed, NEW w \in Writers, op[w].busy, op[w].todo # <<>>, NEW done \in BOOLEAN,
         op' = GoOn(w, op, done)
  PROVE  Advances(w) /\ op'[w].todo = Tail(op[w].todo) /\ op'[w].ok = (op[w].ok /\ done)
<1>1. op \in [Writers -> Operations] /\ op[w] \in Operations
  BY DEF Typed
<1>2. op' = [op EXCEPT ![w] = [op[w] EXCEPT !.todo = Tail(op[w].todo), !.ok = op[w].ok /\ done]]
  BY <1>1 DEF GoOn
<1>3. PICK g : g = [op[w] EXCEPT !.todo = Tail(op[w].todo), !.ok = op[w].ok /\ done]
  OBVIOUS
<1>4. Tail(op[w].todo) \in Seq(Verbs \X Items) /\ (op[w].ok /\ done) \in BOOLEAN
  BY NextStep
<1>5. /\ g \in Operations
      /\ g.kind = op[w].kind /\ g.busy = op[w].busy /\ g.prefix = op[w].prefix /\ g.hours = op[w].hours
      /\ g.port = op[w].port /\ g.cmd = op[w].cmd /\ g.alone = op[w].alone /\ g.known = op[w].known
      /\ g.todo = Tail(op[w].todo) /\ g.ok = (op[w].ok /\ done)
  BY <1>1, <1>3, <1>4 DEF Operations
<1>6. op' = [op EXCEPT ![w] = g]
  BY <1>2, <1>3
<1>7. op' \in [Writers -> Operations] /\ op'[w] = g /\ \A x \in Writers \ {w} : op'[x] = op[x]
  BY <1>1, <1>5, <1>6
<1>8. QED
  BY <1>5, <1>7 DEF Advances

\* The operation has failed and ends, and nothing else changes in it.
LEMMA GiveUpEffect ==
  ASSUME Typed, NEW w \in Writers, op' = GiveUp(w, op)
  PROVE  Advances(w) /\ op'[w].todo = <<>> /\ ~op'[w].ok
<1>1. op \in [Writers -> Operations] /\ op[w] \in Operations
  BY DEF Typed
<1>2. PICK g : g = [op[w] EXCEPT !.todo = <<>>, !.ok = FALSE]
  OBVIOUS
<1>3. op' = [op EXCEPT ![w] = g]
  BY <1>1, <1>2 DEF GiveUp
<1>4. <<>> \in Seq(Verbs \X Items)
  OBVIOUS
<1>5. /\ g \in Operations
      /\ g.kind = op[w].kind /\ g.busy = op[w].busy /\ g.prefix = op[w].prefix /\ g.hours = op[w].hours
      /\ g.port = op[w].port /\ g.cmd = op[w].cmd /\ g.alone = op[w].alone /\ g.known = op[w].known
      /\ g.todo = <<>> /\ ~g.ok
  BY <1>1, <1>2, <1>4 DEF Operations
<1>6. op' \in [Writers -> Operations] /\ op'[w] = g /\ \A x \in Writers \ {w} : op'[x] = op[x]
  BY <1>1, <1>3, <1>5
<1>7. QED
  BY <1>5, <1>6 DEF Advances

\* The same where a step ends dashboards besides.
LEMMA EndedEffect ==
  ASSUME Typed, NEW w \in Writers, op[w].busy, op[w].todo # <<>>, NEW p, NEW u,
         op' = Ended(GoOn(w, op, TRUE), p, u)
  PROVE  Advances(w) /\ op'[w].todo = Tail(op[w].todo) /\ op'[w].ok = op[w].ok
<1>1. op \in [Writers -> Operations] /\ \A x \in Writers : op[x] \in Operations
  BY DEF Typed
<1>2. PICK g : g = [op[w] EXCEPT !.todo = Tail(op[w].todo), !.ok = op[w].ok /\ TRUE]
  OBVIOUS
<1>3. Tail(op[w].todo) \in Seq(Verbs \X Items) /\ op[w].ok \in BOOLEAN
  BY NextStep
<1>4. /\ g \in Operations
      /\ g.kind = op[w].kind /\ g.busy = op[w].busy /\ g.prefix = op[w].prefix /\ g.hours = op[w].hours
      /\ g.port = op[w].port /\ g.cmd = op[w].cmd /\ g.alone = op[w].alone /\ g.known = op[w].known
      /\ g.todo = Tail(op[w].todo) /\ g.ok = op[w].ok
  BY <1>1, <1>2, <1>3 DEF Operations
<1>5. PICK f : f = [op EXCEPT ![w] = g]
  OBVIOUS
<1>6. f = GoOn(w, op, TRUE)
  BY <1>1, <1>2, <1>5 DEF GoOn
<1>7. f \in [Writers -> Operations] /\ f[w] = g /\ \A x \in Writers \ {w} : f[x] = op[x]
  BY <1>1, <1>4, <1>5
<1>8. op' = [x \in Writers |-> IF u = "serve" /\ f[x].busy /\ f[x].host = p
                               THEN [f[x] EXCEPT !.dying = TRUE] ELSE f[x]]
  BY <1>6 DEF Ended
<1>9. ASSUME NEW x \in Writers
      PROVE  /\ op'[x] \in Operations
             /\ op'[x].kind = f[x].kind /\ op'[x].busy = f[x].busy /\ op'[x].prefix = f[x].prefix
             /\ op'[x].hours = f[x].hours /\ op'[x].port = f[x].port /\ op'[x].cmd = f[x].cmd
             /\ op'[x].alone = f[x].alone /\ op'[x].known = f[x].known
             /\ op'[x].todo = f[x].todo /\ op'[x].ok = f[x].ok
  <2>1. f[x] \in Operations
    BY <1>7
  <2>2. PICK e : e = [f[x] EXCEPT !.dying = TRUE]
    OBVIOUS
  <2>3. /\ e \in Operations
        /\ e.kind = f[x].kind /\ e.busy = f[x].busy /\ e.prefix = f[x].prefix
        /\ e.hours = f[x].hours /\ e.port = f[x].port /\ e.cmd = f[x].cmd
        /\ e.alone = f[x].alone /\ e.known = f[x].known /\ e.todo = f[x].todo /\ e.ok = f[x].ok
    BY <2>1, <2>2 DEF Operations
  <2>4. op'[x] = f[x] \/ op'[x] = e
    BY <1>8, <2>2
  <2>5. QED
    BY <2>1, <2>3, <2>4
<1>10. op' \in [Writers -> Operations]
  BY <1>8, <1>9
<1>11. ASSUME NEW x \in Writers
       PROVE  /\ op'[x].kind = op[x].kind /\ op'[x].busy = op[x].busy
              /\ op'[x].prefix = op[x].prefix /\ op'[x].hours = op[x].hours
              /\ op'[x].port = op[x].port /\ op'[x].cmd = op[x].cmd
              /\ op'[x].alone = op[x].alone /\ op'[x].known = op[x].known
              /\ x # w => op'[x].todo = op[x].todo /\ op'[x].ok = op[x].ok
  <2>1. CASE x = w
    BY <1>4, <1>7, <1>9, <2>1
  <2>2. CASE x # w
    BY <1>7, <1>9, <2>2
  <2>3. QED
    BY <2>1, <2>2
<1>12. op'[w].todo = Tail(op[w].todo) /\ op'[w].ok = op[w].ok
  BY <1>4, <1>7, <1>9
<1>13. QED
  BY <1>10, <1>11, <1>12 DEF Advances
-----------------------------------------------------------------------------
\* What a boot makes of a prefix, file by file.
LEMMA BootNow ==
  ASSUME WorldTyped, NEW p \in Prefixes
  PROVE  /\ AtBoot(p, "serve") <=> /\ disk[p].serve # None
                                   /\ platform = "systemd" => <<p, "serve">> \in enabled
         /\ AtBoot(p, "backup") <=> /\ disk[p].service # None /\ disk[p].timer # None
                                    /\ platform = "systemd" => <<p, "backup">> \in enabled
         /\ OnDisk(p, "serve") = disk[p].serve
         /\ disk[p].service # None /\ disk[p].timer # None =>
              OnDisk(p, "backup") = [cmd |-> disk[p].service, hours |-> disk[p].timer]
         /\ ~(disk[p].service # None /\ disk[p].timer # None) => OnDisk(p, "backup") = None
         /\ OnDisk(p, "serve") \in Ports \cup {None} /\ OnDisk(p, "backup") \in Backups \cup {None}
<1>1. disk[p] \in Files
  BY DEF WorldTyped
<1>2. /\ disk[p].service \in Commands \cup {None} /\ disk[p].timer \in Hours \cup {None}
      /\ disk[p].serve \in Ports \cup {None}
  BY <1>1 DEF Files
<1>3. disk[p].service # None /\ disk[p].timer # None =>
        /\ [cmd |-> disk[p].service, hours |-> disk[p].timer] \in Backups
        /\ [cmd |-> disk[p].service, hours |-> disk[p].timer] # None
  BY <1>2, SchedulerAssumption DEF Backups
<1>4. /\ OnDisk(p, "serve") = disk[p].serve
      /\ OnDisk(p, "backup") = IF disk[p].service # None /\ disk[p].timer # None
                               THEN [cmd |-> disk[p].service, hours |-> disk[p].timer] ELSE None
  BY DEF OnDisk
<1>5. QED
  BY <1>2, <1>3, <1>4 DEF AtBoot

\* The same in the next state.
LEMMA BootNext ==
  ASSUME WorldTyped', NEW p \in Prefixes
  PROVE  /\ AtBoot(p, "serve")' <=> /\ disk'[p].serve # None
                                    /\ platform' = "systemd" => <<p, "serve">> \in enabled'
         /\ AtBoot(p, "backup")' <=> /\ disk'[p].service # None /\ disk'[p].timer # None
                                     /\ platform' = "systemd" => <<p, "backup">> \in enabled'
<1>1. disk'[p] \in Files
  BY DEF WorldTyped
<1>2. /\ disk'[p].service \in Commands \cup {None} /\ disk'[p].timer \in Hours \cup {None}
      /\ disk'[p].serve \in Ports \cup {None}
  BY <1>1 DEF Files
<1>3. disk'[p].service # None /\ disk'[p].timer # None =>
        [cmd |-> disk'[p].service, hours |-> disk'[p].timer] # None
  BY <1>2, SchedulerAssumption DEF Backups
<1>4. /\ OnDisk(p, "serve")' = disk'[p].serve
      /\ OnDisk(p, "backup")' = IF disk'[p].service # None /\ disk'[p].timer # None
                                THEN [cmd |-> disk'[p].service, hours |-> disk'[p].timer] ELSE None
  BY DEF OnDisk
<1>5. QED
  BY <1>3, <1>4 DEF AtBoot

\* What a write changes.
LEMMA WrittenIs ==
  ASSUME WorldTyped, NEW p \in Prefixes, NEW item, NEW o, o.cmd \in Commands, o.hours \in Hours, o.port \in Ports,
         NEW d, d = Written(p, item, o)
  PROVE  /\ d \in [Prefixes -> Files]
         /\ \A q \in Prefixes \ {p} : d[q] = disk[q]
         /\ d[p].service = IF item \in {"service", "backup"} THEN o.cmd ELSE disk[p].service
         /\ d[p].timer = IF item \in {"timer", "backup"} THEN o.hours ELSE disk[p].timer
         /\ d[p].serve = IF item = "serve" THEN o.port ELSE disk[p].serve
<1>1. disk \in [Prefixes -> Files] /\ disk[p] \in Files
  BY DEF WorldTyped
<1>2. PICK g : g = [service |-> IF item \in {"service", "backup"} THEN o.cmd ELSE disk[p].service,
                    timer |-> IF item \in {"timer", "backup"} THEN o.hours ELSE disk[p].timer,
                    serve |-> IF item = "serve" THEN o.port ELSE disk[p].serve]
  OBVIOUS
<1>3. d = [disk EXCEPT ![p] = g]
  BY <1>2 DEF Written
<1>4. /\ disk[p].service \in Commands \cup {None} /\ disk[p].timer \in Hours \cup {None}
      /\ disk[p].serve \in Ports \cup {None}
  BY <1>1 DEF Files
<1>5. /\ g.service = IF item \in {"service", "backup"} THEN o.cmd ELSE disk[p].service
      /\ g.timer = IF item \in {"timer", "backup"} THEN o.hours ELSE disk[p].timer
      /\ g.serve = IF item = "serve" THEN o.port ELSE disk[p].serve
      /\ g \in Files
  BY <1>2, <1>4 DEF Files
<1>6. QED
  BY <1>1, <1>3, <1>5

\* What a removal changes.
LEMMA RemovedIs ==
  ASSUME WorldTyped, NEW p \in Prefixes, NEW item, NEW d, d = Removed(p, item)
  PROVE  /\ d \in [Prefixes -> Files]
         /\ \A q \in Prefixes \ {p} : d[q] = disk[q]
         /\ d[p].service = IF item \in {"service", "backup"} THEN None ELSE disk[p].service
         /\ d[p].timer = IF item \in {"timer", "backup"} THEN None ELSE disk[p].timer
         /\ d[p].serve = IF item = "serve" THEN None ELSE disk[p].serve
<1>1. disk \in [Prefixes -> Files] /\ disk[p] \in Files
  BY DEF WorldTyped
<1>2. PICK g : g = [service |-> IF item \in {"service", "backup"} THEN None ELSE disk[p].service,
                    timer |-> IF item \in {"timer", "backup"} THEN None ELSE disk[p].timer,
                    serve |-> IF item = "serve" THEN None ELSE disk[p].serve]
  OBVIOUS
<1>3. d = [disk EXCEPT ![p] = g]
  BY <1>2 DEF Removed
<1>4. /\ disk[p].service \in Commands \cup {None} /\ disk[p].timer \in Hours \cup {None}
      /\ disk[p].serve \in Ports \cup {None}
  BY <1>1 DEF Files
<1>5. /\ g.service = IF item \in {"service", "backup"} THEN None ELSE disk[p].service
      /\ g.timer = IF item \in {"timer", "backup"} THEN None ELSE disk[p].timer
      /\ g.serve = IF item = "serve" THEN None ELSE disk[p].serve
      /\ g \in Files
  BY <1>2, <1>4 DEF Files
<1>6. QED
  BY <1>1, <1>3, <1>5

\* Which operations contain a step with a given verb, and on which items.
LEMMA StepOfVerb ==
  ASSUME NEW k \in Kinds, NEW s \in Allowed(k)
  PROVE  /\ s[1] = "write" => \/ k = "serve" /\ s = <<"write", "serve">>
                              \/ k \in {"auto", "schedule"} /\ s[2] \in {"service", "timer", "backup"}
                                 /\ s = <<"write", s[2]>>
         /\ s[1] = "reload" => s = <<"reload", "all">>
         /\ s[1] = "enable" => k \in Enabling /\ platform # "tasks" /\ s = LastOf(k) /\ s[2] = UnitOf(k)
         /\ s[1] = "create" => k \in Enabling /\ platform = "tasks" /\ s = LastOf(k) /\ s[2] = UnitOf(k)
         /\ s[1] = "disable" => platform # "tasks" /\ s[2] \in Units /\ s = EndOf(s[2]) /\ Disabling(k, s[2])
         /\ s[1] = "delete" => platform = "tasks" /\ s[2] \in Units /\ s = EndOf(s[2]) /\ Disabling(k, s[2])
         /\ s[1] = "remove" => /\ s = <<"remove", s[2]>> /\ s[2] \in {"service", "timer", "backup", "serve"}
                               /\ Disabling(k, IF s[2] = "serve" THEN "serve" ELSE "backup")
         /\ s[1] = "save" => k = "schedule" /\ s = <<"save", "hours">>
         /\ s[1] = "uninstall" => k = "uninstall" /\ s \in {<<"uninstall", "binary">>, <<"uninstall", "data">>}
<1>1. CASE k = "auto"
  BY <1>1 DEF Allowed, LastOf, UnitOf, Enabling
<1>2. CASE k = "schedule"
  BY <1>2 DEF Allowed, LastOf, UnitOf, Enabling
<1>3. CASE k = "serve"
  BY <1>3 DEF Allowed, LastOf, UnitOf, Enabling
<1>4. CASE k = "unserve"
  BY <1>4 DEF Allowed, EndOf, Disabling, Units
<1>5. CASE k = "stop"
  BY <1>5 DEF Allowed, EndOf, Disabling, Units
<1>6. CASE k = "uninstall"
  BY <1>6 DEF Allowed, EndOf, Disabling, Units
<1>7. QED
  BY <1>1, <1>2, <1>3, <1>4, <1>5, <1>6 DEF Kinds

\* An operation concerns the units that it enables or ends, and does not do both.
LEMMA KindsOfUnits ==
  ASSUME NEW k \in Kinds, NEW u \in Units
  PROVE  /\ Concerns(k, u) <=> Disabling(k, u) \/ (k \in Enabling /\ u = UnitOf(k))
         /\ k \in Enabling => ~Disabling(k, u)
         /\ UnitOf(k) \in Units
BY DEF Kinds, Units, Concerns, Disabling, Enabling, UnitOf
-----------------------------------------------------------------------------
\* What a step of a writer does to the units: nothing to those it does not
\* concern, and nothing to make one run or start if it is to end it.
Same(p, u) == /\ AtBoot(p, u)' <=> AtBoot(p, u)
              /\ loaded'[p][u] = None <=> loaded[p][u] = None
Shrinks(p, u) == /\ AtBoot(p, u)' => AtBoot(p, u)
                 /\ loaded[p][u] = None => loaded'[p][u] = None
Achieves(w) ==
  \A p \in Prefixes, u \in Units : p = op[w].prefix =>
    /\ op[w].todo[1] = EndOf(u) => /\ Exempt(u) \/ loaded'[p][u] = None
                                   /\ platform # "launchd" => ~AtBoot(p, u)'
    /\ op[w].todo[1] = <<"remove", u>> => ~AtBoot(p, u)'
    /\ op[w].kind \in Enabling /\ op[w].todo[1] = LastOf(op[w].kind) /\ u = UnitOf(op[w].kind) =>
         Exempt(u) \/ (loaded'[p][u] # None /\ AtBoot(p, u)')

Effects(w) ==
  /\ Advances(w)
  /\ UNCHANGED <<platform, ops, stopped, clean>>
  /\ WorldTyped'
  /\ \A p \in Prefixes, u \in Units : p # op[w].prefix \/ ~Concerns(op[w].kind, u) => Same(p, u)
  /\ op[w].kind \notin Enabling => \A p \in Prefixes, u \in Units : Shrinks(p, u)
  /\ op'[w].ok => Achieves(w)

\* A step that leaves the units alone has all effects there are.
LEMMA NothingHappens ==
  ASSUME WorldTyped, NEW w \in Writers, Advances(w), WorldTyped',
         UNCHANGED <<platform, disk, enabled, loaded, ops, stopped, clean>>,
         op'[w].ok => op[w].todo[1][1] \in {"save", "uninstall", "reload"}
  PROVE  Effects(w)
<1>1. ASSUME NEW p \in Prefixes, NEW u \in Units PROVE Same(p, u) /\ Shrinks(p, u)
  BY DEF Same, Shrinks, AtBoot, OnDisk
<1>2. \A u \in Units : EndOf(u)[1] \in {"delete", "disable"}
  BY DEF EndOf
<1>3. \A k : LastOf(k)[1] \in {"create", "enable"}
  BY DEF LastOf
<1>4. op'[w].ok => Achieves(w)
  BY <1>2, <1>3 DEF Achieves
<1>5. QED
  BY <1>1, <1>4 DEF Effects

\* The effects of each action.
LEMMA WriteEffect ==
  ASSUME Typed, NEW w \in Writers, Write(w)
  PROVE  Effects(w)
<1>1. /\ op[w].busy /\ op[w].todo # <<>> /\ op[w].todo[1][1] = "write" /\ Typed
      /\ UNCHANGED <<platform, settings, enabled, loaded, installed, ops, stopped, clean>>
  BY DEF Write, Doing, Busy, Next1
<1>2. PICK p, k, s, o : p = op[w].prefix /\ k = op[w].kind /\ s = op[w].todo[1] /\ o = op[w]
  OBVIOUS
<1>3. /\ k \in Kinds /\ p \in Prefixes /\ s \in Allowed(k) /\ s[1] = "write"
      /\ o.cmd \in Commands /\ o.hours \in Hours /\ o.port \in Ports
  BY <1>1, <1>2, NextStep
<1>4. \/ k = "serve" /\ s = <<"write", "serve">>
      \/ k \in {"auto", "schedule"} /\ s[2] \in {"service", "timer", "backup"} /\ s = <<"write", s[2]>>
  BY <1>3, StepOfVerb
<1>5. WorldTyped
  BY DEF Typed
<1>6. CASE op' = GiveUp(w, op) /\ UNCHANGED disk
  <2>1. Advances(w) /\ ~op'[w].ok
    BY <1>6, GiveUpEffect
  <2>2. WorldTyped'
    BY <1>1, <1>5, <1>6 DEF WorldTyped
  <2>3. QED
    BY <1>1, <1>5, <1>6, <2>1, <2>2, NothingHappens
<1>7. CASE disk' = Written(Prefix(w), Item(w), op[w]) /\ op' = GoOn(w, op, TRUE)
  <2>1. Advances(w)
    BY <1>1, <1>7, GoOnEffect
  <2>2. disk' = Written(p, s[2], o)
    BY <1>2, <1>7 DEF Prefix, Item, Next1
  <2>3. /\ disk' \in [Prefixes -> Files]
        /\ \A q \in Prefixes \ {p} : disk'[q] = disk[q]
        /\ disk'[p].service = IF s[2] \in {"service", "backup"} THEN o.cmd ELSE disk[p].service
        /\ disk'[p].timer = IF s[2] \in {"timer", "backup"} THEN o.hours ELSE disk[p].timer
        /\ disk'[p].serve = IF s[2] = "serve" THEN o.port ELSE disk[p].serve
    BY <1>3, <1>5, <2>2, WrittenIs
  <2>4. WorldTyped'
    BY <1>1, <1>5, <2>3 DEF WorldTyped
  <2>5. ASSUME NEW q \in Prefixes, NEW u \in Units, q # p \/ ~Concerns(k, u)
        PROVE  Same(q, u)
    <3>1. CASE q # p
      BY <1>1, <2>3, <3>1 DEF Same, AtBoot, OnDisk
    <3>2. CASE q = p /\ k = "serve"
      <4>1. u = "backup" /\ s[2] = "serve"
        BY <1>4, <2>5, <3>2 DEF Concerns, UnitOf, Units
      <4>2. QED
        BY <1>1, <2>3, <3>2, <4>1 DEF Same, AtBoot, OnDisk
    <3>3. CASE q = p /\ k \in {"auto", "schedule"}
      <4>1. u = "serve" /\ s[2] # "serve"
        BY <1>4, <2>5, <3>3 DEF Concerns, UnitOf, Units
      <4>2. QED
        BY <1>1, <2>3, <3>3, <4>1 DEF Same, AtBoot, OnDisk
    <3>4. QED
      BY <1>4, <3>1, <3>2, <3>3
  <2>6. k \in Enabling
    BY <1>4 DEF Enabling
  <2>7. s[1] = "write" /\ \A u \in Units : s # EndOf(u) /\ s # <<"remove", u>> /\ s # LastOf(k)
    BY <1>3 DEF EndOf, LastOf
  <2>8. Achieves(w)
    BY <1>2, <2>7 DEF Achieves
  <2>9. QED
    BY <1>1, <1>2, <2>1, <2>4, <2>5, <2>6, <2>8 DEF Effects
<1>8. QED
  BY <1>6, <1>7 DEF Write

LEMMA ReloadEffect ==
  ASSUME Typed, NEW w \in Writers, Reload(w)
  PROVE  Effects(w) /\ \A p \in Prefixes : loaded[p].backup = None => loaded'[p].backup = None
<1>1. /\ op[w].busy /\ op[w].todo # <<>> /\ op[w].todo[1][1] = "reload"
      /\ UNCHANGED <<platform, settings, disk, enabled, installed, ops, stopped, clean>>
  BY DEF Reload, Doing, Busy, Next1
<1>2. WorldTyped
  BY DEF Typed
<1>3. CASE op' = GoOn(w, op, FALSE) /\ UNCHANGED loaded
  <2>1. Advances(w) /\ ~op'[w].ok
    BY <1>1, <1>3, GoOnEffect
  <2>2. WorldTyped'
    BY <1>1, <1>2, <1>3 DEF WorldTyped
  <2>3. QED
    BY <1>1, <1>2, <1>3, <2>1, <2>2, NothingHappens
<1>4. CASE /\ loaded' = [p \in Prefixes |->
                [loaded[p] EXCEPT !.backup = IF @ # None /\ OnDisk(p, "backup") # None
                                             THEN OnDisk(p, "backup") ELSE @]]
           /\ op' = GoOn(w, op, TRUE)
  <2>1. Advances(w)
    BY <1>1, <1>4, GoOnEffect
  <2>2. ASSUME NEW p \in Prefixes
        PROVE  /\ loaded'[p] \in Loads /\ loaded'[p].serve = loaded[p].serve
               /\ loaded'[p].backup = None <=> loaded[p].backup = None
    <3>1. loaded[p] \in Loads /\ OnDisk(p, "backup") \in Backups \cup {None}
      BY <1>2, BootNow DEF WorldTyped
    <3>2. PICK b : b = IF loaded[p].backup # None /\ OnDisk(p, "backup") # None
                       THEN OnDisk(p, "backup") ELSE loaded[p].backup
      OBVIOUS
    <3>3. b \in Backups \cup {None} /\ (b = None <=> loaded[p].backup = None)
      BY <3>1, <3>2 DEF Loads
    <3>4. loaded'[p] = [loaded[p] EXCEPT !.backup = b]
      BY <1>4, <3>2
    <3>5. QED
      BY <3>1, <3>3, <3>4 DEF Loads
  <2>3. loaded' \in [Prefixes -> Loads]
    BY <1>4, <2>2
  <2>4. WorldTyped'
    BY <1>1, <1>2, <2>3 DEF WorldTyped
  <2>5. ASSUME NEW p \in Prefixes, NEW u \in Units PROVE Same(p, u) /\ Shrinks(p, u)
    <3>1. AtBoot(p, u)' <=> AtBoot(p, u)
      BY <1>1 DEF AtBoot, OnDisk
    <3>2. loaded'[p][u] = None <=> loaded[p][u] = None
      BY <2>2 DEF Units
    <3>3. QED
      BY <3>1, <3>2 DEF Same, Shrinks
  <2>6. /\ \A u \in Units : EndOf(u)[1] \in {"delete", "disable"}
        /\ \A k : LastOf(k)[1] \in {"create", "enable"}
    BY DEF EndOf, LastOf
  <2>7. Achieves(w)
    BY <1>1, <2>6 DEF Achieves
  <2>8. QED
    BY <1>1, <2>1, <2>2, <2>4, <2>5, <2>7 DEF Effects
<1>5. QED
  BY <1>3, <1>4 DEF Reload

LEMMA EnableEffect ==
  ASSUME Typed, NEW w \in Writers, Enable(w)
  PROVE  Effects(w)
<1>1. /\ op[w].busy /\ op[w].todo # <<>> /\ op[w].todo[1][1] = "enable"
      /\ UNCHANGED <<platform, settings, disk, installed, ops, stopped, clean>>
  BY DEF Enable, Doing, Busy, Next1
<1>2. PICK p, k, s, u : p = op[w].prefix /\ k = op[w].kind /\ s = op[w].todo[1] /\ u = s[2]
  OBVIOUS
<1>3. k \in Kinds /\ p \in Prefixes /\ s \in Allowed(k) /\ s[1] = "enable"
  BY <1>1, <1>2, NextStep
<1>4. k \in Enabling /\ platform # "tasks" /\ s = LastOf(k) /\ u = UnitOf(k)
  BY <1>2, <1>3, StepOfVerb
<1>5. u \in Units /\ \A v \in Units : Concerns(k, v) <=> v = u
  <2>1. u \in Units
    BY <1>4 DEF Units, UnitOf
  <2>2. k \notin {"stop", "uninstall"}
    BY <1>4 DEF Enabling
  <2>3. QED
    BY <1>4, <2>1, <2>2 DEF Concerns
<1>6. WorldTyped
  BY DEF Typed
<1>7. PICK linked : linked = IF platform = "systemd" THEN enabled \cup {<<p, u>>} ELSE enabled
  OBVIOUS
<1>8. /\ linked \subseteq Prefixes \X Units
      /\ \A q \in Prefixes, v \in Units : q # p \/ v # u => (<<q, v>> \in linked <=> <<q, v>> \in enabled)
      /\ platform = "systemd" => <<p, u>> \in linked
  BY <1>3, <1>5, <1>6, <1>7 DEF WorldTyped
<1>9. /\ p = Prefix(w) /\ u = Item(w)
      /\ linked = IF platform = "systemd" THEN enabled \cup {<<Prefix(w), Item(w)>>} ELSE enabled
  BY <1>2, <1>7 DEF Prefix, Item, Next1
<1>10. ASSUME NEW v \in Units PROVE s # EndOf(v) /\ s # <<"remove", v>>
  BY <1>3 DEF EndOf
<1>11. ASSUME enabled' \in {enabled, linked}, NEW q \in Prefixes, NEW v \in Units, q # p \/ v # u
       PROVE  AtBoot(q, v)' <=> AtBoot(q, v)
  BY <1>1, <1>8, <1>11 DEF AtBoot, OnDisk
<1>12. CASE /\ enabled' \in {enabled} \cup (IF Defined(p, u) THEN {linked} ELSE {})
            /\ op' = GiveUp(w, op)
            /\ UNCHANGED loaded
  <2>1. Advances(w) /\ ~op'[w].ok
    BY <1>12, GiveUpEffect
  <2>2. enabled' \in {enabled, linked}
    BY <1>12
  <2>3. WorldTyped'
    BY <1>1, <1>6, <1>8, <1>12, <2>2 DEF WorldTyped
  <2>4. \A q \in Prefixes, v \in Units : q # p \/ v # u => Same(q, v)
    BY <1>11, <1>12, <2>2 DEF Same
  <2>5. QED
    BY <1>1, <1>2, <1>4, <1>5, <2>1, <2>3, <2>4 DEF Effects
<1>13. CASE /\ OnDisk(p, u) # None
            /\ enabled' = linked
            /\ loaded' = [loaded EXCEPT ![p][u] = Started(p, u)]
            /\ op' = GoOn(w, op, TRUE)
  <2>1. Advances(w)
    BY <1>1, <1>13, GoOnEffect
  <2>2. PICK b : b = Started(p, u)
    OBVIOUS
  <2>3. /\ loaded[p] \in Loads /\ OnDisk(p, "serve") \in Ports \cup {None}
        /\ OnDisk(p, "backup") \in Backups \cup {None}
    BY <1>3, <1>6, BootNow DEF WorldTyped
  <2>4. b # None /\ (u = "serve" => b \in Ports) /\ (u = "backup" => b \in Backups)
    BY <1>5, <1>13, <2>2, <2>3 DEF Started, Loads, Units
  <2>5. /\ loaded' \in [Prefixes -> Loads] /\ loaded'[p][u] = b
        /\ \A q \in Prefixes, v \in Units : q # p \/ v # u => loaded'[q][v] = loaded[q][v]
    <3>1. loaded' = [loaded EXCEPT ![p][u] = b] /\ loaded \in [Prefixes -> Loads]
      BY <1>6, <1>13, <2>2 DEF WorldTyped
    <3>2. CASE u = "serve"
      BY <1>3, <2>4, <3>1, <3>2 DEF Loads, Units
    <3>3. CASE u = "backup"
      BY <1>3, <2>4, <3>1, <3>3 DEF Loads, Units
    <3>4. QED
      BY <1>5, <3>2, <3>3 DEF Units
  <2>6. WorldTyped'
    BY <1>1, <1>6, <1>8, <1>13, <2>5 DEF WorldTyped
  <2>7. \A q \in Prefixes, v \in Units : q # p \/ v # u => Same(q, v)
    BY <1>11, <1>13, <2>5 DEF Same
  <2>8. AtBoot(p, u)' /\ loaded'[p][u] # None
    <3>1. OnDisk(p, u)' # None
      BY <1>1, <1>13 DEF OnDisk
    <3>2. QED
      BY <1>1, <1>8, <1>13, <2>4, <2>5, <3>1 DEF AtBoot
  <2>9. Achieves(w)
    BY <1>2, <1>4, <1>10, <2>8 DEF Achieves
  <2>10. QED
    BY <1>1, <1>2, <1>4, <1>5, <2>1, <2>6, <2>7, <2>9 DEF Effects
<1>14. QED
  BY <1>9, <1>12, <1>13 DEF Enable

LEMMA CreateEffect ==
  ASSUME Typed, NEW w \in Writers, Create(w)
  PROVE  Effects(w)
<1>1. /\ op[w].busy /\ op[w].todo # <<>> /\ op[w].todo[1][1] = "create"
      /\ UNCHANGED <<platform, settings, enabled, installed, ops, stopped, clean>>
  BY DEF Create, Doing, Busy, Next1
<1>2. PICK p, k, s, u, o : p = op[w].prefix /\ k = op[w].kind /\ s = op[w].todo[1] /\ u = s[2] /\ o = op[w]
  OBVIOUS
<1>3. /\ k \in Kinds /\ p \in Prefixes /\ s \in Allowed(k) /\ s[1] = "create"
      /\ o.cmd \in Commands /\ o.hours \in Hours /\ o.port \in Ports
  BY <1>1, <1>2, NextStep
<1>4. k \in Enabling /\ platform = "tasks" /\ s = LastOf(k) /\ u = UnitOf(k)
  BY <1>2, <1>3, StepOfVerb
<1>5. u \in Units /\ \A v \in Units : Concerns(k, v) <=> v = u
  <2>1. u \in Units
    BY <1>4 DEF Units, UnitOf
  <2>2. k \notin {"stop", "uninstall"}
    BY <1>4 DEF Enabling
  <2>3. QED
    BY <1>4, <2>1, <2>2 DEF Concerns
<1>6. WorldTyped
  BY DEF Typed
<1>7. p = Prefix(w) /\ u = Item(w)
  BY <1>2 DEF Prefix, Item, Next1
<1>8. ASSUME NEW v \in Units PROVE s # EndOf(v) /\ s # <<"remove", v>>
  BY <1>3 DEF EndOf
<1>9. CASE op' = GiveUp(w, op) /\ UNCHANGED <<disk, loaded>>
  <2>1. Advances(w) /\ ~op'[w].ok
    BY <1>9, GiveUpEffect
  <2>2. WorldTyped'
    BY <1>1, <1>6, <1>9 DEF WorldTyped
  <2>3. QED
    BY <1>1, <1>6, <1>9, <2>1, <2>2, NothingHappens
<1>10. CASE /\ disk' = Written(p, u, o)
            /\ loaded' = IF u = "backup"
                         THEN [loaded EXCEPT ![p].backup = [cmd |-> o.cmd, hours |-> o.hours]] ELSE loaded
            /\ op' = GoOn(w, op, TRUE)
  <2>1. Advances(w)
    BY <1>1, <1>10, GoOnEffect
  <2>2. /\ disk' \in [Prefixes -> Files]
        /\ \A q \in Prefixes \ {p} : disk'[q] = disk[q]
        /\ disk'[p].service = IF u \in {"service", "backup"} THEN o.cmd ELSE disk[p].service
        /\ disk'[p].timer = IF u \in {"timer", "backup"} THEN o.hours ELSE disk[p].timer
        /\ disk'[p].serve = IF u = "serve" THEN o.port ELSE disk[p].serve
    BY <1>3, <1>6, <1>10, WrittenIs
  <2>3. PICK b : b = [cmd |-> o.cmd, hours |-> o.hours]
    OBVIOUS
  <2>4. b \in Backups /\ b # None
    BY <1>3, <2>3, SchedulerAssumption DEF Backups
  <2>5. /\ loaded' \in [Prefixes -> Loads]
        /\ \A q \in Prefixes, v \in Units : q # p \/ v # u => loaded'[q][v] = loaded[q][v]
        /\ u = "backup" => loaded'[p].backup = b
    <3>1. loaded' = (IF u = "backup" THEN [loaded EXCEPT ![p].backup = b] ELSE loaded)
          /\ loaded \in [Prefixes -> Loads]
      BY <1>6, <1>10, <2>3 DEF WorldTyped
    <3>2. CASE u = "backup"
      BY <1>3, <2>4, <3>1, <3>2 DEF Loads, Units
    <3>3. CASE u # "backup"
      BY <3>1, <3>3
    <3>4. QED
      BY <3>2, <3>3
  <2>6. WorldTyped'
    BY <1>1, <1>6, <2>2, <2>5 DEF WorldTyped
  <2>7. ASSUME NEW q \in Prefixes, NEW v \in Units, q # p \/ v # u PROVE Same(q, v)
    <3>1. AtBoot(q, v)' <=> AtBoot(q, v)
      <4>1. CASE q # p
        BY <1>1, <2>2, <4>1 DEF AtBoot, OnDisk
      <4>2. CASE q = p /\ u = "serve"
        BY <1>1, <2>2, <2>7, <4>2 DEF AtBoot, OnDisk, Units
      <4>3. CASE q = p /\ u = "backup"
        BY <1>1, <2>2, <2>7, <4>3 DEF AtBoot, OnDisk, Units
      <4>4. QED
        BY <1>5, <4>1, <4>2, <4>3 DEF Units
    <3>2. QED
      BY <2>5, <2>7, <3>1 DEF Same
  <2>8. Exempt(u) \/ (loaded'[p][u] # None /\ AtBoot(p, u)')
    <3>1. CASE u = "serve"
      BY <1>4, <3>1 DEF Exempt
    <3>2. CASE u = "backup"
      <4>1. disk'[p].service # None /\ disk'[p].timer # None /\ platform' = "tasks"
        BY <1>1, <1>3, <1>4, <2>2, <3>2, SchedulerAssumption
      <4>2. AtBoot(p, "backup")'
        BY <1>3, <2>6, <4>1, BootNext
      <4>3. QED
        BY <2>4, <2>5, <3>2, <4>2
    <3>3. QED
      BY <1>5, <3>1, <3>2 DEF Units
  <2>9. Achieves(w)
    BY <1>2, <1>4, <1>8, <2>8 DEF Achieves
  <2>10. QED
    BY <1>1, <1>2, <1>4, <1>5, <2>1, <2>6, <2>7, <2>9 DEF Effects
<1>11. QED
  BY <1>2, <1>7, <1>9, <1>10 DEF Create

LEMMA DisableEffect ==
  ASSUME Typed, NEW w \in Writers, Disable(w)
  PROVE  Effects(w)
<1>1. /\ op[w].busy /\ op[w].todo # <<>> /\ op[w].todo[1][1] = "disable"
      /\ UNCHANGED <<platform, settings, disk, installed, ops, stopped, clean>>
  BY DEF Disable, Doing, Busy, Next1
<1>2. PICK p, k, s, u : p = op[w].prefix /\ k = op[w].kind /\ s = op[w].todo[1] /\ u = s[2]
  OBVIOUS
<1>3. k \in Kinds /\ p \in Prefixes /\ s \in Allowed(k) /\ s[1] = "disable" /\ op[w].ok \in BOOLEAN
  BY <1>1, <1>2, NextStep
<1>4. platform # "tasks" /\ u \in Units /\ s = EndOf(u) /\ Disabling(k, u)
  BY <1>2, <1>3, StepOfVerb
<1>5. k \notin Enabling /\ \A v \in Units : ~Concerns(k, v) => v # u
  BY <1>3, <1>4, KindsOfUnits
<1>6. WorldTyped
  BY DEF Typed
<1>7. p = Prefix(w) /\ u = Item(w)
  BY <1>2 DEF Prefix, Item, Next1
<1>8. ASSUME NEW v \in Units, s = EndOf(v) PROVE v = u
  BY <1>4, <1>8 DEF EndOf
<1>9. ASSUME NEW v \in Units PROVE s # <<"remove", v>>
  BY <1>3
<1>10. CASE /\ Defined(p, u)
            /\ enabled' = enabled \ {<<p, u>>}
            /\ loaded' = [loaded EXCEPT ![p][u] = None]
            /\ op' = Ended(GoOn(w, op, TRUE), p, u)
  <2>1. Advances(w)
    BY <1>1, <1>10, EndedEffect
  <2>2. /\ loaded' \in [Prefixes -> Loads] /\ loaded'[p][u] = None
        /\ \A q \in Prefixes, v \in Units : q # p \/ v # u => loaded'[q][v] = loaded[q][v]
    <3>1. loaded' = [loaded EXCEPT ![p][u] = None] /\ loaded \in [Prefixes -> Loads]
      BY <1>6, <1>10 DEF WorldTyped
    <3>2. QED
      BY <1>3, <1>4, <3>1 DEF Loads, Units
  <2>3. WorldTyped'
    BY <1>1, <1>6, <1>10, <2>2 DEF WorldTyped
  <2>4. ASSUME NEW q \in Prefixes, NEW v \in Units
        PROVE  /\ AtBoot(q, v)' => AtBoot(q, v)
               /\ q # p \/ v # u => (AtBoot(q, v)' <=> AtBoot(q, v))
    BY <1>1, <1>10 DEF AtBoot, OnDisk
  <2>5. ASSUME NEW q \in Prefixes, NEW v \in Units
        PROVE  Shrinks(q, v) /\ (q # p \/ v # u => Same(q, v))
    BY <2>2, <2>4 DEF Shrinks, Same
  <2>6. platform # "launchd" => ~AtBoot(p, u)'
    <3>1. platform # "launchd" => platform' = "systemd"
      BY <1>1, <1>4, <1>6 DEF WorldTyped, Platforms
    <3>2. <<p, u>> \notin enabled'
      BY <1>10
    <3>3. QED
      BY <3>1, <3>2 DEF AtBoot
  <2>7. Achieves(w)
    BY <1>2, <1>5, <1>8, <1>9, <2>2, <2>6 DEF Achieves
  <2>8. QED
    BY <1>1, <1>2, <1>5, <2>1, <2>3, <2>5, <2>7 DEF Effects
<1>11. CASE /\ op' = GoOn(w, op, ~Defined(p, u) /\ loaded[p][u] = None)
            /\ UNCHANGED <<enabled, loaded>>
  <2>1. Advances(w) /\ op'[w].ok = (op[w].ok /\ (~Defined(p, u) /\ loaded[p][u] = None))
    <3>1. PICK done : done = (~Defined(p, u) /\ loaded[p][u] = None)
      OBVIOUS
    <3>2. done \in BOOLEAN /\ op' = GoOn(w, op, done)
      BY <1>11, <3>1
    <3>3. Advances(w) /\ op'[w].ok = (op[w].ok /\ done)
      BY <1>1, <3>2, GoOnEffect
    <3>4. QED
      BY <3>1, <3>3
  <2>2. WorldTyped'
    BY <1>1, <1>6, <1>11 DEF WorldTyped
  <2>3. ASSUME NEW q \in Prefixes, NEW v \in Units PROVE Shrinks(q, v) /\ Same(q, v)
    BY <1>1, <1>11 DEF Shrinks, Same, AtBoot, OnDisk
  <2>4. op'[w].ok => loaded'[p][u] = None /\ ~AtBoot(p, u)'
    <3>1. ~Defined(p, u) => OnDisk(p, u) = None
      BY DEF Defined, OnDisk
    <3>2. ~Defined(p, u) => ~AtBoot(p, u)'
      BY <1>1, <1>11, <3>1 DEF AtBoot, OnDisk
    <3>3. QED
      BY <1>11, <2>1, <3>2
  <2>5. op'[w].ok => Achieves(w)
    BY <1>2, <1>5, <1>8, <1>9, <2>4 DEF Achieves
  <2>6. QED
    BY <1>1, <1>2, <1>5, <2>1, <2>2, <2>3, <2>5 DEF Effects
<1>12. QED
  BY <1>7, <1>10, <1>11 DEF Disable

LEMMA DeleteEffect ==
  ASSUME Typed, NEW w \in Writers, Delete(w)
  PROVE  Effects(w)
<1>1. /\ op[w].busy /\ op[w].todo # <<>> /\ op[w].todo[1][1] = "delete"
      /\ UNCHANGED <<platform, settings, enabled, installed, ops, stopped, clean>>
  BY DEF Delete, Doing, Busy, Next1
<1>2. PICK p, k, s, u : p = op[w].prefix /\ k = op[w].kind /\ s = op[w].todo[1] /\ u = s[2]
  OBVIOUS
<1>3. k \in Kinds /\ p \in Prefixes /\ s \in Allowed(k) /\ s[1] = "delete"
  BY <1>1, <1>2, NextStep
<1>4. platform = "tasks" /\ u \in Units /\ s = EndOf(u) /\ Disabling(k, u)
  BY <1>2, <1>3, StepOfVerb
<1>5. k \notin Enabling /\ \A v \in Units : ~Concerns(k, v) => v # u
  BY <1>3, <1>4, KindsOfUnits
<1>6. WorldTyped
  BY DEF Typed
<1>7. p = Prefix(w) /\ u = Item(w)
  BY <1>2 DEF Prefix, Item, Next1
<1>8. ASSUME NEW v \in Units, s = EndOf(v) PROVE v = u
  BY <1>4, <1>8 DEF EndOf
<1>9. ASSUME NEW v \in Units PROVE s # <<"remove", v>>
  BY <1>3
<1>10. CASE op' = GoOn(w, op, FALSE) /\ UNCHANGED <<disk, loaded>>
  <2>1. Advances(w) /\ ~op'[w].ok
    BY <1>1, <1>10, GoOnEffect
  <2>2. WorldTyped'
    BY <1>1, <1>6, <1>10 DEF WorldTyped
  <2>3. QED
    BY <1>1, <1>6, <1>10, <2>1, <2>2, NothingHappens
<1>11. CASE /\ disk' = Removed(p, u)
            /\ loaded' = IF u = "backup" THEN [loaded EXCEPT ![p].backup = None] ELSE loaded
            /\ op' = GoOn(w, op, TRUE)
  <2>1. Advances(w)
    BY <1>1, <1>11, GoOnEffect
  <2>2. /\ disk' \in [Prefixes -> Files]
        /\ \A q \in Prefixes \ {p} : disk'[q] = disk[q]
        /\ disk'[p].service = IF u \in {"service", "backup"} THEN None ELSE disk[p].service
        /\ disk'[p].timer = IF u \in {"timer", "backup"} THEN None ELSE disk[p].timer
        /\ disk'[p].serve = IF u = "serve" THEN None ELSE disk[p].serve
    BY <1>3, <1>6, <1>11, RemovedIs
  <2>3. /\ loaded' \in [Prefixes -> Loads]
        /\ \A q \in Prefixes, v \in Units : q # p \/ v # u => loaded'[q][v] = loaded[q][v]
        /\ loaded'[p][u] = IF u = "backup" THEN None ELSE loaded[p][u]
    <3>1. loaded' = (IF u = "backup" THEN [loaded EXCEPT ![p].backup = None] ELSE loaded)
          /\ loaded \in [Prefixes -> Loads]
      BY <1>6, <1>11 DEF WorldTyped
    <3>2. CASE u = "backup"
      BY <1>3, <3>1, <3>2 DEF Loads, Units
    <3>3. CASE u # "backup"
      BY <3>1, <3>3
    <3>4. QED
      BY <3>2, <3>3
  <2>4. WorldTyped'
    BY <1>1, <1>6, <2>2, <2>3 DEF WorldTyped
  <2>5. ~AtBoot(p, u)'
    <3>1. OnDisk(p, u)' = None
      BY <1>4, <2>2 DEF OnDisk, Units
    <3>2. QED
      BY <3>1 DEF AtBoot
  <2>6. ASSUME NEW q \in Prefixes, NEW v \in Units, q # p \/ v # u
        PROVE  AtBoot(q, v)' <=> AtBoot(q, v)
    <3>1. CASE q # p
      BY <1>1, <2>2, <3>1 DEF AtBoot, OnDisk
    <3>2. CASE q = p /\ u = "serve"
      BY <1>1, <2>2, <2>6, <3>2 DEF AtBoot, OnDisk, Units
    <3>3. CASE q = p /\ u = "backup"
      BY <1>1, <2>2, <2>6, <3>3 DEF AtBoot, OnDisk, Units
    <3>4. QED
      BY <1>4, <3>1, <3>2, <3>3 DEF Units
  <2>7. ASSUME NEW q \in Prefixes, NEW v \in Units
        PROVE  Shrinks(q, v) /\ (q # p \/ v # u => Same(q, v))
    <3>1. CASE q = p /\ v = u
      BY <2>3, <2>5, <3>1 DEF Shrinks
    <3>2. CASE q # p \/ v # u
      BY <2>3, <2>6, <3>2 DEF Shrinks, Same
    <3>3. QED
      BY <3>1, <3>2
  <2>8. Exempt(u) \/ loaded'[p][u] = None
    BY <1>4, <2>3 DEF Exempt, Units
  <2>9. Achieves(w)
    BY <1>2, <1>5, <1>8, <1>9, <2>5, <2>8 DEF Achieves
  <2>10. QED
    BY <1>1, <1>2, <1>5, <2>1, <2>4, <2>7, <2>9 DEF Effects
<1>12. QED
  BY <1>7, <1>10, <1>11 DEF Delete

LEMMA RemoveEffect ==
  ASSUME Typed, NEW w \in Writers, Remove(w)
  PROVE  Effects(w)
<1>1. /\ op[w].busy /\ op[w].todo # <<>> /\ op[w].todo[1][1] = "remove"
      /\ UNCHANGED <<platform, settings, enabled, loaded, installed, ops, stopped, clean>>
      /\ op' = GoOn(w, op, TRUE)
  BY DEF Remove, Doing, Busy, Next1
<1>2. PICK p, k, s, i : p = op[w].prefix /\ k = op[w].kind /\ s = op[w].todo[1] /\ i = s[2]
  OBVIOUS
<1>3. k \in Kinds /\ p \in Prefixes /\ s \in Allowed(k) /\ s[1] = "remove"
  BY <1>1, <1>2, NextStep
<1>4. PICK u : u = IF i = "serve" THEN "serve" ELSE "backup"
  OBVIOUS
<1>5. /\ s = <<"remove", i>> /\ i \in {"service", "timer", "backup", "serve"}
      /\ u \in Units /\ Disabling(k, u)
  BY <1>2, <1>3, <1>4, StepOfVerb DEF Units
<1>6. k \notin Enabling /\ \A v \in Units : ~Concerns(k, v) => v # u
  BY <1>3, <1>5, KindsOfUnits
<1>7. WorldTyped
  BY DEF Typed
<1>8. p = Prefix(w) /\ i = Item(w)
  BY <1>2 DEF Prefix, Item, Next1
<1>9. ASSUME NEW v \in Units PROVE s # EndOf(v) /\ (s = <<"remove", v>> => i = v)
  BY <1>3, <1>5 DEF EndOf
<1>10. Advances(w)
  BY <1>1, GoOnEffect
<1>11. /\ disk' \in [Prefixes -> Files]
       /\ \A q \in Prefixes \ {p} : disk'[q] = disk[q]
       /\ disk'[p].service = IF i \in {"service", "backup"} THEN None ELSE disk[p].service
       /\ disk'[p].timer = IF i \in {"timer", "backup"} THEN None ELSE disk[p].timer
       /\ disk'[p].serve = IF i = "serve" THEN None ELSE disk[p].serve
  <2>1. disk' = Removed(p, i)
    BY <1>8 DEF Remove
  <2>2. QED
    BY <1>3, <1>7, <2>1, RemovedIs
<1>12. WorldTyped'
  BY <1>1, <1>7, <1>11 DEF WorldTyped
<1>13. ASSUME NEW q \in Prefixes, NEW v \in Units, q # p \/ v # u
       PROVE  AtBoot(q, v)' <=> AtBoot(q, v)
  <2>1. CASE q # p
    BY <1>1, <1>11, <2>1 DEF AtBoot, OnDisk
  <2>2. CASE q = p /\ i = "serve"
    BY <1>1, <1>4, <1>11, <1>13, <2>2 DEF AtBoot, OnDisk, Units
  <2>3. CASE q = p /\ i # "serve"
    BY <1>1, <1>4, <1>11, <1>13, <2>3 DEF AtBoot, OnDisk, Units
  <2>4. QED
    BY <2>1, <2>2, <2>3
<1>14. AtBoot(p, u)' => AtBoot(p, u)
  <2>1. CASE u = "serve"
    BY <1>1, <1>3, <1>7, <1>11, <1>12, <2>1, BootNow, BootNext
  <2>2. CASE u = "backup"
    BY <1>1, <1>3, <1>7, <1>11, <1>12, <2>2, BootNow, BootNext
  <2>3. QED
    BY <1>5, <2>1, <2>2 DEF Units
<1>15. ASSUME NEW q \in Prefixes, NEW v \in Units
       PROVE  Shrinks(q, v) /\ (q # p \/ v # u => Same(q, v))
  <2>1. CASE q = p /\ v = u
    BY <1>1, <1>14, <2>1 DEF Shrinks
  <2>2. CASE q # p \/ v # u
    BY <1>1, <1>13, <2>2 DEF Shrinks, Same
  <2>3. QED
    BY <2>1, <2>2
<1>16. ASSUME NEW v \in Units, s = <<"remove", v>> PROVE ~AtBoot(p, v)'
  <2>1. i = v
    BY <1>9, <1>16
  <2>2. OnDisk(p, v)' = None
    BY <1>11, <2>1 DEF OnDisk, Units
  <2>3. QED
    BY <2>2 DEF AtBoot
<1>17. Achieves(w)
  BY <1>2, <1>6, <1>9, <1>16 DEF Achieves
<1>18. QED
  BY <1>1, <1>2, <1>6, <1>10, <1>12, <1>15, <1>17 DEF Effects

LEMMA SaveEffect ==
  ASSUME Typed, NEW w \in Writers, Save(w)
  PROVE  Effects(w)
<1>1. /\ op[w].busy /\ op[w].todo # <<>> /\ op[w].todo[1][1] = "save"
      /\ UNCHANGED <<platform, disk, enabled, loaded, installed, ops, stopped, clean>>
  BY DEF Save, Doing, Busy, Next1
<1>2. WorldTyped /\ op[w].hours \in Hours
  BY <1>1, NextStep DEF Typed
<1>3. Advances(w)
  BY <1>1, GoOnEffect DEF Save
<1>4. settings' \in [prefix : Prefixes, hours : Hours \cup {None}]
  <2>1. settings \in [prefix : Prefixes, hours : Hours \cup {None}]
    BY <1>2 DEF WorldTyped
  <2>2. settings' = settings \/ settings' = [settings EXCEPT !.hours = op[w].hours]
    BY DEF Save
  <2>3. QED
    BY <1>2, <2>1, <2>2
<1>5. WorldTyped'
  BY <1>1, <1>2, <1>4 DEF WorldTyped
<1>6. QED
  BY <1>1, <1>2, <1>3, <1>5, NothingHappens

LEMMA UninstallEffect ==
  ASSUME Typed, NEW w \in Writers, Uninstall(w)
  PROVE  Effects(w)
<1>1. /\ op[w].busy /\ op[w].todo # <<>> /\ op[w].todo[1][1] = "uninstall"
      /\ UNCHANGED <<platform, disk, enabled, loaded, ops, stopped, clean>>
      /\ op' = GoOn(w, op, TRUE) /\ installed' = FALSE
      /\ settings' = IF Item(w) = "data" THEN [prefix |-> DefaultPrefix, hours |-> None] ELSE settings
  BY DEF Uninstall, Doing, Busy, Next1
<1>2. WorldTyped
  BY DEF Typed
<1>3. Advances(w)
  BY <1>1, GoOnEffect
<1>4. settings' \in [prefix : Prefixes, hours : Hours \cup {None}]
  <2>1. settings \in [prefix : Prefixes, hours : Hours \cup {None}]
    BY <1>2 DEF WorldTyped
  <2>2. [prefix |-> DefaultPrefix, hours |-> None] \in [prefix : Prefixes, hours : Hours \cup {None}]
    BY SchedulerAssumption
  <2>3. QED
    BY <1>1, <2>1, <2>2
<1>5. WorldTyped'
  BY <1>1, <1>2, <1>4 DEF WorldTyped
<1>6. QED
  BY <1>1, <1>2, <1>3, <1>5, NothingHappens
-----------------------------------------------------------------------------
\* The parts of the invariant that a step of a writer keeps, whatever it does.
LEMMA SamePlatform ==
  ASSUME platform' = platform
  PROVE  /\ \A u : EndOf(u)' = EndOf(u) /\ (Exempt(u)' <=> Exempt(u))
         /\ \A k : LastOf(k)' = LastOf(k) /\ Allowed(k)' = Allowed(k)
         /\ \A o : Shaped(o)' <=> Shaped(o)
<1>1. \A u : EndOf(u)' = EndOf(u) /\ (Exempt(u)' <=> Exempt(u))
  BY DEF EndOf, Exempt
<1>2. \A k : LastOf(k)' = LastOf(k)
  BY DEF LastOf
<1>3. \A k : Allowed(k)' = Allowed(k)
  BY <1>1, <1>2 DEF Allowed
<1>4. \A o : Shaped(o)' <=> Shaped(o)
  BY <1>2, <1>3 DEF Shaped
<1>5. QED
  BY <1>1, <1>2, <1>3, <1>4

\* The rest of an operation keeps its shape.
LEMMA ShapeKept ==
  ASSUME platform \in Platforms, NEW o \in Operations, Shaped(o), NEW n \in Operations,
         n.kind = o.kind, n.busy = o.busy, n.prefix = o.prefix, n.hours = o.hours, n.port = o.port,
         n.todo = o.todo \/ n.todo = <<>> \/ (o.todo # <<>> /\ n.todo = Tail(o.todo))
  PROVE  Shaped(n)
<1>1. CASE n.todo = o.todo
  BY <1>1 DEF Shaped
<1>2. CASE n.todo = <<>>
  <2>1. <<>> \in Seq(Allowed(n.kind)) /\ Len(<<>>) = 0
    BY EmptySeq
  <2>2. QED
    BY <1>2, <2>1 DEF Shaped
<1>3. CASE o.todo # <<>> /\ n.todo = Tail(o.todo)
  <2>1. o.todo \in Seq(Allowed(o.kind)) /\ Len(o.todo) <= 9
    BY DEF Shaped
  <2>2. /\ Len(n.todo) = Len(o.todo) - 1 /\ Len(o.todo) \in Nat \ {0} /\ n.todo \in Seq(Allowed(o.kind))
        /\ \A i \in 1 .. Len(o.todo) - 1 : n.todo[i] = o.todo[i + 1]
    BY <1>3, <2>1, DueTail
  <2>3. ASSUME o.kind \in Enabling, NEW i \in 1 .. Len(n.todo)
        PROVE  n.todo[i] = LastOf(o.kind) <=> i = Len(n.todo)
    <3>1. i + 1 \in 1 .. Len(o.todo) /\ n.todo[i] = o.todo[i + 1] /\ (i + 1 = Len(o.todo) <=> i = Len(n.todo))
      BY <2>2
    <3>2. o.todo[i + 1] = LastOf(o.kind) <=> i + 1 = Len(o.todo)
      BY <2>3, <3>1 DEF Shaped
    <3>3. QED
      BY <3>1, <3>2
  <2>4. Len(n.todo) <= 9
    BY <2>1, <2>2
  <2>5. o.busy => o.prefix \in Prefixes /\ o.hours \in Hours /\ o.port \in Ports
    BY DEF Shaped
  <2>6. QED
    BY <2>2, <2>3, <2>4, <2>5 DEF Shaped
<1>4. QED
  BY <1>1, <1>2, <1>3

\* Types are kept.
LEMMA EffectsKeepTyped ==
  ASSUME Typed, NEW w \in Writers, op[w].todo # <<>>, Effects(w)
  PROVE  Typed'
<1>1. platform \in Platforms /\ platform' = platform
  BY DEF Typed, WorldTyped, Effects
<1>2. op' \in [Writers -> Operations] /\ WorldTyped'
  BY DEF Effects, Advances
<1>3. ASSUME NEW x \in Writers PROVE Shaped(op'[x])
  <2>1. op[x] \in Operations /\ Shaped(op[x]) /\ op'[x] \in Operations
    BY <1>2 DEF Typed
  <2>2. /\ op'[x].kind = op[x].kind /\ op'[x].busy = op[x].busy /\ op'[x].prefix = op[x].prefix
        /\ op'[x].hours = op[x].hours /\ op'[x].port = op[x].port
    BY DEF Effects, Advances
  <2>3. op'[x].todo = op[x].todo \/ op'[x].todo = <<>> \/ (op[x].todo # <<>> /\ op'[x].todo = Tail(op[x].todo))
    BY DEF Effects, Advances
  <2>4. QED
    BY <1>1, <2>1, <2>2, <2>3, ShapeKept
<1>4. ASSUME NEW x \in Writers, NEW o \in Operations, op'[x] = o PROVE Shaped(o)'
  BY <1>1, <1>3, <1>4, SamePlatform
<1>5. Operations' = Operations
  BY DEF Operations
<1>6. QED
  BY <1>2, <1>4, <1>5 DEF Typed

\* So is what depends on kinds, prefixes and the order of operations alone.
LEMMA EffectsKeepHistory ==
  ASSUME IInv, NEW w \in Writers, Effects(w)
  PROVE  AloneIsAlone' /\ CleanIsAlone' /\ NoneEnables'
BY DEF IInv, AloneIsAlone, CleanIsAlone, NoneEnables, Effects, Advances, Busy

\* Nobody starts a unit of a stopped prefix: who would has taken the prefix off the list.
LEMMA EffectsKeepStopped ==
  ASSUME IInv, NEW w \in Writers, op[w].busy, Effects(w)
  PROVE  StoppedStaysStopped'
<1>1. stopped' = stopped /\ stopped \subseteq Prefixes /\ platform' = platform
  BY DEF IInv, Typed, WorldTyped, Effects
<1>2. ASSUME NEW p \in stopped, NEW u \in Units
      PROVE  ~AtBoot(p, u)' /\ ((platform = "tasks" /\ u = "serve") \/ loaded'[p][u] = None)
  <2>1. p \in Prefixes /\ ~AtBoot(p, u) /\ ((platform = "tasks" /\ u = "serve") \/ loaded[p][u] = None)
    BY <1>1 DEF IInv, StoppedStaysStopped
  <2>2. CASE p # op[w].prefix
    BY <2>1, <2>2 DEF Effects, Same
  <2>3. CASE p = op[w].prefix
    <3>1. op[w].kind \notin Enabling
      BY <2>3 DEF IInv, NoneEnables, Busy
    <3>2. QED
      BY <2>1, <3>1 DEF Effects, Shrinks
  <2>4. QED
    BY <2>2, <2>3
<1>3. QED
  BY <1>1, <1>2 DEF StoppedStaysStopped

\* What is behind an operation that ends units has had its effect, the step just done included.
LEMMA EffectsKeepEnds ==
  ASSUME IInv, NEW w \in Writers, op[w].busy, op[w].todo # <<>>, Effects(w)
  PROVE  EndsTakeEffect'
<1>1. ASSUME NEW x \in Writers, NEW p \in Prefixes, NEW u \in Units,
             Steady(x)', op'[x].prefix = p, Disabling(op'[x].kind, u)
      PROVE  /\ ~Due(op'[x].todo, EndOf(u)) =>
                   (Exempt(u) \/ loaded'[p][u] = None) /\ (platform # "launchd" => ~AtBoot(p, u)')
             /\ platform = "launchd" /\ ~Due(op'[x].todo, <<"remove", u>>) => ~AtBoot(p, u)'
  <2>1. op[x].busy /\ op[x].alone /\ op'[x].ok
    BY <1>1 DEF Effects, Advances, Steady, Busy
  <2>2. x = w
    BY <2>1 DEF IInv, AloneIsAlone, Busy
  <2>3. /\ Steady(w) /\ op'[w].todo = Tail(op[w].todo) /\ Achieves(w)
        /\ p = op[w].prefix /\ Disabling(op[w].kind, u)
    BY <1>1, <2>1, <2>2 DEF Effects, Advances, Steady, Busy
  <2>4. op[w].todo \in Seq(Verbs \X Items) /\ op[w].kind \in Kinds
    BY NextStep DEF IInv
  <2>5. op[w].kind \notin Enabling
    BY <2>3, <2>4, KindsOfUnits
  <2>6. Shrinks(p, u)
    BY <2>5 DEF Effects
  <2>7. /\ ~Due(op[w].todo, EndOf(u)) => Over(p, u) /\ (platform # "launchd" => ~AtBoot(p, u))
        /\ platform = "launchd" /\ ~Due(op[w].todo, <<"remove", u>>) => ~AtBoot(p, u)
    BY <2>3 DEF IInv, EndsTakeEffect
  <2>8. ASSUME ~Due(Tail(op[w].todo), EndOf(u))
        PROVE  (Exempt(u) \/ loaded'[p][u] = None) /\ (platform # "launchd" => ~AtBoot(p, u)')
    <3>1. CASE op[w].todo[1] = EndOf(u)
      BY <2>3, <3>1 DEF Achieves
    <3>2. CASE op[w].todo[1] # EndOf(u)
      <4>1. ~Due(op[w].todo, EndOf(u))
        BY <2>4, <2>8, <3>2, DueTail
      <4>2. QED
        BY <2>6, <2>7, <4>1 DEF Over, Shrinks
    <3>3. QED
      BY <3>1, <3>2
  <2>9. ASSUME platform = "launchd", ~Due(Tail(op[w].todo), <<"remove", u>>) PROVE ~AtBoot(p, u)'
    <3>1. CASE op[w].todo[1] = <<"remove", u>>
      BY <2>3, <3>1 DEF Achieves
    <3>2. CASE op[w].todo[1] # <<"remove", u>>
      <4>1. ~Due(op[w].todo, <<"remove", u>>)
        BY <2>4, <2>9, <3>2, DueTail
      <4>2. QED
        BY <2>6, <2>7, <2>9, <4>1 DEF Shrinks
    <3>3. QED
      BY <3>1, <3>2
  <2>10. QED
    BY <2>2, <2>3, <2>8, <2>9
<1>2. /\ platform' = platform
      /\ \A u : EndOf(u)' = EndOf(u) /\ (Exempt(u)' <=> Exempt(u))
  BY SamePlatform DEF Effects
<1>3. QED
  BY <1>1, <1>2 DEF EndsTakeEffect, Over

\* What runs and what boots change together, or for the unit of the operation under way.
LEMMA EffectsKeepAgrees ==
  ASSUME IInv, NEW w \in Writers, op[w].busy, op[w].todo # <<>>, Effects(w), EndsTakeEffect'
  PROVE  CleanAgrees'
<1>1. /\ platform' = platform /\ clean' = clean
      /\ \A u : EndOf(u)' = EndOf(u) /\ (Exempt(u)' <=> Exempt(u))
  BY SamePlatform DEF Effects
<1>2. ASSUME clean, NEW p \in Prefixes, NEW u \in Units
      PROVE  Agrees(p, u)' \/ UnderWay(p, u)'
  <2>1. op[w].alone /\ \A x \in Writers : op[x].busy => x = w
    BY <1>2 DEF IInv, CleanIsAlone, AloneIsAlone, Busy
  <2>2. op[w].kind \in Kinds /\ op[w].todo \in Seq(Verbs \X Items) /\ op[w].prefix \in Prefixes
    BY NextStep DEF IInv
  <2>3. CASE p # op[w].prefix \/ ~Concerns(op[w].kind, u)
    <3>1. Agrees(p, u)
      BY <1>2, <2>1, <2>3 DEF IInv, CleanAgrees, UnderWay, Busy
    <3>2. QED
      BY <1>1, <2>3, <3>1 DEF Effects, Same, Agrees
  <2>4. CASE p = op[w].prefix /\ Concerns(op[w].kind, u) /\ (op'[w].todo # <<>> \/ ~op'[w].ok)
    BY <2>4 DEF UnderWay, Busy, Effects, Advances
  <2>5. CASE p = op[w].prefix /\ Concerns(op[w].kind, u) /\ op'[w].todo = <<>> /\ op'[w].ok
    <3>1. op'[w].todo = Tail(op[w].todo) /\ Tail(op[w].todo) = <<>> /\ Achieves(w)
      BY <2>5 DEF Effects, Advances
    <3>2. CASE op[w].kind \in Enabling /\ u = UnitOf(op[w].kind)
      <4>1. op[w].todo[1] = LastOf(op[w].kind)
        BY <3>1, <3>2, NextStep DEF IInv
      <4>2. Exempt(u) \/ (loaded'[p][u] # None /\ AtBoot(p, u)')
        BY <2>5, <3>1, <3>2, <4>1 DEF Achieves
      <4>3. QED
        BY <1>1, <4>2 DEF Agrees
    <3>3. CASE Disabling(op[w].kind, u)
      <4>1. Steady(w)' /\ op'[w].prefix = p /\ op'[w].kind = op[w].kind
        BY <2>1, <2>5 DEF Effects, Advances, Steady, Busy
      <4>2. ~Due(op'[w].todo, EndOf(u)') /\ ~Due(op'[w].todo, <<"remove", u>>)
        <5>1. Len(op'[w].todo) = 0
          BY <2>5, EmptySeq
        <5>2. QED
          BY <5>1 DEF Due
      <4>3. Over(p, u)' /\ ~AtBoot(p, u)'
        BY <1>1, <3>3, <4>1, <4>2 DEF EndsTakeEffect
      <4>4. QED
        BY <4>3 DEF Over, Agrees
    <3>4. QED
      BY <2>2, <2>5, <3>2, <3>3, KindsOfUnits
  <2>6. QED
    BY <2>3, <2>4, <2>5
<1>3. QED
  BY <1>1, <1>2 DEF CleanAgrees
-----------------------------------------------------------------------------
\* auto and schedule: what the steps leave undone.
LEMMA UnwrittenTail ==
  ASSUME NEW t \in Seq(Verbs \X Items), t # <<>>, NEW f
  PROVE  ~Unwritten(Tail(t), f) =>
           ~Unwritten(t, f) \/ t[1] \in {<<"write", f>>, <<"write", "backup">>, <<"create", "backup">>}
BY DueTail DEF Unwritten

\* Nothing is left of an operation without steps.
LEMMA NothingDue ==
  ASSUME NEW x PROVE ~Due(<<>>, x)
<1>1. Len(<<>>) = 0
  BY EmptySeq
<1>2. QED
  BY <1>1 DEF Due

\* What is common to the steps of an operation that enables the timer.
EnablingStep(w, p) ==
  /\ IInv /\ Effects(w) /\ w \in Writers /\ p \in Prefixes /\ op[w].busy /\ op[w].todo # <<>>
  /\ op[w].prefix = p /\ op[w].kind \in {"auto", "schedule"} /\ op[w].ok /\ op[w].alone
  /\ op'[w].ok /\ op'[w].todo = Tail(op[w].todo)

LEMMA EnablingStepFacts ==
  ASSUME NEW w, NEW p, EnablingStep(w, p)
  PROVE  /\ EnablingOf(w, p) /\ platform' = platform /\ platform \in Platforms /\ Achieves(w)
         /\ op[w].todo \in Seq(Verbs \X Items) /\ op[w].kind \in Kinds /\ op[w].kind \in Enabling
         /\ op[w].todo[1] \in Allowed(op[w].kind)
         /\ op[w].todo[1] = LastOf(op[w].kind) <=> op'[w].todo = <<>>
         /\ LastOf(op[w].kind) = <<IF platform = "tasks" THEN "create" ELSE "enable", "backup">>
         /\ op'[w].known = op[w].known /\ op'[w].cmd = op[w].cmd /\ op'[w].hours = op[w].hours
         /\ op'[w].kind = op[w].kind
         /\ op[w].cmd \in Commands /\ op[w].hours \in Hours
         /\ \A f : ~Unwritten(op'[w].todo, f) =>
              \/ ~Unwritten(op[w].todo, f)
              \/ op[w].todo[1] \in {<<"write", f>>, <<"write", "backup">>, <<"create", "backup">>}
         /\ ~Due(op'[w].todo, <<"save", "hours">>) =>
              ~Due(op[w].todo, <<"save", "hours">>) \/ op[w].todo[1] = <<"save", "hours">>
<1> USE DEF EnablingStep
<1>1. EnablingOf(w, p)
  BY DEF IInv, EnablingTakesEffect, Steady, Busy
<1>2. Typed /\ platform \in Platforms /\ platform' = platform /\ Achieves(w)
  BY DEF IInv, Typed, WorldTyped, Effects
<1>3. op[w].kind \in Enabling /\ UnitOf(op[w].kind) = "backup"
  BY DEF Enabling, UnitOf
<1>4. LastOf(op[w].kind) = <<IF platform = "tasks" THEN "create" ELSE "enable", "backup">>
  BY <1>3 DEF LastOf
<1>5. /\ op[w].todo \in Seq(Verbs \X Items) /\ op[w].kind \in Kinds
      /\ op[w].todo[1] \in Allowed(op[w].kind)
      /\ op[w].todo[1] = LastOf(op[w].kind) <=> op'[w].todo = <<>>
      /\ op[w].cmd \in Commands /\ op[w].hours \in Hours
  BY <1>2, <1>3, NextStep
<1>6. /\ op'[w].known = op[w].known /\ op'[w].cmd = op[w].cmd /\ op'[w].hours = op[w].hours
      /\ op'[w].kind = op[w].kind
  BY DEF Effects, Advances
<1>7. \A f : ~Unwritten(op'[w].todo, f) =>
        \/ ~Unwritten(op[w].todo, f)
        \/ op[w].todo[1] \in {<<"write", f>>, <<"write", "backup">>, <<"create", "backup">>}
  BY <1>5, UnwrittenTail
<1>8. ~Due(op'[w].todo, <<"save", "hours">>) =>
        ~Due(op[w].todo, <<"save", "hours">>) \/ op[w].todo[1] = <<"save", "hours">>
  BY <1>5, DueTail
<1>9. QED
  BY <1>1, <1>2, <1>3, <1>4, <1>5, <1>6, <1>7, <1>8

\* The actions that a step of auto or schedule can be, one by one.
LEMMA EnablingByWrite ==
  ASSUME NEW w, NEW p, EnablingStep(w, p), Write(w)
  PROVE  EnablingOf(w, p)'
<1>1. PICK s, o : s = op[w].todo[1] /\ o = op[w]
  OBVIOUS
<1>2. /\ EnablingOf(w, p) /\ platform' = platform
      /\ op'[w].known = o.known /\ op'[w].cmd = o.cmd /\ op'[w].hours = o.hours /\ op'[w].kind = o.kind
      /\ \A f : ~Unwritten(op'[w].todo, f) =>
           ~Unwritten(o.todo, f) \/ s \in {<<"write", f>>, <<"write", "backup">>, <<"create", "backup">>}
      /\ ~Due(op'[w].todo, <<"save", "hours">>) => ~Due(o.todo, <<"save", "hours">>) \/ s = <<"save", "hours">>
  BY <1>1, EnablingStepFacts
<1>3. /\ s[1] = "write" /\ UNCHANGED <<settings, loaded>>
      /\ disk' = Written(p, s[2], o)
  BY <1>1, GiveUpEffect DEF Write, Doing, Next1, Item, Prefix, EnablingStep, IInv
<1>4. s[2] \in {"service", "timer", "backup"} /\ s = <<"write", s[2]>>
  BY <1>1, <1>3, EnablingStepFacts, StepOfVerb DEF EnablingStep
<1>5. op'[w].todo # <<>> /\ o.todo # <<>>
  <2>1. /\ s = LastOf(o.kind) <=> op'[w].todo = <<>>
        /\ LastOf(o.kind) = <<IF platform = "tasks" THEN "create" ELSE "enable", "backup">>
    BY <1>1, EnablingStepFacts
  <2>2. LastOf(o.kind)[1] \in {"create", "enable"}
    BY <2>1
  <2>3. QED
    BY <1>1, <1>3, <2>1, <2>2 DEF EnablingStep
<1>6. /\ disk'[p].service = IF s[2] \in {"service", "backup"} THEN o.cmd ELSE disk[p].service
      /\ disk'[p].timer = IF s[2] \in {"timer", "backup"} THEN o.hours ELSE disk[p].timer
  <2>1. WorldTyped /\ p \in Prefixes /\ o.cmd \in Commands /\ o.hours \in Hours /\ o.port \in Ports
    BY <1>1, NextStep DEF EnablingStep, IInv, Typed
  <2>2. QED
    BY <1>3, <2>1, WrittenIs
<1>7. ~Unwritten(op'[w].todo, "service") => disk'[p].service = o.cmd
  BY <1>1, <1>2, <1>4, <1>6 DEF EnablingOf
<1>8. ~Unwritten(op'[w].todo, "timer") => disk'[p].timer = o.hours
  BY <1>1, <1>2, <1>4, <1>6 DEF EnablingOf
<1>9. s # <<"save", "hours">>
  BY <1>3
<1>10. QED
  BY <1>1, <1>2, <1>3, <1>5, <1>7, <1>8, <1>9 DEF EnablingOf

LEMMA EnablingByReload ==
  ASSUME NEW w, NEW p, EnablingStep(w, p), Reload(w)
  PROVE  EnablingOf(w, p)'
<1>1. PICK s, o : s = op[w].todo[1] /\ o = op[w]
  OBVIOUS
<1>2. /\ EnablingOf(w, p) /\ platform' = platform
      /\ op'[w].known = o.known /\ op'[w].cmd = o.cmd /\ op'[w].hours = o.hours /\ op'[w].kind = o.kind
      /\ \A f : ~Unwritten(op'[w].todo, f) =>
           ~Unwritten(o.todo, f) \/ s \in {<<"write", f>>, <<"write", "backup">>, <<"create", "backup">>}
      /\ ~Due(op'[w].todo, <<"save", "hours">>) => ~Due(o.todo, <<"save", "hours">>) \/ s = <<"save", "hours">>
  BY <1>1, EnablingStepFacts
<1>3. s[1] = "reload" /\ UNCHANGED <<settings, disk>> /\ (loaded[p].backup = None => loaded'[p].backup = None)
  BY <1>1, ReloadEffect DEF Reload, Doing, Next1, EnablingStep, IInv
<1>4. op'[w].todo # <<>> /\ o.todo # <<>>
  <2>1. /\ s = LastOf(o.kind) <=> op'[w].todo = <<>>
        /\ LastOf(o.kind) = <<IF platform = "tasks" THEN "create" ELSE "enable", "backup">>
    BY <1>1, EnablingStepFacts
  <2>2. LastOf(o.kind)[1] \in {"create", "enable"}
    BY <2>1
  <2>3. QED
    BY <1>1, <1>3, <2>1, <2>2 DEF EnablingStep
<1>5. s # <<"save", "hours">> /\ \A f : s \notin {<<"write", f>>, <<"write", "backup">>, <<"create", "backup">>}
  BY <1>3
<1>6. QED
  BY <1>1, <1>2, <1>3, <1>4, <1>5 DEF EnablingOf

LEMMA EnablingBySave ==
  ASSUME NEW w, NEW p, EnablingStep(w, p), Save(w)
  PROVE  EnablingOf(w, p)'
<1>1. PICK s, o : s = op[w].todo[1] /\ o = op[w]
  OBVIOUS
<1>2. /\ EnablingOf(w, p) /\ platform' = platform
      /\ op'[w].known = o.known /\ op'[w].cmd = o.cmd /\ op'[w].hours = o.hours /\ op'[w].kind = o.kind
      /\ \A f : ~Unwritten(op'[w].todo, f) =>
           ~Unwritten(o.todo, f) \/ s \in {<<"write", f>>, <<"write", "backup">>, <<"create", "backup">>}
  BY <1>1, EnablingStepFacts
<1>3. s[1] = "save" /\ UNCHANGED <<disk, loaded>>
  BY <1>1 DEF Save, Doing, Next1
<1>4. settings' = [settings EXCEPT !.hours = o.hours]
  <2>1. Typed /\ w \in Writers /\ op[w].busy /\ op[w].todo # <<>>
    BY DEF EnablingStep, IInv
  <2>2. op' # GoOn(w, op, FALSE)
    BY <2>1, GoOnEffect DEF EnablingStep
  <2>3. QED
    BY <1>1, <2>2 DEF Save
<1>5. settings'.hours = o.hours
  BY <1>4 DEF EnablingStep, IInv, Typed, WorldTyped
<1>6. op'[w].todo # <<>> /\ o.todo # <<>>
  <2>1. /\ s = LastOf(o.kind) <=> op'[w].todo = <<>>
        /\ LastOf(o.kind) = <<IF platform = "tasks" THEN "create" ELSE "enable", "backup">>
    BY <1>1, EnablingStepFacts
  <2>2. LastOf(o.kind)[1] \in {"create", "enable"}
    BY <2>1
  <2>3. QED
    BY <1>1, <1>3, <2>1, <2>2 DEF EnablingStep
<1>7. \A f : s \notin {<<"write", f>>, <<"write", "backup">>, <<"create", "backup">>}
  BY <1>3
<1>8. QED
  BY <1>1, <1>2, <1>3, <1>5, <1>6, <1>7 DEF EnablingOf

LEMMA EnablingByEnable ==
  ASSUME NEW w, NEW p, EnablingStep(w, p), Enable(w)
  PROVE  EnablingOf(w, p)'
<1>1. PICK s, o : s = op[w].todo[1] /\ o = op[w]
  OBVIOUS
<1>2. /\ EnablingOf(w, p) /\ platform' = platform /\ platform \in Platforms /\ Achieves(w)
      /\ o.kind \in Kinds /\ s \in Allowed(o.kind) /\ o.kind \in Enabling
      /\ op'[w].known = o.known /\ op'[w].cmd = o.cmd /\ op'[w].hours = o.hours /\ op'[w].kind = o.kind
      /\ s = LastOf(o.kind) <=> op'[w].todo = <<>>
      /\ LastOf(o.kind) = <<IF platform = "tasks" THEN "create" ELSE "enable", "backup">>
      /\ \A f : ~Unwritten(op'[w].todo, f) =>
           ~Unwritten(o.todo, f) \/ s \in {<<"write", f>>, <<"write", "backup">>, <<"create", "backup">>}
      /\ ~Due(op'[w].todo, <<"save", "hours">>) => ~Due(o.todo, <<"save", "hours">>) \/ s = <<"save", "hours">>
  BY <1>1, EnablingStepFacts
<1>3. s[1] = "enable" /\ UNCHANGED <<settings, disk>>
  BY <1>1 DEF Enable, Doing, Next1
<1>4. platform # "tasks" /\ s = LastOf(o.kind) /\ s = <<"enable", "backup">> /\ op'[w].todo = <<>>
  BY <1>2, <1>3, StepOfVerb
<1>5. \A f : ~Unwritten(op'[w].todo, f) /\ ~Due(op'[w].todo, <<"save", "hours">>)
  BY <1>4, NothingDue DEF Unwritten
<1>6. \A f : s \notin {<<"write", f>>, <<"write", "backup">>, <<"create", "backup">>}
  BY <1>4
<1>7. disk[p].service = o.cmd /\ disk[p].timer = o.hours /\ (o.kind = "schedule" => settings.hours = o.hours)
  BY <1>1, <1>2, <1>4, <1>5, <1>6 DEF EnablingOf
<1>8. /\ p = op[w].prefix /\ p \in Prefixes /\ o.todo # <<>> /\ w \in Writers /\ Typed /\ op[w].busy
      /\ p = Prefix(w) /\ Item(w) = "backup" /\ op'[w].ok
      /\ o.cmd \in Commands /\ o.hours \in Hours
  BY <1>1, <1>4, EnablingStepFacts DEF EnablingStep, IInv, Prefix, Item, Next1
<1>9. loaded' = [loaded EXCEPT ![p]["backup"] = Started(p, "backup")]
  <2>1. op' # GiveUp(w, op)
    BY <1>8, GiveUpEffect
  <2>2. QED
    BY <1>8, <2>1 DEF Enable
<1>10. loaded'[p].backup = Started(p, "backup")
  BY <1>8, <1>9 DEF Typed, WorldTyped, Loads
<1>11. OnDisk(p, "backup") = [cmd |-> o.cmd, hours |-> o.hours]
  BY <1>7, <1>8, BootNow, SchedulerAssumption DEF Typed
<1>12. Told(w, p)'
  <2>1. CASE platform = "launchd" /\ o.known.backup # None
    BY <1>2, <2>1 DEF Told
  <2>2. CASE ~(platform = "launchd" /\ o.known.backup # None)
    <3>1. platform = "launchd" => loaded[p].backup = None
      BY <1>1, <1>2, <1>8, <2>2 DEF EnablingOf
    <3>2. Started(p, "backup") = OnDisk(p, "backup")
      BY <3>1 DEF Started
    <3>3. QED
      BY <1>2, <1>10, <1>11, <3>2 DEF Told
  <2>3. QED
    BY <2>1, <2>2
<1>13. AtBoot(p, "backup")'
  <2>1. "backup" \in Units /\ "backup" = UnitOf(o.kind) /\ ~Exempt("backup")
    BY <1>2 DEF Units, LastOf, Exempt
  <2>2. QED
    BY <1>1, <1>2, <1>4, <1>8, <2>1 DEF Achieves
<1>14. QED
  BY <1>2, <1>3, <1>4, <1>7, <1>12, <1>13 DEF EnablingOf

LEMMA EnablingByCreate ==
  ASSUME NEW w, NEW p, EnablingStep(w, p), Create(w)
  PROVE  EnablingOf(w, p)'
<1>1. PICK s, o : s = op[w].todo[1] /\ o = op[w]
  OBVIOUS
<1>2. /\ EnablingOf(w, p) /\ platform' = platform /\ Achieves(w)
      /\ o.kind \in Kinds /\ s \in Allowed(o.kind) /\ o.kind \in Enabling
      /\ op'[w].known = o.known /\ op'[w].cmd = o.cmd /\ op'[w].hours = o.hours /\ op'[w].kind = o.kind
      /\ s = LastOf(o.kind) <=> op'[w].todo = <<>>
      /\ LastOf(o.kind) = <<IF platform = "tasks" THEN "create" ELSE "enable", "backup">>
      /\ ~Due(op'[w].todo, <<"save", "hours">>) => ~Due(o.todo, <<"save", "hours">>) \/ s = <<"save", "hours">>
  BY <1>1, EnablingStepFacts
<1>3. s[1] = "create" /\ UNCHANGED <<settings, enabled>>
  BY <1>1 DEF Create, Doing, Next1
<1>4. platform = "tasks" /\ s = LastOf(o.kind) /\ s = <<"create", "backup">> /\ op'[w].todo = <<>>
  BY <1>2, <1>3, StepOfVerb
<1>5. o.kind = "schedule" => settings.hours = o.hours
  <2>1. ~Due(op'[w].todo, <<"save", "hours">>)
    BY <1>4, NothingDue
  <2>2. QED
    BY <1>1, <1>2, <1>4, <2>1 DEF EnablingOf
<1>6. /\ p = op[w].prefix /\ p \in Prefixes /\ o.todo # <<>> /\ w \in Writers /\ Typed /\ op[w].busy
      /\ p = Prefix(w) /\ Item(w) = "backup" /\ op'[w].ok
      /\ o.cmd \in Commands /\ o.hours \in Hours /\ o.port \in Ports
  BY <1>1, <1>4, NextStep DEF EnablingStep, IInv, Prefix, Item, Next1
<1>7. disk' = Written(p, "backup", o) /\ loaded' = [loaded EXCEPT ![p].backup = [cmd |-> o.cmd, hours |-> o.hours]]
  <2>1. op' # GiveUp(w, op)
    BY <1>6, GiveUpEffect
  <2>2. QED
    BY <1>1, <1>6, <2>1 DEF Create
<1>8. disk'[p].service = o.cmd /\ disk'[p].timer = o.hours
  BY <1>6, <1>7, WrittenIs DEF Typed
<1>9. loaded'[p].backup = [cmd |-> o.cmd, hours |-> o.hours]
  BY <1>6, <1>7 DEF Typed, WorldTyped, Loads
<1>10. AtBoot(p, "backup")'
  <2>1. "backup" \in Units /\ "backup" = UnitOf(o.kind) /\ ~Exempt("backup")
    BY <1>2 DEF Units, LastOf, Exempt
  <2>2. QED
    BY <1>1, <1>2, <1>4, <1>6, <2>1 DEF Achieves
<1>11. QED
  BY <1>2, <1>3, <1>4, <1>5, <1>8, <1>9, <1>10 DEF EnablingOf, Told

\* What is behind auto and schedule has had its effect.
LEMMA EnablingKept ==
  ASSUME IInv, NEW w \in Writers, op[w].busy, op[w].todo # <<>>, Effects(w),
         \/ Write(w) \/ Reload(w) \/ Enable(w) \/ Create(w) \/ Disable(w) \/ Delete(w)
         \/ Remove(w) \/ Save(w) \/ Uninstall(w)
  PROVE  EnablingTakesEffect'
<1>1. ASSUME NEW x \in Writers, NEW p \in Prefixes,
             Steady(x)', op'[x].prefix = p, op'[x].kind \in {"auto", "schedule"}
      PROVE  EnablingOf(x, p)'
  <2>1. op[x].busy /\ op[x].alone /\ op'[x].ok
    BY <1>1 DEF Effects, Advances, Steady, Busy
  <2>2. x = w
    BY <2>1 DEF IInv, AloneIsAlone, Busy
  <2>3. EnablingStep(w, p)
    BY <1>1, <2>1, <2>2 DEF EnablingStep, Effects, Advances
  <2>4. op[w].todo[1][1] \notin {"disable", "delete", "remove", "uninstall"}
    <3>1. op[w].kind \in {"auto", "schedule"} /\ op[w].kind \in Kinds /\ op[w].todo[1] \in Allowed(op[w].kind)
      BY <2>3, EnablingStepFacts DEF EnablingStep
    <3>2. \A u : ~Disabling(op[w].kind, u)
      BY <3>1 DEF Disabling
    <3>3. QED
      BY <3>1, <3>2, StepOfVerb
  <2>5. ~Disable(w) /\ ~Delete(w) /\ ~Remove(w) /\ ~Uninstall(w)
    BY <2>4 DEF Disable, Delete, Remove, Uninstall, Doing, Next1
  <2>6. QED
    BY <2>2, <2>3, <2>5, EnablingByWrite, EnablingByReload, EnablingByEnable, EnablingByCreate, EnablingBySave
<1>2. QED
  BY <1>1 DEF EnablingTakesEffect
-----------------------------------------------------------------------------
\* Every step of a writer but its return keeps the invariant.
LEMMA StepKeeps ==
  ASSUME IInv, NEW w \in Writers,
         \/ Write(w) \/ Reload(w) \/ Enable(w) \/ Create(w) \/ Disable(w) \/ Delete(w)
         \/ Remove(w) \/ Save(w) \/ Uninstall(w)
  PROVE  IInv'
<1>1. op[w].busy /\ op[w].todo # <<>>
  BY DEF Write, Reload, Enable, Create, Disable, Delete, Remove, Save, Uninstall, Doing, Busy
<1>2. Typed
  BY DEF IInv
<1>3. Effects(w)
  BY <1>2, WriteEffect, ReloadEffect, EnableEffect, CreateEffect, DisableEffect, DeleteEffect,
     RemoveEffect, SaveEffect, UninstallEffect
<1>4. Typed'
  BY <1>1, <1>2, <1>3, EffectsKeepTyped
<1>5. AloneIsAlone' /\ CleanIsAlone' /\ NoneEnables'
  BY <1>3, EffectsKeepHistory
<1>6. StoppedStaysStopped'
  BY <1>1, <1>3, EffectsKeepStopped
<1>7. EndsTakeEffect'
  BY <1>1, <1>3, EffectsKeepEnds
<1>8. EnablingTakesEffect'
  BY <1>1, <1>3, EnablingKept
<1>9. CleanAgrees'
  BY <1>1, <1>3, <1>7, EffectsKeepAgrees
<1>10. QED
  BY <1>4, <1>5, <1>6, <1>7, <1>8, <1>9 DEF IInv

\* A writer without an operation.
LEMMA IdleTyped ==
  /\ IdleOp \in Operations /\ Shaped(IdleOp) /\ ~IdleOp.busy /\ NoUnits \in Loads
<1>1. NoUnits \in Loads
  BY DEF NoUnits, Loads
<1>2. <<>> \in Seq(Verbs \X Items) /\ <<>> \in Seq(Allowed("stop")) /\ Len(<<>>) = 0
  BY EmptySeq
<1>3. IdleOp \in Operations
  BY <1>1, <1>2 DEF IdleOp, Operations, Kinds, Commands
<1>4. IdleOp.kind = "stop" /\ IdleOp.todo = <<>> /\ ~IdleOp.busy
  BY DEF IdleOp
<1>5. Shaped(IdleOp)
  BY <1>2, <1>4 DEF Shaped, Enabling
<1>6. QED
  BY <1>1, <1>3, <1>4, <1>5

\* Nothing of the world changes, and operations end at most.
LEMMA EndingKeeps ==
  ASSUME IInv, NEW S \in SUBSET Writers, UNCHANGED <<platform, ops>>, WorldTyped',
         op' = [w \in Writers |-> IF w \in S THEN IdleOp ELSE op[w]],
         clean' => clean
  PROVE  /\ Typed' /\ AloneIsAlone' /\ CleanIsAlone'
         /\ stopped' \subseteq stopped => NoneEnables'
         /\ UNCHANGED <<disk, enabled, loaded>> => EndsTakeEffect'
         /\ UNCHANGED <<disk, enabled, loaded>> /\ settings'.hours = settings.hours => EnablingTakesEffect'
<1>1. /\ op \in [Writers -> Operations] /\ IdleOp \in Operations /\ ~IdleOp.busy
      /\ \A w \in Writers : Shaped(op[w])
  BY IdleTyped DEF IInv, Typed
<1>2. op' \in [Writers -> Operations] /\ \A w \in Writers : op'[w].busy => w \notin S /\ op'[w] = op[w]
  BY <1>1
<1>3. ASSUME NEW w \in Writers, NEW o \in Operations, op'[w] = o PROVE Shaped(o)'
  <2>1. Shaped(o)
    BY <1>1, <1>3, IdleTyped
  <2>2. QED
    BY <2>1, SamePlatform
<1>4. Operations' = Operations
  BY DEF Operations
<1>5. Typed'
  BY <1>2, <1>3, <1>4 DEF Typed
<1>6. AloneIsAlone' /\ CleanIsAlone' /\ (stopped' \subseteq stopped => NoneEnables')
  BY <1>2 DEF IInv, AloneIsAlone, CleanIsAlone, NoneEnables, Busy
<1>7. ASSUME NEW w \in Writers, Steady(w)' PROVE Steady(w) /\ op'[w] = op[w]
  BY <1>2, <1>7 DEF Steady, Busy
<1>8. ASSUME UNCHANGED <<disk, enabled, loaded>> PROVE EndsTakeEffect'
  <2>1. ASSUME NEW p \in Prefixes, NEW u \in Units
        PROVE  /\ Over(p, u)' <=> Over(p, u)
               /\ AtBoot(p, u)' <=> AtBoot(p, u)
               /\ EndOf(u)' = EndOf(u)
    BY <1>8 DEF Over, Exempt, AtBoot, OnDisk, EndOf
  <2>2. ASSUME NEW w \in Writers, NEW p \in Prefixes, NEW u \in Units,
               Steady(w)', op'[w].prefix = p, Disabling(op'[w].kind, u)
        PROVE  /\ ~Due(op'[w].todo, EndOf(u)') => Over(p, u)' /\ (platform' # "launchd" => ~AtBoot(p, u)')
               /\ platform' = "launchd" /\ ~Due(op'[w].todo, <<"remove", u>>) => ~AtBoot(p, u)'
    BY <1>7, <2>1, <2>2 DEF IInv, EndsTakeEffect
  <2>3. QED
    BY <2>2 DEF EndsTakeEffect
<1>9. ASSUME UNCHANGED <<disk, enabled, loaded>>, settings'.hours = settings.hours PROVE EnablingTakesEffect'
  <2>1. ASSUME NEW w \in Writers, NEW p \in Prefixes,
               Steady(w)', op'[w].prefix = p, op'[w].kind \in {"auto", "schedule"}
        PROVE  EnablingOf(w, p)'
    <3>1. EnablingOf(w, p) /\ op'[w] = op[w]
      BY <1>7, <2>1 DEF IInv, EnablingTakesEffect
    <3>2. AtBoot(p, "backup")' <=> AtBoot(p, "backup")
      BY <1>9 DEF AtBoot, OnDisk
    <3>3. QED
      BY <1>9, <3>1, <3>2 DEF EnablingOf, Told
  <2>2. QED
    BY <2>1 DEF EnablingTakesEffect
<1>10. QED
  BY <1>5, <1>6, <1>8, <1>9

\* The return of stop or uninstall puts its prefix on the list.
LEMMA ReturnKeeps ==
  ASSUME IInv, NEW w \in Writers, Return(w)
  PROVE  IInv'
<1>1. /\ op[w].busy /\ op[w].todo = <<>> /\ op' = [op EXCEPT ![w] = IdleOp]
      /\ stopped' = IF op[w].kind \in {"stop", "uninstall"} /\ op[w].ok /\ op[w].alone
                    THEN stopped \cup {op[w].prefix} ELSE stopped
      /\ clean' = (clean /\ op[w].ok)
      /\ UNCHANGED <<platform, settings, disk, enabled, loaded, installed, ops>>
  BY DEF Return, Finished, Busy, Prefix
<1>2. PICK p : p = op[w].prefix
  OBVIOUS
<1>3. op \in [Writers -> Operations] /\ WorldTyped /\ p \in Prefixes /\ op[w].ok \in BOOLEAN
  BY <1>1, <1>2 DEF IInv, Typed, Shaped, Operations
<1>4. WorldTyped'
  BY <1>1, <1>2, <1>3 DEF WorldTyped
<1>5. op' = [x \in Writers |-> IF x \in {w} THEN IdleOp ELSE op[x]]
  BY <1>1, <1>3
<1>6. /\ Typed' /\ AloneIsAlone' /\ CleanIsAlone' /\ EndsTakeEffect' /\ EnablingTakesEffect'
      /\ stopped' \subseteq stopped => NoneEnables'
  BY <1>1, <1>4, <1>5, EndingKeeps
<1>7. ASSUME NEW q \in Prefixes, NEW u \in Units
      PROVE  /\ AtBoot(q, u)' <=> AtBoot(q, u)
             /\ Agrees(q, u)' <=> Agrees(q, u)
  BY <1>1 DEF AtBoot, OnDisk, Agrees, Exempt
<1>8. StoppedStaysStopped' /\ NoneEnables'
  <2>1. CASE op[w].kind \in {"stop", "uninstall"} /\ op[w].ok /\ op[w].alone
    <3>1. stopped' = stopped \cup {p}
      BY <1>1, <1>2, <2>1
    <3>2. \A x \in Writers : ~op'[x].busy
      BY <1>1, <1>3, <2>1, IdleTyped DEF IInv, AloneIsAlone, Busy
    <3>3. NoneEnables'
      BY <3>2 DEF NoneEnables, Busy
    <3>4. ASSUME NEW u \in Units PROVE Over(p, u) /\ ~AtBoot(p, u)
      <4>1. Steady(w) /\ Disabling(op[w].kind, u)
        BY <1>1, <2>1 DEF Steady, Busy, Disabling
      <4>2. ~Due(op[w].todo, EndOf(u)) /\ ~Due(op[w].todo, <<"remove", u>>)
        BY <1>1, NothingDue
      <4>3. QED
        BY <1>2, <1>3, <4>1, <4>2 DEF IInv, EndsTakeEffect
    <3>5. ASSUME NEW q \in stopped', NEW u \in Units
          PROVE  ~AtBoot(q, u)' /\ ((platform' = "tasks" /\ u = "serve") \/ loaded'[q][u] = None)
      <4>1. CASE q = p
        BY <1>1, <1>3, <1>7, <3>4, <4>1 DEF Over, Exempt
      <4>2. CASE q \in stopped
        BY <1>1, <1>3, <1>7, <4>2 DEF IInv, StoppedStaysStopped, WorldTyped
      <4>3. QED
        BY <3>1, <3>5, <4>1, <4>2
    <3>6. QED
      BY <3>3, <3>5 DEF StoppedStaysStopped
  <2>2. CASE ~(op[w].kind \in {"stop", "uninstall"} /\ op[w].ok /\ op[w].alone)
    <3>1. stopped' = stopped
      BY <1>1, <2>2
    <3>2. ASSUME NEW q \in stopped, NEW u \in Units
          PROVE  ~AtBoot(q, u)' /\ ((platform' = "tasks" /\ u = "serve") \/ loaded'[q][u] = None)
      BY <1>1, <1>3, <1>7 DEF IInv, StoppedStaysStopped, WorldTyped
    <3>3. QED
      BY <1>6, <3>1, <3>2 DEF StoppedStaysStopped
  <2>3. QED
    BY <2>1, <2>2
<1>9. CleanAgrees'
  <2>1. ASSUME clean, op[w].ok, NEW q \in Prefixes, NEW u \in Units PROVE Agrees(q, u)'
    <3>1. \A x \in Writers : op[x].busy => x = w
      BY <1>1, <2>1 DEF IInv, CleanIsAlone, AloneIsAlone, Busy
    <3>2. Agrees(q, u)
      BY <1>1, <2>1, <3>1 DEF IInv, CleanAgrees, UnderWay, Busy
    <3>3. QED
      BY <1>7, <3>2
  <2>2. QED
    BY <1>1, <2>1 DEF CleanAgrees
<1>10. QED
  BY <1>6, <1>8, <1>9 DEF IInv

\* The end of a process ends cleanliness, and nothing else is claimed.
LEMMA KillKeeps ==
  ASSUME IInv, NEW w \in Writers, Kill(w)
  PROVE  IInv'
<1>1. /\ op' = [op EXCEPT ![w] = IdleOp] /\ clean' = FALSE
      /\ UNCHANGED <<platform, settings, disk, enabled, loaded, installed, ops, stopped>>
  BY DEF Kill
<1>2. op \in [Writers -> Operations] /\ WorldTyped
  BY DEF IInv, Typed
<1>3. WorldTyped'
  BY <1>1, <1>2 DEF WorldTyped
<1>4. op' = [x \in Writers |-> IF x \in {w} THEN IdleOp ELSE op[x]]
  BY <1>1, <1>2
<1>5. Typed' /\ AloneIsAlone' /\ CleanIsAlone' /\ EndsTakeEffect' /\ EnablingTakesEffect' /\ NoneEnables'
  BY <1>1, <1>3, <1>4, EndingKeeps
<1>6. StoppedStaysStopped'
  BY <1>1 DEF IInv, StoppedStaysStopped, AtBoot, OnDisk
<1>7. CleanAgrees'
  BY <1>1 DEF CleanAgrees
<1>8. QED
  BY <1>5, <1>6, <1>7 DEF IInv

\* Operations go on with the prefix they began with.
LEMMA SetPrefixKeeps ==
  ASSUME IInv, NEW r \in Prefixes, SetPrefix(r)
  PROVE  IInv'
<1>1. /\ settings' = [settings EXCEPT !.prefix = r]
      /\ UNCHANGED <<platform, disk, enabled, loaded, installed, op, ops, stopped, clean>>
  BY DEF SetPrefix
<1>2. op \in [Writers -> Operations] /\ WorldTyped
  BY DEF IInv, Typed
<1>3. settings' \in [prefix : Prefixes, hours : Hours \cup {None}] /\ settings'.hours = settings.hours
  BY <1>1, <1>2 DEF WorldTyped
<1>4. WorldTyped'
  BY <1>1, <1>2, <1>3 DEF WorldTyped
<1>5. PICK S \in SUBSET Writers : S = {}
  OBVIOUS
<1>6. op' = [x \in Writers |-> IF x \in S THEN IdleOp ELSE op[x]] /\ (clean' => clean) /\ stopped' \subseteq stopped
  BY <1>1, <1>2, <1>5
<1>7. Typed' /\ AloneIsAlone' /\ CleanIsAlone' /\ EndsTakeEffect' /\ EnablingTakesEffect' /\ NoneEnables'
  BY <1>1, <1>3, <1>4, <1>6, EndingKeeps
<1>8. StoppedStaysStopped'
  BY <1>1 DEF IInv, StoppedStaysStopped, AtBoot, OnDisk
<1>9. CleanAgrees'
  BY <1>1 DEF IInv, CleanAgrees, Agrees, UnderWay, Exempt, AtBoot, OnDisk, Busy
<1>10. QED
  BY <1>7, <1>8, <1>9 DEF IInv

\* After a boot there are no operations, and what runs is what a boot starts.
LEMMA RebootKeeps ==
  ASSUME IInv, Reboot
  PROVE  IInv'
<1>1. /\ loaded' = [p \in Prefixes |-> [u \in Units |-> IF AtBoot(p, u) THEN OnDisk(p, u) ELSE None]]
      /\ op' = [w \in Writers |-> IdleOp]
      /\ clean' = (clean /\ Quiet)
      /\ UNCHANGED <<platform, settings, disk, enabled, installed, ops, stopped>>
  BY DEF Reboot
<1>2. WorldTyped
  BY DEF IInv, Typed
<1>3. ASSUME NEW p \in Prefixes PROVE loaded'[p] \in Loads
  <2>1. OnDisk(p, "serve") \in Ports \cup {None} /\ OnDisk(p, "backup") \in Backups \cup {None}
    BY <1>2, BootNow
  <2>2. loaded'[p] = [u \in Units |-> IF AtBoot(p, u) THEN OnDisk(p, u) ELSE None]
    BY <1>1
  <2>3. PICK b, s : /\ b = IF AtBoot(p, "backup") THEN OnDisk(p, "backup") ELSE None
                    /\ s = IF AtBoot(p, "serve") THEN OnDisk(p, "serve") ELSE None
    OBVIOUS
  <2>4. loaded'[p] = [backup |-> b, serve |-> s]
    <3>1. \A u \in Units : (IF AtBoot(p, u) THEN OnDisk(p, u) ELSE None) = IF u = "backup" THEN b ELSE s
      BY <2>3 DEF Units
    <3>2. loaded'[p] = [u \in Units |-> IF u = "backup" THEN b ELSE s]
      BY <2>2, <3>1
    <3>3. QED
      BY <3>2 DEF Units
  <2>5. QED
    BY <2>1, <2>3, <2>4 DEF Loads
<1>4. loaded' \in [Prefixes -> Loads]
  BY <1>1, <1>3
<1>5. WorldTyped'
  BY <1>1, <1>2, <1>4 DEF WorldTyped, Quiet, Busy
<1>6. op' = [x \in Writers |-> IF x \in Writers THEN IdleOp ELSE op[x]]
  BY <1>1
<1>7. Typed' /\ AloneIsAlone' /\ CleanIsAlone' /\ NoneEnables'
  BY <1>1, <1>5, <1>6, EndingKeeps
<1>8. \A w \in Writers : ~op'[w].busy
  BY <1>1, IdleTyped
<1>9. EndsTakeEffect' /\ EnablingTakesEffect'
  BY <1>8 DEF EndsTakeEffect, EnablingTakesEffect, Steady, Busy
<1>10. ASSUME NEW p \in Prefixes, NEW u \in Units
       PROVE  /\ AtBoot(p, u)' <=> AtBoot(p, u)
              /\ loaded'[p][u] # None <=> AtBoot(p, u)
  <2>1. AtBoot(p, u)' <=> AtBoot(p, u)
    BY <1>1 DEF AtBoot, OnDisk
  <2>2. loaded'[p][u] = IF AtBoot(p, u) THEN OnDisk(p, u) ELSE None
    BY <1>1
  <2>3. AtBoot(p, u) => OnDisk(p, u) # None
    BY DEF AtBoot
  <2>4. QED
    BY <2>1, <2>2, <2>3
<1>11. StoppedStaysStopped'
  <2>1. ASSUME NEW p \in stopped, NEW u \in Units PROVE ~AtBoot(p, u)' /\ loaded'[p][u] = None
    <3>1. p \in Prefixes /\ ~AtBoot(p, u)
      BY <1>2 DEF IInv, StoppedStaysStopped, WorldTyped
    <3>2. QED
      BY <1>10, <3>1
  <2>2. QED
    BY <1>1, <2>1 DEF StoppedStaysStopped
<1>12. CleanAgrees'
  BY <1>10 DEF CleanAgrees, Agrees
<1>13. QED
  BY <1>7, <1>9, <1>11, <1>12 DEF IInv

\* The steps of an operation have the type of steps.
LEMMA AllowedTyped ==
  ASSUME platform \in Platforms, NEW k \in Kinds
  PROVE  Allowed(k) \subseteq Verbs \X Items
<1>1. \A u \in Units : EndOf(u) \in Verbs \X Items
  BY DEF EndOf, Units, Verbs, Items
<1>2. LastOf(k) \in Verbs \X Items
  BY DEF LastOf, UnitOf, Verbs, Items
<1>3. EndOf("backup") \in Verbs \X Items /\ EndOf("serve") \in Verbs \X Items
  BY <1>1 DEF Units
<1>4. /\ \A f \in {"service", "timer", "backup", "serve"} : <<"write", f>> \in Verbs \X Items /\ <<"remove", f>> \in Verbs \X Items
      /\ <<"reload", "all">> \in Verbs \X Items /\ <<"save", "hours">> \in Verbs \X Items
      /\ <<"uninstall", "binary">> \in Verbs \X Items /\ <<"uninstall", "data">> \in Verbs \X Items
  BY DEF Verbs, Items
<1>5. PICK e1, e2, l : e1 = EndOf("backup") /\ e2 = EndOf("serve") /\ l = LastOf(k)
  OBVIOUS
<1>6. CASE k = "auto"
  BY <1>2, <1>4, <1>5, <1>6 DEF Allowed
<1>7. CASE k = "schedule"
  BY <1>2, <1>4, <1>5, <1>7 DEF Allowed
<1>8. CASE k = "serve"
  BY <1>2, <1>4, <1>5, <1>8 DEF Allowed
<1>9. CASE k = "unserve"
  BY <1>3, <1>4, <1>5, <1>9 DEF Allowed
<1>10. CASE k = "stop"
  BY <1>3, <1>4, <1>5, <1>10 DEF Allowed
<1>11. CASE k = "uninstall"
  BY <1>3, <1>4, <1>5, <1>11 DEF Allowed
<1>12. QED
  BY <1>6, <1>7, <1>8, <1>9, <1>10, <1>11 DEF Kinds

\* What a range says of a length.
LEMMA RangeOfLen ==
  ASSUME NEW s, Len(s) \in 1 .. 9
  PROVE  Len(s) <= 9 /\ Len(s) # 0
<1>1. PICK n : n = Len(s)
  OBVIOUS
<1>2. n \in 1 .. 9
  BY <1>1
<1>3. n <= 9 /\ n # 0
  BY <1>2
<1>4. QED
  BY <1>1, <1>3

\* The operation that begins, and what becomes of the others.
LEMMA BeginEffect ==
  ASSUME Typed, NEW w \in Writers, NEW kind \in Kinds,
         NEW host \in {"command", "manual"} \cup Prefixes,
         NEW h \in Hours, NEW port \in Ports, NEW save \in BOOLEAN, Begin(w, kind, host, h, port, save)
  PROVE  /\ op' \in [Writers -> Operations] /\ Shaped(op'[w])
         /\ op'[w].busy /\ op'[w].kind = kind /\ op'[w].todo = Steps(kind, save)
         /\ op'[w].prefix = settings.prefix /\ op'[w].hours = h /\ op'[w].ok
         /\ op'[w].alone = Quiet /\ op'[w].known = loaded[settings.prefix]
         /\ \A x \in Writers \ {w} :
              /\ op'[x].busy = op[x].busy /\ op'[x].kind = op[x].kind /\ op'[x].prefix = op[x].prefix
              /\ ~op'[x].alone /\ Shaped(op'[x])
<1>1. /\ platform \in Platforms /\ settings.prefix \in Prefixes /\ loaded[settings.prefix] \in Loads
      /\ op \in [Writers -> Operations] /\ \A x \in Writers : Shaped(op[x])
  BY DEF Typed, WorldTyped
<1>2. PICK s : s = Steps(kind, save)
  OBVIOUS
<1>3. /\ s \in Seq(Allowed(kind)) /\ Len(s) \in 1 .. 9
      /\ kind \in Enabling => \A i \in 1 .. Len(s) : s[i] = LastOf(kind) <=> i = Len(s)
  BY <1>1, <1>2, ShapeSteps
<1>4. s \in Seq(Verbs \X Items)
  BY <1>1, <1>3, AllowedTyped, SeqMonotonic
<1>5. PICK c : c = IF kind = "schedule" THEN "blank" ELSE "gaet"
  OBVIOUS
<1>6. PICK q : q \in BOOLEAN /\ q = Quiet
  BY DEF Quiet
<1>7. PICK g : g = [IdleOp EXCEPT !.kind = kind, !.todo = s, !.busy = TRUE,
                                  !.host = host, !.prefix = settings.prefix, !.hours = h,
                                  !.port = port, !.alone = q, !.cmd = c,
                                  !.known = loaded[settings.prefix]]
  OBVIOUS
<1>8. op' = [x \in Writers |-> IF x = w THEN g ELSE [op[x] EXCEPT !.alone = FALSE]]
  BY <1>2, <1>5, <1>6, <1>7 DEF Begin
<1>9. g = [kind |-> kind, todo |-> s, busy |-> TRUE, host |-> host, dying |-> FALSE,
           prefix |-> settings.prefix, hours |-> h, port |-> port, cmd |-> c,
           ok |-> TRUE, alone |-> q, known |-> loaded[settings.prefix]]
  BY <1>7 DEF IdleOp
<1>10. /\ g.kind = kind /\ g.todo = s /\ g.busy /\ g.prefix = settings.prefix /\ g.hours = h
       /\ g.port = port /\ g.ok /\ g.alone = q /\ g.known = loaded[settings.prefix]
  BY <1>9
<1>11. g \in Operations
  <2>1. c \in Commands
    BY <1>5 DEF Commands
  <2>2. QED
    BY <1>1, <1>4, <1>6, <1>9, <2>1 DEF Operations
<1>12. Shaped(g)
  <2>1. /\ s \in Seq(Allowed(g.kind)) /\ Len(s) <= 9
        /\ g.kind \in Enabling => \A i \in 1 .. Len(s) : s[i] = LastOf(g.kind) <=> i = Len(s)
    <3>1. PICK m : m = g.kind
      OBVIOUS
    <3>2. m = kind
      BY <1>10, <3>1
    <3>3. Len(s) <= 9
      BY <1>3, RangeOfLen
    <3>4. /\ s \in Seq(Allowed(m))
          /\ m \in Enabling => \A i \in 1 .. Len(s) : s[i] = LastOf(m) <=> i = Len(s)
      BY <1>3, <3>2
    <3>5. QED
      BY <3>1, <3>3, <3>4
  <2>2. g.prefix \in Prefixes /\ g.hours \in Hours /\ g.port \in Ports
    BY <1>1, <1>10
  <2>3. PICK t : t = g.todo
    OBVIOUS
  <2>4. t = s
    BY <1>10, <2>3
  <2>5. QED
    BY <2>1, <2>2, <2>3, <2>4 DEF Shaped
<1>13. ASSUME NEW x \in Writers, NEW y, y = [op[x] EXCEPT !.alone = FALSE]
       PROVE  /\ y \in Operations /\ y.kind = op[x].kind /\ y.todo = op[x].todo /\ y.busy = op[x].busy
              /\ y.prefix = op[x].prefix /\ y.hours = op[x].hours /\ y.port = op[x].port /\ ~y.alone
  <2>1. op[x] \in Operations
    BY <1>1
  <2>2. QED
    BY <1>13, <2>1 DEF Operations
<1>14. ASSUME NEW x \in Writers, NEW y, y = [op[x] EXCEPT !.alone = FALSE] PROVE Shaped(y)
  <2>1. Shaped(op[x])
    BY <1>1
  <2>2. QED
    BY <1>13, <1>14, <2>1 DEF Shaped
<1>15. op'[w] = g /\ \A x \in Writers \ {w} : op'[x] = [op[x] EXCEPT !.alone = FALSE]
  BY <1>8
<1>16. op' \in [Writers -> Operations]
  BY <1>8, <1>11, <1>13
<1>17. QED
  BY <1>2, <1>6, <1>10, <1>12, <1>13, <1>14, <1>15, <1>16

\* A beginning operation has everything still to do.
LEMMA BeginKeeps ==
  ASSUME IInv, NEW w \in Writers, NEW kind \in Kinds,
         NEW host \in {"command", "manual"} \cup Prefixes,
         NEW h \in Hours, NEW port \in Ports, NEW save \in BOOLEAN, Begin(w, kind, host, h, port, save)
  PROVE  IInv'
<1>1. Typed
  BY DEF IInv
<1>2. /\ op' \in [Writers -> Operations] /\ Shaped(op'[w])
      /\ op'[w].busy /\ op'[w].kind = kind /\ op'[w].todo = Steps(kind, save)
      /\ op'[w].prefix = settings.prefix /\ op'[w].hours = h /\ op'[w].ok
      /\ op'[w].alone = Quiet /\ op'[w].known = loaded[settings.prefix]
      /\ \A x \in Writers \ {w} :
           /\ op'[x].busy = op[x].busy /\ op'[x].kind = op[x].kind /\ op'[x].prefix = op[x].prefix
           /\ ~op'[x].alone /\ Shaped(op'[x])
  BY <1>1, BeginEffect, ZenonT(30)
<1>3. /\ ~Busy(w) /\ ops < MaxOps /\ ops' = ops + 1
      /\ stopped' = IF kind \in Enabling THEN stopped \ {settings.prefix} ELSE stopped
      /\ clean' = (clean /\ Quiet)
      /\ UNCHANGED <<platform, settings, disk, enabled, loaded, installed>>
  BY DEF Begin, Enabling
<1>4. stopped' \subseteq stopped /\ platform \in Platforms /\ settings.prefix \in Prefixes
  BY <1>1, <1>3 DEF Typed, WorldTyped
<1>5. WorldTyped'
  BY <1>1, <1>3, <1>4, SchedulerAssumption DEF Typed, WorldTyped, Quiet
<1>6. Typed'
  <2>1. ASSUME NEW x \in Writers, NEW o \in Operations, op'[x] = o PROVE Shaped(o)'
    <3>1. Shaped(o)
      BY <1>2, <2>1
    <3>2. QED
      BY <1>3, <3>1, SamePlatform
  <2>2. Operations' = Operations
    BY DEF Operations
  <2>3. QED
    BY <1>2, <1>5, <2>1, <2>2 DEF Typed
<1>7. AloneIsAlone' /\ CleanIsAlone'
  BY <1>2, <1>3 DEF AloneIsAlone, CleanIsAlone, Quiet, Busy
<1>8. NoneEnables'
  BY <1>2, <1>3, <1>4 DEF IInv, NoneEnables, Busy
<1>9. StoppedStaysStopped'
  <2>1. ASSUME NEW p \in stopped, NEW u \in Units
        PROVE  ~AtBoot(p, u)' /\ ((platform' = "tasks" /\ u = "serve") \/ loaded'[p][u] = None)
    BY <1>3 DEF IInv, StoppedStaysStopped, AtBoot, OnDisk
  <2>2. QED
    BY <1>4, <2>1 DEF StoppedStaysStopped
<1>10. ASSUME NEW x \in Writers, Steady(x)' PROVE x = w /\ Quiet
  BY <1>2, <1>10 DEF Steady
<1>11. PICK s : s = Steps(kind, save)
  OBVIOUS
<1>12. /\ Len(s) \in 1 .. 9
       /\ kind \in {"auto", "schedule"} =>
            \/ Due(s, <<"write", "service">>) /\ Due(s, <<"write", "timer">>)
            \/ Due(s, <<"write", "backup">>)
            \/ Due(s, <<"create", "backup">>)
       /\ kind = "schedule" => Due(s, <<"save", "hours">>)
       /\ \A u \in Units : Disabling(kind, u) =>
            /\ Due(s, EndOf(u))
            /\ platform = "launchd" => Due(s, <<"remove", u>>)
  BY <1>4, <1>11, ShapeSteps
<1>13. EndsTakeEffect'
  <2>1. ASSUME NEW x \in Writers, NEW p \in Prefixes, NEW u \in Units,
               Steady(x)', op'[x].prefix = p, Disabling(op'[x].kind, u)
        PROVE  Due(op'[x].todo, EndOf(u)') /\ (platform' = "launchd" => Due(op'[x].todo, <<"remove", u>>))
    <3>1. op'[x].kind = kind /\ op'[x].todo = s /\ EndOf(u)' = EndOf(u) /\ platform' = platform
      BY <1>2, <1>3, <1>10, <1>11, <2>1, SamePlatform
    <3>2. QED
      BY <1>12, <2>1, <3>1
  <2>2. QED
    BY <2>1 DEF EndsTakeEffect
<1>14. EnablingTakesEffect'
  <2>1. ASSUME NEW x \in Writers, NEW p \in Prefixes,
               Steady(x)', op'[x].prefix = p, op'[x].kind \in {"auto", "schedule"}
        PROVE  EnablingOf(x, p)'
    <3>1. /\ op'[x].kind = kind /\ op'[x].todo = s /\ p = settings.prefix /\ op'[x].known = loaded[p]
          /\ loaded' = loaded
      BY <1>2, <1>3, <1>10, <1>11, <2>1
    <3>2. Unwritten(op'[x].todo, "service") /\ Unwritten(op'[x].todo, "timer") /\ op'[x].todo # <<>>
      <4>1. s # <<>>
        <5>1. Len(<<>>) = 0
          BY EmptySeq
        <5>2. Len(s) # 0
          BY <1>12, RangeOfLen
        <5>3. QED
          BY <5>1, <5>2
      <4>2. QED
        BY <1>12, <2>1, <3>1, <4>1 DEF Unwritten
    <3>3. op'[x].kind = "schedule" => Due(op'[x].todo, <<"save", "hours">>)
      BY <1>12, <3>1
    <3>4. QED
      BY <3>1, <3>2, <3>3 DEF EnablingOf
  <2>2. QED
    BY <2>1 DEF EnablingTakesEffect
<1>15. CleanAgrees'
  <2>1. ASSUME clean, Quiet, NEW p \in Prefixes, NEW u \in Units PROVE Agrees(p, u)'
    <3>1. Agrees(p, u)
      BY <2>1 DEF IInv, CleanAgrees, UnderWay, Quiet
    <3>2. QED
      BY <1>3, <3>1 DEF Agrees, Exempt, AtBoot, OnDisk
  <2>2. QED
    BY <1>3, <2>1 DEF CleanAgrees
<1>16. QED
  BY <1>6, <1>7, <1>8, <1>9, <1>13, <1>14, <1>15 DEF IInv
-----------------------------------------------------------------------------
\* Nobody is at work, and what runs is what a boot would start.
Settled == /\ WorldTyped
           /\ op = [w \in Writers |-> IdleOp]
           /\ stopped = {}
           /\ \A p \in Prefixes, u \in Units : Agrees(p, u)

\* The invariant holds where operations have not begun yet.
LEMMA SettledInv ==
  Settled => IInv
<1> SUFFICES ASSUME Settled PROVE IInv
  OBVIOUS
<1>1. \A w \in Writers : op[w] = IdleOp /\ ~op[w].busy
  BY IdleTyped DEF Settled
<1>2. Typed
  BY <1>1, IdleTyped DEF Settled, Typed
<1>3. /\ AloneIsAlone /\ CleanIsAlone /\ NoneEnables /\ EndsTakeEffect /\ EnablingTakesEffect
      /\ StoppedStaysStopped /\ CleanAgrees
  BY <1>1 DEF Settled, AloneIsAlone, CleanIsAlone, NoneEnables, EndsTakeEffect, EnablingTakesEffect,
     StoppedStaysStopped, CleanAgrees, Steady, Busy
<1>4. QED
  BY <1>2, <1>3 DEF IInv

\* Nothing is enabled at first.
LEMMA InitSettled ==
  Init => Settled
<1> SUFFICES ASSUME Init PROVE Settled
  OBVIOUS
<1>1. /\ platform \in Platforms
      /\ settings = [prefix |-> DefaultPrefix, hours |-> None]
      /\ disk = [p \in Prefixes |-> NoFiles]
      /\ enabled = {} /\ installed = TRUE /\ ops = 0 /\ stopped = {} /\ clean = TRUE
      /\ loaded = [p \in Prefixes |-> NoUnits]
      /\ op = [w \in Writers |-> IdleOp]
  BY DEF Init
<1>2. NoFiles \in Files /\ NoFiles.service = None /\ NoFiles.timer = None /\ NoFiles.serve = None
  BY DEF NoFiles, Files
<1>3. NoUnits.backup = None /\ NoUnits.serve = None
  BY DEF NoUnits
<1>4. WorldTyped
  BY <1>1, <1>2, IdleTyped, SchedulerAssumption DEF WorldTyped
<1>5. ASSUME NEW p \in Prefixes, NEW u \in Units PROVE Agrees(p, u)
  <2>1. ~AtBoot(p, u)
    BY <1>1, <1>2 DEF AtBoot, OnDisk
  <2>2. loaded[p][u] = None
    BY <1>1, <1>3 DEF Units
  <2>3. QED
    BY <2>1, <2>2 DEF Agrees
<1>6. QED
  BY <1>1, <1>4, <1>5 DEF Settled

\* The invariant is inductive.
LEMMA NextKeeps ==
  ASSUME IInv, [Next]_vars
  PROVE  IInv'
<1>1. ASSUME NEW w \in Writers, NEW kind \in Kinds, NEW host \in {"command", "manual"} \cup Prefixes,
             NEW h \in Hours, NEW port \in Ports, NEW save \in BOOLEAN, Begin(w, kind, host, h, port, save)
      PROVE  IInv'
  BY <1>1, BeginKeeps
<1>2. ASSUME NEW w \in Writers, Step(w) PROVE IInv'
  BY <1>2, StepKeeps, ReturnKeeps DEF Step
<1>3. ASSUME NEW w \in Writers, Kill(w) PROVE IInv'
  BY <1>3, KillKeeps
<1>4. ASSUME NEW p \in Prefixes, SetPrefix(p) PROVE IInv'
  BY <1>4, SetPrefixKeeps
<1>5. CASE Reboot
  BY <1>5, RebootKeeps
<1>6. CASE UNCHANGED vars
  <2>1. /\ UNCHANGED <<platform, settings, disk, enabled, loaded, installed, op, ops, stopped, clean>>
    BY <1>6 DEF vars
  <2>2. PICK S \in SUBSET Writers : S = {}
    OBVIOUS
  <2>3. op' = [x \in Writers |-> IF x \in S THEN IdleOp ELSE op[x]]
    BY <2>1, <2>2 DEF IInv, Typed
  <2>4. WorldTyped'
    BY <2>1 DEF IInv, Typed, WorldTyped
  <2>5. Typed' /\ AloneIsAlone' /\ CleanIsAlone' /\ EndsTakeEffect' /\ EnablingTakesEffect' /\ NoneEnables'
    BY <2>1, <2>3, <2>4, EndingKeeps
  <2>6. StoppedStaysStopped'
    BY <2>1 DEF IInv, StoppedStaysStopped, AtBoot, OnDisk
  <2>7. CleanAgrees'
    BY <2>1 DEF IInv, CleanAgrees, Agrees, UnderWay, Exempt, AtBoot, OnDisk, Busy
  <2>8. QED
    BY <2>5, <2>6, <2>7 DEF IInv
<1>7. QED
  BY <1>1, <1>2, <1>3, <1>4, <1>5, <1>6 DEF Next

\* It implies the type invariant,
LEMMA InvImpliesTypeOK ==
  IInv => TypeOK
<1> SUFFICES ASSUME IInv PROVE TypeOK
  OBVIOUS
<1>1. WorldTyped
  BY DEF IInv, Typed
<1>2. \A p \in Prefixes : loaded[p] \in Loads
  BY <1>1 DEF WorldTyped
<1>3. ASSUME NEW w \in Writers PROVE op[w].kind \in Kinds /\ Len(op[w].todo) <= 9
  BY DEF IInv, Typed, Shaped, Operations
<1>4. QED
  BY <1>1, <1>2, <1>3 DEF TypeOK, WorldTyped

\* that boots change nothing once all is quiet,
LEMMA InvImpliesSameAfterBoot ==
  IInv => SameAfterBoot
<1> SUFFICES ASSUME IInv, Quiet, clean, NEW p \in Prefixes, NEW u \in Units
             PROVE  (platform = "tasks" /\ u = "serve") \/ (loaded[p][u] # None) = AtBoot(p, u)
  BY DEF SameAfterBoot
<1>1. ~UnderWay(p, u)
  BY DEF UnderWay, Quiet
<1>2. Agrees(p, u)
  BY <1>1 DEF IInv, CleanAgrees
<1>3. AtBoot(p, u) \in BOOLEAN
  BY DEF AtBoot
<1>4. QED
  BY <1>2, <1>3 DEF Agrees, Exempt

\* and that the answer is true.
LEMMA InvImpliesScheduleTold ==
  IInv => ScheduleTold
<1> SUFFICES ASSUME IInv, NEW w \in Writers, Finished(w), op[w].ok, op[w].alone,
                    op[w].kind \in {"auto", "schedule"}
             PROVE  /\ Told(w, op[w].prefix)
                    /\ AtBoot(op[w].prefix, "backup")
                    /\ op[w].kind = "schedule" => settings.hours = op[w].hours
  BY DEF ScheduleTold, Told
<1>1. Steady(w) /\ op[w].todo = <<>>
  BY DEF Finished, Steady
<1>2. PICK p : p = op[w].prefix
  OBVIOUS
<1>3. p \in Prefixes
  BY <1>1, <1>2 DEF IInv, Typed, Shaped, Steady, Busy
<1>4. EnablingOf(w, p)
  BY <1>1, <1>2, <1>3 DEF IInv, EnablingTakesEffect
<1>5. ~Due(op[w].todo, <<"save", "hours">>)
  BY <1>1, NothingDue
<1>6. Told(w, p) /\ AtBoot(p, "backup") /\ (op[w].kind = "schedule" => settings.hours = op[w].hours)
  BY <1>1, <1>4, <1>5 DEF EnablingOf
<1>7. QED
  BY <1>2, <1>6
-----------------------------------------------------------------------------
\* The inductive invariant holds at all times, for any number of writers, any prefixes,
\* hours and ports, whichever of the faults may happen (scheduler.go).
THEOREM Invariance == Spec => []IInv
<1>1. Init => IInv
  BY InitSettled, SettledInv
<1>2. IInv /\ [Next]_vars => IInv'
  BY NextKeeps
<1>3. QED
  BY <1>1, <1>2, PTL DEF Spec

\* Every variable keeps its type, and no operation has more than nine steps.
THEOREM TypeCorrect == Spec => []TypeOK
BY Invariance, InvImpliesTypeOK, PTL

\* README.md:250 and scheduler.go, DisableAuto: what `gaet stop` or `gaet uninstall` has stopped
\* without a failing step and with nobody else at work does not run, and no reboot brings
\* it back, until an operation enables something of that prefix again.
THEOREM StopIsLasting == Spec => []StoppedStaysStopped
<1>1. IInv => StoppedStaysStopped
  BY DEF IInv
<1>2. QED
  BY <1>1, Invariance, PTL

\* As long as no operation failed, was killed or overlapped with another, what runs is what a
\* boot would start, whenever nobody is at work.
THEOREM BootChangesNothing == Spec => []SameAfterBoot
BY Invariance, InvImpliesSameAfterBoot, PTL

\* EnableAuto (scheduler.go) and handleSchedule (server.go) return without an error, with nobody
\* else at work, only when the timer runs with the command and the interval they were given,
\* starts at boot and, for the dashboard, is the interval in .env.
THEOREM AnswerIsTrue == Spec => []ScheduleTold
BY Invariance, InvImpliesScheduleTold, PTL

\* The same from any state in which nobody is at work and what runs agrees with what a boot
\* would start, as after `gaet auto` and `gaet serve --auto` in an earlier life of the machine.
THEOREM FromAnySettledState ==
  Settled /\ [][Next]_vars => [](TypeOK /\ StoppedStaysStopped /\ SameAfterBoot /\ ScheduleTold)
<1>1. Settled => IInv
  BY SettledInv
<1>2. IInv /\ [Next]_vars => IInv'
  BY NextKeeps
<1>3. IInv => TypeOK /\ StoppedStaysStopped /\ SameAfterBoot /\ ScheduleTold
  BY InvImpliesTypeOK, InvImpliesSameAfterBoot, InvImpliesScheduleTold DEF IInv
<1>4. QED
  BY <1>1, <1>2, <1>3, PTL
=============================================================================
