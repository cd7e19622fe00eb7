--------------------------- MODULE EnvStoreProofs ---------------------------
(***************************************************************************)
(* Proofs about EnvStore for every number of operations and writers, and   *)
(* every set of values and faults.                                         *)
(*                                                                         *)
(* The argument: as long as nobody disturbed an operation, the file goes   *)
(* with its stage (Follows): what it has read, nothing, what it wrote.     *)
(* What it wrote is then what it made of what it read.                     *)
(*                                                                         *)
(* The environment of the dashboard may differ from the file only while an *)
(* operation is under way that will count as a failure, as an overlap or,  *)
(* undisturbed, will bring the two together (EnvFollows): config sets the  *)
(* environment before it writes, schedule after it.                        *)
(***************************************************************************)
EXTENDS EnvStore, TLAPS

\* The file f of an operation that nobody has disturbed since it read it.
Follows(o, f) ==
  o.alone =>
    /\ o.stage \in {"open", "write"} \/ (o.stage = "done" /\ o.ok) =>
         o.next = Content(o.kind, o.before, o.asked)
    /\ o.stage = "open" => f = o.before
    /\ o.stage = "write" => f = Blank
    /\ o.stage = "done" /\ o.ok => f = o.next

OkWhenDone(o) == o.ok => o.stage = "done"

AllFollow == \A w \in Writers : Follows(op[w], file) /\ OkWhenDone(op[w])

IInv == TypeOK /\ AllFollow

\* An operation that has read the file; one whose end is an end of agreement.
Past(o) == o.stage \notin {"idle", "read"}
Bound(o) == ~o.alone \/ o.kind \notin Dashboard \/ (o.stage = "done" /\ ~o.ok)

\* The environment e agrees with what the operation has made of the file, or,
\* for one that sets the environment when it returns, with what it has read.
Goes(o, e) == \A k \in Keys : e[k] # None => e[k] = IF o.kind = "config" THEN o.next[k] ELSE o.before[k]
Rests(e, f) == \A k \in Keys : e[k] # None => e[k] = f[k]

\* Why the environment may differ from the file.
EnvFollows ==
  ~strayed =>
    \/ \E w \in Writers : Past(op[w]) /\ Bound(op[w])
    \/ \E w, x \in Writers : w # x /\ Past(op[w]) /\ Past(op[x])
    \/ \E w \in Writers : Past(op[w]) /\ Goes(op[w], env)
    \/ (\A w \in Writers : ~Past(op[w])) /\ Rests(env, file)

-----------------------------------------------------------------------------
\* What the operations make of a file is a file.
LEMMA Values2 == Blank \in Contents /\ Nothing \in Requests /\ DefaultHost \in Values /\ None \notin Values
  BY EnvStoreAssumption DEF Blank, Contents, Nothing, Requests

LEMMA ApplyTyped == ASSUME NEW c \in Contents, NEW q \in Requests PROVE Apply(c, q) \in Contents
<1>1. \A k \in Keys : c[k] \in Values \cup {None} /\ q[k] \in Values \cup {"keep", "unset"}
  BY DEF Contents, Requests
<1>2. QED
  BY <1>1 DEF Apply, Contents

LEMMA HostTyped == ASSUME NEW c \in Contents PROVE LocalHost(c) \in Values
  BY EnvStoreAssumption DEF LocalHost, Contents, Keys

LEMMA Changed == ASSUME NEW c \in Contents, NEW k \in Keys, NEW v \in Values \cup {None}
                 PROVE  [c EXCEPT ![k] = v] \in Contents
  BY DEF Contents

LEMMA ContentTyped ==
  ASSUME NEW c \in Contents, NEW q \in Requests, NEW kind
  PROVE  Content(kind, c, q) \in Contents
<1>1. Apply(c, q) \in Contents
  BY ApplyTyped
<1>2. SetContent(c, q) \in Contents
  BY <1>1, Changed DEF SetContent, Keys
<1>3. ConfigContent(c, q) \in Contents
  <2>1. Apply(c, q)["url"] \in Values \cup {None}
    BY <1>1 DEF Contents, Keys
  <2>. QED
    BY <1>1, <2>1, Changed DEF ConfigContent, Keys
<1>4. InitContent(c) \in Contents
  <2>1. LocalHost(c) \in Values /\ c["remote"] \in Values \cup {None}
    BY HostTyped DEF Contents, Keys
  <2>2. [Blank EXCEPT !["remote"] = c["remote"]] \in Contents
    BY <2>1, Values2, Changed DEF Keys
  <2>. QED
    BY <2>1, <2>2 DEF InitContent, Contents, Keys
<1>5. QED
  BY <1>1, <1>2, <1>3, <1>4 DEF Content

LEMMA EnvTyped ==
  ASSUME NEW e \in Contents, NEW new \in Contents, NEW q \in Requests
  PROVE  EnvAfter(e, new, q) \in Contents
<1>1. Apply(e, q) \in Contents /\ new["url"] \in Values \cup {None}
  BY ApplyTyped DEF Contents, Keys
<1>2. QED
  BY <1>1, Changed DEF EnvAfter, Keys
-----------------------------------------------------------------------------
\* What a step makes of an operation.
LEMMA OpFields ==
  ASSUME NEW o \in OpStates
  PROVE  /\ o.kind \in AllKinds /\ o.stage \in Stages /\ o.asked \in Requests
         /\ o.before \in Contents /\ o.next \in Contents
         /\ o.alone \in BOOLEAN /\ o.ok \in BOOLEAN
<1>. HIDE DEF Requests, Contents, AllKinds, Stages
<1>. QED
  BY DEF OpStates

LEMMA Asks ==
  ASSUME NEW kind \in AllKinds, NEW q \in Requests
  PROVE  LET o == [IdleOp EXCEPT !.kind = kind, !.asked = q, !.stage = "read"]
         IN  o \in OpStates /\ o.stage = "read" /\ ~o.alone /\ ~o.ok
  BY Values2 DEF IdleOp, OpStates, Stages

LEMMA Reads ==
  ASSUME NEW o \in OpStates, NEW before \in Contents, NEW next \in Contents, NEW alone \in BOOLEAN
  PROVE  LET p == [o EXCEPT !.stage = "open", !.before = before, !.next = next, !.alone = alone]
         IN  /\ p \in OpStates /\ p.stage = "open" /\ p.kind = o.kind /\ p.asked = o.asked
             /\ p.before = before /\ p.next = next /\ p.alone = alone /\ p.ok = o.ok
<1>. HIDE DEF Requests, Contents, AllKinds
<1>. QED
  BY DEF OpStates, Stages

LEMMA Moves ==
  ASSUME NEW o \in OpStates, NEW stage \in Stages
  PROVE  LET p == [o EXCEPT !.stage = stage]
         IN  /\ p \in OpStates /\ p.stage = stage /\ p.kind = o.kind /\ p.asked = o.asked
             /\ p.before = o.before /\ p.next = o.next /\ p.alone = o.alone /\ p.ok = o.ok
<1>. HIDE DEF Requests, Contents, AllKinds, Stages
<1>. QED
  BY DEF OpStates

LEMMA Succeeds ==
  ASSUME NEW o \in OpStates
  PROVE  LET p == [o EXCEPT !.stage = "done", !.ok = TRUE]
         IN  /\ p \in OpStates /\ p.stage = "done" /\ p.kind = o.kind /\ p.asked = o.asked
             /\ p.before = o.before /\ p.next = o.next /\ p.alone = o.alone /\ p.ok
<1>. HIDE DEF Requests, Contents, AllKinds
<1>. QED
  BY DEF OpStates, Stages

LEMMA NotAlone ==
  ASSUME NEW o \in OpStates
  PROVE  LET p == [o EXCEPT !.alone = FALSE]
         IN  p \in OpStates /\ p.stage = o.stage /\ ~p.alone /\ p.ok = o.ok
<1>. HIDE DEF Requests, Contents, AllKinds, Stages
<1>. QED
  BY DEF OpStates

LEMMA IdleTyped == IdleOp \in OpStates /\ IdleOp.stage = "idle" /\ ~IdleOp.alone /\ ~IdleOp.ok
  BY Values2 DEF IdleOp, OpStates, Stages, AllKinds

\* One operation changes, and the others do not.
LEMMA Becomes ==
  ASSUME TypeOK, NEW w \in Writers, NEW o \in OpStates, op' = [op EXCEPT ![w] = o]
  PROVE  /\ op' \in [Writers -> OpStates] /\ op'[w] = o
         /\ \A x \in Writers \ {w} : op'[x] = op[x]
<1>. HIDE DEF OpStates
<1>. QED
  BY DEF TypeOK

\* One changes, and the others are disturbed.
LEMMA Disturbs ==
  ASSUME TypeOK, NEW w \in Writers, NEW o \in OpStates, op' = Disturb(w, [op EXCEPT ![w] = o])
  PROVE  /\ op' \in [Writers -> OpStates] /\ op'[w] = o
         /\ \A x \in Writers \ {w} :
               /\ op'[x].stage = op[x].stage /\ op'[x].ok = op[x].ok
               /\ op'[x].alone => op[x].stage \in {"idle", "read"}
<1>1. \A x \in Writers : op[x] \in OpStates
  BY DEF TypeOK
<1>2. \A x \in Writers \ {w} :
         op'[x] = IF ~At(x, "idle") /\ ~At(x, "read") THEN [op[x] EXCEPT !.alone = FALSE] ELSE op[x]
  BY DEF Disturb, TypeOK, Under
<1>3. op'[w] = o /\ op' = [x \in Writers |-> op'[x]]
  BY DEF Disturb, TypeOK
<1>4. \A x \in Writers \ {w} : op'[x] \in OpStates
  BY <1>1, <1>2, NotAlone
<1>5. op' \in [Writers -> OpStates]
  <2>. HIDE DEF OpStates
  <2>. QED
    BY <1>3, <1>4
<1>6. QED
  BY <1>1, <1>2, <1>3, <1>5, NotAlone DEF At
-----------------------------------------------------------------------------
\* A step of one operation that leaves the file as it is.
LEMMA Alone ==
  ASSUME IInv, NEW w \in Writers, NEW o \in OpStates, op' = [op EXCEPT ![w] = o],
         file' = file, env' \in Contents, ops' \in 0 .. MaxOps, strayed' \in BOOLEAN,
         Follows(o, file), OkWhenDone(o)
  PROVE  IInv'
<1>1. /\ op' \in [Writers -> OpStates] /\ op'[w] = o
      /\ \A x \in Writers \ {w} : op'[x] = op[x]
  BY Becomes DEF IInv
<1>2. TypeOK'
  BY <1>1 DEF IInv, TypeOK
<1>3. AllFollow'
  <2> SUFFICES ASSUME NEW x \in Writers PROVE Follows(op'[x], file') /\ OkWhenDone(op'[x])
    BY DEF AllFollow, Follows, OkWhenDone
  <2>1. Follows(op'[x], file) /\ OkWhenDone(op'[x])
    <3>1. CASE x = w
      BY <1>1, <3>1
    <3>2. CASE x # w
      BY <1>1, <3>2 DEF IInv, AllFollow
    <3>. QED
      BY <3>1, <3>2
  <2>. QED
    BY <2>1
<1>4. QED
  BY <1>2, <1>3 DEF IInv

\* A step that changes the file.
LEMMA Disturbing ==
  ASSUME IInv, NEW w \in Writers, NEW o \in OpStates, op' = Disturb(w, [op EXCEPT ![w] = o]),
         file' \in Contents, UNCHANGED <<env, ops, strayed>>,
         Follows(o, file'), OkWhenDone(o)
  PROVE  IInv'
<1>1. /\ op' \in [Writers -> OpStates] /\ op'[w] = o
      /\ \A x \in Writers \ {w} :
            /\ op'[x].stage = op[x].stage /\ op'[x].ok = op[x].ok
            /\ op'[x].alone => op[x].stage \in {"idle", "read"}
  BY Disturbs DEF IInv
<1>2. TypeOK'
  BY <1>1 DEF IInv, TypeOK
<1>3. AllFollow'
  <2> SUFFICES ASSUME NEW x \in Writers PROVE Follows(op'[x], file') /\ OkWhenDone(op'[x])
    BY DEF AllFollow, Follows, OkWhenDone
  <2>1. CASE x = w
    BY <1>1, <2>1
  <2>2. CASE x # w
    BY <1>1, <2>2 DEF IInv, AllFollow, Follows, OkWhenDone
  <2>. QED
    BY <2>1, <2>2
<1>4. QED
  BY <1>2, <1>3 DEF IInv

\* An operation that ends, or goes on, without a success.
LEMMA Leaves ==
  ASSUME IInv, NEW w \in Writers, op[w].stage # "done",
         op' = [op EXCEPT ![w].stage = "done"], file' = file, env' \in Contents,
         UNCHANGED <<ops, strayed>>
  PROVE  IInv'
<1>1. op[w] \in OpStates /\ ops \in 0 .. MaxOps /\ strayed \in BOOLEAN /\ ~op[w].ok
  BY DEF IInv, TypeOK, AllFollow, OkWhenDone
<1> DEFINE o == [op[w] EXCEPT !.stage = "done"]
<1>2. o \in OpStates /\ o.stage = "done" /\ o.ok = op[w].ok
  BY <1>1, Moves DEF Stages
<1>3. op' = [op EXCEPT ![w] = o]
  OBVIOUS
<1>. HIDE DEF o
<1>4. Follows(o, file) /\ OkWhenDone(o)
  BY <1>1, <1>2 DEF Follows, OkWhenDone
<1>5. QED
  BY <1>1, <1>2, <1>3, <1>4, Alone

LEMMA ReadAsInv ==
  ASSUME IInv, NEW w \in Writers, NEW c \in Contents, op[w].stage = "read", ReadAs(w, c),
         UNCHANGED <<file, ops, strayed>>
  PROVE  IInv'
<1> DEFINE new == Content(op[w].kind, c, op[w].asked)
           alone == c = file /\ ~\E x \in Writers : Writing(x)
           o == [op[w] EXCEPT !.stage = "open", !.before = file, !.next = new, !.alone = alone]
<1>1. /\ op[w] \in OpStates /\ ops \in 0 .. MaxOps /\ strayed \in BOOLEAN
      /\ file \in Contents /\ env \in Contents /\ ~op[w].ok
  BY DEF IInv, TypeOK, AllFollow, OkWhenDone
<1>2. op[w].asked \in Requests
  BY <1>1, OpFields
<1>3. new \in Contents /\ EnvAfter(env, new, op[w].asked) \in Contents
  BY <1>1, <1>2, ContentTyped, EnvTyped
<1>4. alone \in BOOLEAN
  OBVIOUS
<1>5. op' = [op EXCEPT ![w] = o] /\ env' \in Contents
  <2>1. op' = [op EXCEPT ![w] = o]
    BY Zenon DEF ReadAs
  <2>2. env' = IF op[w].kind = "config" THEN EnvAfter(env, new, op[w].asked) ELSE env
    BY Zenon DEF ReadAs
  <2>. HIDE DEF o, new
  <2>. QED
    BY <1>1, <1>3, <2>1, <2>2
<1>6. /\ o \in OpStates /\ o.stage = "open" /\ o.kind = op[w].kind /\ o.asked = op[w].asked
      /\ o.before = file /\ o.next = new /\ o.alone = alone /\ o.ok = op[w].ok
  <2>1. op[w] \in OpStates /\ file \in Contents
    BY <1>1
  <2>2. new \in Contents
    BY <1>3
  <2>. HIDE DEF new, alone
  <2>3. [op[w] EXCEPT !.stage = "open", !.before = file, !.next = new, !.alone = alone] \in OpStates
    BY <2>1, <2>2, <1>4, Reads
  <2>4. /\ o.stage = "open" /\ o.kind = op[w].kind /\ o.asked = op[w].asked
        /\ o.before = file /\ o.next = new /\ o.ok = op[w].ok
    <3>. HIDE DEF Contents, Requests, Stages, AllKinds
    <3>. QED
      BY <2>1 DEF OpStates
  <2>5. o.alone = alone
    <3>. HIDE DEF Contents, Requests, Stages, AllKinds
    <3>. QED
      BY <2>1, <1>4 DEF OpStates
  <2>. QED
    BY <2>3, <2>4, <2>5
<1>7. alone => c = file
  OBVIOUS
<1>. HIDE DEF o, alone
<1>8. Follows(o, file) /\ OkWhenDone(o)
  BY <1>1, <1>6, <1>7 DEF Follows, OkWhenDone
<1>9. QED
  BY <1>1, <1>5, <1>6, <1>8, Alone
-----------------------------------------------------------------------------
LEMMA AskedTyped == ASSUME NEW kind, NEW q \in AskableBy(kind) PROVE q \in Requests
  BY DEF AskableBy, Requests, Nothing, Keys

LEMMA BeginInv ==
  ASSUME IInv, NEW w \in Writers, NEW kind \in Kinds, NEW q \in AskableBy(kind), Begin(w, kind, q)
  PROVE  IInv'
<1> DEFINE o == [IdleOp EXCEPT !.kind = kind, !.asked = q, !.stage = "read"]
<1>1. kind \in AllKinds /\ q \in Requests /\ MaxOps \in Nat
  BY EnvStoreAssumption, AskedTyped
<1>2. /\ op' = [op EXCEPT ![w] = o] /\ ops' = ops + 1 /\ ops < MaxOps
      /\ UNCHANGED <<file, env, strayed>>
  BY DEF Begin
<1>3. o \in OpStates /\ o.stage = "read" /\ ~o.alone /\ ~o.ok
  BY <1>1, Asks
<1>. HIDE DEF o
<1>4. Follows(o, file) /\ OkWhenDone(o)
  BY <1>3 DEF Follows, OkWhenDone
<1>5. env \in Contents /\ strayed \in BOOLEAN /\ ops \in 0 .. MaxOps
  BY DEF IInv, TypeOK
<1>6. ops' \in 0 .. MaxOps
  BY <1>1, <1>2, <1>5
<1>7. QED
  BY <1>2, <1>3, <1>4, <1>5, <1>6, Alone

LEMMA ReadFailsInv == ASSUME IInv, NEW w \in Writers, ReadFails(w) PROVE IInv'
<1>1. op[w].stage = "read" /\ UNCHANGED <<file, ops, strayed>> /\ env \in Contents
  BY DEF ReadFails, At, IInv, TypeOK
<1>2. CASE ReadAs(w, Blank)
  BY <1>1, <1>2, ReadAsInv, Values2
<1>3. CASE Panics(w)
  <2>1. env' \in Contents
    BY <1>1, <1>3 DEF Panics, Contents
  <2>. QED
    BY <1>1, <1>3, <2>1, Leaves DEF Panics
<1>4. CASE op' = [op EXCEPT ![w].stage = "done"] /\ UNCHANGED env
  BY <1>1, <1>4, Leaves
<1>5. QED
  BY <1>2, <1>3, <1>4 DEF ReadFails

LEMMA OpenInv == ASSUME IInv, NEW w \in Writers, Open(w) PROVE IInv'
<1> DEFINE o == [op[w] EXCEPT !.stage = "write"]
<1>1. /\ op[w].stage = "open" /\ UNCHANGED <<env, ops, strayed>> /\ env \in Contents
      /\ op[w] \in OpStates /\ Follows(op[w], file) /\ ~op[w].ok
  BY DEF Open, At, IInv, TypeOK, AllFollow, OkWhenDone
<1>2. CASE file' = Blank /\ op' = Disturb(w, [op EXCEPT ![w].stage = "write"])
  <2>1. op' = Disturb(w, [op EXCEPT ![w] = o])
    BY <1>2
  <2>2. /\ o \in OpStates /\ o.stage = "write" /\ o.kind = op[w].kind /\ o.asked = op[w].asked
        /\ o.before = op[w].before /\ o.next = op[w].next /\ o.alone = op[w].alone /\ ~o.ok
    BY <1>1, Moves DEF Stages
  <2>. HIDE DEF o
  <2>3. Follows(o, Blank) /\ OkWhenDone(o)
    BY <1>1, <2>2 DEF Follows, OkWhenDone
  <2>4. QED
    BY <1>1, <1>2, <2>1, <2>2, <2>3, Disturbing, Values2
<1>3. CASE op' = [op EXCEPT ![w].stage = "done"] /\ UNCHANGED file
  BY <1>1, <1>3, Leaves
<1>4. QED
  BY <1>2, <1>3 DEF Open

LEMMA WriteInv == ASSUME IInv, NEW w \in Writers, Write(w) PROVE IInv'
<1> DEFINE o == [op[w] EXCEPT !.stage = "done", !.ok = TRUE]
<1>1. /\ op[w].stage = "write" /\ UNCHANGED <<env, ops, strayed>> /\ env \in Contents
      /\ op[w] \in OpStates /\ Follows(op[w], file) /\ file \in Contents
  BY DEF Write, At, IInv, TypeOK, AllFollow
<1>2. CASE file' \in Mixed(op[w].next, file) /\ op' = Disturb(w, [op EXCEPT ![w] = o])
  <2>1. /\ o \in OpStates /\ o.stage = "done" /\ o.kind = op[w].kind /\ o.asked = op[w].asked
        /\ o.before = op[w].before /\ o.next = op[w].next /\ o.alone = op[w].alone
        /\ op[w].next \in Contents
    BY <1>1, Succeeds, OpFields
  <2>2. op' = Disturb(w, [op EXCEPT ![w] = o])
    BY <1>2
  <2>. HIDE DEF o
  <2>3. file' \in Contents
    BY <1>1, <1>2, <2>1 DEF Mixed, Contents
  <2>4. file = Blank => file' = op[w].next
    BY <1>2, <2>1 DEF Mixed, Blank, Contents
  <2>5. Follows(o, file') /\ OkWhenDone(o)
    BY <1>1, <2>1, <2>4 DEF Follows, OkWhenDone
  <2>6. QED
    BY <1>1, <2>1, <2>2, <2>3, <2>5, Disturbing
<1>3. CASE op' = [op EXCEPT ![w].stage = "done"] /\ UNCHANGED file
  BY <1>1, <1>3, Leaves
<1>4. QED
  BY <1>2, <1>3 DEF Write

LEMMA ReturnInv == ASSUME IInv, NEW w \in Writers, Return(w) PROVE IInv'
<1>1. /\ op' = [op EXCEPT ![w] = IdleOp] /\ UNCHANGED <<file, ops>>
      /\ ops \in 0 .. MaxOps /\ env \in Contents
  BY DEF Return, IInv, TypeOK
<1>2. env' \in Contents
  <2>1. op[w].asked \in Requests
    BY OpFields DEF IInv, TypeOK
  <2>. QED
    BY <1>1, <2>1, ApplyTyped DEF Return
<1>3. strayed' \in BOOLEAN
  <2>1. strayed' = (\/ strayed \/ ~op[w].ok \/ ~op[w].alone \/ op[w].kind \notin Dashboard
                    \/ \E x \in Writers \ {w} : Under(x))
    BY Zenon DEF Return
  <2>. QED
    BY <2>1, Zenon
<1>4. Follows(IdleOp, file) /\ OkWhenDone(IdleOp)
  BY IdleTyped DEF Follows, OkWhenDone
<1>5. QED
  BY <1>1, <1>2, <1>3, <1>4, IdleTyped, Alone

LEMMA CrashInv == ASSUME IInv, NEW w \in Writers, Crash(w) PROVE IInv'
<1>1. /\ op' = [op EXCEPT ![w] = IdleOp] /\ UNCHANGED <<file, ops, env>>
      /\ ops \in 0 .. MaxOps /\ env \in Contents /\ strayed' = TRUE
  BY DEF Crash, IInv, TypeOK
<1>2. Follows(IdleOp, file) /\ OkWhenDone(IdleOp)
  BY IdleTyped DEF Follows, OkWhenDone
<1>3. QED
  BY <1>1, <1>2, IdleTyped, Alone

LEMMA RestartInv == ASSUME IInv, RestartDashboard PROVE IInv'
<1>1. /\ op' = [w \in Writers |-> IF op[w].kind \in Dashboard THEN IdleOp ELSE op[w]]
      /\ env' = Blank /\ UNCHANGED <<file, ops>>
  BY DEF RestartDashboard
<1>2. strayed' \in BOOLEAN
  <2>1. strayed' = \E w \in Writers : Busy(w)
    BY Zenon DEF RestartDashboard
  <2>. QED
    BY <2>1, Zenon
<1>3. op' \in [Writers -> OpStates]
  <2>. HIDE DEF OpStates
  <2>. QED
    BY <1>1, IdleTyped DEF IInv, TypeOK
<1>4. TypeOK'
  BY <1>1, <1>2, <1>3, Values2 DEF IInv, TypeOK
<1>5. AllFollow'
  <2> SUFFICES ASSUME NEW w \in Writers PROVE Follows(op'[w], file') /\ OkWhenDone(op'[w])
    BY DEF AllFollow, Follows, OkWhenDone
  <2>1. op'[w] = IdleOp \/ op'[w] = op[w]
    BY <1>1
  <2>2. Follows(IdleOp, file) /\ OkWhenDone(IdleOp)
    BY IdleTyped DEF Follows, OkWhenDone
  <2>. QED
    BY <1>1, <2>1, <2>2 DEF IInv, AllFollow
<1>6. QED
  BY <1>4, <1>5 DEF IInv

LEMMA InitInv == Init => IInv
<1> SUFFICES ASSUME Init PROVE IInv
  OBVIOUS
<1>1. op \in [Writers -> OpStates] /\ \A w \in Writers : op[w] = IdleOp
  BY IdleTyped DEF Init
<1>2. TypeOK
  <2>1. file \in Contents /\ env = Blank /\ ops = 0 /\ strayed = FALSE
    BY DEF Init
  <2>2. ops \in 0 .. MaxOps
    BY <2>1, EnvStoreAssumption
  <2>3. strayed \in BOOLEAN
    BY <2>1, Zenon
  <2>. QED
    BY <1>1, <2>1, <2>2, <2>3, Values2 DEF TypeOK
<1>3. AllFollow
  BY <1>1, IdleTyped DEF AllFollow, Follows, OkWhenDone
<1>4. QED
  BY <1>2, <1>3 DEF IInv

LEMMA InvStep == IInv /\ [Next]_vars => IInv'
<1> SUFFICES ASSUME IInv, [Next]_vars PROVE IInv'
  OBVIOUS
<1>1. ASSUME NEW w \in Writers, NEW kind \in Kinds, NEW q \in AskableBy(kind), Begin(w, kind, q)
      PROVE  IInv'
  BY <1>1, BeginInv
<1>2. ASSUME NEW w \in Writers, Read(w) PROVE IInv'
  <2>1. op[w].stage = "read" /\ ReadAs(w, file) /\ UNCHANGED <<file, ops, strayed>>
        /\ file \in Contents
    BY <1>2 DEF Read, At, IInv, TypeOK
  <2>. QED
    BY <2>1, ReadAsInv
<1>3. ASSUME NEW w \in Writers, ReadFails(w) PROVE IInv'
  BY <1>3, ReadFailsInv
<1>4. ASSUME NEW w \in Writers, Open(w) PROVE IInv'
  BY <1>4, OpenInv
<1>5. ASSUME NEW w \in Writers, Write(w) PROVE IInv'
  BY <1>5, WriteInv
<1>6. ASSUME NEW w \in Writers, Return(w) PROVE IInv'
  BY <1>6, ReturnInv
<1>7. ASSUME NEW w \in Writers, Crash(w) PROVE IInv'
  BY <1>7, CrashInv
<1>8. CASE RestartDashboard
  BY <1>8, RestartInv
<1>9. CASE UNCHANGED vars
  <2>1. TypeOK' /\ AllFollow'
    BY <1>9 DEF vars, IInv, TypeOK, AllFollow, Follows, OkWhenDone
  <2>. QED
    BY <2>1 DEF IInv
<1>10. QED
  BY <1>1, <1>2, <1>3, <1>4, <1>5, <1>6, <1>7, <1>8, <1>9 DEF Next, Step

LEMMA Always == Spec => []IInv
  BY InitInv, InvStep, PTL DEF Spec
-----------------------------------------------------------------------------
\* A success that nobody disturbed leaves what the operation made of the file.
LEMMA FileIsContent ==
  ASSUME IInv, NEW w \in Writers, Undisturbed(w)
  PROVE  /\ file = Content(op[w].kind, op[w].before, op[w].asked)
         /\ op[w].before \in Contents /\ op[w].asked \in Requests /\ op[w].kind \in AllKinds
<1>1. op[w] \in OpStates /\ Follows(op[w], file)
  BY DEF IInv, TypeOK, AllFollow
<1>2. QED
  BY <1>1, OpFields DEF Undisturbed, At, Follows

LEMMA KeepsOthers == IInv => OthersKept
<1> SUFFICES ASSUME IInv, NEW w \in Writers, Undisturbed(w), op[w].kind # "init",
                    NEW k \in Keys \ Asked(op[w].asked)
             PROVE  \/ file[k] = op[w].before[k]
                    \/ k = "url" /\ op[w].kind = "set" /\ op[w].asked["host"] \in Values
                    \/ k = "host" /\ op[w].kind = "config" /\ file["url"] = file["host"]
  BY DEF OthersKept
<1> DEFINE before == op[w].before
           asked == op[w].asked
<1>1. /\ file = Content(op[w].kind, before, asked)
      /\ before \in Contents /\ asked \in Requests /\ op[w].kind \in AllKinds
  BY FileIsContent
<1>2. k \in Keys /\ asked[k] = "keep"
  BY DEF Asked
<1>. HIDE DEF before, asked
<1>3. Apply(before, asked)[k] = before[k] /\ Apply(before, asked) \in Contents
  BY <1>1, <1>2, ApplyTyped DEF Apply
<1>4. CASE op[w].kind = "set"
  <2>1. file = SetContent(before, asked)
    BY <1>1, <1>4 DEF Content
  <2>. QED
    BY <1>1, <1>2, <1>3, <1>4, <2>1 DEF SetContent, Contents, asked, before
<1>5. CASE op[w].kind = "config"
  <2>1. file = ConfigContent(before, asked)
    BY <1>1, <1>5 DEF Content
  <2>2. CASE Apply(before, asked)["url"] # None
    <3>1. file = [Apply(before, asked) EXCEPT !["host"] = Apply(before, asked)["url"]]
      BY <2>1, <2>2 DEF ConfigContent
    <3>2. file["url"] = file["host"] /\ (k # "host" => file[k] = Apply(before, asked)[k])
      BY <1>2, <1>3, <3>1 DEF Contents, Keys
    <3>. QED
      BY <1>3, <1>5, <3>2 DEF before
  <2>3. CASE Apply(before, asked)["url"] = None
    BY <1>3, <2>1, <2>3 DEF ConfigContent, before
  <2>. QED
    BY <2>2, <2>3
<1>6. CASE op[w].kind \in {"remote", "schedule"}
  BY <1>1, <1>3, <1>6 DEF Content, before
<1>7. QED
  BY <1>1, <1>4, <1>5, <1>6 DEF AllKinds

LEMMA Effective == IInv => TakesEffect
<1> SUFFICES ASSUME IInv, NEW w \in Writers, Undisturbed(w)
             PROVE  LET o == op[w]
                    IN  /\ o.kind = "set" /\ o.asked["host"] \in Values =>
                             LocalHost(file) = o.asked["host"]
                        /\ o.kind = "config" /\ o.asked["url"] \in Values =>
                             LocalHost(file) = o.asked["url"]
                        /\ o.kind = "init" => /\ LocalHost(file) = LocalHost(o.before)
                                              /\ file["remote"] = o.before["remote"]
  BY DEF TakesEffect
<1> DEFINE before == op[w].before
           asked == op[w].asked
<1>1. /\ file = Content(op[w].kind, before, asked)
      /\ before \in Contents /\ asked \in Requests
  BY FileIsContent
<1>. HIDE DEF before, asked
<1>2. \A k \in Keys : asked[k] \in Values => Apply(before, asked)[k] = asked[k] /\ asked[k] # None
  BY <1>1, EnvStoreAssumption DEF Apply
<1>3. Apply(before, asked) \in Contents
  BY <1>1, ApplyTyped
<1>4. ASSUME op[w].kind = "set", asked["host"] \in Values
      PROVE  LocalHost(file) = asked["host"]
  <2>1. file = [Apply(before, asked) EXCEPT !["url"] = None]
    BY <1>1, <1>4 DEF Content, SetContent
  <2>2. file["host"] = asked["host"] /\ asked["host"] # None
    BY <1>2, <1>3, <1>4, <2>1 DEF Contents, Keys
  <2>. QED
    BY <2>2 DEF LocalHost
<1>5. ASSUME op[w].kind = "config", asked["url"] \in Values
      PROVE  LocalHost(file) = asked["url"]
  <2>1. Apply(before, asked)["url"] = asked["url"] /\ asked["url"] # None
    BY <1>2, <1>5 DEF Keys
  <2>2. file = [Apply(before, asked) EXCEPT !["host"] = asked["url"]]
    BY <1>1, <1>5, <2>1 DEF Content, ConfigContent
  <2>3. file["host"] = asked["url"]
    BY <1>3, <2>2 DEF Contents, Keys
  <2>. QED
    BY <2>1, <2>3 DEF LocalHost
<1>6. ASSUME op[w].kind = "init"
      PROVE  LocalHost(file) = LocalHost(before) /\ file["remote"] = before["remote"]
  <2>1. file = InitContent(before)
    BY <1>1, <1>6 DEF Content
  <2>2. LocalHost(before) \in Values /\ None \notin Values
    BY <1>1, HostTyped, EnvStoreAssumption
  <2>3. /\ file["host"] = IF LocalHost(before) \in Sockets THEN LocalHost(before) ELSE None
        /\ file["url"] = IF LocalHost(before) \in Sockets THEN None ELSE LocalHost(before)
        /\ file["remote"] = before["remote"]
    BY <2>1 DEF InitContent, Blank, Keys
  <2>. HIDE DEF LocalHost
  <2>4. LocalHost(file) = LocalHost(before)
    <3>1. \A c : LocalHost(c) = IF c["host"] # None THEN c["host"]
                                ELSE IF c["url"] # None THEN c["url"] ELSE DefaultHost
      BY DEF LocalHost
    <3>. QED
      BY <2>2, <2>3, <3>1
  <2>. QED
    BY <2>3, <2>4
<1>7. QED
  BY <1>4, <1>5, <1>6 DEF before, asked
-----------------------------------------------------------------------------
\* The environment of the dashboard.  config changes it when it has read the file.
LEMMA EnvOfConfig ==
  ASSUME NEW e \in Contents, NEW f \in Contents, NEW q \in Requests, Rests(e, f),
         NEW new, new = ConfigContent(f, q), NEW d, d = EnvAfter(e, new, q), NEW k \in Keys, d[k] # None
  PROVE  d[k] = new[k]
<1>1. Apply(f, q) \in Contents /\ Apply(e, q) \in Contents
  BY ApplyTyped
<1>2. \A j \in Keys : Apply(e, q)[j] # None => Apply(e, q)[j] = Apply(f, q)[j]
  BY DEF Rests, Apply
<1>3. CASE Apply(f, q)["url"] # None
  <2>1. new = [Apply(f, q) EXCEPT !["host"] = Apply(f, q)["url"]]
    BY <1>3 DEF ConfigContent
  <2>2. /\ new["url"] = Apply(f, q)["url"] /\ new["host"] = Apply(f, q)["url"]
        /\ k # "host" => new[k] = Apply(f, q)[k]
    BY <1>1, <2>1 DEF Contents, Keys
  <2>3. d = [Apply(e, q) EXCEPT !["host"] = new["url"]]
    BY <1>3, <2>2 DEF EnvAfter
  <2>4. d["host"] = new["url"] /\ (k # "host" => d[k] = Apply(e, q)[k])
    BY <1>1, <2>3 DEF Contents, Keys
  <2>5. QED
    BY <1>2, <2>2, <2>4
<1>4. CASE Apply(f, q)["url"] = None
  <2>1. new = Apply(f, q)
    BY <1>4 DEF ConfigContent
  <2>2. d = Apply(e, q)
    BY <1>4, <2>1 DEF EnvAfter
  <2>3. QED
    BY <1>2, <2>1, <2>2
<1>5. QED
  BY <1>3, <1>4

\* schedule changes it when it returns.
LEMMA EnvOfSchedule ==
  ASSUME NEW e, NEW f, NEW q, Rests(e, f)
  PROVE  Rests(Apply(e, q), Apply(f, q))
  BY DEF Rests, Apply

\* An operation whose end is an end of agreement.
LEMMA EndsBound ==
  ASSUME NEW w \in Writers, Past(op'[w]), Bound(op'[w])
  PROVE  EnvFollows'
  BY DEF EnvFollows, Past, Bound

\* Two operations overlap.
LEMMA EndsOverlap ==
  ASSUME NEW w \in Writers, NEW x \in Writers, w # x, Past(op'[w]), Past(op'[x])
  PROVE  EnvFollows'
  BY DEF EnvFollows, Past

\* Without a success the operation ends an agreement.
LEMMA EnvFails ==
  ASSUME IInv, NEW w \in Writers, op[w].stage # "done", op' = [op EXCEPT ![w].stage = "done"]
  PROVE  EnvFollows'
<1>1. op[w] \in OpStates /\ ~op[w].ok
  BY DEF IInv, TypeOK, AllFollow, OkWhenDone
<1> DEFINE o == [op[w] EXCEPT !.stage = "done"]
<1>2. o \in OpStates /\ o.stage = "done" /\ o.ok = op[w].ok
  BY <1>1, Moves DEF Stages
<1>3. op' = [op EXCEPT ![w] = o]
  OBVIOUS
<1>. HIDE DEF o
<1>4. op'[w] = o
  BY <1>2, <1>3, Becomes DEF IInv
<1>5. Past(op'[w]) /\ Bound(op'[w])
  BY <1>1, <1>2, <1>4 DEF Past, Bound
<1>6. QED
  BY <1>5, EndsBound

\* An operation reads the file, or takes it for an empty one.
LEMMA EnvReads ==
  ASSUME IInv, EnvFollows, NEW w \in Writers, NEW c \in Contents, op[w].stage = "read", ReadAs(w, c),
         UNCHANGED <<file, ops, strayed>>
  PROVE  EnvFollows'
<1>1. /\ op[w] \in OpStates /\ file \in Contents /\ env \in Contents
  BY DEF IInv, TypeOK
<1>2. op[w].asked \in Requests /\ op[w].kind \in AllKinds
  BY <1>1, OpFields
<1>3. PICK new, alone : /\ new = Content(op[w].kind, c, op[w].asked)
                        /\ alone = (c = file /\ ~\E x \in Writers : Writing(x))
  OBVIOUS
<1>4. new \in Contents /\ alone \in BOOLEAN /\ (alone => c = file)
  BY <1>1, <1>2, <1>3, ContentTyped
<1>5. PICK o : o = [op[w] EXCEPT !.stage = "open", !.before = file, !.next = new, !.alone = alone]
  OBVIOUS
<1>6. /\ o \in OpStates /\ o.stage = "open" /\ o.kind = op[w].kind
      /\ o.before = file /\ o.next = new /\ o.alone = alone
  <2>1. [op[w] EXCEPT !.stage = "open", !.before = file, !.next = new, !.alone = alone] \in OpStates
    BY <1>1, <1>4, Reads
  <2>2. o \in OpStates
    BY <1>5, <2>1
  <2>3. /\ o.stage = "open" /\ o.kind = op[w].kind
        /\ o.before = file /\ o.next = new /\ o.alone = alone
    <3>. HIDE DEF Contents, Requests, Stages, AllKinds
    <3>. QED
      BY <1>1, <1>5 DEF OpStates
  <2>4. QED
    BY <2>2, <2>3
<1>7. op' = [op EXCEPT ![w] = o]
  BY <1>3, <1>5, Zenon DEF ReadAs
<1>8. env' = IF op[w].kind = "config" THEN EnvAfter(env, new, op[w].asked) ELSE env
  BY <1>3, Zenon DEF ReadAs
<1>9. op'[w] = o /\ \A x \in Writers \ {w} : op'[x] = op[x]
  BY <1>6, <1>7, Becomes DEF IInv
<1>10. Past(op'[w])
  BY <1>6, <1>9 DEF Past
<1>11. CASE \E x \in Writers : Past(op[x])
  <2>1. PICK x \in Writers : Past(op[x])
    BY <1>11
  <2>2. x # w
    BY <2>1 DEF Past
  <2>3. Past(op'[x])
    BY <1>9, <2>1, <2>2
  <2>4. QED
    BY <1>10, <2>2, <2>3, EndsOverlap
<1>12. CASE ~alone \/ op[w].kind \notin Dashboard
  <2>1. Bound(op'[w])
    BY <1>6, <1>9, <1>12 DEF Bound
  <2>2. QED
    BY <1>10, <2>1, EndsBound
<1>13. CASE alone /\ op[w].kind \in Dashboard /\ ~\E x \in Writers : Past(op[x])
  <2>1. ASSUME ~strayed PROVE Goes(o, env')
    <3>1. Rests(env, file)
      BY <1>13, <2>1 DEF EnvFollows
    <3>2. CASE op[w].kind = "config"
      <4>1. new = ConfigContent(file, op[w].asked)
        BY <1>3, <1>4, <1>13, <3>2 DEF Content
      <4>2. env' = EnvAfter(env, new, op[w].asked)
        BY <1>8, <3>2
      <4>3. \A k \in Keys : env'[k] # None => env'[k] = new[k]
        BY <1>1, <1>2, <3>1, <4>1, <4>2, EnvOfConfig
      <4>4. QED
        BY <1>6, <3>2, <4>3 DEF Goes
    <3>3. CASE op[w].kind # "config"
      BY <1>6, <1>8, <3>1, <3>3 DEF Goes, Rests
    <3>4. QED
      BY <3>2, <3>3
  <2>2. QED
    BY <1>9, <1>10, <2>1 DEF EnvFollows, Past, Goes
<1>14. QED
  BY <1>11, <1>12, <1>13

\* A change of the file by an operation that goes on.
LEMMA EnvChanges ==
  ASSUME IInv, EnvFollows, NEW w \in Writers, NEW o \in OpStates, op' = Disturb(w, [op EXCEPT ![w] = o]),
         op[w].stage \in {"open", "write"}, UNCHANGED <<env, strayed>>, Past(o),
         o.kind = op[w].kind, o.before = op[w].before, o.next = op[w].next, o.alone = op[w].alone
  PROVE  EnvFollows'
<1>1. /\ op'[w] = o /\ \A x \in Writers \ {w} : op'[x].stage = op[x].stage
  BY Disturbs DEF IInv
<1>2. Past(op'[w]) /\ Past(op[w])
  BY <1>1 DEF Past
<1>3. CASE \E x \in Writers \ {w} : Past(op[x])
  <2>1. PICK x \in Writers \ {w} : Past(op[x])
    BY <1>3
  <2>2. Past(op'[x])
    BY <1>1, <2>1 DEF Past
  <2>3. QED
    BY <1>2, <2>1, <2>2, EndsOverlap
<1>4. CASE Bound(op[w])
  <2>1. Bound(op'[w])
    BY <1>1, <1>4 DEF Bound
  <2>2. QED
    BY <1>2, <2>1, EndsBound
<1>5. CASE ~Bound(op[w]) /\ ~\E x \in Writers \ {w} : Past(op[x])
  <2>1. ASSUME ~strayed PROVE Goes(op[w], env)
    BY <1>2, <1>5, <2>1 DEF EnvFollows
  <2>2. ASSUME ~strayed PROVE Goes(op'[w], env')
    BY <1>1, <2>1, <2>2 DEF Goes
  <2>3. QED
    BY <1>2, <2>2 DEF EnvFollows, Past, Goes
<1>6. QED
  BY <1>3, <1>4, <1>5

LEMMA EnvReturns ==
  ASSUME IInv, EnvFollows, NEW w \in Writers, Return(w)
  PROVE  EnvFollows'
<1>1. /\ op[w].stage = "done" /\ op' = [op EXCEPT ![w] = IdleOp] /\ file' = file
      /\ env' = IF op[w].kind = "schedule" THEN Apply(env, op[w].asked) ELSE env
  BY DEF Return, At
<1>2. strayed' = (\/ strayed \/ ~op[w].ok \/ ~op[w].alone \/ op[w].kind \notin Dashboard
                  \/ \E x \in Writers \ {w} : Under(x))
  BY Zenon DEF Return
<1>3. SUFFICES ASSUME ~strayed, op[w].ok, op[w].alone, op[w].kind \in Dashboard,
                      ~\E x \in Writers \ {w} : Under(x)
               PROVE  (\A x \in Writers : ~Past(op'[x])) /\ Rests(env', file')
  BY <1>2 DEF EnvFollows, Past, Rests
<1>4. \A x \in Writers \ {w} : ~Past(op[x])
  BY <1>3 DEF Under, At, Past
<1>5. op'[w] = IdleOp /\ \A x \in Writers \ {w} : op'[x] = op[x]
  BY <1>1, IdleTyped, Becomes DEF IInv
<1>6. \A x \in Writers : ~Past(op'[x])
  BY <1>4, <1>5, IdleTyped DEF Past
<1>7. ~Bound(op[w]) /\ Past(op[w])
  BY <1>1, <1>3 DEF Bound, Past
<1>8. Goes(op[w], env)
  BY <1>3, <1>4, <1>7 DEF EnvFollows
<1>9. file = op[w].next /\ op[w].next = Content(op[w].kind, op[w].before, op[w].asked)
  BY <1>1, <1>3 DEF IInv, AllFollow, Follows
<1>10. CASE op[w].kind = "config"
  BY <1>1, <1>6, <1>8, <1>9, <1>10 DEF Goes, Rests
<1>11. CASE op[w].kind = "schedule"
  <2>1. Rests(env, op[w].before)
    BY <1>8, <1>11 DEF Goes, Rests
  <2>2. file = Apply(op[w].before, op[w].asked)
    BY <1>9, <1>11 DEF Content
  <2>3. QED
    BY <1>1, <1>6, <1>11, <2>1, <2>2, EnvOfSchedule
<1>12. QED
  BY <1>3, <1>10, <1>11 DEF Dashboard

\* A step that leaves environment, file and what has read it alone.
LEMMA EnvSame ==
  ASSUME EnvFollows, UNCHANGED <<file, env, strayed>>,
         \A x \in Writers : Past(op[x]) \/ Past(op'[x]) => op'[x] = op[x]
  PROVE  EnvFollows'
<1>1. \A x \in Writers : Past(op'[x]) <=> Past(op[x])
  OBVIOUS
<1>2. CASE \E w \in Writers : Past(op[w]) /\ Bound(op[w])
  BY <1>2, EndsBound
<1>3. CASE \E w, x \in Writers : w # x /\ Past(op[w]) /\ Past(op[x])
  BY <1>1, <1>3, EndsOverlap
<1>4. CASE \E w \in Writers : Past(op[w]) /\ Goes(op[w], env)
  BY <1>4 DEF EnvFollows, Past, Goes
<1>5. CASE (\A w \in Writers : ~Past(op[w])) /\ Rests(env, file)
  BY <1>1, <1>5 DEF EnvFollows, Past, Rests
<1>6. CASE strayed
  BY <1>6 DEF EnvFollows
<1>7. QED
  BY <1>2, <1>3, <1>4, <1>5, <1>6 DEF EnvFollows

LEMMA EnvStep ==
  ASSUME IInv, EnvFollows, [Next]_vars
  PROVE  EnvFollows'
<1>1. ASSUME NEW w \in Writers, NEW kind \in Kinds, NEW q \in AskableBy(kind), Begin(w, kind, q)
      PROVE  EnvFollows'
  <2>1. PICK o : o = [IdleOp EXCEPT !.kind = kind, !.asked = q, !.stage = "read"]
    OBVIOUS
  <2>2. kind \in AllKinds /\ q \in Requests
    BY EnvStoreAssumption, AskedTyped
  <2>3. o \in OpStates /\ o.stage = "read"
    BY <2>1, <2>2, Asks
  <2>4. op[w].stage = "idle" /\ op' = [op EXCEPT ![w] = o] /\ UNCHANGED <<file, env, strayed>>
    BY <1>1, <2>1 DEF Begin, At
  <2>5. op'[w] = o /\ \A x \in Writers \ {w} : op'[x] = op[x]
    BY <2>3, <2>4, Becomes DEF IInv
  <2>6. \A x \in Writers : Past(op[x]) \/ Past(op'[x]) => op'[x] = op[x]
    BY <2>3, <2>4, <2>5 DEF Past
  <2>7. QED
    BY <2>4, <2>6, EnvSame
<1>2. ASSUME NEW w \in Writers, Read(w) PROVE EnvFollows'
  <2>1. op[w].stage = "read" /\ ReadAs(w, file) /\ UNCHANGED <<file, ops, strayed>>
        /\ file \in Contents
    BY <1>2 DEF Read, At, IInv, TypeOK
  <2>2. QED
    BY <2>1, EnvReads
<1>3. ASSUME NEW w \in Writers, ReadFails(w) PROVE EnvFollows'
  <2>1. op[w].stage = "read" /\ UNCHANGED <<file, ops, strayed>>
    BY <1>3 DEF ReadFails, At
  <2>2. ReadAs(w, Blank) \/ op' = [op EXCEPT ![w].stage = "done"]
    BY <1>3 DEF ReadFails, Panics
  <2>3. QED
    BY <2>1, <2>2, EnvReads, EnvFails, Values2
<1>4. ASSUME NEW w \in Writers, Open(w) PROVE EnvFollows'
  <2>1. op[w].stage = "open" /\ UNCHANGED <<env, strayed>> /\ op[w] \in OpStates
    BY <1>4 DEF Open, At, IInv, TypeOK
  <2>2. PICK o : o = [op[w] EXCEPT !.stage = "write"]
    OBVIOUS
  <2>3. /\ o \in OpStates /\ o.stage = "write" /\ o.kind = op[w].kind
        /\ o.before = op[w].before /\ o.next = op[w].next /\ o.alone = op[w].alone
    BY <2>1, <2>2, Moves DEF Stages
  <2>4. \/ op' = Disturb(w, [op EXCEPT ![w] = o])
        \/ op' = [op EXCEPT ![w].stage = "done"]
    BY <1>4, <2>2 DEF Open
  <2>5. Past(o)
    BY <2>3 DEF Past
  <2>6. QED
    BY <2>1, <2>3, <2>4, <2>5, EnvChanges, EnvFails
<1>5. ASSUME NEW w \in Writers, Write(w) PROVE EnvFollows'
  <2>1. op[w].stage = "write" /\ UNCHANGED <<env, strayed>> /\ op[w] \in OpStates
    BY <1>5 DEF Write, At, IInv, TypeOK
  <2>2. PICK o : o = [op[w] EXCEPT !.stage = "done", !.ok = TRUE]
    OBVIOUS
  <2>3. /\ o \in OpStates /\ o.stage = "done" /\ o.kind = op[w].kind
        /\ o.before = op[w].before /\ o.next = op[w].next /\ o.alone = op[w].alone
    BY <2>1, <2>2, Succeeds
  <2>4. \/ op' = Disturb(w, [op EXCEPT ![w] = o])
        \/ op' = [op EXCEPT ![w].stage = "done"]
    BY <1>5, <2>2 DEF Write
  <2>5. Past(o)
    BY <2>3 DEF Past
  <2>6. QED
    BY <2>1, <2>3, <2>4, <2>5, EnvChanges, EnvFails
<1>6. ASSUME NEW w \in Writers, Return(w) PROVE EnvFollows'
  BY <1>6, EnvReturns
<1>7. ASSUME NEW w \in Writers, Crash(w) PROVE EnvFollows'
  BY <1>7 DEF Crash, EnvFollows
<1>8. CASE RestartDashboard
  <2>1. /\ op' = [w \in Writers |-> IF op[w].kind \in Dashboard THEN IdleOp ELSE op[w]]
        /\ env' = Blank /\ strayed' = \E w \in Writers : Busy(w)
    BY <1>8, Zenon DEF RestartDashboard
  <2>2. SUFFICES ASSUME ~\E w \in Writers : Busy(w)
                 PROVE  (\A w \in Writers : ~Past(op'[w])) /\ Rests(env', file')
    BY <2>1 DEF EnvFollows, Past, Rests
  <2>3. \A w \in Writers : ~Past(op'[w])
    BY <2>1, <2>2, IdleTyped DEF Busy, At, Past
  <2>4. QED
    BY <2>1, <2>3 DEF Rests, Blank
<1>9. CASE UNCHANGED vars
  BY <1>9, EnvSame DEF vars
<1>10. QED
  BY <1>1, <1>2, <1>3, <1>4, <1>5, <1>6, <1>7, <1>8, <1>9 DEF Next, Step

LEMMA EnvAgrees == EnvFollows => DashboardAgrees
<1> SUFFICES ASSUME EnvFollows, ~strayed, \A w \in Writers : ~Busy(w)
             PROVE  \A k \in Keys : env[k] # None => env[k] = file[k]
  BY DEF DashboardAgrees
<1>1. \A w \in Writers : ~Past(op[w])
  BY DEF Busy, At, Past
<1>2. Rests(env, file)
  BY <1>1 DEF EnvFollows
<1>3. QED
  BY <1>2 DEF Rests
-----------------------------------------------------------------------------
\* The type of every variable.
THEOREM TypeCorrect == Spec => []TypeOK
<1>1. IInv => TypeOK
  BY DEF IInv
<1>2. QED
  BY <1>1, Always, PTL

\* A change that succeeds undisturbed keeps what it was not asked to change.
THEOREM KeysKept == Spec => []OthersKept
  BY Always, KeepsOthers, PTL

\* A change that succeeds undisturbed leads to the database it was asked for.
THEOREM ChangeTakesEffect == Spec => []TakesEffect
  BY Always, Effective, PTL

\* The dashboard works with the settings that a restart would give it, as long as it alone changes
\* them, one request at a time, and none of its requests fails (handleConfig, handleSchedule).
THEOREM EnvironmentAgrees == Spec => []DashboardAgrees
<1>1. Init => EnvFollows
  BY IdleTyped DEF Init, EnvFollows, Past, Rests, Blank
<1>2. IInv /\ IInv' /\ EnvFollows /\ [Next]_vars => EnvFollows'
  BY EnvStep
<1>3. Spec => []EnvFollows
  BY <1>1, <1>2, Always, PTL DEF Spec
<1>4. QED
  BY <1>3, EnvAgrees, PTL
=============================================================================
