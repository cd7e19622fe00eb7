-------------------------------- MODULE Logs --------------------------------
(***************************************************************************)
(* A log file of gaet (gaet.log, cron.log): processes that append to it    *)
(* and rotate it (logger.go), and `gaet log --follow` (log.go).  Nobody    *)
(* locks: whether to rotate, the renaming, the opening and the appending   *)
(* are separate calls of separate processes.                               *)
(*                                                                         *)
(* A file that was created keeps its number in "files" when it is renamed  *)
(* or its name is given to another one; its content is the sequence of the *)
(* lines in it.  A line is the number under which it was written.          *)
(***************************************************************************)
EXTENDS Naturals, Sequences, FiniteSets

CONSTANTS Writers,   \* processes and requests that log
          Limit,     \* lines that make maxLogSizeBytes
          MaxLines,  \* bound on the lines written
          None

ASSUME LogsAssumption == /\ Limit \in Nat \ {0}
                         /\ MaxLines \in Nat
                         /\ None \notin Nat

VARIABLES files,    \* the content of every file ever created
          log,      \* the file under the log's name, or None
          old,      \* the file under the name with .old, or None
          writer,   \* what each writer is about to do
          since,    \* history: for each line, how many there were when its writer began
          astray,   \* history: a file other than the one found too long was rotated
          rotated,  \* history: the log was rotated
          follower, \* gaet log --follow: the file it has open, its position
          printed   \* the lines the follower has printed

vars == <<files, log, old, writer, since, astray, rotated, follower, printed>>

Files == DOMAIN files
Lines == DOMAIN since
Idle == [at |-> "idle", file |-> None, began |-> 0]

Init == /\ files = <<>>
        /\ log = None
        /\ old = None
        /\ writer = [w \in Writers |-> Idle]
        /\ since = <<>>
        /\ astray = FALSE
        /\ rotated = FALSE
        /\ follower = [file |-> None, position |-> 0]
        /\ printed = <<>>

At(w, stage) == writer[w].at = stage
-----------------------------------------------------------------------------
\* The file is rotated whenever there is a line in it.
TooLongAtOnce(f) == Len(files[f]) > 0

TooLong(f) == Len(files[f]) >= Limit

\* WriteJSONLog or AppendCronLog, up to the Stat of rotateIfNeeded.
Begin(w) ==
  /\ At(w, "idle")
  /\ Len(since) + Cardinality({v \in Writers : ~At(v, "idle")}) < MaxLines
  /\ writer' = [writer EXCEPT ![w] =
                  [at |-> IF log # None /\ TooLong(log) THEN "rename" ELSE "open",
                   file |-> log, began |-> Len(since)]]
  /\ UNCHANGED <<files, log, old, since, astray, rotated, follower, printed>>

\* os.Rename of whatever is under the name by now; its error is ignored.
Rotate(w) ==
  /\ At(w, "rename")
  /\ IF log = None THEN UNCHANGED <<old, log, astray, rotated>>
     ELSE /\ old' = log
          /\ log' = None
          /\ astray' = (astray \/ log # writer[w].file)
          /\ rotated' = TRUE
  /\ writer' = [writer EXCEPT ![w].at = "open"]
  /\ UNCHANGED <<files, since, follower, printed>>

\* os.OpenFile with O_TRUNC.
OpenTruncated(w) ==
  /\ At(w, "open")
  /\ files' = IF log = None THEN Append(files, <<>>) ELSE [files EXCEPT ![log] = <<>>]
  /\ log' = IF log = None THEN Len(files) + 1 ELSE log
  /\ writer' = [writer EXCEPT ![w].at = "write", ![w].file = log']
  /\ UNCHANGED <<old, since, astray, rotated, follower, printed>>

\* os.OpenFile with O_APPEND|O_CREATE.
Open(w) ==
  /\ At(w, "open")
  /\ IF log = None THEN /\ files' = Append(files, <<>>)
                        /\ log' = Len(files) + 1
     ELSE UNCHANGED <<files, log>>
  /\ writer' = [writer EXCEPT ![w].at = "write", ![w].file = log']
  /\ UNCHANGED <<old, since, astray, rotated, follower, printed>>

\* WriteString, at the end of the file that was opened, wherever that is now.
Write(w) ==
  LET line == Len(since) + 1 IN
  /\ At(w, "write")
  /\ files' = [files EXCEPT ![writer[w].file] = Append(@, line)]
  /\ since' = Append(since, writer[w].began)
  /\ writer' = [writer EXCEPT ![w] = Idle]
  /\ UNCHANGED <<log, old, astray, rotated, follower, printed>>

\* The process dies, or the directory, the opening or the writing fails: the line is
\* not logged, and nobody is told.
Lose(w) ==
  /\ ~At(w, "idle")
  /\ writer' = [writer EXCEPT ![w] = Idle]
  /\ UNCHANGED <<files, log, old, since, astray, rotated, follower, printed>>
-----------------------------------------------------------------------------
\* followLogs opens the file; without a file it comes back a second later.
OpenToFollow ==
  /\ follower.file = None
  /\ log # None
  /\ follower' = [follower EXCEPT !.file = log]
  /\ UNCHANGED <<files, log, old, writer, since, astray, rotated, printed>>

\* The position is that of the first round for ever.
FollowFromStart ==
  /\ follower.file # None
  /\ printed' = printed \o files[follower.file]
  /\ follower' = [file |-> None, position |-> 0]
  /\ UNCHANGED <<files, log, old, writer, since, astray, rotated>>

\* The new position is added to the old one.
FollowAdding ==
  LET content == files[follower.file] IN
  /\ follower.file # None
  /\ printed' = printed \o SubSeq(content, follower.position + 1, Len(content))
  /\ follower' = [file |-> None, position |-> follower.position + Len(content)]
  /\ UNCHANGED <<files, log, old, writer, since, astray, rotated>>

\* It prints what comes after its position, which may lie behind the end of a file
\* that has come to the name since, and closes the file.
Follow ==
  LET content == files[follower.file] IN
  /\ follower.file # None
  /\ printed' = printed \o SubSeq(content, follower.position + 1, Len(content))
  /\ follower' = [file |-> None, position |-> IF Len(content) > follower.position
                                              THEN Len(content) ELSE follower.position]
  /\ UNCHANGED <<files, log, old, writer, since, astray, rotated>>

Next == \/ \E w \in Writers : Begin(w) \/ Rotate(w) \/ Open(w) \/ Write(w) \/ Lose(w)
        \/ OpenToFollow
        \/ Follow

Spec == Init /\ [][Next]_vars

\* The follower's loop goes on; nobody has to write.
FairSpec == Spec /\ WF_vars(OpenToFollow) /\ WF_vars(Follow)
-----------------------------------------------------------------------------
(***************************************************************************)
(* Properties                                                              *)
(***************************************************************************)
\* The type of every variable.
TypeOK == /\ files \in Seq(Seq(1 .. MaxLines))
          /\ {log, old} \subseteq Files \cup {None}
          /\ writer \in [Writers -> [at : {"idle", "rename", "open", "write"},
                                     file : Files \cup {None}, began : 0 .. MaxLines]]
          /\ since \in Seq(0 .. MaxLines) /\ Len(since) <= MaxLines
          /\ {astray, rotated} \subseteq BOOLEAN
          /\ follower \in [file : Files \cup {None}, position : 0 .. MaxLines]
          /\ printed \in Seq(1 .. MaxLines)

Holds(f, line) == f # None /\ \E i \in DOMAIN files[f] : files[f][i] = line
Kept(line) == Holds(log, line) \/ Holds(old, line)

\* A line that is in neither of the two files any more is old: as many lines as make a
\* full file have been written since its writer began, however the writers overlap, as
\* long as no rotation hit a file other than the one that was found too long.
LostOnlyWhenOld ==
  astray \/ \A line \in Lines : Kept(line) \/ Len(since) - since[line] > Limit

\* The follower prints no line a second time, across any number of rotations.
PrintedOnce ==
  \A i, j \in DOMAIN printed : printed[i] = printed[j] => i = j

\* As long as the log is not rotated, every line in it reaches the follower.
FollowerCatchesUp ==
  \A line \in 1 .. MaxLines :
    line \in Lines ~> (rotated \/ \E i \in DOMAIN printed : printed[i] = line)
=============================================================================
