----------------------------- MODULE LogsProofs -----------------------------
(***************************************************************************)
(* Proofs about Logs for any writers, any length of the files and any      *)
(* number of lines.                                                        *)
(*                                                                         *)
(* The argument: a line is at one place, in one file (StoredInv), and a    *)
(* printed one lies before the follower's position, whatever file it was   *)
(* in (Passed); what comes after the position is new.  Who writes to a     *)
(* file that has been rotated began before the next one was created, so    *)
(* all the lines of that one are younger (Older); when it is rotated in    *)
(* its turn it is full (Full), and the lines that go with the file it      *)
(* replaces are old.                                                       *)
(***************************************************************************)
EXTENDS Logs, FiniteSetTheorems, SequenceTheorems, TLAPS

\* The writers under way, and the lines there will be with theirs.
Busy == {w \in Writers : ~At(w, "idle")}
Bounded == IsFiniteSet(Busy) /\ Len(since) + Cardinality(Busy) <= MaxLines

\* A writer that rotates or writes has a file, and began in the past.
Opened == \A w \in Writers : writer[w].at \in {"rename", "write"} => writer[w].file # None
Began == /\ \A w \in Writers : writer[w].began <= Len(since)
         /\ \A line \in Lines : since[line] < line
Short == \A f \in Files : Len(files[f]) <= Len(since)
TypeInv == TypeOK /\ Bounded /\ Opened /\ Began /\ Short

\* Every line is in a file, at one place.
Stored == /\ \A f \in Files : \A i \in DOMAIN files[f] : files[f][i] \in Lines
          /\ \A line \in Lines : \E f \in Files : \E i \in DOMAIN files[f] : files[f][i] = line
Once == \A f, g \in Files : \A i \in DOMAIN files[f], j \in DOMAIN files[g] :
          files[f][i] = files[g][j] => f = g /\ i = j
StoredInv == Stored /\ Once

\* What was printed lies before the position.
PrintedAt(k, f, i) == i <= follower.position /\ files[f][i] = printed[k]
Passed == \A k \in DOMAIN printed : \E f \in Files : \E i \in DOMAIN files[f] : PrintedAt(k, f, i)
PrintInv == Passed /\ PrintedOnce

\* The lines of file f, and those still to come, began n lines ago.
SinceLines(f, n) == \A i \in DOMAIN files[f] : Len(since) - since[files[f][i]] > n
SinceWriters(f, n) ==
  \A w \in Writers : At(w, "write") /\ writer[w].file = f => Len(since) - writer[w].began >= n
Since(f, n) == SinceLines(f, n) /\ SinceWriters(f, n)
Full == \A w \in Writers : At(w, "rename") => Len(files[writer[w].file]) >= Limit
Older == ~astray => /\ log # None /\ old # None => log # old /\ Since(old, Len(files[log]))
                    /\ \A f \in Files \ {log, old} : Since(f, Limit)
LossInv == Full /\ Older

-----------------------------------------------------------------------------
\* What a state of the right type is made of.
LEMMA Parts ==
  ASSUME TypeInv
  PROVE  /\ Files = 1 .. Len(files) /\ Len(files) \in Nat /\ Lines = 1 .. Len(since)
         /\ Len(since) \in 0 .. MaxLines /\ MaxLines \in Nat /\ Limit \in Nat \ {0}
         /\ since \in Seq(0 .. MaxLines) /\ files \in Seq(Seq(1 .. MaxLines))
         /\ \A f \in Files : /\ files[f] \in Seq(1 .. MaxLines)
                             /\ Len(files[f]) \in Nat
                             /\ DOMAIN files[f] = 1 .. Len(files[f])
         /\ \A line \in Lines : since[line] \in 0 .. MaxLines
         /\ \A w \in Writers : /\ writer[w].at \in {"idle", "rename", "open", "write"}
                               /\ writer[w].file \in Files \cup {None}
                               /\ writer[w].began \in 0 .. MaxLines
         /\ log \in Files \cup {None} /\ old \in Files \cup {None}
         /\ follower.file \in Files \cup {None} /\ follower.position \in 0 .. MaxLines
         /\ printed \in Seq(1 .. MaxLines) /\ DOMAIN printed = 1 .. Len(printed)
         /\ None \notin Files
<1>1. /\ files \in Seq(Seq(1 .. MaxLines)) /\ since \in Seq(0 .. MaxLines)
      /\ printed \in Seq(1 .. MaxLines) /\ MaxLines \in Nat /\ Limit \in Nat \ {0} /\ None \notin Nat
  BY LogsAssumption DEF TypeInv, TypeOK
<1>2. /\ Files = 1 .. Len(files) /\ Len(files) \in Nat /\ Lines = 1 .. Len(since) /\ Len(since) \in Nat
      /\ DOMAIN printed = 1 .. Len(printed)
  BY <1>1, LenProperties DEF Files, Lines
<1>3. \A f \in Files : files[f] \in Seq(1 .. MaxLines)
  BY <1>1, <1>2, ElementOfSeq
<1>4. \A f \in Files : Len(files[f]) \in Nat /\ DOMAIN files[f] = 1 .. Len(files[f])
  BY <1>3, LenProperties
<1>5. \A line \in Lines : since[line] \in 0 .. MaxLines
  BY <1>1, <1>2, ElementOfSeq
<1>6. /\ \A w \in Writers : /\ writer[w].at \in {"idle", "rename", "open", "write"}
                            /\ writer[w].file \in Files \cup {None}
                            /\ writer[w].began \in 0 .. MaxLines
      /\ log \in Files \cup {None} /\ old \in Files \cup {None} /\ Len(since) <= MaxLines
      /\ follower.file \in Files \cup {None} /\ follower.position \in 0 .. MaxLines
  BY DEF TypeInv, TypeOK
<1>. QED
  BY <1>1, <1>2, <1>3, <1>4, <1>5, <1>6

\* A line is written at the end of its writer's file, wherever that is by now.
LEMMA WriteEffect ==
  ASSUME TypeInv, NEW w \in Writers, Write(w), NEW f, f = writer[w].file
  PROVE  /\ f \in Files /\ Len(since) + 1 <= MaxLines
         /\ Files' = Files /\ Lines' = 1 .. Len(since) + 1 /\ Len(since') = Len(since) + 1
         /\ since' \in Seq(0 .. MaxLines) /\ files' \in Seq(Seq(1 .. MaxLines))
         /\ \A line \in Lines : since'[line] = since[line]
         /\ since'[Len(since) + 1] = writer[w].began
         /\ \A g \in Files \ {f} : files'[g] = files[g]
         /\ Len(files'[f]) = Len(files[f]) + 1 /\ DOMAIN files'[f] = 1 .. Len(files[f]) + 1
         /\ \A i \in 1 .. Len(files[f]) : files'[f][i] = files[f][i]
         /\ files'[f][Len(files[f]) + 1] = Len(since) + 1
<1> DEFINE line == Len(since) + 1
<1>1. f \in Files
  BY Parts DEF Write, At, TypeInv, Opened
<1>2. w \in Busy
  BY DEF Write, At, Busy
<1>3. Cardinality(Busy) \in Nat /\ Cardinality(Busy) # 0
  BY <1>2, FS_CardinalityType, FS_EmptySet DEF TypeInv, Bounded
<1>4. line \in 1 .. MaxLines
  BY <1>3, Parts DEF TypeInv, Bounded
<1>5. /\ files' = [files EXCEPT ![f] = Append(files[f], line)]
      /\ since' = Append(since, writer[w].began)
  BY DEF Write
<1>6. /\ Append(files[f], line) \in Seq(1 .. MaxLines)
      /\ Len(Append(files[f], line)) = Len(files[f]) + 1
      /\ \A i \in 1 .. Len(files[f]) : Append(files[f], line)[i] = files[f][i]
      /\ Append(files[f], line)[Len(files[f]) + 1] = line
  <2>1. files[f] \in Seq(1 .. MaxLines)
    BY <1>1, Parts
  <2>. QED
    BY <1>4, <2>1, AppendProperties
<1>7. /\ files' \in Seq(Seq(1 .. MaxLines)) /\ Len(files') = Len(files)
      /\ \A g \in Files : files'[g] = IF g = f THEN Append(files[f], line) ELSE files[g]
  <2>1. files \in Seq(Seq(1 .. MaxLines)) /\ f \in 1 .. Len(files) /\ Files = 1 .. Len(files)
    BY <1>1, Parts
  <2>2. PICK e : e = Append(files[f], line) /\ e \in Seq(1 .. MaxLines)
    BY <1>6
  <2>3. files' = [files EXCEPT ![f] = e]
    BY <1>5, <2>2
  <2>4. /\ [files EXCEPT ![f] = e] \in Seq(Seq(1 .. MaxLines))
        /\ Len([files EXCEPT ![f] = e]) = Len(files)
        /\ \A g \in 1 .. Len(files) : [files EXCEPT ![f] = e][g] = IF g = f THEN e ELSE files[g]
    BY <2>1, <2>2, ExceptSeq
  <2>. QED
    BY <2>1, <2>2, <2>3, <2>4
<1>8. /\ since' \in Seq(0 .. MaxLines) /\ Len(since') = Len(since) + 1
      /\ \A l \in 1 .. Len(since) : since'[l] = since[l]
      /\ since'[Len(since) + 1] = writer[w].began
  BY <1>5, Parts, AppendProperties
<1>9. Files' = 1 .. Len(files') /\ Lines' = 1 .. Len(since')
  BY <1>7, <1>8, LenProperties DEF Files, Lines
<1>10. DOMAIN files'[f] = 1 .. Len(files[f]) + 1
  BY <1>1, <1>6, <1>7, LenProperties
<1>11. /\ Files' = Files /\ Lines' = 1 .. Len(since) + 1 /\ Len(since) + 1 <= MaxLines
       /\ \A l \in Lines : since'[l] = since[l]
  <2>1. Files' = Files
    BY <1>7, <1>9, Parts
  <2>2. Lines' = 1 .. Len(since) + 1 /\ \A l \in Lines : since'[l] = since[l]
    BY <1>8, <1>9, Parts
  <2>3. Len(since) + 1 <= MaxLines
    BY <1>4, Parts
  <2>. QED
    BY <2>1, <2>2, <2>3
<1>12. /\ \A g \in Files \ {f} : files'[g] = files[g]
       /\ files'[f] = Append(files[f], line)
  BY <1>1, <1>7
<1>13. /\ Len(files'[f]) = Len(files[f]) + 1
       /\ \A i \in 1 .. Len(files[f]) : files'[f][i] = files[f][i]
       /\ files'[f][Len(files[f]) + 1] = line
  BY <1>6, <1>12
<1>. QED
  BY <1>1, <1>7, <1>8, <1>10, <1>11, <1>12, <1>13

\* A file is created empty, under the next number.
LEMMA OpenEffect ==
  ASSUME TypeInv, NEW w \in Writers, Open(w)
  PROVE  /\ log' \in Files' /\ files' \in Seq(Seq(1 .. MaxLines))
         /\ \/ log # None /\ UNCHANGED <<files, log>>
            \/ /\ log = None /\ log' = Len(files) + 1
               /\ Files' = Files \cup {log'} /\ log' \notin Files
               /\ \A f \in Files : files'[f] = files[f]
               /\ files'[log'] = <<>> /\ Len(files'[log']) = 0 /\ DOMAIN files'[log'] = {}
<1>1. CASE log # None
  BY <1>1, Parts DEF Open, Files
<1>2. CASE log = None
  <2>1. files' = Append(files, <<>>) /\ log' = Len(files) + 1
    BY <1>2 DEF Open
  <2>2. <<>> \in Seq(1 .. MaxLines) /\ Len(<<>>) = 0
    BY EmptySeq
  <2>3. /\ files' \in Seq(Seq(1 .. MaxLines)) /\ Len(files') = Len(files) + 1
        /\ \A f \in 1 .. Len(files) : files'[f] = files[f]
        /\ files'[Len(files) + 1] = <<>>
    BY <2>1, <2>2, Parts, AppendProperties
  <2>4. Files' = 1 .. Len(files')
    BY <2>3, LenProperties DEF Files
  <2>. QED
    BY <1>2, <2>1, <2>2, <2>3, <2>4, Parts
<1>. QED
  BY <1>1, <1>2

\* The follower prints the lines after its position, and takes that to the end.
LEMMA FollowEffect ==
  ASSUME TypeInv, Follow,
         NEW content, content = files[follower.file], NEW p, p = follower.position,
         NEW n, n = IF Len(content) > p THEN Len(content) - p ELSE 0
  PROVE  /\ follower.file \in Files /\ p \in Nat /\ n \in Nat
         /\ follower'.file = None /\ follower'.position = p + n
         /\ printed' \in Seq(1 .. MaxLines) /\ DOMAIN printed' = 1 .. Len(printed) + n
         /\ \A k \in 1 .. Len(printed) : printed'[k] = printed[k]
         /\ \A k \in 1 .. n : /\ p + k \in DOMAIN content
                              /\ printed'[Len(printed) + k] = content[p + k]
<1> DEFINE new == SubSeq(content, p + 1, Len(content))
<1>1. /\ follower.file \in Files /\ p \in Nat /\ Len(content) \in Nat
      /\ DOMAIN content = 1 .. Len(content) /\ content \in Seq(1 .. MaxLines)
  <2>1. follower.file \in Files /\ p \in Nat
    BY Parts DEF Follow
  <2>2. Len(content) \in Nat /\ DOMAIN content = 1 .. Len(content) /\ content \in Seq(1 .. MaxLines)
    BY <2>1, Parts
  <2>. QED
    BY <2>1, <2>2
<1>2. n \in Nat /\ \A k \in 1 .. n : p + k \in DOMAIN content
  BY <1>1
<1>3. \A i \in p + 1 .. Len(content) : content[i] \in 1 .. MaxLines
  <2>1. \A i \in p + 1 .. Len(content) : i \in 1 .. Len(content)
    BY <1>1
  <2>. QED
    BY <1>1, <2>1, ElementOfSeq
<1>4. /\ new \in Seq(1 .. MaxLines)
      /\ Len(new) = IF p + 1 <= Len(content) THEN Len(content) - (p + 1) + 1 ELSE 0
      /\ \A i \in 1 .. Len(content) - (p + 1) + 1 : new[i] = content[p + 1 + i - 1]
  <2>1. p + 1 \in Int /\ Len(content) \in Int
    BY <1>1
  <2>. QED
    BY <1>3, <2>1, SubSeqProperties
<1>5. Len(new) = n /\ \A k \in 1 .. n : new[k] = content[p + k]
  <2>1. Len(new) = n
    BY <1>1, <1>4
  <2>2. ASSUME NEW k \in 1 .. n PROVE new[k] = content[p + k]
    <3>1. k \in 1 .. Len(content) - (p + 1) + 1 /\ p + 1 + k - 1 = p + k
      BY <1>1
    <3>. QED
      BY <1>4, <3>1
  <2>. QED
    BY <2>1, <2>2
<1>6. printed' = printed \o new
  BY DEF Follow
<1>7. printed \in Seq(1 .. MaxLines) /\ Len(printed) \in Nat
  BY Parts, LenProperties
<1>8. /\ printed' \in Seq(1 .. MaxLines) /\ Len(printed') = Len(printed) + n
      /\ \A k \in 1 .. Len(printed) + n :
           printed'[k] = IF k <= Len(printed) THEN printed[k] ELSE new[k - Len(printed)]
  <2>. HIDE DEF new
  <2>1. new \in Seq(1 .. MaxLines) /\ Len(new) = n
    BY <1>4, <1>5
  <2>2. /\ printed \o new \in Seq(1 .. MaxLines)
        /\ Len(printed \o new) = Len(printed) + Len(new)
        /\ \A k \in 1 .. Len(printed) + Len(new) :
             (printed \o new)[k] = IF k <= Len(printed) THEN printed[k] ELSE new[k - Len(printed)]
    BY <1>7, <2>1, ConcatProperties
  <2>. QED
    BY <1>6, <2>1, <2>2
<1>9. DOMAIN printed' = 1 .. Len(printed) + n
  BY <1>8, LenProperties
<1>10. \A k \in 1 .. Len(printed) : printed'[k] = printed[k]
  BY <1>2, <1>7, <1>8
<1>11. ASSUME NEW k \in 1 .. n PROVE printed'[Len(printed) + k] = content[p + k]
  <2>1. /\ Len(printed) + k \in 1 .. Len(printed) + n /\ ~(Len(printed) + k <= Len(printed))
        /\ Len(printed) + k - Len(printed) = k
    BY <1>2, <1>7
  <2>. HIDE DEF new
  <2>2. printed'[Len(printed) + k] = new[Len(printed) + k - Len(printed)]
    BY <1>8, <2>1
  <2>. QED
    BY <1>5, <2>1, <2>2
<1>12. follower'.file = None /\ follower'.position = p + n
  BY <1>1 DEF Follow
<1>. QED
  BY <1>1, <1>2, <1>8, <1>9, <1>10, <1>11, <1>12

-----------------------------------------------------------------------------
\* The types hold at first, and so does the rest.
LEMMA InitType == Init => TypeInv
<1> SUFFICES ASSUME Init PROVE TypeInv
  OBVIOUS
<1>1. Busy = {}
  BY DEF Init, Busy, At, Idle
<1>2. /\ files \in Seq(Seq(1 .. MaxLines)) /\ since \in Seq(0 .. MaxLines)
      /\ printed \in Seq(1 .. MaxLines) /\ Len(since) = 0 /\ Files = {} /\ Lines = {}
  BY EmptySeq DEF Init, Files, Lines
<1>3. TypeOK
  <2>1. follower \in [file : Files \cup {None}, position : 0 .. MaxLines]
    BY LogsAssumption DEF Init
  <2>2. writer \in [Writers -> [at : {"idle", "rename", "open", "write"},
                                file : Files \cup {None}, began : 0 .. MaxLines]]
    BY LogsAssumption DEF Init, Idle
  <2>3. {log, old} \subseteq Files \cup {None} /\ {astray, rotated} \subseteq BOOLEAN
    BY DEF Init
  <2>4. Len(since) <= MaxLines
    BY <1>2, LogsAssumption
  <2>. QED
    BY <1>2, <2>1, <2>2, <2>3, <2>4 DEF TypeOK
<1>4. Bounded
  BY <1>1, <1>2, FS_EmptySet, LogsAssumption DEF Bounded
<1>5. Opened /\ Began /\ Short
  BY <1>2 DEF Init, Opened, Began, Short, Idle
<1>. QED
  BY <1>3, <1>4, <1>5 DEF TypeInv

\* A writer comes or goes.
LEMMA BusyStep ==
  ASSUME TypeInv, NEW w \in Writers, NEW s,
         writer' = [writer EXCEPT ![w] = s]
  PROVE  /\ s.at # "idle" /\ ~At(w, "idle") => Busy' = Busy
         /\ s.at # "idle" => Busy' = Busy \cup {w}
         /\ s.at = "idle" => Busy' = Busy \ {w}
         /\ IsFiniteSet(Busy') /\ Cardinality(Busy) \in Nat /\ Cardinality(Busy') \in Nat
         /\ Cardinality(Busy') = IF s.at = "idle"
                                 THEN IF w \in Busy THEN Cardinality(Busy) - 1 ELSE Cardinality(Busy)
                                 ELSE IF w \in Busy THEN Cardinality(Busy) ELSE Cardinality(Busy) + 1
<1>1. writer \in [Writers -> [at : {"idle", "rename", "open", "write"},
                              file : Files \cup {None}, began : 0 .. MaxLines]]
  BY DEF TypeInv, TypeOK
<1>2. /\ s.at # "idle" => Busy' = Busy \cup {w}
      /\ s.at = "idle" => Busy' = Busy \ {w}
  BY <1>1 DEF Busy, At
<1>3. s.at # "idle" /\ ~At(w, "idle") => Busy' = Busy
  BY <1>2 DEF Busy
<1>4. IsFiniteSet(Busy)
  BY DEF TypeInv, Bounded
<1>5. /\ IsFiniteSet(Busy \cup {w}) /\ IsFiniteSet(Busy \ {w})
      /\ Cardinality(Busy \cup {w}) = IF w \in Busy THEN Cardinality(Busy) ELSE Cardinality(Busy) + 1
      /\ Cardinality(Busy \ {w}) = IF w \in Busy THEN Cardinality(Busy) - 1 ELSE Cardinality(Busy)
  BY <1>4, FS_AddElement, FS_RemoveElement
<1>6. IsFiniteSet(Busy')
  BY <1>2, <1>5
<1>7. Cardinality(Busy) \in Nat /\ Cardinality(Busy') \in Nat
  BY <1>4, <1>6, FS_CardinalityType
<1>8. Cardinality(Busy') = IF s.at = "idle"
                           THEN IF w \in Busy THEN Cardinality(Busy) - 1 ELSE Cardinality(Busy)
                           ELSE IF w \in Busy THEN Cardinality(Busy) ELSE Cardinality(Busy) + 1
  BY <1>2, <1>5
<1>. QED
  BY <1>2, <1>3, <1>6, <1>7, <1>8

\* A step that touches no file keeps the types if it keeps the writers'.
WriterStates == [at : {"idle", "rename", "open", "write"}, file : Files \cup {None},
                 began : 0 .. MaxLines]

LEMMA SameFiles ==
  ASSUME TypeInv, UNCHANGED <<files, since>>,
         writer' \in [Writers -> WriterStates], Opened', Bounded',
         \A w \in Writers : writer'[w].began <= Len(since),
         {log', old'} \subseteq Files \cup {None}, {astray', rotated'} \subseteq BOOLEAN,
         follower' \in [file : Files \cup {None}, position : 0 .. MaxLines],
         printed' \in Seq(1 .. MaxLines)
  PROVE  TypeInv'
<1>1. Files' = Files /\ Lines' = Lines
  BY DEF Files, Lines
<1>2. TypeOK'
  BY <1>1 DEF TypeInv, TypeOK, WriterStates
<1>3. Began' /\ Short'
  BY <1>1 DEF TypeInv, Began, Short
<1>. QED
  BY <1>2, <1>3 DEF TypeInv

\* Every step keeps the types, and as many lines to come as are left.
LEMMA TypeStep == TypeInv /\ [Next]_vars => TypeInv'
<1> SUFFICES ASSUME TypeInv, [Next]_vars PROVE TypeInv'
  OBVIOUS
<1>1. /\ writer \in [Writers -> WriterStates] /\ Opened /\ Bounded
      /\ \A w \in Writers : writer[w].began <= Len(since)
      /\ {log, old} \subseteq Files \cup {None} /\ {astray, rotated} \subseteq BOOLEAN
      /\ follower \in [file : Files \cup {None}, position : 0 .. MaxLines]
      /\ printed \in Seq(1 .. MaxLines)
  BY DEF TypeInv, TypeOK, WriterStates, Began
<1>2. Idle \in WriterStates
  BY LogsAssumption DEF Idle, WriterStates
<1>3. Busy' = Busy /\ since' = since => Bounded'
  BY <1>1 DEF Bounded
<1>4. CASE UNCHANGED vars
  <2>1. Opened' /\ Busy' = Busy
    BY <1>1, <1>4 DEF vars, Opened, Busy, At
  <2>. QED
    BY <1>1, <1>3, <1>4, <2>1, SameFiles DEF vars
<1>5. ASSUME NEW w \in Writers, Begin(w) PROVE TypeInv'
  <2> DEFINE at == IF log # None /\ TooLong(log) THEN "rename" ELSE "open"
             s == [at |-> at, file |-> log, began |-> Len(since)]
  <2>1. s \in WriterStates /\ s.at # "idle" /\ (s.at = "rename" => s.file # None)
        /\ s.at # "write" /\ s.began = Len(since)
    BY <1>1, Parts DEF WriterStates
  <2>2. writer' = [writer EXCEPT ![w] = s] /\ w \notin Busy
    BY <1>5 DEF Begin, Busy
  <2>. HIDE DEF s
  <2>3. writer' \in [Writers -> WriterStates] /\ Opened'
    BY <1>1, <2>1, <2>2 DEF Opened
  <2>4. IsFiniteSet(Busy') /\ Cardinality(Busy') = Cardinality(Busy) + 1 /\ Cardinality(Busy) \in Nat
    BY <2>1, <2>2, BusyStep
  <2>5. Len(since) + Cardinality(Busy) < MaxLines /\ since' = since
    BY <1>5 DEF Begin, Busy
  <2>6. Bounded'
    BY <2>4, <2>5, Parts DEF Bounded
  <2>7. \A v \in Writers : writer'[v].began <= Len(since)
    BY <1>1, <2>1, <2>2, Parts
  <2>. QED
    BY <1>1, <1>5, <2>3, <2>6, <2>7, SameFiles DEF Begin
<1>6. ASSUME NEW w \in Writers, Rotate(w) PROVE TypeInv'
  <2>1. writer' = [writer EXCEPT ![w].at = "open"]
    BY <1>6 DEF Rotate
  <2>2. writer' \in [Writers -> WriterStates] /\ Opened' /\ Busy' = Busy
    BY <1>1, <1>6, <2>1 DEF Rotate, WriterStates, Opened, Busy, At
  <2>3. \A v \in Writers : writer'[v].began <= Len(since)
    BY <1>1, <2>1 DEF WriterStates
  <2>4. {log', old'} \subseteq Files \cup {None} /\ {astray', rotated'} \subseteq BOOLEAN
    BY <1>1, <1>6 DEF Rotate
  <2>. QED
    BY <1>1, <1>3, <1>6, <2>2, <2>3, <2>4, SameFiles DEF Rotate
<1>7. ASSUME NEW w \in Writers, Lose(w) PROVE TypeInv'
  <2>1. writer' = [writer EXCEPT ![w] = Idle] /\ Idle.at = "idle" /\ Idle.began = 0
    BY <1>7 DEF Lose, Idle
  <2>2. writer' \in [Writers -> WriterStates] /\ Opened'
    BY <1>1, <1>2, <2>1 DEF Opened
  <2>3. \A v \in Writers : writer'[v].began <= Len(since)
    BY <1>1, <2>1, Parts
  <2>4. IsFiniteSet(Busy') /\ Cardinality(Busy') <= Cardinality(Busy) /\ Cardinality(Busy) \in Nat
        /\ Cardinality(Busy') \in Nat /\ since' = since
    <3>1. since' = since
      BY <1>7 DEF Lose
    <3>2. /\ IsFiniteSet(Busy') /\ Cardinality(Busy) \in Nat /\ Cardinality(Busy') \in Nat
          /\ Cardinality(Busy') = IF w \in Busy THEN Cardinality(Busy) - 1 ELSE Cardinality(Busy)
      BY <2>1, BusyStep
    <3>. QED
      BY <3>1, <3>2
  <2>5. Bounded'
    BY <1>1, <2>4, Parts DEF Bounded
  <2>. QED
    BY <1>1, <1>7, <2>2, <2>3, <2>5, SameFiles DEF Lose
<1>8. ASSUME NEW w \in Writers, Open(w) PROVE TypeInv'
  <2>1. /\ Files \subseteq Files' /\ log' \in Files' /\ files' \in Seq(Seq(1 .. MaxLines))
        /\ \A f \in Files' : (f \in Files /\ files'[f] = files[f]) \/ Len(files'[f]) = 0
    BY <1>8, OpenEffect DEF Files
  <2>2. since' = since /\ Lines' = Lines /\ UNCHANGED <<old, astray, rotated, follower, printed>>
    BY <1>8 DEF Open, Lines
  <2>3. writer' = [writer EXCEPT ![w].at = "write", ![w].file = log'] /\ At(w, "open")
    BY <1>8 DEF Open
  <2>4. log' # None
    BY <1>8, Parts, OpenEffect, LogsAssumption
  <2>5. Opened' /\ Busy' = Busy /\ \A v \in Writers : writer'[v].began <= Len(since)
    BY <1>1, <2>3, <2>4 DEF Opened, Busy, At, WriterStates
  <2>6. writer' \in [Writers -> [at : {"idle", "rename", "open", "write"}, file : Files' \cup {None},
                                 began : 0 .. MaxLines]]
    BY <1>1, <2>1, <2>3 DEF WriterStates
  <2>7. TypeOK'
    BY <1>1, <2>1, <2>2, <2>6 DEF TypeInv, TypeOK
  <2>8. Began' /\ Short' /\ Bounded'
    BY <1>3, <2>1, <2>2, <2>5, Parts DEF TypeInv, Began, Short
  <2>. QED
    BY <2>5, <2>7, <2>8 DEF TypeInv
<1>9. ASSUME NEW w \in Writers, Write(w) PROVE TypeInv'
  <2> DEFINE f == writer[w].file
  <2>1. /\ f \in Files /\ Len(since) + 1 <= MaxLines
        /\ Files' = Files /\ Lines' = 1 .. Len(since) + 1 /\ Len(since') = Len(since) + 1
        /\ since' \in Seq(0 .. MaxLines) /\ files' \in Seq(Seq(1 .. MaxLines))
        /\ \A line \in Lines : since'[line] = since[line]
        /\ since'[Len(since) + 1] = writer[w].began
        /\ \A g \in Files \ {f} : files'[g] = files[g]
        /\ Len(files'[f]) = Len(files[f]) + 1
    BY <1>9, WriteEffect
  <2>2. writer' = [writer EXCEPT ![w] = Idle] /\ Idle.at = "idle" /\ Idle.began = 0 /\ w \in Busy
    BY <1>9 DEF Write, Idle, Busy, At
  <2>3. writer' \in [Writers -> WriterStates] /\ Opened'
    BY <1>1, <1>2, <2>2 DEF Opened
  <2>4. IsFiniteSet(Busy') /\ Cardinality(Busy') = Cardinality(Busy) - 1 /\ Cardinality(Busy) \in Nat
    BY <2>2, BusyStep
  <2>5. Bounded'
    BY <1>1, <2>1, <2>4, Parts DEF Bounded
  <2>6. TypeOK'
    BY <1>1, <1>9, <2>1, <2>3, Parts DEF TypeOK, WriterStates, Write
  <2>7. Began'
    <3>1. \A v \in Writers : writer'[v].began <= Len(since')
      <4>1. /\ Len(since) \in Nat /\ Len(since') = Len(since) + 1
            /\ \A v \in Writers : writer[v].began \in Nat /\ writer[v].began <= Len(since)
        BY <1>1, <2>1, Parts
      <4>2. \A v \in Writers : writer'[v].began \in {0, writer[v].began}
        BY <1>1, <2>2
      <4>. QED
        BY <4>1, <4>2
    <3>2. ASSUME NEW line \in Lines' PROVE since'[line] < line
      <4>1. CASE line \in Lines
        <5>1. since[line] < line
          BY <4>1 DEF TypeInv, Began
        <5>. QED
          BY <2>1, <4>1, <5>1
      <4>2. CASE line = Len(since) + 1
        <5>1. writer[w].began <= Len(since) /\ writer[w].began \in Nat /\ Len(since) \in Nat
          BY <1>1, Parts
        <5>. QED
          BY <2>1, <4>2, <5>1
      <4>. QED
        BY <2>1, <4>1, <4>2, Parts
    <3>. QED
      BY <3>1, <3>2 DEF Began
  <2>8. Short'
    <3>0. Len(since) \in Nat
      BY Parts
    <3>1. \A g \in Files : Len(files[g]) <= Len(since) /\ Len(files[g]) \in Nat
      BY Parts DEF TypeInv, Short
    <3>2. ASSUME NEW g \in Files' PROVE Len(files'[g]) <= Len(since')
      <4>. HIDE DEF f
      <4>1. CASE g = f
        BY <2>1, <3>1, <3>0, <4>1
      <4>2. CASE g # f
        <5>1. files'[g] = files[g] /\ g \in Files
          BY <2>1, <4>2
        <5>2. Len(since') = Len(since) + 1
          BY <2>1
        <5>. QED
          BY <3>1, <3>0, <5>1, <5>2
      <4>. QED
        BY <4>1, <4>2
    <3>. QED
      BY <3>2 DEF Short
  <2>. QED
    BY <2>3, <2>5, <2>6, <2>7, <2>8 DEF TypeInv
<1>10. CASE OpenToFollow
  <2>1. follower' \in [file : Files \cup {None}, position : 0 .. MaxLines]
    BY <1>1, <1>10 DEF OpenToFollow
  <2>2. Opened' /\ Busy' = Busy
    BY <1>1, <1>10 DEF OpenToFollow, Opened, Busy, At
  <2>. QED
    BY <1>1, <1>3, <1>10, <2>1, <2>2, SameFiles DEF OpenToFollow
<1>11. CASE Follow
  <2>1. follower' \in [file : Files \cup {None}, position : 0 .. MaxLines]
    <3>1. \A f \in Files : Len(files[f]) \in 0 .. MaxLines
      BY Parts DEF TypeInv, Short
    <3>2. follower.file \in Files
      BY <1>11, Parts DEF Follow
    <3>. QED
      BY <1>1, <1>11, <3>1, <3>2 DEF Follow
  <2>2. Opened' /\ Busy' = Busy
    BY <1>1, <1>11 DEF Follow, Opened, Busy, At
  <2>3. printed' \in Seq(1 .. MaxLines)
    BY <1>11, FollowEffect
  <2>. QED
    BY <1>1, <1>3, <1>11, <2>1, <2>2, <2>3, SameFiles DEF Follow
<1>. QED
  BY <1>4, <1>5, <1>6, <1>7, <1>8, <1>9, <1>10, <1>11 DEF Next

-----------------------------------------------------------------------------
\* With no file there is no line, printed or lost.
LEMMA InitInvs == Init => StoredInv /\ PrintInv /\ LossInv
<1> SUFFICES ASSUME Init PROVE StoredInv /\ PrintInv /\ LossInv
  OBVIOUS
<1>1. Files = {} /\ Lines = {} /\ DOMAIN printed = {}
  BY DEF Init, Files, Lines
<1>2. \A w \in Writers : ~At(w, "rename")
  BY DEF Init, At, Idle
<1>. QED
  BY <1>1, <1>2 DEF Init, StoredInv, Stored, Once, PrintInv, Passed, PrintedOnce, LossInv, Full, Older

\* Every step leaves each line at its place, and a new one goes to one.
LEMMA StoredStep == TypeInv /\ StoredInv /\ [Next]_vars => StoredInv'
<1> SUFFICES ASSUME TypeInv, StoredInv, [Next]_vars PROVE StoredInv'
  OBVIOUS
<1>1. ASSUME UNCHANGED <<files, since>> PROVE StoredInv'
  BY <1>1 DEF StoredInv, Stored, Once, Files, Lines
<1>2. ASSUME NEW w \in Writers, Open(w) PROVE StoredInv'
  <2>1. since' = since /\ Lines' = Lines
    BY <1>2 DEF Open, Lines
  <2>2. CASE UNCHANGED files
    BY <1>1, <2>1, <2>2
  <2>3. CASE /\ Files' = Files \cup {log'} /\ log' \notin Files
             /\ \A f \in Files : files'[f] = files[f]
             /\ DOMAIN files'[log'] = {}
    <3>1. Stored'
      BY <2>1, <2>3 DEF StoredInv, Stored
    <3>2. Once'
      BY <2>3 DEF StoredInv, Once
    <3>. QED
      BY <3>1, <3>2 DEF StoredInv
  <2>. QED
    BY <1>2, <2>2, <2>3, OpenEffect
<1>3. ASSUME NEW w \in Writers, Write(w) PROVE StoredInv'
  <2> DEFINE f == writer[w].file
             n == Len(files[f]) + 1
  <2>1. /\ f \in Files /\ Files' = Files /\ Lines' = 1 .. Len(since) + 1
        /\ \A g \in Files \ {f} : files'[g] = files[g]
        /\ DOMAIN files'[f] = 1 .. n
        /\ \A i \in 1 .. Len(files[f]) : files'[f][i] = files[f][i]
        /\ files'[f][n] = Len(since) + 1
    BY <1>3, WriteEffect
  <2>2. /\ DOMAIN files[f] = 1 .. n - 1 /\ n \in Nat \ {0} /\ Len(files[f]) = n - 1
        /\ Lines = 1 .. Len(since) /\ Len(since) \in Nat
    <3>1. Lines = 1 .. Len(since) /\ Len(since) \in Nat
      BY Parts
    <3>2. DOMAIN files[f] = 1 .. Len(files[f]) /\ Len(files[f]) \in Nat
      BY <2>1, Parts
    <3>3. n - 1 = Len(files[f]) /\ n \in Nat \ {0}
      BY <3>2
    <3>. QED
      BY <3>1, <3>2, <3>3
  <2>. HIDE DEF f, n
  \* What was there is there, and what is there was there or is the new line.
  <2>3. \A g \in Files : \A i \in DOMAIN files[g] : i \in DOMAIN files'[g] /\ files'[g][i] = files[g][i]
    BY <2>1, <2>2
  <2>4. \A g \in Files : \A i \in DOMAIN files'[g] :
          \/ i \in DOMAIN files[g] /\ files'[g][i] = files[g][i]
          \/ g = f /\ i = n /\ files'[g][i] = Len(since) + 1
    BY <2>1, <2>2
  <2>5. Len(since) + 1 \notin Lines /\ Lines' = Lines \cup {Len(since) + 1}
    BY <2>1, <2>2
  <2>6. n \in DOMAIN files'[f]
    BY <2>1, <2>2
  <2>7. Stored'
    <3>1. \A g \in Files' : \A i \in DOMAIN files'[g] : files'[g][i] \in Lines'
      BY <2>1, <2>4, <2>5 DEF StoredInv, Stored
    <3>2. \A line \in Lines' : \E g \in Files' : \E i \in DOMAIN files'[g] : files'[g][i] = line
      <4>1. ASSUME NEW line \in Lines
            PROVE  \E g \in Files' : \E i \in DOMAIN files'[g] : files'[g][i] = line
        BY <2>1, <2>3 DEF StoredInv, Stored
      <4>. QED
        BY <2>1, <2>5, <2>6, <4>1
    <3>. QED
      BY <3>1, <3>2 DEF Stored
  <2>8. Once'
    <3> SUFFICES ASSUME NEW g \in Files, NEW h \in Files, NEW i \in DOMAIN files'[g],
                        NEW j \in DOMAIN files'[h], files'[g][i] = files'[h][j]
                 PROVE  g = h /\ i = j
      BY <2>1 DEF Once
    <3>1. /\ i \in DOMAIN files[g] => files[g][i] \in Lines
          /\ j \in DOMAIN files[h] => files[h][j] \in Lines
      BY DEF StoredInv, Stored
    <3>. QED
      BY <2>4, <2>5, <3>1 DEF StoredInv, Once
  <2>. QED
    BY <2>7, <2>8 DEF StoredInv
<1>4. CASE UNCHANGED vars
  BY <1>1, <1>4 DEF vars
<1>5. ASSUME NEW w \in Writers, Begin(w) \/ Rotate(w) \/ Lose(w) PROVE StoredInv'
  BY <1>1, <1>5 DEF Begin, Rotate, Lose
<1>6. CASE OpenToFollow \/ Follow
  BY <1>1, <1>6 DEF OpenToFollow, Follow
<1>. QED
  BY <1>2, <1>3, <1>4, <1>5, <1>6 DEF Next

\* Every step keeps what was printed before the position.
LEMMA PrintStep == TypeInv /\ StoredInv /\ PrintInv /\ [Next]_vars => PrintInv'
<1> SUFFICES ASSUME TypeInv, StoredInv, PrintInv, [Next]_vars PROVE PrintInv'
  OBVIOUS
<1>1. ASSUME UNCHANGED printed, follower'.position = follower.position, Files \subseteq Files',
             \A f \in Files : \A i \in DOMAIN files[f] : i \in DOMAIN files'[f] /\ files'[f][i] = files[f][i]
      PROVE  PrintInv'
  <2>1. Passed'
    BY <1>1 DEF PrintInv, Passed, PrintedAt
  <2>. QED
    BY <1>1, <2>1 DEF PrintInv, PrintedOnce
<1>2. CASE UNCHANGED vars
  BY <1>1, <1>2 DEF vars, Files
<1>3. ASSUME NEW w \in Writers, Begin(w) \/ Rotate(w) \/ Lose(w) PROVE PrintInv'
  BY <1>1, <1>3 DEF Begin, Rotate, Lose, Files
<1>4. CASE OpenToFollow
  BY <1>1, <1>4, Parts DEF OpenToFollow, Files
<1>5. ASSUME NEW w \in Writers, Open(w) PROVE PrintInv'
  BY <1>1, <1>5, OpenEffect DEF Open, Files
<1>6. ASSUME NEW w \in Writers, Write(w) PROVE PrintInv'
  <2> DEFINE f == writer[w].file
             n == Len(files[f]) + 1
  <2>1. /\ f \in Files /\ Files' = Files
        /\ \A g \in Files \ {f} : files'[g] = files[g]
        /\ DOMAIN files'[f] = 1 .. n
        /\ \A i \in 1 .. Len(files[f]) : files'[f][i] = files[f][i]
    BY <1>6, WriteEffect
  <2>2. DOMAIN files[f] = 1 .. n - 1 /\ n \in Nat /\ Len(files[f]) = n - 1
    BY <2>1, Parts
  <2>. HIDE DEF f, n
  <2>3. \A g \in Files : \A i \in DOMAIN files[g] : i \in DOMAIN files'[g] /\ files'[g][i] = files[g][i]
    BY <2>1, <2>2
  <2>4. UNCHANGED <<printed, follower>>
    BY <1>6 DEF Write
  <2>. QED
    BY <1>1, <2>1, <2>3, <2>4
<1>7. CASE Follow
  <2> DEFINE f == follower.file
             p == follower.position
             n == IF Len(files[f]) > p THEN Len(files[f]) - p ELSE 0
             m == Len(printed)
  <2>1. /\ f \in Files /\ p \in Nat /\ n \in Nat /\ follower'.position = p + n
        /\ DOMAIN printed' = 1 .. m + n
        /\ \A k \in 1 .. m : printed'[k] = printed[k]
        /\ \A k \in 1 .. n : p + k \in DOMAIN files[f] /\ printed'[m + k] = files[f][p + k]
    BY <1>7, FollowEffect
  <2>2. files' = files /\ Files' = Files /\ DOMAIN printed = 1 .. m /\ m \in Nat
    BY <1>7, Parts, LenProperties DEF Follow, Files
  <2>3. \A g \in Files : DOMAIN files[g] \subseteq Nat
    BY Parts
  <2>. HIDE DEF f, p, n, m
  \* A number of a printed line is an old one or m + k for a new one.
  <2>4. \A k \in DOMAIN printed' : k \in 1 .. m \/ \E x \in 1 .. n : k = m + x
    <3>1. ASSUME NEW k \in DOMAIN printed', k \notin 1 .. m PROVE k - m \in 1 .. n /\ k = m + (k - m)
      BY <2>1, <2>2, <3>1
    <3>. QED
      BY <3>1
  <2>5. \A k \in 1 .. m : \E g \in Files : \E i \in DOMAIN files[g] : i <= p /\ files[g][i] = printed'[k]
    BY <2>1, <2>2 DEF PrintInv, Passed, PrintedAt, p
  <2>6. Passed'
    <3>1. ASSUME NEW k \in 1 .. m
          PROVE  \E g \in Files : \E i \in DOMAIN files[g] : i <= p + n /\ files[g][i] = printed'[k]
      <4>1. PICK g \in Files : \E i \in DOMAIN files[g] : i <= p /\ files[g][i] = printed'[k]
        BY <2>5
      <4>2. PICK i \in DOMAIN files[g] : i <= p /\ files[g][i] = printed'[k]
        BY <4>1
      <4>3. i <= p + n
        BY <2>1, <2>3, <4>2
      <4>. QED
        BY <4>2, <4>3
    <3>2. ASSUME NEW x \in 1 .. n
          PROVE  p + x \in DOMAIN files[f] /\ p + x <= p + n /\ files[f][p + x] = printed'[m + x]
      BY <2>1
    <3>. QED
      BY <2>1, <2>2, <2>4, <3>1, <3>2 DEF Passed, PrintedAt
  <2>7. PrintedOnce'
    <3> SUFFICES ASSUME NEW k \in DOMAIN printed', NEW l \in DOMAIN printed', printed'[k] = printed'[l]
                 PROVE  k = l
      BY DEF PrintedOnce
    <3>1. CASE k \in 1 .. m /\ l \in 1 .. m
      BY <2>1, <2>2, <3>1 DEF PrintInv, PrintedOnce
    <3>2. ASSUME NEW a \in 1 .. m, NEW x \in 1 .. n PROVE printed'[a] # printed'[m + x]
      <4>1. PICK g \in Files : \E i \in DOMAIN files[g] : i <= p /\ files[g][i] = printed'[a]
        BY <2>5
      <4>2. PICK i \in DOMAIN files[g] : i <= p /\ files[g][i] = printed'[a]
        BY <4>1
      <4>3. i # p + x
        BY <2>1, <2>3, <4>2
      <4>. QED
        BY <2>1, <4>2, <4>3 DEF StoredInv, Once
    <3>3. ASSUME NEW x \in 1 .. n, NEW y \in 1 .. n, printed'[m + x] = printed'[m + y] PROVE x = y
      <4>1. p + x = p + y
        BY <2>1, <3>3 DEF StoredInv, Once
      <4>. QED
        BY <2>1, <4>1
    <3>. QED
      BY <2>4, <3>1, <3>2, <3>3
  <2>. QED
    BY <2>6, <2>7 DEF PrintInv
<1>. QED
  BY <1>2, <1>3, <1>4, <1>5, <1>6, <1>7 DEF Next

\* A step that changes no file keeps what there is to say of one.
LEMMA SinceKept ==
  ASSUME TypeInv, NEW f \in Files, NEW n, Since(f, n), UNCHANGED since, files'[f] = files[f],
         \A w \in Writers : At(w, "write")' /\ writer'[w].file = f => writer'[w] = writer[w]
  PROVE  Since(f, n)'
BY DEF Since, SinceLines, SinceWriters, At

\* Every step keeps a file that is about to be rotated full.
LEMMA FullStep == TypeInv /\ Full /\ [Next]_vars => Full'
<1> SUFFICES ASSUME TypeInv, Full, [Next]_vars PROVE Full'
  OBVIOUS
<1>0. writer \in [Writers -> WriterStates]
  BY DEF TypeInv, TypeOK, WriterStates
<1>1. ASSUME UNCHANGED <<files, writer>> PROVE Full'
  BY <1>1 DEF Full, At
<1>2. CASE UNCHANGED vars \/ OpenToFollow \/ Follow
  BY <1>1, <1>2 DEF vars, OpenToFollow, Follow
<1>3. ASSUME NEW w \in Writers, Begin(w) PROVE Full'
  BY <1>0, <1>3 DEF Begin, Full, At, TooLong
<1>4. ASSUME NEW w \in Writers, Rotate(w) \/ Lose(w) PROVE Full'
  <2>1. files' = files
    BY <1>4 DEF Rotate, Lose
  <2>2. \A v \in Writers : At(v, "rename")' => At(v, "rename") /\ writer'[v].file = writer[v].file
    <3>1. CASE Rotate(w)
      <4>1. writer' = [writer EXCEPT ![w].at = "open"]
        BY <3>1 DEF Rotate
      <4>. QED
        BY <1>0, <4>1 DEF At, WriterStates
    <3>2. CASE Lose(w)
      <4>1. writer' = [writer EXCEPT ![w] = Idle] /\ Idle.at = "idle"
        BY <3>2 DEF Lose, Idle
      <4>. QED
        BY <1>0, <4>1 DEF At
    <3>. QED
      BY <1>4, <3>1, <3>2
  <2>. QED
    BY <2>1, <2>2 DEF Full
<1>5. ASSUME NEW w \in Writers, Open(w) PROVE Full'
  <2>1. \A f \in Files : files'[f] = files[f]
    BY <1>5, OpenEffect
  <2>2. \A v \in Writers : At(v, "rename")' => At(v, "rename") /\ writer'[v].file = writer[v].file
    BY <1>0, <1>5 DEF Open, At
  <2>3. \A v \in Writers : At(v, "rename") => writer[v].file \in Files
    BY Parts DEF At, TypeInv, Opened
  <2>. QED
    BY <2>1, <2>2, <2>3 DEF Full
<1>6. ASSUME NEW w \in Writers, Write(w) PROVE Full'
  <2> DEFINE f == writer[w].file
  <2>1. /\ f \in Files /\ Len(files'[f]) = Len(files[f]) + 1
        /\ \A g \in Files \ {f} : files'[g] = files[g]
    BY <1>6, WriteEffect
  <2>2. \A v \in Writers : At(v, "rename")' => At(v, "rename") /\ writer'[v].file = writer[v].file
    BY <1>0, <1>6 DEF Write, At, Idle
  <2>3. \A v \in Writers : At(v, "rename") => writer[v].file \in Files
    BY Parts DEF At, TypeInv, Opened
  <2>4. Limit \in Nat /\ Len(files[f]) \in Nat
    BY <2>1, Parts
  <2>. HIDE DEF f
  <2>5. \A g \in Files : Len(files[g]) >= Limit => Len(files'[g]) >= Limit
    BY <2>1, <2>4
  <2>. QED
    BY <2>2, <2>3, <2>5 DEF Full
<1>. QED
  BY <1>2, <1>3, <1>4, <1>5, <1>6 DEF Next

\* Every step keeps lines that go old ones.
LEMMA OlderStep == TypeInv /\ StoredInv /\ LossInv /\ [Next]_vars => Older'
<1> SUFFICES ASSUME TypeInv, StoredInv, LossInv, [Next]_vars, ~astray' PROVE Older'
  BY DEF Older
<1>0. /\ writer \in [Writers -> WriterStates] /\ Full /\ Older
      /\ log \in Files \cup {None} /\ old \in Files \cup {None} /\ None \notin Files
  BY Parts DEF TypeInv, TypeOK, WriterStates, LossInv
<1>1. ASSUME UNCHANGED <<files, since, log, old, astray>>,
             \A v \in Writers : At(v, "write")' => writer'[v] = writer[v]
      PROVE  Older'
  <2>1. \A f \in Files : \A n : Since(f, n) => Since(f, n)'
    BY <1>1, SinceKept
  <2>. QED
    BY <1>0, <1>1, <2>1 DEF Older, Files
<1>2. CASE UNCHANGED vars \/ OpenToFollow \/ Follow
  BY <1>1, <1>2 DEF vars, OpenToFollow, Follow
<1>3. ASSUME NEW w \in Writers, Begin(w) \/ Lose(w) PROVE Older'
  BY <1>0, <1>1, <1>3 DEF Begin, Lose, At, Idle
<1>4. ASSUME NEW w \in Writers, Rotate(w) PROVE Older'
  <2>1. \A v \in Writers : At(v, "write")' => writer'[v] = writer[v]
    BY <1>0, <1>4 DEF Rotate, At
  <2>2. UNCHANGED <<files, since>> /\ Files' = Files
    BY <1>4 DEF Rotate, Files
  <2>3. CASE log = None
    BY <1>1, <1>4, <2>1, <2>3 DEF Rotate
  <2>4. CASE log # None
    <3>1. old' = log /\ log' = None /\ ~astray /\ log = writer[w].file /\ log \in Files
      BY <1>0, <1>4, <2>4 DEF Rotate
    <3>2. Len(files[log]) >= Limit /\ Len(files[log]) \in Nat /\ Limit \in Nat
      BY <1>0, <1>4, <3>1, Parts DEF Full, Rotate, At
    \* The file that was replaced has no line as young as those of the new one.
    <3>3. ASSUME NEW f \in Files, f # log PROVE Since(f, Limit)
      <4>1. CASE f = old
        <5>1. Since(f, Len(files[log]))
          <6>1. Since(old, Len(files[log]))
            BY <1>0, <2>4, <3>1, <3>3, <4>1 DEF Older
          <6>. QED
            BY <4>1, <6>1
        <5>2. \A i \in DOMAIN files[f] : since[files[f][i]] \in Nat
          <6>1. \A i \in DOMAIN files[f] : files[f][i] \in Lines
            BY DEF StoredInv, Stored
          <6>2. \A line \in Lines : since[line] \in Nat
            BY Parts
          <6>. QED
            BY <6>1, <6>2
        <5>3. \A v \in Writers : writer[v].began \in Nat
          BY Parts
        <5>4. Len(since) \in Nat
          BY Parts
        <5>. QED
          BY <3>2, <5>1, <5>2, <5>3, <5>4 DEF Since, SinceLines, SinceWriters
      <4>2. CASE f # old
        BY <1>0, <3>1, <3>3, <4>2 DEF Older
      <4>. QED
        BY <4>1, <4>2
    <3>4. \A f \in Files \ {log', old'} : Since(f, Limit)'
      BY <2>1, <2>2, <3>1, <3>3, SinceKept
    <3>. QED
      BY <2>2, <3>1, <3>4 DEF Older
  <2>. QED
    BY <2>3, <2>4
<1>5. ASSUME NEW w \in Writers, Open(w) PROVE Older'
  <2>1. UNCHANGED <<since, old, astray>>
    BY <1>5 DEF Open
  <2>2. \A v \in Writers : At(v, "write")' => writer'[v] = writer[v] \/ writer'[v].file = log'
    BY <1>0, <1>5 DEF Open, At, WriterStates
  <2>3. ASSUME NEW f \in Files, NEW n, Since(f, n), files'[f] = files[f], f # log' PROVE Since(f, n)'
    BY <2>1, <2>2, <2>3, SinceKept
  <2>4. CASE UNCHANGED <<files, log>>
    BY <1>0, <2>1, <2>3, <2>4 DEF Older, Files
  <2>5. CASE /\ log = None /\ Files' = Files \cup {log'} /\ log' \notin Files
             /\ \A f \in Files : files'[f] = files[f]
             /\ Len(files'[log']) = 0
    <3>1. \A f \in Files' \ {log', old'} : Since(f, Limit)'
      BY <1>0, <2>1, <2>3, <2>5 DEF Older
    <3>2. ASSUME old # None PROVE log' # old /\ Since(old, 0)'
      <4>1. old \in Files /\ log' # old
        BY <1>0, <2>5, <3>2
      <4>2. SinceLines(old, 0)
        <5>1. \A i \in DOMAIN files[old] : files[old][i] \in 1 .. Len(since)
          BY <4>1, Parts DEF StoredInv, Stored
        <5>2. \A line \in 1 .. Len(since) : since[line] < line /\ since[line] \in Nat
          BY Parts DEF TypeInv, Began
        <5>3. Len(since) \in Nat
          BY Parts
        <5>. QED
          BY <5>1, <5>2, <5>3 DEF SinceLines
      <4>3. SinceWriters(old, 0)
        <5>1. /\ Len(since) \in Nat
              /\ \A v \in Writers : writer[v].began \in Nat /\ writer[v].began <= Len(since)
          BY Parts DEF TypeInv, Began
        <5>. QED
          BY <5>1 DEF SinceWriters
      <4>. QED
        <5>1. PICK g : g = old
          OBVIOUS
        <5>2. Since(g, 0)'
          BY <2>3, <2>5, <4>1, <4>2, <4>3, <5>1 DEF Since
        <5>. QED
          BY <2>1, <4>1, <5>1, <5>2 DEF Since, SinceLines, SinceWriters, At
    <3>. QED
      BY <2>1, <2>5, <3>1, <3>2 DEF Older
  <2>. QED
    BY <1>5, <2>4, <2>5, OpenEffect
<1>6. ASSUME NEW w \in Writers, Write(w) PROVE Older'
  <2>1. PICK f : f = writer[w].file
    OBVIOUS
  <2>2. /\ f \in Files /\ Files' = Files /\ Len(since') = Len(since) + 1
        /\ \A line \in Lines : since'[line] = since[line]
        /\ since'[Len(since) + 1] = writer[w].began
        /\ \A g \in Files \ {f} : files'[g] = files[g]
        /\ Len(files'[f]) = Len(files[f]) + 1 /\ DOMAIN files'[f] = 1 .. Len(files[f]) + 1
        /\ \A i \in 1 .. Len(files[f]) : files'[f][i] = files[f][i]
        /\ files'[f][Len(files[f]) + 1] = Len(since) + 1
    BY <1>6, <2>1, WriteEffect
  <2>3. /\ UNCHANGED <<log, old, astray>> /\ At(w, "write")
        /\ \A v \in Writers : At(v, "write")' => writer'[v] = writer[v]
    BY <1>0, <1>6 DEF Write, At, Idle
  <2>4. /\ Len(since) \in Nat
        /\ \A g \in Files : Len(files[g]) \in Nat /\ DOMAIN files[g] = 1 .. Len(files[g])
        /\ \A v \in Writers : writer[v].began \in Nat
        /\ \A line \in Lines : since[line] \in Nat
    BY Parts
  <2>5. \A g \in Files : \A i \in DOMAIN files[g] : files[g][i] \in Lines
    BY DEF StoredInv, Stored
  \* One more line for what was there; the line that comes began as long ago as it says.
  <2>6. ASSUME NEW g \in Files, NEW n \in Nat, Since(g, n) PROVE Since(g, n)'
    <3>1. ASSUME NEW i \in DOMAIN files[g] PROVE Len(since') - since'[files[g][i]] > n
      <4>1. Len(since) - since[files[g][i]] > n
        BY <2>6 DEF Since, SinceLines
      <4>2. files[g][i] \in Lines
        BY <2>5
      <4>. QED
        BY <2>2, <2>4, <4>1, <4>2
    <3>2. g = f => Len(since') - since'[Len(since) + 1] > n
      BY <2>1, <2>2, <2>3, <2>4, <2>6 DEF Since, SinceWriters
    <3>3. SinceLines(g, n)'
      <4>1. ASSUME NEW i \in DOMAIN files'[g] PROVE Len(since') - since'[files'[g][i]] > n
        <5>1. CASE g # f
          BY <2>2, <3>1, <4>1, <5>1
        <5>2. CASE g = f /\ i \in 1 .. Len(files[f])
          BY <2>2, <2>4, <3>1, <5>2
        <5>3. CASE g = f /\ i = Len(files[f]) + 1
          BY <2>2, <3>2, <5>3
        <5>. QED
          BY <2>2, <2>4, <4>1, <5>1, <5>2, <5>3
      <4>. QED
        BY <4>1 DEF SinceLines
    <3>4. SinceWriters(g, n)'
      <4>1. ASSUME NEW v \in Writers, At(v, "write")', writer'[v].file = g
            PROVE  Len(since') - writer'[v].began >= n
        <5>1. writer'[v] = writer[v] /\ At(v, "write")
          BY <2>3, <4>1 DEF At
        <5>2. Len(since) - writer[v].began >= n
          BY <2>6, <4>1, <5>1 DEF Since, SinceWriters
        <5>. QED
          BY <2>2, <2>4, <5>1, <5>2
      <4>. QED
        BY <4>1 DEF SinceWriters
    <3>. QED
      BY <3>3, <3>4 DEF Since
  <2>7. ~astray /\ Limit \in Nat
    BY <2>3, Parts
  <2>8. ASSUME NEW g \in Files \ {log', old'} PROVE Since(g, Limit)'
    BY <1>0, <2>3, <2>6, <2>7 DEF Older
  <2>9. ASSUME log # None, old # None PROVE log # old /\ Since(old, Len(files[log]))'
    <3>1. log # old /\ Since(old, Len(files[log])) /\ log \in Files /\ old \in Files
      BY <1>0, <2>7, <2>9 DEF Older
    <3>2. CASE f # log
      <4>1. files'[log] = files[log] /\ Len(files[log]) \in Nat
        BY <2>2, <2>4, <3>1, <3>2
      <4>2. PICK g, n : g = old /\ n = Len(files[log])
        OBVIOUS
      <4>3. Since(g, n)'
        BY <2>6, <3>1, <4>1, <4>2
      <4>. QED
        BY <2>3, <3>1, <4>1, <4>2, <4>3 DEF Since, SinceLines, SinceWriters, At
    \* Writing to the log adds a line to it, and one that is younger than those of the old file.
    <3>3. CASE f = log
      <4>1. Len(files'[log]) = Len(files[log]) + 1 /\ files'[old] = files[old] /\ Len(files[log]) \in Nat
        BY <2>2, <2>4, <3>1, <3>3
      <4>2. \A i \in DOMAIN files[old] : Len(since') - since'[files[old][i]] > Len(files'[log])
        <5>1. ASSUME NEW i \in DOMAIN files[old] PROVE Len(since') - since'[files[old][i]] > Len(files'[log])
          <6>1. Len(since) - since[files[old][i]] > Len(files[log])
            BY <3>1 DEF Since, SinceLines
          <6>2. files[old][i] \in Lines
            BY <2>5, <3>1
          <6>. QED
            BY <2>2, <2>4, <4>1, <6>1, <6>2
        <5>. QED
          BY <5>1
      <4>3. \A v \in Writers : At(v, "write")' /\ writer'[v].file = old
                                => Len(since') - writer'[v].began >= Len(files'[log])
        <5>1. ASSUME NEW v \in Writers, At(v, "write")', writer'[v].file = old
              PROVE  Len(since') - writer'[v].began >= Len(files'[log])
          <6>1. writer'[v] = writer[v] /\ At(v, "write")
            BY <2>3, <5>1 DEF At
          <6>2. Len(since) - writer[v].began >= Len(files[log])
            BY <3>1, <5>1, <6>1 DEF Since, SinceWriters
          <6>. QED
            BY <2>2, <2>4, <4>1, <6>1, <6>2
        <5>. QED
          BY <5>1
      <4>. QED
        BY <2>3, <3>1, <4>1, <4>2, <4>3 DEF Since, SinceLines, SinceWriters
    <3>. QED
      BY <3>2, <3>3
  <2>. QED
    BY <2>2, <2>3, <2>8, <2>9 DEF Older
<1>. QED
  BY <1>2, <1>3, <1>4, <1>5, <1>6 DEF Next

-----------------------------------------------------------------------------
\* What the theorems share.
LEMMA Invariants == Spec => [](TypeInv /\ StoredInv /\ PrintInv /\ LossInv)
<1>1. Init => TypeInv /\ StoredInv /\ PrintInv /\ LossInv
  BY InitType, InitInvs
<1>2. /\ TypeInv /\ StoredInv /\ PrintInv /\ LossInv /\ [Next]_vars
      => (TypeInv /\ StoredInv /\ PrintInv /\ LossInv)'
  BY TypeStep, StoredStep, PrintStep, FullStep, OlderStep DEF LossInv
<1>. QED
  BY <1>1, <1>2, PTL DEF Spec

\* Every variable keeps its type while processes append to, rotate and follow a
\* log file (logger.go, log.go).
THEOREM TypeCorrect == Spec => []TypeOK
<1>1. TypeInv => TypeOK
  BY DEF TypeInv
<1>. QED
  BY <1>1, Invariants, PTL

\* The follower prints no line twice, however the log is rotated under it: it
\* never goes back before the position it has reached.
THEOREM NoLineTwice == Spec => []PrintedOnce
<1>1. PrintInv => PrintedOnce
  BY DEF PrintInv
<1>. QED
  BY <1>1, Invariants, PTL

\* A line that is in neither file any more has as many younger ones as make a
\* full file, unless a rotation hit a file other than the one found too long.
THEOREM OnlyOldLinesGo == Spec => []LostOnlyWhenOld
<1>1. TypeInv /\ StoredInv /\ LossInv => LostOnlyWhenOld
  <2> SUFFICES ASSUME TypeInv, StoredInv, LossInv, ~astray, NEW line \in Lines, ~Kept(line)
               PROVE  Len(since) - since[line] > Limit
    BY DEF LostOnlyWhenOld
  <2>1. PICK f \in Files : \E i \in DOMAIN files[f] : files[f][i] = line
    BY DEF StoredInv, Stored
  <2>2. f \notin {log, old}
    BY <2>1, Parts DEF Kept, Holds
  <2>3. SinceLines(f, Limit)
    BY <2>2 DEF LossInv, Older, Since
  <2>. QED
    BY <2>1, <2>3 DEF SinceLines
<1>. QED
  BY <1>1, Invariants, PTL
=============================================================================
