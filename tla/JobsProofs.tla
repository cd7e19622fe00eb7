----------------------------- MODULE JobsProofs -----------------------------
(***************************************************************************)
(* Proofs about Jobs for every number of clients, jobs and restarts, and   *)
(* every size of the table.                                                *)
(*                                                                         *)
(* The argument: an id holds the second and the number of its job.  Within *)
(* one process the number tells two jobs apart, and a job of an earlier    *)
(* process is of an earlier second, as a restart takes some (Stamped): so  *)
(* ids are unique (Unique), though numbers begin again.  The jobs of this  *)
(* process are the last jobsSeq ones (LastOnes), the order holds the last  *)
(* of these (Ordered), and the map the ids of the order (InTable).         *)
(***************************************************************************)
EXTENDS Jobs, FiniteSetTheorems, SequenceTheorems, TLAPS

\* What an id says of the time of its job.
Stamped == \A j \in Jobs : /\ jobs[j].life <= life
                           /\ jobs[j].id[2] <= now
                           /\ jobs[j].life = life => jobs[j].id[3] <= jobsSeq
                           /\ jobs[j].life < life => jobs[j].id[2] < now

Unique == \A i, j \in Jobs : jobs[i].id = jobs[j].id => i = j

\* The map leads from an id to its job, and so does what a client knows.
Mapped == \A id \in DOMAIN jobsByID : jobs[jobsByID[id]].id = id
Held == \A c \in Clients : client[c].id # None => /\ client[c].job \in Jobs
                                                  /\ jobs[client[c].job].id = client[c].id
NoneHeld == \A c \in Clients : client[c].id = None => client[c].job = 0 /\ client[c].answer = None

LastOnes == /\ jobsSeq <= Len(jobs)
            /\ \A j \in Jobs : jobs[j].life = life <=> j > Len(jobs) - jobsSeq

\* The order holds the ids of the last jobs.
First == Len(jobs) - Len(jobsOrder)
Ordered == /\ Len(jobsOrder) = IF jobsSeq < Keep THEN jobsSeq ELSE Keep
           /\ \A k \in 1 .. Len(jobsOrder) : jobsOrder[k] = jobs[First + k].id
InTable == DOMAIN jobsByID = {jobsOrder[k] : k \in 1 .. Len(jobsOrder)}

\* What a client was told is still so.
Told == \A c \in Clients :
          /\ client[c].answer \in {"success", "failed"} =>
               jobs[client[c].job].status = client[c].answer
          /\ client[c].answer = "gone" => client[c].id \notin DOMAIN jobsByID

IInv == /\ TypeOK /\ Stamped /\ Unique /\ Mapped /\ Held /\ NoneHeld
        /\ LastOnes /\ Ordered /\ InTable /\ Told /\ GoneOnlyWhenOutnumbered

LEMMA InitInv == Init => IInv
<1> SUFFICES ASSUME Init PROVE IInv
  OBVIOUS
<1>1. /\ jobs = <<>> /\ jobsOrder = <<>> /\ DOMAIN jobsByID = {} /\ Jobs = {}
      /\ jobsSeq = 0 /\ now = 0 /\ life = 1 /\ up = TRUE
      /\ client = [c \in Clients |-> [job |-> 0, id |-> None, answer |-> None]]
  BY DEF Init, Jobs
<1>2. [job |-> 0, id |-> None, answer |-> None] \in ClientStates
  BY DEF ClientStates
<1>3. TypeOK
  BY <1>1, <1>2 DEF TypeOK
<1>4. Stamped /\ Unique /\ Mapped
  BY <1>1 DEF Stamped, Unique, Mapped
<1>5. Held /\ NoneHeld /\ Told /\ GoneOnlyWhenOutnumbered
  BY <1>1, JobsAssumption DEF Held, NoneHeld, Told, GoneOnlyWhenOutnumbered
<1>6. Len(jobs) = 0 /\ Len(jobsOrder) = 0 /\ 1 .. 0 = {}
  BY <1>1
<1>7. LastOnes
  BY <1>1, <1>6 DEF LastOnes
<1>8. Ordered
  BY <1>1, <1>6, JobsAssumption DEF Ordered, First
<1>9. InTable
  <2>1. 1 .. Len(jobsOrder) = {}
    BY <1>6
  <2>2. {jobsOrder[k] : k \in 1 .. Len(jobsOrder)} = {}
    BY <2>1, Zenon
  <2>. QED
    BY <1>1, <2>2, Zenon DEF InTable
<1>10. QED
  BY <1>3, <1>4, <1>5, <1>7, <1>8, <1>9 DEF IInv

-----------------------------------------------------------------------------
\* One job more.
NewJob(name) == [id |-> NewId(name), status |-> "running", life |-> life]

LEMMA JobAdded ==
  ASSUME TypeOK, NEW c \in Clients, NEW name \in Names, startJob(c, name)
  PROVE  /\ NewId(name) \in Ids /\ NewJob(name) \in JobStates
         /\ jobs' \in Seq(JobStates) /\ Len(jobs') = Len(jobs) + 1
         /\ Jobs' = Jobs \cup {Len(jobs) + 1} /\ Jobs = 1 .. Len(jobs)
         /\ \A j \in Jobs : jobs'[j] = jobs[j] /\ jobs[j] \in JobStates
         /\ jobs'[Len(jobs) + 1] = NewJob(name)
         /\ jobsSeq' = jobsSeq + 1 /\ now' = now /\ life' = life /\ up' = up
<1>1. NewId(name) \in Ids
  BY DEF TypeOK, NewId, Ids
<1>2. NewJob(name) \in JobStates
  BY <1>1 DEF TypeOK, NewJob, JobStates, Statuses
<1>3. jobs' = Append(jobs, NewJob(name)) /\ jobs \in Seq(JobStates)
  BY DEF startJob, NewJob, TypeOK
<1>4. jobsSeq' = jobsSeq + 1 /\ now' = now /\ life' = life /\ up' = up
  BY DEF startJob
<1>. HIDE DEF JobStates, NewJob, NewId, Ids
<1>5. QED
  BY <1>1, <1>2, <1>3, <1>4 DEF Jobs

\* The fields of a job and of its id.
LEMMA JobFields == ASSUME NEW job \in JobStates
                   PROVE  /\ job.id \in Ids /\ job.life \in Nat /\ job.status \in Statuses
                          /\ job.id[2] \in Nat /\ job.id[3] \in Nat
  BY DEF JobStates, Ids

LEMMA NewFields == ASSUME NEW name, TypeOK
                   PROVE  /\ NewJob(name).id = NewId(name) /\ NewJob(name).life = life
                          /\ NewId(name)[2] = now /\ NewId(name)[3] = jobsSeq + 1
  BY DEF NewJob, NewId

\* No job, of this process or another, had the id before.
LEMMA NewIdIsNew ==
  ASSUME TypeOK, Stamped, NEW name \in Names, NEW j \in Jobs
  PROVE  jobs[j].id # NewId(name)
<1>1. jobs[j] \in JobStates
  BY DEF TypeOK, Jobs
<1>2. /\ jobs[j].life \in Nat /\ jobs[j].id[2] \in Nat /\ jobs[j].id[3] \in Nat
      /\ life \in Nat /\ now \in Nat /\ jobsSeq \in Nat
  BY <1>1, JobFields DEF TypeOK
<1>3. jobs[j].id[3] # jobsSeq + 1 \/ jobs[j].id[2] # now
  BY <1>2 DEF Stamped
<1>4. QED
  BY <1>3, NewFields
-----------------------------------------------------------------------------
\* The table after a start: the new id goes to the end of the order, and when
\* that is too long the first goes, from the map as well.
Longer(id) == Append(jobsOrder, id)
Full == Len(jobsOrder) + 1 > Keep

LEMMA TableAfterStart ==
  ASSUME IInv, NEW c \in Clients, NEW name \in Names, startJob(c, name)
  PROVE  /\ Full => /\ Len(jobsOrder) = Keep
                    /\ jobsOrder' = SubSeq(Longer(NewId(name)), 2, Keep + 1)
                    /\ DOMAIN jobsByID' = (DOMAIN jobsByID \cup {NewId(name)})
                                             \ {Longer(NewId(name))[1]}
         /\ ~Full => /\ jobsOrder' = Longer(NewId(name))
                     /\ DOMAIN jobsByID' = DOMAIN jobsByID \cup {NewId(name)}
         /\ \A id \in DOMAIN jobsByID' :
              jobsByID'[id] = IF id = NewId(name) THEN Len(jobs) + 1 ELSE jobsByID[id]
<1> DEFINE longer == Longer(NewId(name))
           excess == IF Len(longer) > Keep THEN Len(longer) - Keep ELSE 0
           dropped == {longer[i] : i \in 1 .. excess}
           more == [x \in DOMAIN jobsByID \cup {NewId(name)} |->
                      IF x = NewId(name) THEN Len(jobs) + 1 ELSE jobsByID[x]]
<1>1. /\ jobsOrder' = SubSeq(longer, excess + 1, Len(longer))
      /\ jobsByID' = [x \in DOMAIN more \ dropped |-> more[x]]
  BY DEF startJob, Evict, Longer
<1>2. /\ jobsOrder \in Seq(Ids) /\ Len(jobsOrder) <= Keep /\ Keep \in Nat /\ Keep > 0
      /\ NewId(name) \in Ids
  BY JobsAssumption, JobAdded DEF IInv, TypeOK, Ordered
<1>3. Len(longer) = Len(jobsOrder) + 1 /\ longer \in Seq(Ids) /\ Len(jobsOrder) \in Nat
  BY <1>2 DEF Longer
<1>4. \A id \in DOMAIN jobsByID' :
         jobsByID'[id] = IF id = NewId(name) THEN Len(jobs) + 1 ELSE jobsByID[id]
  BY <1>1
<1>5. ASSUME Full
      PROVE  /\ Len(jobsOrder) = Keep
             /\ jobsOrder' = SubSeq(longer, 2, Keep + 1)
             /\ DOMAIN jobsByID' = (DOMAIN jobsByID \cup {NewId(name)}) \ {longer[1]}
  <2>1. Len(jobsOrder) = Keep /\ excess = 1 /\ 1 .. 1 = {1}
    BY <1>2, <1>3, <1>5 DEF Full
  <2>2. dropped = {longer[1]}
    BY <2>1
  <2>. HIDE DEF longer, excess, dropped
  <2>3. jobsOrder' = SubSeq(longer, 2, Keep + 1)
    BY <1>1, <1>3, <2>1
  <2>. QED
    BY <1>1, <2>1, <2>2, <2>3
<1>6. ASSUME ~Full
      PROVE  /\ jobsOrder' = longer
             /\ DOMAIN jobsByID' = DOMAIN jobsByID \cup {NewId(name)}
  <2>1. excess = 0 /\ 1 .. 0 = {}
    BY <1>2, <1>3, <1>6 DEF Full
  <2>2. dropped = {}
    BY <2>1
  <2>. HIDE DEF longer, excess, dropped
  <2>3. jobsOrder' = longer
    BY <1>1, <1>3, <2>1
  <2>. QED
    BY <1>1, <2>2, <2>3
<1>7. QED
  BY <1>4, <1>5, <1>6

\* The elements of the order after a start.
LEMMA OrderAfterStart ==
  ASSUME IInv, NEW c \in Clients, NEW name \in Names, startJob(c, name)
  PROVE  /\ jobsOrder' \in Seq(Ids)
         /\ Full => Len(jobsOrder') = Keep /\ Len(jobsOrder) = Keep
         /\ ~Full => Len(jobsOrder') = Len(jobsOrder) + 1
         /\ jobsOrder'[Len(jobsOrder')] = NewId(name)
         /\ \A k \in 1 .. Len(jobsOrder') - 1 :
               jobsOrder'[k] = jobsOrder[IF Full THEN k + 1 ELSE k]
         /\ Len(jobsOrder) \in Nat /\ Len(jobsOrder') \in Nat /\ Len(jobsOrder') > 0
<1>1. /\ jobsOrder \in Seq(Ids) /\ Keep \in Nat /\ Keep > 0 /\ NewId(name) \in Ids
  BY JobsAssumption, JobAdded DEF IInv, TypeOK
<1>2. /\ Longer(NewId(name)) \in Seq(Ids)
      /\ Len(Longer(NewId(name))) = Len(jobsOrder) + 1
      /\ Longer(NewId(name))[Len(jobsOrder) + 1] = NewId(name)
      /\ \A k \in 1 .. Len(jobsOrder) : Longer(NewId(name))[k] = jobsOrder[k]
      /\ Len(jobsOrder) \in Nat
  BY <1>1 DEF Longer
<1>3. CASE Full
  <2>1. Len(jobsOrder) = Keep /\ jobsOrder' = SubSeq(Longer(NewId(name)), 2, Keep + 1)
    BY <1>3, TableAfterStart
  <2>2. /\ jobsOrder' \in Seq(Ids) /\ Len(jobsOrder') = Keep
        /\ \A k \in 1 .. Keep : jobsOrder'[k] = Longer(NewId(name))[k + 1]
    BY <1>1, <1>2, <2>1
  <2>. QED
    BY <1>1, <1>2, <1>3, <2>1, <2>2
<1>4. CASE ~Full
  <2>1. jobsOrder' = Longer(NewId(name))
    BY <1>4, TableAfterStart
  <2>. QED
    BY <1>1, <1>2, <1>4, <2>1
<1>5. QED
  BY <1>3, <1>4

LEMMA StartType ==
  ASSUME IInv, NEW c \in Clients, NEW name \in Names, startJob(c, name)
  PROVE  TypeOK'
<1>1. jobs' \in Seq(JobStates) /\ jobsOrder' \in Seq(Ids)
  BY JobAdded, OrderAfterStart DEF IInv
<1>2. /\ up' \in BOOLEAN /\ {now', jobsSeq', life'} \subseteq Nat
      /\ Len(jobs) + 1 \in Nat /\ NewId(name) \in Ids
  BY JobAdded DEF IInv, TypeOK
<1>3. client' \in [Clients -> ClientStates]
  <2>1. [job |-> Len(jobs) + 1, id |-> NewId(name), answer |-> "running"] \in ClientStates
    BY <1>2 DEF ClientStates, Answers, Statuses
  <2>2. client' = [client EXCEPT ![c] = [job |-> Len(jobs) + 1, id |-> NewId(name),
                                         answer |-> "running"]]
    BY DEF startJob
  <2>. HIDE DEF ClientStates, NewId
  <2>. QED
    BY <2>1, <2>2 DEF IInv, TypeOK
<1>4. DOMAIN jobsByID' \subseteq Ids
  BY <1>2, TableAfterStart DEF IInv, TypeOK
<1>5. \A id \in DOMAIN jobsByID' : jobsByID'[id] \in Jobs'
  BY JobAdded, TableAfterStart DEF IInv, TypeOK
<1>6. QED
  BY <1>1, <1>2, <1>3, <1>4, <1>5 DEF TypeOK

LEMMA StartInv ==
  ASSUME IInv, NEW c \in Clients, NEW name \in Names, startJob(c, name)
  PROVE  IInv'
<1>00. /\ NewId(name) \in Ids
       /\ Len(jobs') = Len(jobs) + 1 /\ Jobs' = Jobs \cup {Len(jobs) + 1} /\ Jobs = 1 .. Len(jobs)
       /\ \A j \in Jobs : jobs'[j] = jobs[j]
       /\ jobs'[Len(jobs) + 1].id = NewId(name) /\ jobs'[Len(jobs) + 1].life = life
       /\ NewId(name)[2] = now /\ NewId(name)[3] = jobsSeq + 1
       /\ jobsSeq' = jobsSeq + 1 /\ now' = now /\ life' = life
  BY JobAdded, NewFields DEF IInv
<1> USE <1>00
<1>0. /\ TypeOK /\ now \in Nat /\ life \in Nat /\ jobsSeq \in Nat /\ Len(jobs) \in Nat
      /\ \A j \in Jobs : jobs[j].id # NewId(name)
      /\ \A j \in Jobs : /\ jobs[j].id \in Ids /\ jobs[j].life \in Nat
                         /\ jobs[j].id[2] \in Nat /\ jobs[j].id[3] \in Nat
  BY NewIdIsNew, JobFields DEF IInv, TypeOK
<1>1. TypeOK'
  BY StartType
<1>2. Stamped'
  BY <1>0 DEF IInv, Stamped
<1>3. Unique'
  <2>. SUFFICES ASSUME NEW i \in Jobs', NEW j \in Jobs', jobs'[i].id = jobs'[j].id
                PROVE  i = j
    BY DEF Unique
  <2>1. i \in Jobs \cup {Len(jobs) + 1} /\ j \in Jobs \cup {Len(jobs) + 1}
    BY <1>00
  <2>. HIDE <1>00
  <2>2. CASE i \in Jobs /\ j \in Jobs
    <3>1. jobs[i].id = jobs[j].id
      BY <1>00, <2>2
    <3>. QED
      BY <2>2, <3>1 DEF IInv, Unique
  <2>3. CASE i \in Jobs /\ j = Len(jobs) + 1
    <3>1. jobs[i].id = NewId(name)
      BY <1>00, <2>3
    <3>. QED
      BY <1>0, <2>3, <3>1
  <2>4. CASE i = Len(jobs) + 1 /\ j \in Jobs
    <3>1. jobs[j].id = NewId(name)
      BY <1>00, <2>4
    <3>. QED
      BY <1>0, <2>4, <3>1
  <2>. QED
    BY <2>1, <2>2, <2>3, <2>4
<1>4. Mapped'
  <2>1. \A id \in DOMAIN jobsByID' : id \in DOMAIN jobsByID \/ id = NewId(name)
    BY TableAfterStart
  <2>2. \A id \in DOMAIN jobsByID' :
           jobsByID'[id] = IF id = NewId(name) THEN Len(jobs) + 1 ELSE jobsByID[id]
    BY TableAfterStart
  <2>3. \A id \in DOMAIN jobsByID : jobsByID[id] \in Jobs /\ jobs[jobsByID[id]].id = id
    BY <1>0 DEF IInv, Mapped, TypeOK
  <2>. QED
    BY <2>1, <2>2, <2>3 DEF Mapped
<1>5. LastOnes'
  BY <1>0 DEF IInv, LastOnes
<1>6. Ordered'
  <2>1. Len(jobsOrder') = IF jobsSeq' < Keep THEN jobsSeq' ELSE Keep
    <3>1. /\ Full => Len(jobsOrder') = Keep /\ Len(jobsOrder) = Keep
          /\ ~Full => Len(jobsOrder') = Len(jobsOrder) + 1
          /\ Len(jobsOrder) \in Nat /\ Keep \in Nat
      BY OrderAfterStart, JobsAssumption
    <3>2. Len(jobsOrder) = IF jobsSeq < Keep THEN jobsSeq ELSE Keep
      BY DEF IInv, Ordered
    <3>3. Full <=> Len(jobsOrder) + 1 > Keep
      BY DEF Full
    <3>. QED
      BY <1>0, <3>1, <3>2, <3>3
  <2>2. ASSUME NEW k \in 1 .. Len(jobsOrder')
        PROVE  jobsOrder'[k] = jobs'[First' + k].id
    <3>1. CASE k = Len(jobsOrder')
      BY <1>0, <3>1, OrderAfterStart DEF First
    <3>2. CASE k # Len(jobsOrder')
      <4>0. /\ Len(jobsOrder) \in Nat /\ Len(jobsOrder') \in Nat /\ Len(jobsOrder) <= Len(jobs)
            /\ Keep \in Nat
        BY <1>0, OrderAfterStart, JobsAssumption DEF IInv, Ordered, LastOnes
      <4>1. CASE Full
        <5>1. Len(jobsOrder) = Keep /\ Len(jobsOrder') = Keep
          BY <4>1, OrderAfterStart
        <5>2. jobsOrder'[k] = jobsOrder[k + 1] /\ k + 1 \in 1 .. Len(jobsOrder)
          BY <3>2, <4>0, <4>1, <5>1, OrderAfterStart
        <5>3. First' + k = First + (k + 1) /\ First' + k \in Jobs
          <6>1. First' = Len(jobs) + 1 - Keep /\ First = Len(jobs) - Keep
            BY <5>1 DEF First
          <6>. QED
            BY <4>0, <5>1, <5>2, <6>1, <1>0
        <5>. QED
          BY <5>2, <5>3 DEF IInv, Ordered
      <4>2. CASE ~Full
        <5>1. Len(jobsOrder') = Len(jobsOrder) + 1
          BY <4>2, OrderAfterStart
        <5>2. jobsOrder'[k] = jobsOrder[k] /\ k \in 1 .. Len(jobsOrder)
          BY <3>2, <4>0, <4>2, <5>1, OrderAfterStart
        <5>3. First' + k = First + k /\ First' + k \in Jobs
          <6>1. First' = Len(jobs) + 1 - (Len(jobsOrder) + 1) /\ First = Len(jobs) - Len(jobsOrder)
            BY <5>1 DEF First
          <6>. QED
            BY <4>0, <5>1, <5>2, <6>1, <1>0
        <5>. QED
          BY <5>2, <5>3 DEF IInv, Ordered
      <4>. QED
        BY <4>1, <4>2
    <3>. QED
      BY <3>1, <3>2
  <2>. QED
    BY <2>1, <2>2 DEF Ordered
<1>7. InTable'
  <2>0. /\ Len(jobsOrder) \in Nat /\ Len(jobsOrder') \in Nat /\ Len(jobsOrder') > 0
        /\ Len(jobsOrder) <= Len(jobs) /\ Keep \in Nat /\ Keep > 0
    <3>1. /\ Len(jobsOrder) \in Nat /\ Len(jobsOrder') \in Nat /\ Len(jobsOrder') > 0
          /\ Keep \in Nat /\ Keep > 0
      BY OrderAfterStart, JobsAssumption
    <3>2. jobsSeq <= Len(jobs) /\ Len(jobsOrder) = IF jobsSeq < Keep THEN jobsSeq ELSE Keep
      BY DEF IInv, Ordered, LastOnes
    <3>. QED
      BY <1>0, <3>1, <3>2
  <2>1. \A k, l \in 1 .. Len(jobsOrder) : jobsOrder[k] = jobsOrder[l] => k = l
    <3>1. \A k \in 1 .. Len(jobsOrder) : First + k \in Jobs
      BY <1>0, <2>0 DEF First
    <3>. QED
      <4>1. \A k \in 1 .. Len(jobsOrder) : jobsOrder[k] = jobs[First + k].id
        BY DEF IInv, Ordered
      <4>2. \A i, j \in Jobs : jobs[i].id = jobs[j].id => i = j
        BY DEF IInv, Unique
      <4>3. \A k, l \in 1 .. Len(jobsOrder) : jobsOrder[k] = jobsOrder[l] => First + k = First + l
        BY <3>1, <4>1, <4>2
      <4>4. First \in Int
        BY <1>0, <2>0 DEF First
      <4>. QED
        BY <4>3, <4>4
  <2>2. \A k \in 1 .. Len(jobsOrder) : jobsOrder[k] # NewId(name)
    <3>1. \A k \in 1 .. Len(jobsOrder) : First + k \in Jobs
      BY <1>0, <2>0 DEF First
    <3>. QED
      BY <1>0, <3>1 DEF IInv, Ordered
  <2>3. CASE Full
    <3>1. /\ Len(jobsOrder) = Keep /\ Len(jobsOrder') = Keep
          /\ Longer(NewId(name))[1] = jobsOrder[1]
      BY <1>0, <2>0, <2>3, OrderAfterStart DEF Longer, IInv, TypeOK
    <3>2. DOMAIN jobsByID' = ({jobsOrder[k] : k \in 1 .. Keep} \cup {NewId(name)})
                               \ {jobsOrder[1]}
      BY <2>3, <3>1, TableAfterStart DEF IInv, InTable
    <3>3. /\ jobsOrder'[Keep] = NewId(name)
          /\ \A k \in 1 .. Keep - 1 : jobsOrder'[k] = jobsOrder[k + 1]
      BY <2>3, <3>1, OrderAfterStart
    <3>4. ASSUME NEW id \in DOMAIN jobsByID'
          PROVE  id \in {jobsOrder'[k] : k \in 1 .. Keep}
      <4>1. CASE id = NewId(name)
        BY <2>0, <3>3, <4>1
      <4>2. CASE id # NewId(name)
        <5>1. PICK k \in 1 .. Keep : id = jobsOrder[k]
          BY <3>2, <4>2
        <5>2. k # 1
          BY <3>2, <5>1
        <5>3. k - 1 \in 1 .. Keep - 1 /\ (k - 1) + 1 = k
          BY <2>0, <5>2
        <5>4. jobsOrder'[k - 1] = jobsOrder[k]
          BY <3>3, <5>3
        <5>5. k - 1 \in 1 .. Keep
          BY <2>0, <5>2
        <5>. QED
          BY <5>1, <5>4, <5>5
      <4>. QED
        BY <4>1, <4>2
    <3>5. ASSUME NEW k \in 1 .. Keep
          PROVE  jobsOrder'[k] \in DOMAIN jobsByID'
      <4>1. CASE k = Keep
        BY <2>0, <2>2, <3>1, <3>2, <3>3, <4>1
      <4>2. CASE k # Keep
        <5>1. k \in 1 .. Keep - 1 /\ k + 1 \in 1 .. Keep /\ k + 1 # 1 /\ 1 \in 1 .. Keep
          BY <2>0, <4>2
        <5>2. jobsOrder[k + 1] # jobsOrder[1]
          BY <2>1, <3>1, <5>1
        <5>. QED
          BY <3>2, <3>3, <5>1, <5>2
      <4>. QED
        BY <4>1, <4>2
    <3>. QED
      BY <3>1, <3>4, <3>5 DEF InTable
  <2>4. CASE ~Full
    <3>1. /\ Len(jobsOrder') = Len(jobsOrder) + 1
          /\ jobsOrder'[Len(jobsOrder) + 1] = NewId(name)
          /\ \A k \in 1 .. Len(jobsOrder) : jobsOrder'[k] = jobsOrder[k]
      BY <2>0, <2>4, OrderAfterStart
    <3>2. DOMAIN jobsByID' = {jobsOrder[k] : k \in 1 .. Len(jobsOrder)} \cup {NewId(name)}
      BY <2>4, TableAfterStart DEF IInv, InTable
    <3>3. \A k \in 1 .. Len(jobsOrder') : k \in 1 .. Len(jobsOrder) \/ k = Len(jobsOrder) + 1
      BY <2>0, <3>1
    <3>4. 1 .. Len(jobsOrder) \subseteq 1 .. Len(jobsOrder')
          /\ Len(jobsOrder) + 1 \in 1 .. Len(jobsOrder')
      BY <2>0, <3>1
    <3>. QED
      BY <3>1, <3>2, <3>3, <3>4 DEF InTable
  <2>. QED
    BY <2>3, <2>4
<1>8. Held' /\ NoneHeld'
  <2>1. client' = [client EXCEPT ![c] = [job |-> Len(jobs) + 1, id |-> NewId(name),
                                         answer |-> "running"]]
        /\ client \in [Clients -> ClientStates]
    BY DEF startJob, IInv, TypeOK
  <2>2. NewId(name) # None
    BY JobsAssumption, <1>0 DEF Ids
  <2>. QED
    BY <1>0, <2>1, <2>2 DEF IInv, Held, NoneHeld
<1>9. Told'
  <2>1. client' = [client EXCEPT ![c] = [job |-> Len(jobs) + 1, id |-> NewId(name),
                                         answer |-> "running"]]
        /\ client \in [Clients -> ClientStates]
    BY DEF startJob, IInv, TypeOK
  <2>2. ASSUME NEW d \in Clients, d # c
        PROVE  /\ client'[d] = client[d]
               /\ client[d].answer # None => client[d].job \in Jobs /\ client[d].id # NewId(name)
    BY <1>0, <2>1, <2>2 DEF IInv, Held, NoneHeld
  <2>3. \A id \in DOMAIN jobsByID' : id \in DOMAIN jobsByID \/ id = NewId(name)
    BY TableAfterStart
  <2>. QED
    BY <1>0, <2>1, <2>2, <2>3, JobsAssumption DEF IInv, Told
<1>10. GoneOnlyWhenOutnumbered'
  <2>1. client' = [client EXCEPT ![c] = [job |-> Len(jobs) + 1, id |-> NewId(name),
                                         answer |-> "running"]]
        /\ client \in [Clients -> ClientStates]
    BY DEF startJob, IInv, TypeOK
  <2>2. ASSUME NEW d \in Clients, client'[d].answer = "gone"
        PROVE  client'[d] = client[d] /\ client[d].job \in Jobs
    BY <1>0, <2>1, <2>2, JobsAssumption DEF IInv, Held, NoneHeld
  <2>3. ASSUME NEW d \in Clients, client'[d].answer = "gone", jobs'[client'[d].job].life = life'
        PROVE  Len(jobs') - client'[d].job >= Keep
    <3>1. client'[d] = client[d] /\ client[d].job \in Jobs
      BY <2>2, <2>3
    <3>2. Len(jobs) - client[d].job >= Keep
      BY <2>3, <3>1 DEF IInv, GoneOnlyWhenOutnumbered
    <3>. QED
      BY <1>0, <3>1, <3>2, JobsAssumption
  <2>. QED
    BY <2>3 DEF GoneOnlyWhenOutnumbered
<1>11. QED
  BY <1>1, <1>2, <1>3, <1>4, <1>5, <1>6, <1>7, <1>8, <1>9, <1>10 DEF IInv
-----------------------------------------------------------------------------
\* A job ends: its status is the only thing that changes.
LEMMA JobDone ==
  ASSUME TypeOK, NEW j \in Jobs, Finish(j)
  PROVE  /\ jobs' \in Seq(JobStates) /\ Len(jobs') = Len(jobs) /\ Jobs' = Jobs
         /\ jobs[j].status = "running"
         /\ \A i \in Jobs : /\ jobs'[i].id = jobs[i].id /\ jobs'[i].life = jobs[i].life
                            /\ jobs[i].status # "running" => jobs'[i].status = jobs[i].status
         /\ UNCHANGED <<up, now, table, client, life>>
<1>1. PICK s \in {"success", "failed"} : jobs' = [jobs EXCEPT ![j].status = s]
  BY DEF Finish
<1>2. jobs \in Seq(JobStates) /\ jobs[j] \in JobStates /\ jobs[j].status = "running"
  BY DEF TypeOK, Jobs, Finish, Underway
<1>3. /\ [jobs[j] EXCEPT !.status = s] \in JobStates
      /\ [jobs[j] EXCEPT !.status = s].id = jobs[j].id
      /\ [jobs[j] EXCEPT !.status = s].life = jobs[j].life
  BY <1>2 DEF JobStates, Statuses
<1>4. jobs' = [jobs EXCEPT ![j] = [jobs[j] EXCEPT !.status = s]]
  BY <1>1
<1>5. UNCHANGED <<up, now, table, client, life>>
  BY DEF Finish
<1>. HIDE DEF JobStates
<1>6. jobs' \in Seq(JobStates) /\ Len(jobs') = Len(jobs) /\ Jobs' = Jobs
  BY <1>2, <1>3, <1>4 DEF Jobs
<1>7. jobs'[j] = [jobs[j] EXCEPT !.status = s] /\ \A i \in Jobs \ {j} : jobs'[i] = jobs[i]
  BY <1>2, <1>4 DEF Jobs
<1>8. QED
  BY <1>2, <1>3, <1>5, <1>6, <1>7

LEMMA FinishInv == ASSUME IInv, NEW j \in Jobs, Finish(j) PROVE IInv'
<1>1. /\ jobs' \in Seq(JobStates) /\ Len(jobs') = Len(jobs) /\ Jobs' = Jobs
      /\ \A i \in Jobs : /\ jobs'[i].id = jobs[i].id /\ jobs'[i].life = jobs[i].life
                         /\ jobs[i].status # "running" => jobs'[i].status = jobs[i].status
      /\ UNCHANGED <<up, now, jobsSeq, jobsByID, jobsOrder, client, life>>
  BY JobDone DEF IInv, table
<1>2. TypeOK'
  BY <1>1 DEF IInv, TypeOK
<1>3. Stamped' /\ Unique' /\ LastOnes'
  BY <1>1 DEF IInv, Stamped, Unique, LastOnes
<1>4. Mapped' /\ InTable'
  BY <1>1 DEF IInv, TypeOK, Mapped, InTable
<1>5. Held' /\ NoneHeld'
  BY <1>1 DEF IInv, Held, NoneHeld
<1>6. Ordered'
  <2>1. \A k \in 1 .. Len(jobsOrder) : First + k \in Jobs
    BY JobsAssumption DEF IInv, First, LastOnes, Ordered, TypeOK, Jobs
  <2>. QED
    BY <1>1, <2>1 DEF IInv, Ordered, First
<1>7. Told' /\ GoneOnlyWhenOutnumbered'
  <2>1. \A c \in Clients : client[c].answer # None => client[c].job \in Jobs
    BY DEF IInv, Held, NoneHeld
  <2>. QED
    BY <1>1, <2>1, JobsAssumption DEF IInv, Told, GoneOnlyWhenOutnumbered
<1>8. QED
  BY <1>2, <1>3, <1>4, <1>5, <1>6, <1>7 DEF IInv

\* A job of this process that the table has lost is outnumbered.
LEMMA LostIsOutnumbered ==
  ASSUME IInv, NEW j \in Jobs, jobs[j].life = life, jobs[j].id \notin DOMAIN jobsByID
  PROVE  Len(jobs) - j >= Keep
<1>1. /\ j > Len(jobs) - jobsSeq /\ j \in 1 .. Len(jobs) /\ jobsSeq \in Nat /\ Keep \in Nat
      /\ Len(jobs) \in Nat /\ Len(jobsOrder) \in Nat
      /\ Len(jobsOrder) = IF jobsSeq < Keep THEN jobsSeq ELSE Keep
  BY JobsAssumption DEF IInv, LastOnes, Ordered, TypeOK, Jobs
<1>2. CASE Len(jobs) - j < Keep
  <2>1. Len(jobs) - j < Len(jobsOrder)
    BY <1>1, <1>2
  <2>2. j - First \in 1 .. Len(jobsOrder) /\ First + (j - First) = j
    BY <1>1, <2>1 DEF First
  <2>3. jobsOrder[j - First] = jobs[j].id
    BY <2>2 DEF IInv, Ordered
  <2>. QED
    BY <2>2, <2>3 DEF IInv, InTable
<1>3. QED
  BY <1>1, <1>2

\* What a client is told.
LEMMA PollTold ==
  ASSUME TypeOK, NEW c \in Clients, Poll(c)
  PROVE  /\ client[c].id # None /\ client' \in [Clients -> ClientStates]
         /\ client'[c].job = client[c].job /\ client'[c].id = client[c].id
         /\ client'[c].answer = getJob(client[c].id)
         /\ \A d \in Clients \ {c} : client'[d] = client[d]
         /\ UNCHANGED <<up, now, jobsSeq, jobsByID, jobsOrder, jobs, life>>
<1>1. /\ client[c].id # None /\ client \in [Clients -> ClientStates]
      /\ client' = [client EXCEPT ![c].answer = getJob(client[c].id)]
      /\ UNCHANGED <<up, now, jobsSeq, jobsByID, jobsOrder, jobs, life>>
  BY DEF Poll, table, TypeOK
<1>2. getJob(client[c].id) \in Answers
  <2>1. \A id \in DOMAIN jobsByID : jobs[jobsByID[id]] \in JobStates
    BY DEF TypeOK, Jobs
  <2>. QED
    BY <2>1, JobFields DEF getJob, Answers
<1>3. client[c] \in ClientStates
  BY <1>1
<1>4. /\ [client[c] EXCEPT !.answer = getJob(client[c].id)] \in ClientStates
      /\ [client[c] EXCEPT !.answer = getJob(client[c].id)].job = client[c].job
      /\ [client[c] EXCEPT !.answer = getJob(client[c].id)].id = client[c].id
      /\ [client[c] EXCEPT !.answer = getJob(client[c].id)].answer = getJob(client[c].id)
  <2>. HIDE DEF Answers, getJob, Ids
  <2>. QED
    BY <1>2, <1>3 DEF ClientStates
<1>5. client' = [client EXCEPT ![c] = [client[c] EXCEPT !.answer = getJob(client[c].id)]]
  BY <1>1
<1>6. /\ client' \in [Clients -> ClientStates]
      /\ client'[c].job = client[c].job /\ client'[c].id = client[c].id
      /\ client'[c].answer = getJob(client[c].id)
      /\ \A d \in Clients \ {c} : client'[d] = client[d]
  <2>. HIDE DEF ClientStates, getJob
  <2>. QED
    BY <1>1, <1>4, <1>5
<1>7. QED
  BY <1>1, <1>6

LEMMA PollInv == ASSUME IInv, NEW c \in Clients, Poll(c) PROVE IInv'
<1>1. /\ client[c].id # None
      /\ UNCHANGED <<up, now, jobsSeq, jobsByID, jobsOrder, jobs, life>>
  BY PollTold DEF IInv
<1>2. /\ client' \in [Clients -> ClientStates]
      /\ client'[c].job = client[c].job /\ client'[c].id = client[c].id
      /\ client'[c].answer = getJob(client[c].id)
      /\ \A d \in Clients \ {c} : client'[d] = client[d]
  BY PollTold DEF IInv
<1>3. TypeOK'
  BY <1>1, <1>2 DEF IInv, TypeOK, Jobs
<1>4. Stamped' /\ Unique' /\ Mapped' /\ LastOnes' /\ Ordered' /\ InTable'
  <2>1. Stamped' /\ Unique'
    BY <1>1 DEF IInv, Stamped, Unique, Jobs
  <2>2. Mapped' /\ InTable'
    BY <1>1 DEF IInv, Mapped, InTable
  <2>3. LastOnes'
    BY <1>1 DEF IInv, LastOnes, Jobs
  <2>4. Ordered'
    BY <1>1 DEF IInv, Ordered, First
  <2>. QED
    BY <2>1, <2>2, <2>3, <2>4
<1>5. Held' /\ NoneHeld'
  BY <1>1, <1>2 DEF IInv, Held, NoneHeld, Jobs
<1>6. client[c].job \in Jobs /\ jobs[client[c].job].id = client[c].id
  BY <1>1 DEF IInv, Held
<1>7. client[c].id \in DOMAIN jobsByID => jobsByID[client[c].id] = client[c].job
  BY <1>6 DEF IInv, Mapped, Unique, TypeOK
<1>8. Told'
  <2>1. getJob(client[c].id) = "gone" => client[c].id \notin DOMAIN jobsByID
    <3>1. \A id \in DOMAIN jobsByID : jobs[jobsByID[id]] \in JobStates
      BY DEF IInv, TypeOK, Jobs
    <3>. QED
      BY <3>1, JobFields DEF getJob, Statuses
  <2>2. getJob(client[c].id) \in {"success", "failed"} =>
           jobs[client[c].job].status = getJob(client[c].id)
    BY <1>7 DEF getJob
  <2>. QED
    BY <1>1, <1>2, <2>1, <2>2 DEF IInv, Told
<1>9. GoneOnlyWhenOutnumbered'
  <2>1. client'[c].answer = "gone" /\ jobs[client[c].job].life = life =>
           Len(jobs) - client[c].job >= Keep
    <3>1. client'[c].answer = "gone" => client[c].id \notin DOMAIN jobsByID
      BY <1>2, <1>8, <1>1 DEF Told
    <3>. QED
      BY <1>6, <3>1, LostIsOutnumbered
  <2>. QED
    BY <1>1, <1>2, <2>1 DEF IInv, GoneOnlyWhenOutnumbered
<1>10. QED
  BY <1>3, <1>4, <1>5, <1>8, <1>9 DEF IInv
-----------------------------------------------------------------------------
LEMMA RestartInv == ASSUME IInv, Restart PROVE IInv'
<1>1. /\ up' = TRUE /\ life' = life + 1 /\ now' = now + RestartDelay
      /\ jobsSeq' = 0 /\ jobsOrder' = <<>> /\ DOMAIN jobsByID' = {}
      /\ UNCHANGED <<jobs, client>> /\ Jobs' = Jobs
  BY DEF Restart, Jobs
<1>2. /\ life \in Nat /\ now \in Nat /\ jobsSeq \in Nat /\ jobs \in Seq(JobStates)
      /\ Len(jobs) \in Nat /\ RestartDelay \in Nat /\ RestartDelay > 0 /\ Jobs = 1 .. Len(jobs)
      /\ client \in [Clients -> ClientStates]
  BY JobsAssumption DEF IInv, TypeOK, Jobs
<1>3. \A j \in Jobs : /\ jobs[j].life \in Nat /\ jobs[j].life <= life
                     /\ jobs[j].id[2] \in Nat /\ jobs[j].id[2] <= now
  <2>1. \A j \in Jobs : jobs[j] \in JobStates
    BY <1>2
  <2>2. \A j \in Jobs : jobs[j].life <= life /\ jobs[j].id[2] <= now
    BY DEF IInv, Stamped
  <2>. QED
    BY <2>1, <2>2, JobFields
<1>4. TypeOK'
  BY <1>1, <1>2 DEF IInv, TypeOK
<1>5. Stamped'
  BY <1>1, <1>2, <1>3 DEF Stamped
<1>6. Unique' /\ Mapped'
  BY <1>1 DEF IInv, Unique, Mapped
<1>7. Held' /\ NoneHeld'
  BY <1>1 DEF IInv, Held, NoneHeld
<1>8. LastOnes'
  BY <1>1, <1>2, <1>3 DEF LastOnes
<1>9. Len(jobsOrder') = 0 /\ 1 .. 0 = {}
  BY <1>1
<1>10. Ordered'
  BY <1>1, <1>9, JobsAssumption DEF Ordered
<1>11. InTable'
  <2>1. 1 .. Len(jobsOrder') = {}
    BY <1>9
  <2>2. {jobsOrder'[k] : k \in 1 .. Len(jobsOrder')} = {}
    BY <2>1, Zenon
  <2>. QED
    BY <1>1, <2>2, Zenon DEF InTable
<1>12. Told'
  BY <1>1 DEF IInv, Told
<1>13. GoneOnlyWhenOutnumbered'
  <2>1. \A c \in Clients : client[c].answer = "gone" => client[c].job \in Jobs
    BY JobsAssumption DEF IInv, Held, NoneHeld
  <2>2. \A j \in Jobs : jobs[j].life # life + 1
    BY <1>2, <1>3
  <2>. QED
    BY <1>1, <2>1, <2>2 DEF GoneOnlyWhenOutnumbered
<1>14. QED
  BY <1>4, <1>5, <1>6, <1>7, <1>8, <1>10, <1>11, <1>12, <1>13 DEF IInv

LEMMA SameTable ==
  ASSUME IInv, up' \in BOOLEAN, now' \in Nat, now' >= now,
         UNCHANGED <<jobsSeq, jobsByID, jobsOrder, jobs, client, life>>
  PROVE  IInv'
<1>1. TypeOK'
  BY DEF IInv, TypeOK, Jobs
<1>2. Stamped'
  <2>1. now \in Nat /\ \A j \in Jobs : jobs[j].id[2] \in Nat
    <3>1. \A j \in Jobs : jobs[j] \in JobStates
      BY DEF IInv, TypeOK, Jobs
    <3>. QED
      BY <3>1, JobFields DEF IInv, TypeOK
  <2>. QED
    BY <2>1 DEF IInv, Stamped, Jobs
<1>3. Unique' /\ Mapped' /\ InTable'
  BY DEF IInv, Unique, Mapped, InTable, Jobs
<1>4. Held' /\ NoneHeld' /\ Told'
  BY DEF IInv, Held, NoneHeld, Told, Jobs
<1>5. LastOnes' /\ Ordered'
  BY DEF IInv, LastOnes, Ordered, First, Jobs
<1>6. GoneOnlyWhenOutnumbered'
  BY DEF IInv, GoneOnlyWhenOutnumbered
<1>7. QED
  BY <1>1, <1>2, <1>3, <1>4, <1>5, <1>6 DEF IInv

LEMMA InvStep == IInv /\ [Next]_vars => IInv'
<1> SUFFICES ASSUME IInv, [Next]_vars PROVE IInv'
  OBVIOUS
<1>0. now \in Nat /\ up \in BOOLEAN
  BY DEF IInv, TypeOK
<1>1. ASSUME NEW c \in Clients, NEW name \in Names, startJob(c, name) PROVE IInv'
  BY <1>1, StartInv
<1>2. ASSUME NEW j \in Jobs, Finish(j) PROVE IInv'
  BY <1>2, FinishInv
<1>3. ASSUME NEW c \in Clients, Poll(c) PROVE IInv'
  BY <1>3, PollInv
<1>4. CASE Die
  <2>1. now' = now /\ UNCHANGED <<jobsSeq, jobsByID, jobsOrder, jobs, client, life>>
    BY <1>4 DEF Die, table
  <2>2. now' \in Nat /\ now' >= now
    BY <1>0, <2>1
  <2>3. up' \in BOOLEAN
    BY <1>4, Zenon DEF Die
  <2>. QED
    BY <2>1, <2>2, <2>3, SameTable
<1>5. CASE Restart
  BY <1>5, RestartInv
<1>6. CASE Tick
  <2>1. /\ up' \in BOOLEAN /\ now' \in Nat /\ now' >= now
        /\ UNCHANGED <<jobsSeq, jobsByID, jobsOrder, jobs, client, life>>
    BY <1>0, <1>6 DEF Tick, table
  <2>. QED
    BY <2>1, SameTable
<1>7. CASE UNCHANGED vars
  <2>1. /\ up' \in BOOLEAN /\ now' \in Nat /\ now' >= now
        /\ UNCHANGED <<jobsSeq, jobsByID, jobsOrder, jobs, client, life>>
    BY <1>0, <1>7 DEF vars
  <2>. QED
    BY <2>1, SameTable
<1>8. QED
  BY <1>1, <1>2, <1>3, <1>4, <1>5, <1>6, <1>7 DEF Next

LEMMA Always == Spec => []IInv
  BY InitInv, InvStep, PTL DEF Spec

\* The id that a client holds leads to its own job, or to none.
LEMMA OwnJob == IInv => AnswerIsOwnJob
<1> SUFFICES ASSUME IInv, NEW c \in Clients, client[c].id \in DOMAIN jobsByID
             PROVE  jobsByID[client[c].id] = client[c].job
  BY DEF AnswerIsOwnJob
<1>1. client[c].id # None
  <2>1. client[c].id \in Ids
    BY DEF IInv, TypeOK
  <2>2. None \notin Ids
    BY JobsAssumption, Zenon DEF Ids
  <2>. QED
    BY <2>1, <2>2
<1>2. client[c].job \in Jobs /\ jobs[client[c].job].id = client[c].id
  BY <1>1 DEF IInv, Held
<1>3. jobsByID[client[c].id] \in Jobs /\ jobs[jobsByID[client[c].id]].id = client[c].id
  BY DEF IInv, TypeOK, Mapped
<1>4. QED
  BY <1>2, <1>3 DEF IInv, Unique
-----------------------------------------------------------------------------
\* The type of every variable; the table points only to jobs that exist.
THEOREM TypeCorrect == Spec => []TypeOK
<1>1. IInv => TypeOK
  BY DEF IInv
<1>2. QED
  BY <1>1, Always, PTL

\* An id never answers for another job, of this process or an earlier one.
THEOREM OwnAnswers == Spec => []AnswerIsOwnJob
  BY Always, OwnJob, PTL

\* 404 means that Keep newer jobs were started or the dashboard restarted.
THEOREM GoneIsOutnumbered == Spec => []GoneOnlyWhenOutnumbered
<1>1. IInv => GoneOnlyWhenOutnumbered
  BY DEF IInv
<1>2. QED
  BY <1>1, Always, PTL

\* However many jobs are started, the table holds Keep of them at most, and its
\* two halves, the order and the map, the same ones.
TableBounded == /\ Len(jobsOrder) <= Keep
                /\ DOMAIN jobsByID = {jobsOrder[k] : k \in 1 .. Len(jobsOrder)}
THEOREM Bounded == Spec => []TableBounded
<1>1. IInv => TableBounded
  BY JobsAssumption DEF IInv, TableBounded, Ordered, InTable, TypeOK
<1>2. QED
  BY <1>1, Always, PTL

\* An interval in order.
LEMMA IntervalInOrder ==
  ASSUME NEW a \in Int, NEW b \in Int, a <= b + 1
  PROVE  InOrder(a .. b) = [i \in 1 .. (b - a + 1) |-> a + i - 1]
<1>1. Cardinality(a .. b) = b - a + 1
  <2>1. a > b => b - a + 1 = 0
    OBVIOUS
  <2>. QED
    BY <2>1, FS_Interval
<1>2. ASSUME NEW n \in a .. b PROVE Cardinality({m \in a .. b : m <= n}) = n - a + 1
  <2>1. {m \in a .. b : m <= n} = a .. n
    OBVIOUS
  <2>2. Cardinality(a .. n) = n - a + 1
    BY FS_Interval
  <2>. QED
    BY <2>1, <2>2
<1>3. ASSUME NEW i \in 1 .. (b - a + 1)
      PROVE  (CHOOSE n \in a .. b : Cardinality({m \in a .. b : m <= n}) = i) = a + i - 1
  <2>1. PICK k \in a .. b : k = a + i - 1
    OBVIOUS
  <2>2. Cardinality({m \in a .. b : m <= k}) = i
    <3>1. Cardinality({m \in a .. b : m <= k}) = k - a + 1
      BY <1>2
    <3>. QED
      BY <2>1, <3>1
  <2>3. ASSUME NEW n \in a .. b, Cardinality({m \in a .. b : m <= n}) = i PROVE n = k
    <3>1. Cardinality({m \in a .. b : m <= n}) = n - a + 1
      BY <1>2
    <3>. QED
      BY <2>1, <2>3, <3>1
  <2>. QED
    BY <2>1, <2>2, <2>3
<1>4. QED
  BY <1>1, <1>3 DEF InOrder

\* The jobs of this process, by their indices.
LEMMA MineAreLast ==
  ASSUME IInv
  PROVE  Mine = [i \in 1 .. jobsSeq |-> Len(jobs) - jobsSeq + i]
<1>1. PICK n \in Nat : n = Len(jobs)
  BY DEF IInv, TypeOK
<1>2. jobsSeq \in Nat /\ jobsSeq <= n /\ Jobs = 1 .. n
  BY <1>1 DEF IInv, TypeOK, LastOnes, Jobs
<1>3. {j \in Jobs : jobs[j].life = life} = (n - jobsSeq + 1) .. n
  BY <1>1, <1>2 DEF IInv, LastOnes
<1>4. PICK a \in Int : a = n - jobsSeq + 1
  BY <1>2
<1>5. InOrder(a .. n) = [i \in 1 .. (n - a + 1) |-> a + i - 1]
  BY <1>2, <1>4, IntervalInOrder
<1>6. n - a + 1 = jobsSeq /\ \A i \in Int : a + i - 1 = n - jobsSeq + i
  BY <1>2, <1>4
<1>7. [i \in 1 .. (n - a + 1) |-> a + i - 1] = [i \in 1 .. jobsSeq |-> n - jobsSeq + i]
  BY <1>6
<1>8. QED
  BY <1>1, <1>3, <1>4, <1>5, <1>7 DEF Mine

\* The list leaves none of the order out, and shows the last jobs made.
LEMMA ListAreLast ==
  ASSUME IInv
  PROVE  listJobs = [i \in 1 .. Len(jobsOrder) |-> First + i]
<1>1. PICK len \in Nat : len = Len(jobsOrder) /\ DOMAIN jobsOrder = 1 .. len
  BY DEF IInv, TypeOK
<1>2. DOMAIN jobsByID = {jobsOrder[k] : k \in 1 .. len}
  BY <1>1 DEF IInv, InTable
<1>3. {k \in DOMAIN jobsOrder : jobsOrder[k] \in DOMAIN jobsByID} = 1 .. len
  BY <1>1, <1>2
<1>4. InOrder(1 .. len) = [i \in 1 .. len |-> i]
  <2>1. InOrder(1 .. len) = [i \in 1 .. (len - 1 + 1) |-> 1 + i - 1]
    BY <1>1, IntervalInOrder
  <2>2. len - 1 + 1 = len /\ \A i \in Int : 1 + i - 1 = i
    OBVIOUS
  <2>. QED
    BY <2>1, <2>2
<1>5. listJobs = [i \in 1 .. len |-> jobsByID[jobsOrder[i]]]
  <2>1. Among(jobsOrder, DOMAIN jobsByID) = [i \in 1 .. len |-> jobsOrder[i]]
    BY <1>3, <1>4 DEF Among
  <2>. QED
    BY <2>1 DEF listJobs
<1>6. ASSUME NEW i \in 1 .. len PROVE jobsByID[jobsOrder[i]] = First + i
  <2>1. jobsOrder[i] \in DOMAIN jobsByID /\ jobsOrder[i] = jobs[First + i].id
    BY <1>1, <1>2 DEF IInv, Ordered
  <2>2. /\ jobsByID[jobsOrder[i]] \in Jobs
        /\ jobs[jobsByID[jobsOrder[i]]].id = jobsOrder[i]
    BY <2>1 DEF IInv, TypeOK, Mapped
  <2>3. First + i \in Jobs
    <3>1. PICK n \in Nat : n = Len(jobs) /\ Jobs = 1 .. n
      BY DEF IInv, TypeOK, Jobs
    <3>2. First = n - len /\ len <= jobsSeq /\ jobsSeq <= n /\ jobsSeq \in Nat
      BY <1>1, <3>1, JobsAssumption DEF IInv, TypeOK, First, Ordered, LastOnes
    <3>. QED
      BY <3>1, <3>2
  <2>. QED
    BY <2>1, <2>2, <2>3 DEF IInv, Unique
<1>7. QED
  BY <1>1, <1>5, <1>6

\* The list shows the newest Keep jobs of the process, each once, the oldest
\* first, and the map holds nothing else.
THEOREM NewestRetained == Spec => []RetainedAreNewest
<1>1. ASSUME IInv PROVE RetainedAreNewest
  <2>1. PICK n \in Nat, len \in Nat, seq \in Nat :
          /\ n = Len(jobs) /\ len = Len(jobsOrder) /\ seq = jobsSeq
    BY <1>1 DEF IInv, TypeOK
  <2>2. len = (IF seq < Keep THEN seq ELSE Keep) /\ len <= seq /\ First = n - len
    BY <1>1, <2>1, JobsAssumption DEF IInv, Ordered, First
  <2>3. Mine = [i \in 1 .. seq |-> n - seq + i]
    BY <1>1, <2>1, MineAreLast
  <2>4. Mine \in Seq(Int) /\ Len(Mine) = seq
    BY <2>3
  <2>5. SubSeq(Mine, seq - len + 1, seq) = [i \in 1 .. len |-> n - len + i]
    <3>1. PICK from \in Int : from = seq - len + 1
      BY <2>1
    <3>2. from >= 1 /\ from <= seq + 1 /\ seq - from + 1 = len
      BY <2>1, <2>2, <3>1
    <3>3. SubSeq(Mine, from, seq) = [i \in 1 .. len |-> Mine[from + i - 1]]
      <4>1. /\ SubSeq(Mine, from, seq) \in Seq(Int)
            /\ Len(SubSeq(Mine, from, seq)) = len
            /\ \A i \in 1 .. len : SubSeq(Mine, from, seq)[i] = Mine[from + i - 1]
        BY <2>4, <3>1, <3>2, SubSeqProperties
      <4>. QED
        BY <4>1
    <3>4. ASSUME NEW i \in 1 .. len PROVE Mine[from + i - 1] = n - len + i
      <4>1. PICK k \in Int : k = from + i - 1
        BY <3>1
      <4>2. i \in Int /\ 1 <= i /\ i <= len /\ n \in Int /\ seq \in Int /\ len \in Int
        BY <2>1
      <4>3. k \in 1 .. seq
        BY <3>2, <4>1, <4>2
      <4>4. n - seq + k = n - len + i
        BY <3>1, <4>1, <4>2
      <4>. QED
        BY <2>3, <4>1, <4>3, <4>4
    <3>. QED
      BY <3>1, <3>3, <3>4
  <2>6. listJobs = [i \in 1 .. len |-> n - len + i]
    BY <1>1, <2>1, <2>2, ListAreLast
  <2>7. DOMAIN jobsByID = ToSet(jobsOrder)
    <3>1. DOMAIN jobsOrder = 1 .. Len(jobsOrder)
      BY <1>1 DEF IInv, TypeOK
    <3>. QED
      BY <1>1, <3>1 DEF IInv, InTable, ToSet
  <2>. QED
    BY <2>1, <2>2, <2>4, <2>5, <2>6, <2>7 DEF RetainedAreNewest
<1>2. QED
  BY <1>1, Always, PTL

\* An outcome that a client was told is final, and so is 404.
THEOREM NeverBack == Spec => PollNeverGoesBack
<1> DEFINE Forward(c) == \/ client[c].answer \in {"running", None}
                         \/ client'[c].answer \in {client[c].answer, "gone"}
           Goes == \A c \in Clients : client'[c].job = client[c].job => Forward(c)
<1>1. ASSUME IInv, IInv', [Next]_vars, NEW c \in Clients, client'[c].job = client[c].job
      PROVE  Forward(c)
  <2>1. CASE client'[c] = client[c]
    <3>1. client[c].answer \in Answers \cup {None}
      BY <1>1 DEF IInv, TypeOK, ClientStates
    <3>. QED
      BY <2>1, <3>1
  <2>2. ASSUME NEW d \in Clients, NEW name \in Names, startJob(d, name) PROVE Forward(c)
    <3>1. client' = [client EXCEPT ![d] = [job |-> Len(jobs) + 1, id |-> NewId(name),
                                           answer |-> "running"]]
          /\ client \in [Clients -> ClientStates]
      BY <1>1, <2>2 DEF startJob, IInv, TypeOK
    <3>2. client[c].job \in Jobs \cup {0} /\ Len(jobs) \in Nat /\ Jobs = 1 .. Len(jobs)
      BY <1>1 DEF IInv, TypeOK, Held, NoneHeld, Jobs
    <3>3. d # c
      BY <1>1, <3>1, <3>2
    <3>. QED
      BY <2>1, <3>1, <3>3
  <2>3. ASSUME Poll(c) PROVE Forward(c)
    <3>1. /\ client[c].id # None /\ client'[c].answer = getJob(client[c].id)
      BY <1>1, <2>3, PollTold DEF IInv
    <3>2. client[c].id \in DOMAIN jobsByID => jobsByID[client[c].id] = client[c].job
      BY <1>1, <2>3, OwnJob DEF AnswerIsOwnJob, Poll
    <3>3. client[c].answer \in Answers \cup {None}
      BY <1>1 DEF IInv, TypeOK, ClientStates
    <3>4. CASE client[c].answer = "gone"
      BY <1>1, <3>1, <3>4 DEF IInv, Told, getJob
    <3>5. CASE client[c].answer \in {"success", "failed"}
      <4>1. jobs[client[c].job].status = client[c].answer
        BY <1>1, <3>5 DEF IInv, Told
      <4>. QED
        BY <3>1, <3>2, <4>1 DEF getJob
    <3>. QED
      BY <3>3, <3>4, <3>5 DEF Answers, Statuses
  <2>4. ASSUME NEW d \in Clients \ {c}, Poll(d) PROVE client'[c] = client[c]
    BY <1>1, <2>4 DEF Poll, IInv, TypeOK
  <2>5. ASSUME (\E j \in Jobs : Finish(j)) \/ Die \/ Restart \/ Tick \/ UNCHANGED vars
        PROVE  client'[c] = client[c]
    BY <2>5 DEF Finish, Die, Restart, Tick, vars
  <2>. QED
    BY <1>1, <2>1, <2>2, <2>3, <2>4, <2>5 DEF Next
<1>2. IInv /\ IInv' /\ [Next]_vars => [Goes]_vars
  BY <1>1
<1>3. QED
  BY <1>2, Always, PTL DEF Spec, PollNeverGoesBack
=============================================================================
