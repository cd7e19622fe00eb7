-------------------------------- MODULE Jobs --------------------------------
(***************************************************************************)
(* The table of asynchronous operations of `gaet serve`                    *)
(* (pkg/serve/jobs.go): POST /api/push, fetch or restore with ?async=1     *)
(* starts a job and answers its id, GET /api/jobs/{id} polls it.  Each     *)
(* critical section of jobsMu is one action.                               *)
(*                                                                         *)
(* The table lives in memory.  A panic in a job's goroutine (the handler   *)
(* has no recover) or a kill ends the process with every job in it; the    *)
(* service manager starts a new one, whose table is empty and whose        *)
(* sequence numbers begin again, while clients still hold ids of the old.  *)
(***************************************************************************)
EXTENDS Integers, Sequences, SequencesExt, Listing

CONSTANTS Clients,      \* dashboard tabs and SDK users
          Names,        \* the operations: push, fetch, restore
          Keep,         \* jobsKeep, 50 in the code
          RestartDelay, \* seconds until a dead dashboard is up again
          None,
          MaxJobs, MaxSecond, MaxLives  \* bounds for TLC

\* The systemd unit says Restart=on-failure, RestartSec=5s.
ASSUME JobsAssumption == /\ Keep \in Nat \ {0}
                         /\ RestartDelay \in Nat \ {0}
                         /\ None \notin Names \X Nat \X Nat
                         /\ None \notin {"running", "success", "failed", "gone"}

VARIABLES up,        \* the dashboard process runs
          now,       \* time.Now().Unix()
          jobsSeq,   \* jobs started by this process
          jobsByID,  \* id -> job
          jobsOrder, \* ids, oldest first
          jobs,      \* every jobState ever made; a job is an index of it
          client,    \* what each client asked for and was last told
          life       \* history: which process this is

vars == <<up, now, jobsSeq, jobsByID, jobsOrder, jobs, client, life>>
table == <<jobsSeq, jobsByID, jobsOrder>>

Statuses == {"running", "success", "failed"}
Ids == Names \X Nat \X Nat
Jobs == DOMAIN jobs
JobStates == [id : Ids, status : Statuses, life : Nat]

\* "gone" stands for 404 "job not found".
Answers == Statuses \cup {"gone"}
ClientStates == [job : Nat, id : Ids \cup {None}, answer : Answers \cup {None}]

Init == /\ up = TRUE
        /\ now = 0
        /\ jobsSeq = 0
        /\ jobsByID = [id \in {} |-> 0]
        /\ jobsOrder = <<>>
        /\ jobs = <<>>
        /\ client = [c \in Clients |-> [job |-> 0, id |-> None, answer |-> None]]
        /\ life = 1
-----------------------------------------------------------------------------
\* Ids from the second alone: two requests within a second share one.
SecondOnlyId(name) == <<name, now, 0>>

\* fmt.Sprintf("%s-%d-%d", name, time.Now().Unix(), jobsSeq), once incremented.
NewId(name) == <<name, now, jobsSeq + 1>>

\* The newest ids only, but the map keeps every job.
EvictFromOrderOnly(order, byID) ==
  LET excess == IF Len(order) > Keep THEN Len(order) - Keep ELSE 0 IN
  /\ jobsOrder' = SubSeq(order, excess + 1, Len(order))
  /\ jobsByID' = byID

\* A loop that runs while Len(order) >= Keep.
EvictOneTooMany(order, byID) ==
  LET excess == IF Len(order) >= Keep THEN Len(order) - Keep + 1 ELSE 0
      dropped == {order[i] : i \in 1 .. excess} IN
  /\ jobsOrder' = SubSeq(order, excess + 1, Len(order))
  /\ jobsByID' = [id \in DOMAIN byID \ dropped |-> byID[id]]

\* The loop drops the oldest until jobsKeep are left, running or not.
Evict(order, byID) ==
  LET excess == IF Len(order) > Keep THEN Len(order) - Keep ELSE 0
      dropped == {order[i] : i \in 1 .. excess} IN
  /\ jobsOrder' = SubSeq(order, excess + 1, Len(order))
  /\ jobsByID' = [id \in DOMAIN byID \ dropped |-> byID[id]]

\* A client has at most one operation of its own under way.
MayAsk(c) == client[c].answer # "running"

\* startJob; the id goes back with status 202 and "running".
startJob(c, name) ==
  LET id == NewId(name) job == Len(jobs) + 1 IN
  /\ up
  /\ MayAsk(c)
  /\ Len(jobs) < MaxJobs
  /\ jobsSeq' = jobsSeq + 1
  /\ jobs' = Append(jobs, [id |-> id, status |-> "running", life |-> life])
  /\ Evict(Append(jobsOrder, id),
           [x \in DOMAIN jobsByID \cup {id} |-> IF x = id THEN job ELSE jobsByID[x]])
  /\ client' = [client EXCEPT ![c] = [job |-> job, id |-> id, answer |-> "running"]]
  /\ UNCHANGED <<up, now, life>>

Underway(j) == up /\ jobs[j].life = life /\ jobs[j].status = "running"

\* The goroutine puts its state back into the table when it is done.
FinishReinserts(j) ==
  /\ Underway(j)
  /\ \E s \in {"success", "failed"} : jobs' = [jobs EXCEPT ![j].status = s]
  /\ jobsByID' = [x \in DOMAIN jobsByID \cup {jobs[j].id} |->
                    IF x = jobs[j].id THEN j ELSE jobsByID[x]]
  /\ UNCHANGED <<up, now, jobsSeq, jobsOrder, client, life>>

\* fn returns (every operation has timeouts) and the goroutine writes the
\* outcome to its own jobState, wherever that is by now.
Finish(j) ==
  /\ Underway(j)
  /\ \E s \in {"success", "failed"} : jobs' = [jobs EXCEPT ![j].status = s]
  /\ UNCHANGED <<up, now, table, client, life>>

\* jobState kept by value: the goroutine updates a copy of its own.
getJobByValue(id) == IF id \in DOMAIN jobsByID THEN "running" ELSE "gone"

getJob(id) == IF id \in DOMAIN jobsByID THEN jobs[jobsByID[id]].status ELSE "gone"

\* GET /api/jobs/{id}
Poll(c) == /\ up
           /\ client[c].id # None
           /\ client' = [client EXCEPT ![c].answer = getJob(client[c].id)]
           /\ UNCHANGED <<up, now, table, jobs, life>>

\* GET /api/jobs: the jobs of the order that are still in the table.
listJobs == LET kept == Among(jobsOrder, DOMAIN jobsByID)
            IN  [i \in DOMAIN kept |-> jobsByID[kept[i]]]

\* A panic in a job or a request's operation, a kill, a power cut.
Die == /\ up
       /\ life < MaxLives
       /\ up' = FALSE
       /\ UNCHANGED <<now, table, jobs, client, life>>

Restart == /\ ~up
           /\ up' = TRUE
           /\ life' = life + 1
           /\ now' = now + RestartDelay
           /\ jobsSeq' = 0
           /\ jobsByID' = [id \in {} |-> 0]
           /\ jobsOrder' = <<>>
           /\ UNCHANGED <<jobs, client>>

Tick == /\ now < MaxSecond
        /\ now' = now + 1
        /\ UNCHANGED <<up, table, jobs, client, life>>

Next == \/ \E c \in Clients, name \in Names : startJob(c, name)
        \/ \E j \in Jobs : Finish(j)
        \/ \E c \in Clients : Poll(c)
        \/ Die
        \/ Restart
        \/ Tick

Spec == Init /\ [][Next]_vars

\* Operations end by their timeouts, clients keep polling while they are told
\* "running", and the service manager restarts the dashboard.
FairSpec == /\ Spec
            /\ \A j \in 1 .. MaxJobs : WF_vars(j \in Jobs /\ Finish(j))
            /\ \A c \in Clients : WF_vars(Poll(c))
            /\ WF_vars(Restart)
-----------------------------------------------------------------------------
(***************************************************************************)
(* Properties                                                              *)
(***************************************************************************)
\* The type of every variable; the table points only to jobs that exist.
TypeOK == /\ up \in BOOLEAN
          /\ {now, jobsSeq, life} \subseteq Nat
          /\ DOMAIN jobsByID \subseteq Ids
          /\ \A id \in DOMAIN jobsByID : jobsByID[id] \in Jobs
          /\ jobsOrder \in Seq(Ids)
          /\ jobs \in Seq(JobStates)
          /\ client \in [Clients -> ClientStates]

\* The jobs of this process, oldest first.
Mine == InOrder({j \in Jobs : jobs[j].life = life})

\* The list shows the newest Keep jobs of this process, each once, oldest
\* first, and the map holds nothing else: the two halves of the table never
\* drift apart and memory stays bounded however many jobs are started.
RetainedAreNewest ==
  up => /\ listJobs = SubSeq(Mine, Len(Mine) - Len(jobsOrder) + 1, Len(Mine))
        /\ Len(jobsOrder) = IF Len(Mine) < Keep THEN Len(Mine) ELSE Keep
        /\ DOMAIN jobsByID = ToSet(jobsOrder)

\* An id never answers for another job: not for one started in the same
\* second, nor for one of a dashboard restarted since, whose numbers begin
\* again at one.
AnswerIsOwnJob ==
  \A c \in Clients :
    up /\ client[c].id \in DOMAIN jobsByID => jobsByID[client[c].id] = client[c].job

\* A client that polls on sees a job go from running to one outcome to gone,
\* and never back: an outcome is final and so is 404.
PollNeverGoesBack ==
  [][\A c \in Clients : client'[c].job = client[c].job =>
       \/ client[c].answer \in {"running", None}
       \/ client'[c].answer \in {client[c].answer, "gone"}]_vars

\* 404 means that Keep newer jobs were started or the dashboard restarted.
GoneOnlyWhenOutnumbered ==
  \A c \in Clients :
    client[c].answer = "gone" =>
      LET j == client[c].job IN
      jobs[j].life = life => Len(jobs) - j >= Keep

\* Whoever is told "running" is eventually told something else, though the
\* dashboard may die under the job.
PollerLearns == \A c \in Clients :
                  client[c].answer = "running" ~> client[c].answer # "running"

============================================================================
