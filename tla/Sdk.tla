--------------------------------- MODULE Sdk ---------------------------------
(***************************************************************************)
(* startServer and stopServer of one GaetClient (client.ts), whose calls   *)
(* may overlap at every await, and the dashboards they meet: the children  *)
(* that startServer spawns, one per call, and one that somebody else       *)
(* starts and stops.  A dashboard listens on the one port or exits, and    *)
(* ends on SIGTERM, as in Serve.                                           *)
(*                                                                         *)
(* A request of status is one step: it is answered, or it fails because    *)
(* nobody serves or, out of "slow", after its timeout.                     *)
(***************************************************************************)
EXTENDS Naturals, FiniteSets

CONSTANTS Starts,   \* calls of startServer, and the child that each spawns
          Stops,    \* calls of stopServer
          Other,    \* the dashboard of somebody else
          MaxPolls, \* polls in the 10 seconds of a start
          Mishaps,  \* out of "slow", "crash", "binary"
          Nobody

ASSUME SdkAssumption == /\ Other \notin Starts
                        /\ Nobody \notin Starts \cup {Other}
                        /\ MaxPolls \in Nat

VARIABLES server,  \* each dashboard
          port,    \* the one that listens
          spawned, \* spawnedProcess of the client
          call,    \* each call of startServer
          stopped, \* the calls of stopServer that are over
          causes   \* history: what may have made the client lose a child

sdkVars == <<server, port, spawned, call, stopped, causes>>

Servers == Starts \cup {Other}
NoCall == [stage |-> "none", polls |-> 0, told |-> "nothing"]
UnderWay(c) == call[c].stage \in {"asking", "importing", "polling"}
Alive(p) == server[p] \in {"starting", "serving"}
Serves == port # Nobody

SdkInit == /\ server = [p \in Servers |-> "none"]
           /\ port = Nobody
           /\ spawned = Nobody
           /\ call = [c \in Starts |-> NoCall]
           /\ stopped = {}
           /\ causes = {}

serverVars == <<server, port>>

Ends(c, told) == call' = [call EXCEPT ![c] = [@ EXCEPT !.stage = "done", !.told = told]]
Blame(cause, condition) == causes' = IF condition THEN causes \cup {cause} ELSE causes
-----------------------------------------------------------------------------
Start(c) ==
    /\ call[c].stage = "none"
    /\ call' = [call EXCEPT ![c].stage = "asking"]
    /\ Blame("overlap", \E other \in Starts : UnderWay(other))
    /\ UNCHANGED <<serverVars, spawned, stopped>>

AlreadyRuns(c) ==
    /\ call[c].stage = "asking" /\ Serves
    /\ Ends(c, "already running")
    /\ UNCHANGED <<serverVars, spawned, stopped, causes>>

(* The server is spawned without a look whether one runs. *)
NeverAsks(c) ==
    /\ call[c].stage = "asking"
    /\ call' = [call EXCEPT ![c].stage = "importing"]
    /\ UNCHANGED <<serverVars, spawned, stopped, causes>>

NotRunning(c) ==
    /\ call[c].stage = "asking"
    /\ Serves => "slow" \in Mishaps
    /\ call' = [call EXCEPT ![c].stage = "importing"]
    /\ Blame("slow", Serves)
    /\ UNCHANGED <<serverVars, spawned, stopped>>

(* When the binary is missing the child is there, without a process. *)
Spawn(c) ==
    /\ call[c].stage = "importing"
    /\ \E state \in {"starting"} \cup IF "binary" \in Mishaps THEN {"gone"} ELSE {} :
          server' = [server EXCEPT ![c] = state]
    /\ spawned' = c
    /\ call' = [call EXCEPT ![c].stage = "polling"]
    /\ UNCHANGED <<port, stopped, causes>>

(* An answer ends the call, whoever gives it, unless stopServer has set    *)
(* spawnedProcess to null: reading its pid throws where failures are       *)
(* ignored.                                                                *)
Poll(c) ==
    /\ call[c].stage = "polling" /\ call[c].polls < MaxPolls
    /\ IF Serves /\ spawned # Nobody
       THEN Ends(c, "started") /\ Blame("foreign", port # c)
       ELSE /\ call' = [call EXCEPT ![c].polls = @ + 1]
            /\ UNCHANGED causes
    /\ UNCHANGED <<serverVars, spawned, stopped>>

(* Polling ends only when the child is seen to be gone. *)
GiveUpOnExit(c) ==
    /\ call[c].stage = "polling" /\ server[c] = "gone"
    /\ Ends(c, "failed")
    /\ UNCHANGED <<serverVars, spawned, stopped, causes>>

(* The child is left as it is. *)
GiveUp(c) ==
    /\ call[c].stage = "polling" /\ call[c].polls = MaxPolls
    /\ Ends(c, "failed")
    /\ Blame("gave up", Alive(c))
    /\ UNCHANGED <<serverVars, spawned, stopped>>

(* SIGTERM to the child that was spawned last, which may be gone. *)
Kill(p) == server' = [server EXCEPT ![p] = IF Alive(p) THEN "stopping" ELSE @]

Stop(s) ==
    /\ s \notin stopped
    /\ stopped' = stopped \cup {s}
    /\ IF spawned = Nobody THEN UNCHANGED <<server, spawned>>
       ELSE Kill(spawned) /\ spawned' = Nobody
    /\ UNCHANGED <<port, call, causes>>
-----------------------------------------------------------------------------
clientVars == <<spawned, call, stopped, causes>>

ServerListens(p) ==
    /\ server[p] = "starting"
    /\ server' = [server EXCEPT ![p] = IF Serves THEN "gone" ELSE "serving"]
    /\ port' = IF Serves THEN port ELSE p
    /\ UNCHANGED clientVars

ServerEnds(p) ==
    /\ server' = [server EXCEPT ![p] = "gone"]
    /\ port' = IF port = p THEN Nobody ELSE port
    /\ UNCHANGED clientVars

ServerTerminates(p) == server[p] = "stopping" /\ ServerEnds(p)
ServerCrashes(p) == "crash" \in Mishaps /\ Alive(p) /\ ServerEnds(p)

StartOther == /\ server[Other] = "none"
              /\ server' = [server EXCEPT ![Other] = "starting"]
              /\ UNCHANGED <<port, clientVars>>
StopOther == Alive(Other) /\ Kill(Other) /\ UNCHANGED <<port, clientVars>>

StartStep(c) == AlreadyRuns(c) \/ NotRunning(c) \/ Spawn(c) \/ Poll(c) \/ GiveUp(c)

SdkNext == \/ \E c \in Starts : Start(c) \/ StartStep(c)
           \/ \E s \in Stops : Stop(s)
           \/ \E p \in Servers : ServerListens(p) \/ ServerTerminates(p) \/ ServerCrashes(p)
           \/ StartOther \/ StopOther

(* A request ends by its timeout, and a timer of the poll fires. *)
SdkFairness == \A c \in Starts : WF_sdkVars(StartStep(c))
SdkSpec == SdkInit /\ [][SdkNext]_sdkVars /\ SdkFairness
-----------------------------------------------------------------------------
SdkTypeOK == /\ server \in [Servers -> {"none", "starting", "serving", "stopping", "gone"}]
             /\ port \in Servers \cup {Nobody}
             /\ spawned \in Starts \cup {Nobody}
             /\ call \in [Starts -> [stage : {"none", "asking", "importing", "polling", "done"},
                                     polls : 0 .. MaxPolls,
                                     told : {"nothing", "already running", "started", "failed"}]]
             /\ stopped \subseteq Stops
             /\ causes \subseteq {"overlap", "slow", "foreign", "gave up"}

(* A child that runs is the one that stopServer would stop, as long as no  *)
(* two starts overlapped, no start gave up on a child that was only slow,  *)
(* no running server was taken for none, and none was started by somebody  *)
(* else while a start waited for its own (client.ts:85, 107, 143).         *)
NoneLeftBehind ==
    \A c \in Starts : Alive(c) /\ spawned # c => causes # {}

(* Every start ends, even when the child is stopped, crashes or loses the  *)
(* port while it is waited for (client.ts:120).                            *)
StartEnds == \A c \in Starts : UnderWay(c) ~> call[c].stage = "done"
=============================================================================
