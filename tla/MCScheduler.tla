---------------------------- MODULE MCScheduler ----------------------------
(* Instances of Scheduler for TLC: nothing is enabled yet, or both services  *)
(* are, as after `gaet auto` and `gaet serve --auto` (and a boot for tasks). *)
EXTENDS Scheduler, TLC

CONSTANTS h1, a1

Symmetry == Permutations(Writers)

Enabled == /\ disk = [p \in Prefixes |-> IF p = DefaultPrefix
                        THEN [service |-> "gaet", timer |-> h1, serve |-> a1] ELSE NoFiles]
           /\ enabled = IF platform = "systemd" THEN {DefaultPrefix} \X Units ELSE {}
           /\ loaded = [p \in Prefixes |-> IF p = DefaultPrefix
                          THEN [backup |-> OnDisk(p, "backup"), serve |-> a1] ELSE NoUnits]

MCInit == /\ platform \in Platforms
          /\ settings = [prefix |-> DefaultPrefix, hours |-> None]
          /\ \/ Enabled
             \/ /\ disk = [p \in Prefixes |-> NoFiles]
                /\ enabled = {}
                /\ loaded = [p \in Prefixes |-> NoUnits]
          /\ installed = TRUE
          /\ op = [w \in Writers |-> IdleOp]
          /\ ops = 0
          /\ stopped = {}
          /\ clean = TRUE
MCSpec == MCInit /\ [][Next]_vars
============================================================================
