------------------------------ MODULE MCBackup ------------------------------
(* Instances of Backup for TLC: two tables, each in one of the databases. *)
EXTENDS Backup, TLC

CONSTANTS t1, t2

Symmetry == Permutations(Runs)

MCInit == /\ Init
          /\ db = [local |-> [t \in Tables |-> IF t = t1 THEN 1 ELSE 0],
                   cloud |-> [t \in Tables |-> IF t = t2 THEN 1 ELSE 0]]
MCSpec == MCInit /\ [][Next]_vars
MCFairSpec == MCSpec /\ \A r \in Runs : WF_vars(Step(r))
============================================================================
