----------------------------- MODULE MCEnvStore -----------------------------
(* Instances of EnvStore for TLC, from a fresh or a configured file. *)
EXTENDS EnvStore, TLC

CONSTANTS v1, v2

Symmetry == Permutations(Writers)

Configured == [k \in Keys |-> IF k = "host" THEN None ELSE v1]
MCInit == Init /\ file \in {Blank, Configured}
MCSpec == MCInit /\ [][Next]_vars
============================================================================
