---------------------------- MODULE LockService ----------------------------
(***************************************************************************)
(* What the rest of gaet relies on when it calls AcquireLock and Release   *)
(* (pkg/core/lock.go): a non-blocking exclusive lock whose owner may       *)
(* vanish.  "stolen" records that the lock of a live owner was taken away; *)
(* until that happens at most one run owns the lock, and nothing is        *)
(* promised afterwards.  FileLock implements this specification.           *)
(***************************************************************************)

CONSTANT Runs       \* every operation that may ask for the lock

VARIABLES owners,   \* the runs AcquireLock has handed the lock to
          stolen    \* a live owner's lock file has been removed by another run

vars == <<owners, stolen>>

Init == /\ owners = {}
        /\ stolen = FALSE

Acquire(r) == /\ r \notin owners
              /\ owners = {} \/ stolen
              /\ owners' = owners \cup {r}
              /\ stolen' = stolen

Release(r) == /\ r \in owners
              /\ owners' = owners \ {r}
              /\ stolen' = stolen

\* A process dies with every run inside it.
Vanish(R) == /\ owners' = owners \ R
             /\ stolen' = stolen

Steal == /\ owners # {}
         /\ stolen' = TRUE
         /\ UNCHANGED owners

Next == \/ \E r \in Runs : Acquire(r) \/ Release(r)
        \/ \E R \in SUBSET Runs : Vanish(R)
        \/ Steal

Spec == Init /\ [][Next]_vars
============================================================================
