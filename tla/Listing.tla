------------------------------ MODULE Listing ------------------------------
(***************************************************************************)
(* Loops over a list that leave some of it out and keep the order of the   *)
(* rest, as Jobs and Reports use them.                                     *)
(***************************************************************************)
EXTENDS Naturals, Sequences, FiniteSets

\* A finite set of numbers, the smallest first.
InOrder(S) == [i \in 1 .. Cardinality(S) |->
                 CHOOSE n \in S : Cardinality({m \in S : m <= n}) = i]

\* What a list has of a set.
Among(s, T) == LET at == InOrder({i \in DOMAIN s : s[i] \in T})
               IN  [i \in DOMAIN at |-> s[at[i]]]
=============================================================================
