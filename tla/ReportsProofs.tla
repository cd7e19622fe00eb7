--------------------------- MODULE ReportsProofs ---------------------------
(***************************************************************************)
(* Proofs about Reports, for every set of tables and snapshots, settings,  *)
(* machines, URLs and servers, and any number of reports and changes.      *)
(*                                                                         *)
(* The argument: each step of a report leaves behind in its record what it *)
(* has seen, and the worlds since the report began (Seen) bear that out.   *)
(* The invariant has one part per step: an answer came by a road that was  *)
(* there, and none came only when every road was away for a moment         *)
(* (LocalFact, RowsFact, CloudFact); a count, a file and a list are those  *)
(* of some world (CountFact, FileFact, NamesFact), of the last one if none *)
(* came after (ExactFact); and what was listed is there still, or was      *)
(* deleted in between (GoneFact).  A step of the report adds one part      *)
(* (StepInv), a change of the world adds a world, which takes none away    *)
(* (ChangesInv).  The theorems read it at the end of a report: what it     *)
(* says was so in some world, and if there was only one, it is so.         *)
(*                                                                         *)
(* What FindDBTools finds is a matter of its recursion (ToolsAre): of all  *)
(* rounds of the loop that would end otherwise the first is refuted.       *)
(* DetectLocalDB is one loop over what is tried, sockets and ports alike;  *)
(* it has reported, after each round, the first answer of each port so far *)
(* (LoopReports).  A URL is cut at its marks: what is glued together at a  *)
(* mark is cut there again if the mark is the first or the last of its     *)
(* kind (CutAt), and a list cut at any place is its two halves and what    *)
(* was between them (WholeAgain).                                          *)
(***************************************************************************)
EXTENDS Reports, FiniteSetTheorems, SequenceTheorems, WellFoundedInduction, TLAPS

-----------------------------------------------------------------------------
\* Lists: what InOrder and Among make of their arguments.
Rank(S, k) == Cardinality({m \in S : m <= k})

LEMMA RankGrows ==
  ASSUME NEW S \in SUBSET Nat, IsFiniteSet(S), NEW k \in S, NEW l \in S, k < l
  PROVE  Rank(S, k) < Rank(S, l)
<1>1. PICK A \in SUBSET S, B \in SUBSET S : A = {m \in S : m <= k} /\ B = {m \in S : m <= l}
  OBVIOUS
<1>2. IsFiniteSet(B) /\ A \subseteq B /\ A # B
  <2>1. IsFiniteSet(B)
    BY FS_Subset
  <2>2. \A m \in S : m <= k => m <= l
    OBVIOUS
  <2>3. l \in B /\ l \notin A
    BY <1>1
  <2>. QED
    BY <1>1, <2>1, <2>2, <2>3
<1>3. Cardinality(A) < Cardinality(B)
  <2>1. A \in SUBSET B
    BY <1>2
  <2>2. Cardinality(A) <= Cardinality(B) /\ Cardinality(A) # Cardinality(B)
    BY <1>2, <2>1, FS_Subset
  <2>3. Cardinality(A) \in Nat /\ Cardinality(B) \in Nat
    BY <1>2, <2>1, FS_Subset, FS_CardinalityType
  <2>. QED
    BY <2>2, <2>3
<1>4. QED
  BY <1>1, <1>3 DEF Rank

LEMMA RankIn ==
  ASSUME NEW S \in SUBSET Nat, IsFiniteSet(S), NEW k \in S
  PROVE  Rank(S, k) \in 1 .. Cardinality(S)
<1>1. PICK A \in SUBSET S : A = {m \in S : m <= k}
  OBVIOUS
<1>2. k \in A
  BY <1>1
<1>3. IsFiniteSet(A) /\ Cardinality(A) \in Nat /\ Cardinality(A) <= Cardinality(S) /\ Cardinality(S) \in Nat
  BY FS_Subset, FS_CardinalityType
<1>4. Cardinality(A) # 0
  BY <1>2, <1>3, FS_EmptySet
<1>5. QED
  BY <1>1, <1>3, <1>4 DEF Rank

\* No rank is left out, as there are as many as elements.
LEMMA EveryRank ==
  ASSUME NEW S \in SUBSET Nat, IsFiniteSet(S), NEW i \in 1 .. Cardinality(S)
  PROVE  \E k \in S : Rank(S, k) = i
<1>1. PICK n \in Nat : n = Cardinality(S)
  BY FS_CardinalityType
<1> DEFINE f == [k \in S |-> Rank(S, k)]
<1>2. f \in [S -> 1 .. n]
  BY <1>1, RankIn
<1>3. ASSUME NEW k \in S, NEW l \in S, f[k] = f[l] PROVE k = l
  <2>1. Rank(S, k) = Rank(S, l) /\ Rank(S, k) \in Nat
    BY <1>3, RankIn, <1>1
  <2>2. ~(k < l) /\ ~(l < k)
    BY <2>1, RankGrows
  <2>. QED
    BY <2>2
<1>4. f \in Injection(S, 1 .. n)
  BY <1>2, <1>3 DEF Injection, IsInjective
<1>5. IsFiniteSet(1 .. n) /\ Cardinality(1 .. n) = n
  BY <1>1, FS_Interval
<1>6. f \in Surjection(S, 1 .. n)
  <2>. HIDE DEF f
  <2>. QED
    BY <1>1, <1>4, <1>5, FS_Injection
<1>7. \E k \in S : f[k] = i
  BY <1>1, <1>6 DEF Surjection
<1>8. QED
  BY <1>7

LEMMA UpToFinite == ASSUME NEW n \in Nat PROVE IsFiniteSet(1 .. n) /\ Cardinality(1 .. n) = n
<1>1. PICK one \in Int : one = 1
  OBVIOUS
<1>2. IsFiniteSet(one .. n) /\ Cardinality(one .. n) = IF one > n THEN 0 ELSE n - one + 1
  BY FS_Interval
<1>3. QED
  BY <1>1, <1>2

\* A set in order: each of its elements once, and growing.
LEMMA InOrderIs ==
  ASSUME NEW S \in SUBSET Nat, IsFiniteSet(S)
  PROVE  LET at == InOrder(S) n == Cardinality(S) IN
         /\ n \in Nat /\ at \in [1 .. n -> S]
         /\ \A i \in 1 .. n : Rank(S, at[i]) = i
         /\ \A k \in S : Rank(S, k) \in 1 .. n /\ at[Rank(S, k)] = k
         /\ \A i, j \in 1 .. n : i < j => at[i] < at[j]
<1>1. PICK n \in Nat : n = Cardinality(S)
  BY FS_CardinalityType
<1>2. PICK at : at = InOrder(S)
  OBVIOUS
<1>3. at = [i \in 1 .. n |-> CHOOSE k \in S : Rank(S, k) = i]
  BY <1>1, <1>2 DEF InOrder, Rank
<1>4. ASSUME NEW i \in 1 .. n PROVE at[i] \in S /\ Rank(S, at[i]) = i
  <2>1. \E k \in S : Rank(S, k) = i
    BY <1>1, EveryRank
  <2>2. at[i] = CHOOSE k \in S : Rank(S, k) = i
    BY <1>3
  <2>. QED
    BY <2>1, <2>2
<1>5. \A k \in S : Rank(S, k) \in 1 .. n
  BY <1>1, RankIn
<1>6. ASSUME NEW k \in S, NEW l \in S, Rank(S, k) = Rank(S, l) PROVE k = l
  <2>1. ~(k < l) /\ ~(l < k)
    BY <1>5, <1>6, RankGrows
  <2>. QED
    BY <2>1
<1>7. \A k \in S : at[Rank(S, k)] = k
  BY <1>4, <1>5, <1>6
<1>8. ASSUME NEW i \in 1 .. n, NEW j \in 1 .. n, i < j PROVE at[i] < at[j]
  <2>1. PICK k \in S, l \in S : k = at[i] /\ l = at[j]
    BY <1>4
  <2>2. Rank(S, k) = i /\ Rank(S, l) = j
    BY <1>4, <2>1
  <2>3. ~(l < k)
    BY <1>8, <2>2, RankGrows
  <2>4. k # l
    BY <1>8, <2>2
  <2>. QED
    BY <2>1, <2>3, <2>4
<1>9. at \in [1 .. n -> S]
  BY <1>3, <1>4
<1>10. QED
  BY <1>1, <1>2, <1>4, <1>5, <1>7, <1>8, <1>9

\* The places of a list that hold elements of a set.
PlacesIn(s, T) == {i \in DOMAIN s : s[i] \in T}

Picks(at, n, s, T) == /\ at \in [1 .. n -> PlacesIn(s, T)]
                      /\ n = Cardinality(PlacesIn(s, T))
                      /\ \A k \in PlacesIn(s, T) : \E i \in 1 .. n : at[i] = k
                      /\ \A i, j \in 1 .. n : i < j => at[i] < at[j]
                      /\ Among(s, T) = [i \in 1 .. n |-> s[at[i]]]

\* What Among makes: the elements of both, in the order of the list.
LEMMA AmongIs ==
  ASSUME NEW S, NEW s \in Seq(S), NEW T
  PROVE  \E n \in Nat : n <= Len(s) /\ \E at : Picks(at, n, s, T)
<1>1. PICK len \in Nat : len = Len(s) /\ DOMAIN s = 1 .. len
  OBVIOUS
<1>2. PICK P \in SUBSET (1 .. len) : P = PlacesIn(s, T)
  BY <1>1 DEF PlacesIn
<1>3. IsFiniteSet(1 .. len) /\ Cardinality(1 .. len) = len
  BY UpToFinite
<1>4. IsFiniteSet(P) /\ Cardinality(P) <= len /\ P \in SUBSET Nat
  <2>1. P \in SUBSET Nat
    BY <1>1, <1>2
  <2>2. IsFiniteSet(P) /\ Cardinality(P) <= Cardinality(1 .. len)
    BY <1>2, <1>3, FS_Subset
  <2>. QED
    BY <1>3, <2>1, <2>2
<1>5. PICK n \in Nat : n = Cardinality(P)
  BY <1>4, FS_CardinalityType
<1>6. PICK at : at = InOrder(P)
  OBVIOUS
<1>7. /\ at \in [1 .. n -> P]
      /\ \A k \in P : \E i \in 1 .. n : at[i] = k
      /\ \A i, j \in 1 .. n : i < j => at[i] < at[j]
  BY <1>4, <1>5, <1>6, InOrderIs
<1>8. Among(s, T) = [i \in 1 .. n |-> s[at[i]]]
  BY <1>2, <1>6, <1>7 DEF Among, PlacesIn
<1>9. n <= Len(s) /\ Picks(at, n, s, T)
  BY <1>1, <1>2, <1>4, <1>5, <1>7, <1>8 DEF Picks
<1>10. QED
  BY <1>9

LEMMA AmongRange ==
  ASSUME NEW S, NEW s \in Seq(S), NEW T
  PROVE  /\ Among(s, T) \in Seq(S)
         /\ Range(Among(s, T)) = Range(s) \cap T
         /\ Len(Among(s, T)) \in Nat /\ Len(Among(s, T)) <= Len(s)
<1>0. PICK n \in Nat : n <= Len(s) /\ \E at : Picks(at, n, s, T)
  BY AmongIs
<1>1. PICK at : Picks(at, n, s, T)
  BY <1>0
<1>2. /\ Among(s, T) = [i \in 1 .. n |-> s[at[i]]]
      /\ \A i \in 1 .. n : at[i] \in DOMAIN s /\ s[at[i]] \in S \cap T
      /\ \A k \in PlacesIn(s, T) : \E i \in 1 .. n : at[i] = k
  <2>1. \A i \in 1 .. n : at[i] \in PlacesIn(s, T)
    BY <1>1 DEF Picks
  <2>2. \A k \in PlacesIn(s, T) : k \in DOMAIN s /\ s[k] \in S \cap T
    BY DEF PlacesIn
  <2>. QED
    BY <1>1, <2>1, <2>2 DEF Picks
<1>3. DOMAIN Among(s, T) = 1 .. n /\ Len(Among(s, T)) = n /\ Among(s, T) \in Seq(S)
  BY <1>2
<1>4. ASSUME NEW x \in Range(Among(s, T)) PROVE x \in Range(s) \cap T
  <2>1. PICK i \in 1 .. n : x = s[at[i]]
    BY <1>2, <1>3 DEF Range
  <2>. QED
    BY <1>2, <2>1 DEF Range
<1>5. ASSUME NEW x \in Range(s) \cap T PROVE x \in Range(Among(s, T))
  <2>1. PICK k \in DOMAIN s : s[k] = x
    BY DEF Range
  <2>2. k \in PlacesIn(s, T)
    BY <2>1 DEF PlacesIn
  <2>3. PICK i \in 1 .. n : at[i] = k
    BY <1>2, <2>2
  <2>. QED
    BY <1>2, <1>3, <2>1, <2>3 DEF Range
<1>6. QED
  BY <1>0, <1>3, <1>4, <1>5

LEMMA AllInOrder == ASSUME NEW n \in Nat PROVE InOrder(1 .. n) = [i \in 1 .. n |-> i]
<1>1. PICK S \in SUBSET Nat : S = 1 .. n
  OBVIOUS
<1>2. IsFiniteSet(S) /\ Cardinality(S) = n
  BY <1>1, UpToFinite
<1>3. ASSUME NEW k \in S PROVE Rank(S, k) = k
  <2>1. {m \in S : m <= k} = 1 .. k
    BY <1>1
  <2>2. Cardinality(1 .. k) = k
    BY UpToFinite
  <2>. QED
    BY <2>1, <2>2 DEF Rank
<1>4. InOrder(S) \in [1 .. n -> S] /\ \A i \in 1 .. n : Rank(S, InOrder(S)[i]) = i
  BY <1>2, InOrderIs
<1>5. \A i \in 1 .. n : InOrder(S)[i] = i
  BY <1>3, <1>4
<1>6. QED
  BY <1>1, <1>4, <1>5

\* A list of which all is asked for.
LEMMA AmongAll ==
  ASSUME NEW S, NEW s \in Seq(S), NEW T, Range(s) \subseteq T
  PROVE  Among(s, T) = s
<1>1. PICK n \in Nat : n = Len(s) /\ DOMAIN s = 1 .. n
  OBVIOUS
<1>2. \A i \in DOMAIN s : s[i] \in T
  BY DEF Range
<1>3. {i \in DOMAIN s : s[i] \in T} = 1 .. n
  BY <1>1, <1>2
<1>4. Among(s, T) = [i \in 1 .. n |-> s[i]]
  <2>1. PICK at : at = InOrder(1 .. n)
    OBVIOUS
  <2>2. Among(s, T) = [i \in DOMAIN at |-> s[at[i]]]
    BY <1>3, <2>1 DEF Among
  <2>3. at = [i \in 1 .. n |-> i]
    BY <2>1, AllInOrder
  <2>. QED
    BY <2>2, <2>3
<1>5. QED
  BY <1>1, <1>4

Distinct(s) == \A i, j \in DOMAIN s : s[i] = s[j] => i = j

LEMMA AmongDistinct ==
  ASSUME NEW S, NEW s \in Seq(S), NEW T, Distinct(s)
  PROVE  Distinct(Among(s, T))
<1>1. PICK n \in Nat : \E at : Picks(at, n, s, T)
  BY AmongIs
<1>2. PICK at : Picks(at, n, s, T)
  BY <1>1
<1>3. \A i \in 1 .. n : at[i] \in DOMAIN s
  BY <1>2 DEF Picks, PlacesIn
<1>4. Among(s, T) = [i \in 1 .. n |-> s[at[i]]] /\ \A i, j \in 1 .. n : i < j => at[i] < at[j]
  BY <1>2 DEF Picks
<1>5. ASSUME NEW i \in 1 .. n, NEW j \in 1 .. n, s[at[i]] = s[at[j]] PROVE i = j
  <2>1. PICK k \in DOMAIN s, l \in DOMAIN s : k = at[i] /\ l = at[j]
    BY <1>3
  <2>2. k = l
    BY <1>5, <2>1 DEF Distinct
  <2>3. k \in Nat
    OBVIOUS
  <2>4. ~(i < j) /\ ~(j < i)
    <3>1. ~(at[i] < at[j]) /\ ~(at[j] < at[i])
      BY <2>1, <2>2, <2>3
    <3>. QED
      BY <1>4, <3>1
  <2>. QED
    BY <2>4
<1>6. QED
  BY <1>4, <1>5 DEF Distinct

\* The last of those asked for: no other that is asked for comes later in the list.
LEMMA LastAmong ==
  ASSUME NEW S, NEW s \in Seq(S), NEW T, Distinct(s), Among(s, T) # <<>>
  PROVE  /\ Last(Among(s, T)) \in Range(s) \cap T
         /\ ~\E i, j \in DOMAIN s : i < j /\ s[i] = Last(Among(s, T)) /\ s[j] \in T
<1>1. PICK n \in Nat : \E at : Picks(at, n, s, T)
  BY AmongIs
<1>2. PICK at : Picks(at, n, s, T)
  BY <1>1
<1>3. \A i \in 1 .. n : at[i] \in DOMAIN s
  BY <1>2 DEF Picks, PlacesIn
<1>4. /\ Among(s, T) = [i \in 1 .. n |-> s[at[i]]]
      /\ \A i, j \in 1 .. n : i < j => at[i] < at[j]
      /\ \A k \in PlacesIn(s, T) : \E i \in 1 .. n : at[i] = k
  BY <1>2 DEF Picks
<1>5. Len(Among(s, T)) = n /\ n # 0
  BY <1>4
<1>6. Last(Among(s, T)) = s[at[n]]
  BY <1>4, <1>5 DEF Last
<1>7. s[at[n]] \in Range(s) \cap T
  <2>1. at[n] \in PlacesIn(s, T)
    BY <1>2, <1>5 DEF Picks
  <2>. QED
    BY <2>1 DEF PlacesIn, Range
<1>8. ASSUME NEW i \in DOMAIN s, NEW j \in DOMAIN s, i < j, s[i] = s[at[n]], s[j] \in T PROVE FALSE
  <2>1. i = at[n]
    BY <1>3, <1>5, <1>8 DEF Distinct
  <2>2. PICK k \in 1 .. n : at[k] = j
    BY <1>4, <1>8 DEF PlacesIn
  <2>3. ~(k < n) \/ at[k] < at[n]
    BY <1>4, <1>5
  <2>4. k = n \/ j < i
    BY <2>1, <2>2, <2>3
  <2>. QED
    BY <1>8, <2>1, <2>2, <2>4
<1>9. QED
  BY <1>6, <1>7, <1>8
-----------------------------------------------------------------------------
LEMMA LastIn ==
  ASSUME NEW S, NEW s \in Seq(S), s # <<>>
  PROVE  Last(s) \in Range(s) /\ Head(s) \in Range(s) /\ Range(s) \subseteq S
<1>1. PICK n \in Nat : n = Len(s) /\ DOMAIN s = 1 .. n /\ n # 0
  OBVIOUS
<1>2. n \in 1 .. n /\ 1 \in 1 .. n
  BY <1>1
<1>3. QED
  BY <1>1, <1>2 DEF Last, Range

LEMMA ReverseRange ==
  ASSUME NEW S, NEW s \in Seq(S)
  PROVE  Reverse(s) \in Seq(S) /\ Range(Reverse(s)) = Range(s)
<1>1. PICK n \in Nat : n = Len(s) /\ DOMAIN s = 1 .. n
  OBVIOUS
<1>2. Reverse(s) = [i \in 1 .. n |-> s[(n - i) + 1]]
  BY <1>1 DEF Reverse
<1>3. \A i \in 1 .. n : (n - i) + 1 \in 1 .. n /\ (n - ((n - i) + 1)) + 1 = i
  OBVIOUS
<1>4. Reverse(s) \in Seq(S) /\ DOMAIN Reverse(s) = 1 .. n
  BY <1>1, <1>2, <1>3
<1>5. Range(Reverse(s)) = Range(s)
  <2>1. ASSUME NEW x \in Range(s) PROVE x \in Range(Reverse(s))
    <3>1. PICK i \in 1 .. n : x = s[i]
      BY <1>1 DEF Range
    <3>2. PICK j \in 1 .. n : j = (n - i) + 1 /\ (n - j) + 1 = i
      BY <1>3
    <3>3. x = Reverse(s)[j]
      BY <1>2, <3>1, <3>2
    <3>. QED
      BY <1>4, <3>3 DEF Range
  <2>2. ASSUME NEW x \in Range(Reverse(s)) PROVE x \in Range(s)
    <3>1. PICK j \in 1 .. n : x = Reverse(s)[j]
      BY <1>4 DEF Range
    <3>2. PICK i \in 1 .. n : i = (n - j) + 1
      BY <1>3
    <3>3. x = s[i]
      BY <1>2, <3>1, <3>2
    <3>. QED
      BY <1>1, <3>3 DEF Range
  <2>. QED
    BY <2>1, <2>2
<1>6. QED
  BY <1>4, <1>5
-----------------------------------------------------------------------------
(***************************************************************************)
(* The client tools: the loop over the directories finds what one of them  *)
(* has.                                                                    *)
(***************************************************************************)
LEMMA Least ==
  ASSUME NEW S \in SUBSET Nat, S # {}
  PROVE  \E m \in S : \A k \in S : m <= k
<1>1. PICK m \in S : \A k \in S : ~(<<k, m>> \in OpToRel(<, Nat))
  BY NatLessThanWellFounded, WFMin
<1>2. \A k \in S : ~(k < m)
  BY <1>1 DEF OpToRel
<1>3. QED
  BY <1>2

\* A directory that is searched is one, and not the place of what is nowhere.
Versions == {"", "9.6", "16", "14"}
RootNames == {"pg0", "PATH", "Program Files", "Program Files (x86)", "brew", "Postgres.app"}
Somewhere == RootNames \X Versions

LEMMA DirsAre ==
  ASSUME NEW machine
  PROVE  Dirs(machine) \in Seq(Somewhere)
<1>1. ASSUME NEW root \in RootNames PROVE Under(machine, root) \in Seq(Somewhere)
  <2>0. VersionsByName \in Seq(Versions)
    BY DEF VersionsByName, Versions
  <2>1. PICK names \in Seq(Versions) : names = VersionsByName
    BY <2>0
  <2>2. PICK l \in Seq(Versions) : l = Newest(machine.versions[root])
    <3>1. PICK T : T = machine.versions[root]
      OBVIOUS
    <3>2. Among(names, T) \in Seq(Versions)
      BY AmongRange
    <3>. QED
      BY <2>1, <3>1, <3>2 DEF Newest
  <2>3. PICK n \in Nat : n = Len(l) /\ DOMAIN l = 1 .. n
    OBVIOUS
  <2>4. \A i \in 1 .. n : <<root, l[i]>> \in Somewhere
    BY <2>3 DEF Somewhere
  <2>5. Under(machine, root) = [i \in 1 .. n |-> <<root, l[i]>>]
    BY <2>2, <2>3 DEF Under
  <2>. QED
    BY <2>4, <2>5
<1>2. ASSUME NEW root \in RootNames PROVE FirstUnder(machine, root) \in Seq(Somewhere)
  <2>1. PICK u \in Seq(Somewhere) : u = Under(machine, root)
    BY <1>1
  <2>2. FirstUnder(machine, root) = IF u = <<>> THEN <<>> ELSE <<u[1]>>
    BY <2>1 DEF FirstUnder
  <2>3. CASE u = <<>>
    BY <2>2, <2>3
  <2>4. CASE u # <<>>
    <3>1. u[1] \in Somewhere
      BY <2>4
    <3>2. <<u[1]>> \in Seq(Somewhere)
      BY <3>1
    <3>. QED
      BY <2>2, <2>4, <3>2
  <2>. QED
    BY <2>3, <2>4
<1>3. FirstUnder(machine, "pg0") \in Seq(Somewhere) /\ Under(machine, "Postgres.app") \in Seq(Somewhere)
  <2>1. "pg0" \in RootNames /\ "Postgres.app" \in RootNames
    BY DEF RootNames
  <2>. QED
    BY <1>1, <1>2, <2>1
<1>4. Roots(machine) \in Seq(RootNames)
  <2>0. <<"Program Files", "Program Files (x86)">> \in Seq(RootNames)
    BY DEF RootNames
  <2>1. PICK both \in Seq(RootNames) : both = <<"Program Files", "Program Files (x86)">>
    BY <2>0
  <2>2. PICK T : T = {root \in DOMAIN machine.versions : machine.versions[root] # {}}
    OBVIOUS
  <2>3. Among(both, T) \in Seq(RootNames)
    BY AmongRange
  <2>. QED
    BY <2>1, <2>2, <2>3 DEF Roots
<1>5. PICK windows \in Seq(Somewhere) :
        windows = IF Roots(machine) = <<>> THEN <<>> ELSE FirstUnder(machine, Roots(machine)[1])
  <2>1. CASE Roots(machine) = <<>>
    <3>1. <<>> \in Seq(Somewhere)
      OBVIOUS
    <3>. QED
      BY <2>1, <3>1
  <2>2. CASE Roots(machine) # <<>>
    <3>1. Roots(machine)[1] \in RootNames
      BY <1>4, <2>2
    <3>2. FirstUnder(machine, Roots(machine)[1]) \in Seq(Somewhere)
      BY <1>2, <3>1
    <3>. QED
      BY <2>2, <3>2
  <2>. QED
    BY <2>1, <2>2
<1>6. <<"PATH", "">> \in Somewhere /\ <<"brew", "">> \in Somewhere
  BY DEF Somewhere, RootNames, Versions
<1>7. <<<<"PATH", "">>>> \in Seq(Somewhere) /\ <<<<"brew", "">>>> \in Seq(Somewhere)
  <2>1. PICK path \in Somewhere, brew \in Somewhere : path = <<"PATH", "">> /\ brew = <<"brew", "">>
    BY <1>6
  <2>2. <<path>> \in Seq(Somewhere) /\ <<brew>> \in Seq(Somewhere)
    OBVIOUS
  <2>. QED
    BY <2>1, <2>2
<1>8. PlatformDirs(machine) \in Seq(Somewhere)
  <2>1. PICK apps \in Seq(Somewhere), brew \in Seq(Somewhere) :
          apps = Under(machine, "Postgres.app") /\ brew = <<<<"brew", "">>>>
    BY <1>3, <1>7
  <2>2. brew \o apps \in Seq(Somewhere) /\ <<>> \in Seq(Somewhere)
    BY ConcatProperties
  <2>. QED
    BY <1>5, <2>1, <2>2 DEF PlatformDirs
<1>9. Dirs(machine) = FirstUnder(machine, "pg0") \o <<<<"PATH", "">>>> \o PlatformDirs(machine)
  BY DEF Dirs
<1>10. QED
  <2>1. PICK first \in Seq(Somewhere) : first = FirstUnder(machine, "pg0") \o <<<<"PATH", "">>>>
    BY <1>3, <1>7, ConcatProperties
  <2>2. first \o PlatformDirs(machine) \in Seq(Somewhere)
    BY <1>8, ConcatProperties
  <2>. QED
    BY <1>9, <2>1, <2>2

\* What the loop has found in the first i directories.
LEMMA ToolsAre ==
  ASSUME NEW machine
  PROVE  Tools(machine) = {t \in ToolNames :
             \/ t \in machine.named
             \/ \E dir \in Range(Dirs(machine)) : t \in machine.has[dir]}
<1>1. PICK dirs \in Seq(Somewhere) : dirs = Dirs(machine)
  BY DirsAre
<1>2. PICK n \in Nat : n = Len(dirs) /\ DOMAIN dirs = 1 .. n
  OBVIOUS
<1>3. PICK has : has = machine.has
  OBVIOUS
<1>4. PICK set : set = <<"settings", "">> /\ set # Nowhere
  <2>1. PICK set, no : set = <<"settings", "">> /\ no = <<"", "">>
    OBVIOUS
  <2>2. set[1] = "settings" /\ no[1] = ""
    BY <2>1
  <2>3. set # no
    BY <2>2
  <2>. QED
    BY <2>1, <2>3 DEF Nowhere
<1>5. PICK start : /\ start = TryFill([t \in ToolNames |-> Nowhere], <<"settings", "">>, machine.named)
                   /\ start = [t \in ToolNames |-> IF t \in machine.named THEN set ELSE Nowhere]
  BY <1>4 DEF TryFill
<1>6. ASSUME NEW k \in 1 .. n PROVE dirs[k] # Nowhere
  <2>1. PICK d \in Somewhere : d = dirs[k]
    BY <1>2
  <2>2. d[1] # "" /\ Nowhere[1] = ""
    BY DEF Somewhere, RootNames, Nowhere
  <2>. QED
    BY <2>1, <2>2
<1> DEFINE Next1(f) == [i \in 0 .. n |-> IF i = 0 THEN start
                                         ELSE TryFill(f[i - 1], dirs[i], has[dirs[i]])]
           Has(t, i) == {j \in 1 .. i : t \in has[dirs[j]]}
           First(t, i) == CHOOSE j \in Has(t, i) : \A k \in Has(t, i) : j <= k
<1>7. PICK g : g = [i \in 0 .. n |-> [t \in ToolNames |->
                        IF t \in machine.named THEN set
                        ELSE IF Has(t, i) = {} THEN Nowhere ELSE dirs[First(t, i)]]]
  OBVIOUS
<1>8. \A i \in 0 .. n, t \in ToolNames :
         g[i][t] = IF t \in machine.named THEN set
                   ELSE IF Has(t, i) = {} THEN Nowhere ELSE dirs[First(t, i)]
  BY <1>7
<1>9. ASSUME NEW i \in 0 .. n, NEW t \in ToolNames
      PROVE  g[i][t] = IF i = 0 THEN start[t]
                       ELSE IF g[i - 1][t] = Nowhere /\ t \in has[dirs[i]] THEN dirs[i] ELSE g[i - 1][t]
  <2>1. CASE i = 0
    <3>1. Has(t, i) = {}
      BY <2>1
    <3>. QED
      BY <1>5, <1>8, <2>1, <3>1
  <2>2. CASE i # 0
    <3>1. PICK j \in 0 .. n : j = i - 1 /\ i = j + 1
      BY <2>2
    <3>2. Has(t, i) = Has(t, j) \cup {k \in {i} : t \in has[dirs[k]]}
      BY <3>1
    <3>3. g[i - 1][t] = g[j][t] /\ g[j][t] = (IF t \in machine.named THEN set
                   ELSE IF Has(t, j) = {} THEN Nowhere ELSE dirs[First(t, j)])
      BY <1>8, <3>1
    <3>4. CASE t \in machine.named
      BY <1>4, <1>8, <2>2, <3>3, <3>4
    <3>5. CASE t \notin machine.named /\ Has(t, j) = {}
      <4>1. g[j][t] = Nowhere
        BY <3>3, <3>5
      <4>2. Has(t, i) = IF t \in has[dirs[i]] THEN {i} ELSE {}
        BY <3>2, <3>5
      <4>3. t \in has[dirs[i]] => First(t, i) = i
        BY <4>2
      <4>4. PICK h, f : h = Has(t, i) /\ f = First(t, i)
        OBVIOUS
      <4>5. g[i][t] = IF h = {} THEN Nowhere ELSE dirs[f]
        BY <1>8, <3>5, <4>4
      <4>6. t \in has[dirs[i]] => h # {} /\ f = i
        BY <4>2, <4>3, <4>4
      <4>7. t \notin has[dirs[i]] => h = {}
        BY <4>2, <4>4
      <4>8. g[i - 1][t] = Nowhere
        BY <3>3, <4>1
      <4>. QED
        BY <2>2, <4>5, <4>6, <4>7, <4>8
    <3>6. CASE t \notin machine.named /\ Has(t, j) # {}
      <4>1. PICK m \in Has(t, j) : \A k \in Has(t, j) : m <= k
        <5>1. Has(t, j) \in SUBSET Nat
          OBVIOUS
        <5>. QED
          BY <3>6, <5>1, Least
      <4>2. First(t, j) = m
        BY <4>1
      <4>3. m \in Has(t, i) /\ \A k \in Has(t, i) : m <= k
        BY <3>1, <3>2, <4>1
      <4>4. First(t, i) = m
        BY <4>3
      <4>5. m \in 1 .. n
        BY <4>3
      <4>6. g[i - 1][t] = dirs[m]
        BY <3>3, <3>6, <4>2
      <4>7. g[i][t] = dirs[m]
        BY <1>8, <3>6, <4>3, <4>4
      <4>8. dirs[m] # Nowhere
        BY <1>6, <4>5
      <4>. QED
        BY <2>2, <4>6, <4>7, <4>8
    <3>. QED
      BY <3>4, <3>5, <3>6
  <2>. QED
    BY <2>1, <2>2
<1>10. g = Next1(g)
  <2>1. \A i \in 0 .. n : g[i] = [t \in ToolNames |-> g[i][t]]
    BY <1>7
  <2>2. ASSUME NEW i \in 0 .. n, i # 0
        PROVE  g[i] = TryFill(g[i - 1], dirs[i], has[dirs[i]])
    <3>1. PICK old, new : old = g[i - 1] /\ new = g[i]
      OBVIOUS
    <3>2. \A t \in ToolNames : new[t] = IF old[t] = Nowhere /\ t \in has[dirs[i]] THEN dirs[i] ELSE old[t]
      BY <1>9, <2>2, <3>1
    <3>3. new = [t \in ToolNames |-> new[t]]
      BY <2>1, <3>1
    <3>. QED
      BY <3>1, <3>2, <3>3 DEF TryFill
  <2>3. g[0] = start
    <3>1. PICK zero \in 0 .. n : zero = 0
      OBVIOUS
    <3>2. \A t \in ToolNames : g[zero][t] = start[t]
      BY <1>9, <3>1
    <3>. QED
      BY <1>5, <2>1, <3>1, <3>2
  <2>4. \A i \in 0 .. n : g[i] = IF i = 0 THEN start ELSE TryFill(g[i - 1], dirs[i], has[dirs[i]])
    BY <2>2, <2>3
  <2>5. g = [i \in 0 .. n |-> g[i]]
    BY <1>7
  <2>. QED
    BY <2>4, <2>5
<1>11. FindDBTools(machine) = (CHOOSE found : found = Next1(found))[n]
  BY <1>1, <1>2, <1>3, <1>5 DEF FindDBTools
<1>12. PICK found : found = Next1(found) /\ FindDBTools(machine) = found[n]
  BY <1>10, <1>11
<1> DEFINE Right(i) == \A t \in ToolNames :
             found[i][t] # Nowhere <=> t \in machine.named \/ Has(t, i) # {}
<1>13. Right(0)
  <2>1. PICK zero \in 0 .. n : zero = 0
    OBVIOUS
  <2>2. found[zero] = start /\ \A t \in ToolNames : Has(t, zero) = {}
    BY <1>12, <2>1
  <2>. QED
    BY <1>5, <1>4, <2>1, <2>2
<1>14. ASSUME NEW i \in 1 .. n, Right(i - 1) PROVE Right(i)
  <2>1. PICK j \in 0 .. n : j = i - 1 /\ i = j + 1
    OBVIOUS
  <2>2. found[i] = TryFill(found[j], dirs[i], has[dirs[i]])
    BY <1>12, <2>1
  <2>3. dirs[i] # Nowhere
    BY <1>6
  <2>4. ASSUME NEW t \in ToolNames PROVE found[i][t] # Nowhere <=> t \in machine.named \/ Has(t, i) # {}
    <3>1. Has(t, i) = Has(t, j) \cup {k \in {i} : t \in has[dirs[k]]}
      BY <2>1
    <3>2. found[i][t] = IF found[j][t] = Nowhere /\ t \in has[dirs[i]] THEN dirs[i] ELSE found[j][t]
      BY <2>2 DEF TryFill
    <3>3. found[j][t] # Nowhere <=> t \in machine.named \/ Has(t, j) # {}
      BY <1>14, <2>1
    <3>. QED
      BY <2>3, <3>1, <3>2, <3>3
  <2>. QED
    BY <2>4
<1>15. Right(n)
  <2> DEFINE Wrong == {i \in 0 .. n : ~Right(i)}
  <2>1. SUFFICES ASSUME Wrong # {} PROVE FALSE
    OBVIOUS
  <2>2. PICK m \in Wrong : \A k \in Wrong : m <= k
    <3>1. Wrong \in SUBSET Nat
      OBVIOUS
    <3>. QED
      BY <2>1, <3>1, Least
  <2>3. m # 0
    BY <1>13
  <2>4. m - 1 \in 0 .. n /\ m - 1 \notin Wrong
    BY <2>2, <2>3
  <2>5. m \in 1 .. n /\ Right(m - 1)
    BY <2>3, <2>4
  <2>. QED
    BY <1>14, <2>5
<1>16. \A t \in ToolNames : Has(t, n) # {} <=> \E dir \in Range(dirs) : t \in has[dir]
  BY <1>2 DEF Range
<1>17. QED
  BY <1>1, <1>3, <1>12, <1>15, <1>16 DEF Tools
-----------------------------------------------------------------------------
\* What a report is made of, and its next step.
Fields == {"kind", "asked", "input", "found", "left", "end", "since", "again", "old",
           "local", "rows", "cloud", "names", "count", "file"}
Formed(o) == o = [f \in Fields |-> o[f]]

Ahead(g) == [g EXCEPT !.left = Tail(@), !.again = FALSE,
                      !.end = IF Len(g.left) = 1 THEN "done" ELSE "running"]

LEMMA AheadFields ==
  ASSUME NEW g, Formed(g)
  PROVE  /\ Formed(Ahead(g))
         /\ Ahead(g).left = Tail(g.left) /\ Ahead(g).again = FALSE
         /\ Ahead(g).end = IF Len(g.left) = 1 THEN "done" ELSE "running"
         /\ \A f \in Fields \ {"left", "again", "end"} : Ahead(g)[f] = g[f]
  BY DEF Ahead, Formed, Fields

LEMMA OneReport ==
  ASSUME report = [r \in Runs |-> report[r]], NEW r \in Runs, NEW n,
         report' = [report EXCEPT ![r] = n]
  PROVE  /\ report' = [s \in Runs |-> report'[s]]
         /\ report'[r] = n /\ \A s \in Runs \ {r} : report'[s] = report[s]
  OBVIOUS

-----------------------------------------------------------------------------
\* The steps that are left of a report are the last ones of its order, in which no
\* step is twice.
Rests(kind) == {SubSeq(Order[kind], i, Len(Order[kind])) : i \in 1 .. Len(Order[kind]) + 1}

Steps == {"local", "cloud", "count", "glob", "pick", "again", "config", "stat", "tables", "note",
          "hush", "speak", "look", "open", "detect"}

LEMMA OrderDistinct ==
  ASSUME NEW kind \in Kinds
  PROVE  /\ Order[kind] \in Seq(Steps) /\ Len(Order[kind]) \in 1 .. 6
         /\ Distinct(Order[kind])
<1> USE DEF Distinct, Steps
<1>1. CASE kind = "check"
  <2>1. Order["check"] = <<"local", "cloud", "count">>
    BY DEF Order
  <2>. QED
    BY <1>1, <2>1
<1>2. CASE kind = "status"
  <2>1. Order["status"] = <<"glob", "pick", "again", "count", "local", "cloud">>
    BY DEF Order
  <2>. QED
    BY <1>2, <2>1
<1>3. CASE kind = "statusJson"
  <2>1. Order["statusJson"] = <<"local">>
    BY DEF Order
  <2>. QED
    BY <1>3, <2>1
<1>4. CASE kind = "diff"
  <2>1. Order["diff"] = <<"local", "cloud">>
    BY DEF Order
  <2>. QED
    BY <1>4, <2>1
<1>5. CASE kind = "doctor"
  <2>1. Order["doctor"] = <<"config", "local", "count">>
    BY DEF Order
  <2>. QED
    BY <1>5, <2>1
<1>6. CASE kind = "snapshots"
  <2>1. Order["snapshots"] = <<"glob", "stat", "again">>
    BY DEF Order
  <2>. QED
    BY <1>6, <2>1
<1>7. CASE kind = "apiStatus"
  <2>1. Order["apiStatus"] = <<"local", "tables", "cloud">>
    BY DEF Order
  <2>. QED
    BY <1>7, <2>1
<1>8. CASE kind = "apiCheck"
  <2>1. Order["apiCheck"] = <<"note", "hush", "local", "speak", "count">>
    BY DEF Order
  <2>. QED
    BY <1>8, <2>1
<1>9. CASE kind = "apiDoctor"
  <2>1. Order["apiDoctor"] = <<"config", "local", "cloud", "count">>
    BY DEF Order
  <2>. QED
    BY <1>9, <2>1
<1>10. CASE kind = "apiDiff"
  <2>1. Order["apiDiff"] = <<"local", "cloud">>
    BY DEF Order
  <2>. QED
    BY <1>10, <2>1
<1>11. CASE kind = "localTest"
  <2>1. Order["localTest"] = <<"local">>
    BY DEF Order
  <2>. QED
    BY <1>11, <2>1
<1>12. CASE kind = "remoteTest"
  <2>1. Order["remoteTest"] = <<"cloud">>
    BY DEF Order
  <2>. QED
    BY <1>12, <2>1
<1>13. CASE kind = "apiSnapshots"
  <2>1. Order["apiSnapshots"] = <<"glob", "stat">>
    BY DEF Order
  <2>. QED
    BY <1>13, <2>1
<1>14. CASE kind = "apiDownload"
  <2>1. Order["apiDownload"] = <<"look", "open">>
    BY DEF Order
  <2>. QED
    BY <1>14, <2>1
<1>15. CASE kind = "apiDetect"
  <2>1. Order["apiDetect"] = <<"detect">>
    BY DEF Order
  <2>. QED
    BY <1>15, <2>1
<1>. QED
  BY <1>1, <1>2, <1>3, <1>4, <1>5, <1>6, <1>7, <1>8, <1>9, <1>10, <1>11, <1>12, <1>13, <1>14, <1>15 DEF Kinds

LEMMA WholeOrder == ASSUME NEW kind \in Kinds PROVE Order[kind] \in Rests(kind) /\ Order[kind] # <<>>
<1>1. PICK ord \in Seq(Steps), n \in 1 .. 6 : ord = Order[kind] /\ n = Len(ord)
  BY OrderDistinct
<1>2. SubSeq(ord, 1, n) = ord
  BY <1>1
<1>3. 1 \in 1 .. n + 1
  BY <1>1
<1>4. ord \in Rests(kind)
  BY <1>1, <1>2, <1>3 DEF Rests
<1>5. QED
  BY <1>1, <1>4

RestAt(l, ord, n, i) == /\ l = SubSeq(ord, i, n)
                        /\ l \in Seq(Steps) /\ Len(l) = n - i + 1
                        /\ \A j \in 1 .. (n - i + 1) : l[j] = ord[i + j - 1]
                        /\ Range(l) = {ord[j] : j \in i .. n}

LEMMA RestIs ==
  ASSUME NEW kind \in Kinds, NEW l \in Rests(kind)
  PROVE  \E ord \in Seq(Steps), n \in 1 .. 6 : \E i \in 1 .. (n + 1) :
           ord = Order[kind] /\ n = Len(ord) /\ RestAt(l, ord, n, i)
<1>1. PICK ord \in Seq(Steps), n \in 1 .. 6 : ord = Order[kind] /\ n = Len(ord)
  BY OrderDistinct
<1>2. PICK i \in 1 .. (n + 1) : l = SubSeq(ord, i, n)
  BY <1>1 DEF Rests
<1>3. /\ l \in Seq(Steps) /\ Len(l) = n - i + 1
      /\ \A j \in 1 .. (n - i + 1) : l[j] = ord[i + j - 1]
  <2>1. \A j \in i .. n : ord[j] \in Steps
    BY <1>1
  <2>2. i \in Int /\ n \in Int /\ (i > n => n - i + 1 = 0)
    OBVIOUS
  <2>. QED
    BY <1>2, <2>1, <2>2, SubSeqProperties
<1>4. Range(l) = {ord[j] : j \in i .. n}
  <2>1. DOMAIN l = 1 .. (n - i + 1)
    BY <1>3
  <2>2. ASSUME NEW x \in Range(l) PROVE x \in {ord[j] : j \in i .. n}
    <3>1. PICK j \in 1 .. (n - i + 1) : x = l[j]
      BY <2>1 DEF Range
    <3>2. i + j - 1 \in i .. n
      OBVIOUS
    <3>. QED
      BY <1>3, <3>1, <3>2
  <2>3. ASSUME NEW j \in i .. n PROVE ord[j] \in Range(l)
    <3>1. PICK k \in 1 .. (n - i + 1) : i + k - 1 = j
      <4>1. j - i + 1 \in 1 .. (n - i + 1) /\ i + (j - i + 1) - 1 = j
        OBVIOUS
      <4>. QED
        BY <4>1
    <3>. QED
      BY <1>3, <2>1, <3>1 DEF Range
  <2>. QED
    BY <2>2, <2>3
<1>5. QED
  BY <1>1, <1>2, <1>3, <1>4 DEF RestAt

\* The next step goes off the list, and with it nothing else.
LEMMA RestTail ==
  ASSUME NEW kind \in Kinds, NEW l \in Rests(kind), l # <<>>
  PROVE  /\ Head(l) \in Range(l) /\ Tail(l) \in Rests(kind)
         /\ Range(Tail(l)) = Range(l) \ {Head(l)}
         /\ (Len(l) = 1) <=> Tail(l) = <<>>
         /\ Range(l) \subseteq Range(Order[kind])
<1>1. PICK ord \in Seq(Steps), n \in 1 .. 6 : \E i \in 1 .. (n + 1) :
        ord = Order[kind] /\ n = Len(ord) /\ RestAt(l, ord, n, i)
  BY RestIs
<1>2. PICK i \in 1 .. (n + 1) : RestAt(l, ord, n, i)
  BY <1>1
<1>3. l \in Seq(Steps) /\ Len(l) = n - i + 1 /\ i <= n
  BY <1>2 DEF RestAt
<1>4. Head(l) = ord[i] /\ Tail(l) = SubSeq(ord, i + 1, n)
  <2>1. Head(l) = l[1] /\ 1 \in 1 .. (n - i + 1) /\ i + 1 - 1 = i
    BY <1>3
  <2>2. Head(l) = ord[i]
    BY <1>2, <2>1 DEF RestAt
  <2>3. PICK len \in Nat : len = n - i
    BY <1>3
  <2>4. Tail(l) \in Seq(Steps) /\ Len(Tail(l)) = len /\ \A j \in 1 .. len : Tail(l)[j] = l[j + 1]
    BY <1>3, <2>3
  <2>5. /\ SubSeq(ord, i + 1, n) \in Seq(Steps) /\ Len(SubSeq(ord, i + 1, n)) = len
        /\ \A j \in 1 .. len : SubSeq(ord, i + 1, n)[j] = ord[i + j]
    <3>1. PICK m \in Int : m = i + 1
      OBVIOUS
    <3>2. /\ (IF m <= n THEN n - m + 1 ELSE 0) = len /\ n - m + 1 = len
          /\ \A j \in Int : m + j - 1 = i + j
      BY <1>3, <2>3, <3>1
    <3>3. \A j \in m .. n : ord[j] \in Steps
      BY <1>1, <3>1
    <3>4. /\ SubSeq(ord, m, n) \in Seq(Steps)
          /\ Len(SubSeq(ord, m, n)) = IF m <= n THEN n - m + 1 ELSE 0
          /\ \A j \in 1 .. n - m + 1 : SubSeq(ord, m, n)[j] = ord[m + j - 1]
      BY <3>3, SubSeqProperties
    <3>. QED
      BY <3>1, <3>2, <3>4
  <2>6. ASSUME NEW j \in 1 .. len PROVE l[j + 1] = ord[i + j]
    <3>1. PICK k \in Int : k = j + 1
      OBVIOUS
    <3>2. k \in 1 .. (n - i + 1) /\ i + k - 1 = i + j
      BY <2>3, <3>1
    <3>. QED
      BY <1>2, <3>1, <3>2 DEF RestAt
  <2>. QED
    BY <2>2, <2>4, <2>5, <2>6
<1>5. i + 1 \in 1 .. (n + 1)
  BY <1>3
<1>6. Tail(l) \in Rests(kind)
  BY <1>1, <1>4, <1>5 DEF Rests
<1>7. Range(l) = {ord[j] : j \in i .. n}
  BY <1>2 DEF RestAt
<1>8. Range(Tail(l)) = {ord[j] : j \in (i + 1) .. n}
  <2>1. PICK k \in 1 .. (n + 1) : RestAt(Tail(l), ord, n, k)
    BY <1>1, <1>6, RestIs
  <2>2. Len(Tail(l)) = n - k + 1 /\ Len(Tail(l)) = Len(l) - 1
    BY <1>3, <2>1 DEF RestAt
  <2>3. k = i + 1
    BY <1>3, <2>2
  <2>. QED
    BY <2>1, <2>3 DEF RestAt
<1>9. \A j, k \in 1 .. n : ord[j] = ord[k] => j = k
  BY <1>1, OrderDistinct DEF Distinct
<1>10. Range(l) = {ord[i]} \cup Range(Tail(l)) /\ ord[i] \notin Range(Tail(l))
  <2>1. i .. n = {i} \cup ((i + 1) .. n) /\ i \notin (i + 1) .. n /\ i .. n \subseteq 1 .. n
    BY <1>3
  <2>. QED
    BY <1>7, <1>8, <1>9, <2>1
<1>11. (Len(l) = 1) <=> Tail(l) = <<>>
  <2>1. Len(Tail(l)) = Len(l) - 1 /\ Tail(l) \in Seq(Steps) /\ Len(l) \in Nat
    BY <1>3
  <2>2. Tail(l) = <<>> <=> Len(Tail(l)) = 0
    BY <2>1
  <2>. QED
    BY <2>1, <2>2
<1>12. Range(l) \subseteq Range(Order[kind])
  <2>1. DOMAIN ord = 1 .. n /\ i .. n \subseteq 1 .. n
    BY <1>1
  <2>. QED
    BY <1>1, <1>7, <2>1 DEF Range
<1>13. QED
  BY <1>4, <1>6, <1>10, <1>11, <1>12

\* A step is next only when those before it in the order are done.
LEMMA RestOrder ==
  ASSUME NEW kind \in Kinds, NEW l \in Rests(kind), NEW a \in DOMAIN Order[kind],
         NEW b \in DOMAIN Order[kind], a < b, Order[kind][a] \in Range(l)
  PROVE  Order[kind][b] \in Range(l) /\ Head(l) # Order[kind][b]
<1>1. PICK ord \in Seq(Steps), n \in 1 .. 6 : \E i \in 1 .. (n + 1) :
        ord = Order[kind] /\ n = Len(ord) /\ RestAt(l, ord, n, i)
  BY RestIs
<1>2. PICK i \in 1 .. (n + 1) : RestAt(l, ord, n, i)
  BY <1>1
<1>3. Range(l) = {ord[j] : j \in i .. n} /\ Len(l) = n - i + 1 /\ l \in Seq(Steps)
  BY <1>2 DEF RestAt
<1>4. \A j, k \in 1 .. n : ord[j] = ord[k] => j = k
  BY <1>1, OrderDistinct DEF Distinct
<1>5. a \in 1 .. n /\ b \in 1 .. n
  BY <1>1
<1>6. PICK j \in i .. n : ord[a] = ord[j]
  BY <1>1, <1>3
<1>7. a \in i .. n
  BY <1>4, <1>5, <1>6
<1>8. b \in i .. n /\ b # i
  BY <1>5, <1>7
<1>9. Head(l) = ord[i]
  <2>1. l # <<>> /\ 1 \in 1 .. (n - i + 1) /\ i + 1 - 1 = i
    BY <1>3, <1>7
  <2>2. Head(l) = l[1]
    BY <1>3, <2>1
  <2>. QED
    BY <1>2, <2>1, <2>2 DEF RestAt
<1>10. ord[i] # ord[b]
  BY <1>4, <1>5, <1>8
<1>11. QED
  BY <1>1, <1>3, <1>8, <1>9, <1>10
-----------------------------------------------------------------------------
(***************************************************************************)
(* The invariant.  What is said of a report is said of its record o and of *)
(* the history p, so that it can be followed from state to state.          *)
(***************************************************************************)
Ends == {"none", "running", "done", "panic", "not found", "failed"}
Data == {"old", "local", "rows", "cloud", "names", "count", "file", "found"}

Shape(o) == /\ Formed(o) /\ o.end \in Ends
            /\ o.end = "none" => o = Idle
            /\ o.end # "none" => o.kind \in Kinds /\ o.left \in Rests(o.kind)
            /\ (o.end = "running") <=> o.left # <<>>
            /\ o.kind \notin {"localTest", "remoteTest", "apiDownload"} => o.asked = "saved"

OneWorld == [tables : [Databases -> [Tables -> TableStates]], reach : SUBSET Roads,
             files : Seq(Snapshots), config : Configs]
Worlds(p) == /\ p \in Seq(OneWorld) /\ Len(p) >= 1
             /\ \A i \in 1 .. Len(p) : Distinct(p[i].files)

Placed(o, p) == o.end # "none" => o.since \in 1 .. Len(p)

\* The operators of Reports, of a record and a history.
Conf(o, p) == p[o.since].config
Seen(o, p) == {p[i] : i \in o.since .. Len(p)}
Now(p) == p[Len(p)]
ToTyped(o) == o.asked = "typed" /\ ParseConnURL(o.input.url).ok
Ways(o, p) == IF ToTyped(o) THEN {"typed"}
              ELSE IF Conf(o, p).near /\ o.kind # "apiCheck" THEN {"host", "socket"}
              ELSE {"host"}
CloudWays(o, p) ==
  IF o.asked = "typed" THEN IF ToTyped(o) THEN {"typed"} ELSE {}
  ELSE IF Conf(o, p).tls /\ o.kind \in Dashboard THEN {"tls"} ELSE {"tls", "plain"}

\* A step that the report has taken.
Passed(o, step) == /\ o.end \in {"running", "done"}
                   /\ step \in Range(Order[o.kind]) /\ step \notin Range(o.left)

Away(o, p, road) == \E w \in Seen(o, p) : road \notin w.reach

\* An answer came by a road that was there, and by the socket only when the
\* host had been away.
Answer(w, road) == [ok |-> TRUE, tables |-> IF road \in Databases THEN w.tables[road] ELSE Nothing]
CameBy(o, p, a, w, road) == /\ w \in Seen(o, p) /\ road \in Ways(o, p) /\ road \in w.reach
                            /\ a = Answer(w, road)
                            /\ road = "socket" => Away(o, p, "host")
Came(o, p, a) == a = NoAnswer \/ \E w \in Seen(o, p), road \in Ways(o, p) : CameBy(o, p, a, w, road)

Skips(o, p) == \/ ~Psql(Conf(o, p))
               \/ o.kind = "apiDiff" /\ ~Configured(Conf(o, p))

\* The socket is tried only after the host.
AgainFact(o, p) ==
  o.again => /\ Conf(o, p).near /\ o.kind # "apiCheck" /\ ~ToTyped(o)
             /\ Away(o, p, "host")

LocalFact(o, p) ==
  /\ Came(o, p, o.local)
  /\ o.local.ok => ~Skips(o, p)
  /\ Passed(o, "local") /\ ~o.local.ok =>
       Skips(o, p) \/ \A road \in Ways(o, p) : Away(o, p, road)

RowsFact(o, p) ==
  /\ Came(o, p, o.rows)
  /\ "tables" \in Range(o.left) => o.rows = NoAnswer
  /\ o.rows.ok => ~Skips(o, p) /\ o.local.ok
  /\ Passed(o, "tables") /\ ~o.rows.ok =>
       Skips(o, p) \/ ~o.local.ok \/ \A road \in Ways(o, p) : Away(o, p, road)

AsksCloud(o, p) == /\ Psql(Conf(o, p))
                   /\ o.asked = "saved" => Configured(Conf(o, p))
                   /\ o.kind = "apiStatus" => o.local.ok

CloudFact(o, p) ==
  /\ \/ o.cloud = NoAnswer
     \/ \E w \in Seen(o, p) : CloudWays(o, p) \cap w.reach # {} /\ o.cloud = Answer(w, "cloud")
  /\ "cloud" \in Range(o.left) => o.cloud = NoAnswer
  /\ o.cloud.ok => AsksCloud(o, p)
  /\ Passed(o, "cloud") /\ ~o.cloud.ok =>
       ~AsksCloud(o, p) \/ \E w \in Seen(o, p) : CloudWays(o, p) \cap w.reach = {}

CountedOf(o) == IF o.kind = "doctor" THEN Pushes ELSE Snapshots
CountFact(o, p) ==
  Passed(o, "count") => \E w \in Seen(o, p) : o.count = Len(Among(w.files, CountedOf(o)))

FileFact(o, p) == Passed(o, "config") => \E w \in Seen(o, p) : o.file = w.config.file

\* A list names what was there, and all that stayed.
NamesFact(o, p) ==
  /\ o.names \in Seq(Snapshots)
  /\ "glob" \in Range(o.left) => o.names = <<>>
  /\ Passed(o, "glob") /\ o.kind \in {"snapshots", "apiSnapshots"} =>
       \A f \in Snapshots :
         /\ f \in Range(o.names) => \E w \in Seen(o, p) : f \in Range(w.files)
         /\ f \notin Range(o.names) => \E w \in Seen(o, p) : f \notin Range(w.files)

\* As long as the world stands still, a list is exact.
ExactFact(o, p) ==
  o.since = Len(p) /\ Passed(o, "glob") =>
    /\ o.kind = "snapshots" =>
         o.names = IF "stat" \in Range(o.left) THEN Now(p).files ELSE Reverse(Now(p).files)
    /\ o.kind = "apiSnapshots" => o.names = Now(p).files
    /\ o.kind = "status" =>
         LET pushes == Among(Now(p).files, Pushes) IN
         IF "pick" \in Range(o.left) THEN o.names = pushes
         ELSE o.names = IF pushes = <<>> THEN <<>> ELSE <<Last(pushes)>>

\* A snapshot that was listed is there, or was deleted since the report began.
Deleted(o, p, f) ==
  \E i \in o.since .. Len(p) - 1 : f \in Range(p[i].files) /\ f \notin Range(p[i + 1].files)
GoneFact(o, p) ==
  /\ \A f \in Range(o.names) : f \in Range(Now(p).files) \/ Deleted(o, p, f)
  /\ o.end = "panic" => \E f \in Range(o.names) : Deleted(o, p, f)
  /\ "pick" \in Range(o.left) /\ "glob" \notin Range(o.left) => o.names # <<>>

Facts(o, p) == /\ AgainFact(o, p) /\ LocalFact(o, p) /\ RowsFact(o, p) /\ CloudFact(o, p)
               /\ CountFact(o, p) /\ FileFact(o, p) /\ NamesFact(o, p)
               /\ ExactFact(o, p) /\ GoneFact(o, p)

Fine(o, p) == Shape(o) /\ Placed(o, p) /\ (o.end # "none" => Facts(o, p))

\* A check silences the dashboard from its second step to its fourth, and it
\* found it not silent.
Hushes(o) == o.kind = "apiCheck" /\ "speak" \in Range(o.left) /\ "note" \notin Range(o.left)
QuietFact == ~overlaps => /\ quiet => \E r \in Runs : Hushes(report[r])
                          /\ \A r, s \in Runs : Hushes(report[r]) /\ Hushes(report[s]) => r = s
                          /\ \A r \in Runs : Hushes(report[r]) => ~report[r].old

ReportTyped == report = [r \in Runs |-> report[r]] /\ \A r \in Runs : Fine(report[r], past)
OldTyped == \A r \in Runs : report[r].old \in BOOLEAN
IInv == /\ Worlds(past) /\ ReportTyped /\ quiet \in BOOLEAN /\ overlaps \in BOOLEAN
        /\ OldTyped /\ QuietFact
-----------------------------------------------------------------------------
\* A step of a report: the steps in gone are off its list, or it is over.
Goes(o, n, gone) ==
  /\ \A f \in {"kind", "asked", "input", "since"} : n[f] = o[f]
  /\ o.end = "running" /\ n.end \in Ends \ {"none"}
  /\ n.end \in {"running", "done"} => Range(n.left) = Range(o.left) \ gone
  /\ n.end \notin {"running", "done"} => Range(n.left) = {}

LEMMA NoneLeft == ASSUME NEW kind \in Kinds PROVE <<>> \in Rests(kind) /\ Range(<<>>) = {}
<1>1. PICK ord \in Seq(Steps), n \in 1 .. 6 : ord = Order[kind] /\ n = Len(ord)
  BY OrderDistinct
<1>2. PICK m \in 1 .. (n + 1) : m = n + 1
  OBVIOUS
<1>3. SubSeq(ord, m, n) = <<>>
  BY <1>1, <1>2, SubSeqEmpty
<1>4. QED
  BY <1>1, <1>3 DEF Rests, Range

LEMMA AheadGoes ==
  ASSUME NEW o, NEW g, Shape(o), o.end = "running", Formed(g), \A f \in Fields \ Data : g[f] = o[f]
  PROVE  /\ Shape(Ahead(g)) /\ Goes(o, Ahead(g), {Head(o.left)})
         /\ Ahead(g).again = FALSE /\ \A f \in Data : Ahead(g)[f] = g[f]
<1>1. PICK n : n = Ahead(g)
  OBVIOUS
<1>2. /\ Formed(n) /\ n.left = Tail(g.left) /\ n.again = FALSE
      /\ n.end = IF Len(g.left) = 1 THEN "done" ELSE "running"
      /\ \A f \in Fields \ {"left", "again", "end"} : n[f] = g[f]
  BY <1>1, AheadFields
<1>3. /\ o.kind \in Kinds /\ o.left \in Rests(o.kind) /\ o.left # <<>>
      /\ o.kind \notin {"localTest", "remoteTest", "apiDownload"} => o.asked = "saved"
  BY DEF Shape
<1>4. /\ Tail(o.left) \in Rests(o.kind) /\ Range(Tail(o.left)) = Range(o.left) \ {Head(o.left)}
      /\ (Len(o.left) = 1) <=> Tail(o.left) = <<>>
  BY <1>3, RestTail
<1>5. g.left = o.left /\ \A f \in {"kind", "asked", "input", "since"} : n[f] = o[f]
  BY <1>2 DEF Fields, Data
<1>6. \A f \in Data : n[f] = g[f]
  BY <1>2 DEF Fields, Data
<1>7. Shape(n)
  BY <1>2, <1>3, <1>4, <1>5 DEF Shape, Ends
<1>8. Goes(o, n, {Head(o.left)})
  BY <1>2, <1>4, <1>5 DEF Goes, Ends
<1>9. QED
  BY <1>1, <1>2, <1>6, <1>7, <1>8
-----------------------------------------------------------------------------
\* What a step leaves alone.
LEMMA SameInput ==
  ASSUME NEW o, NEW n, NEW p, NEW gone, Goes(o, n, gone)
  PROVE  /\ n.kind = o.kind /\ n.asked = o.asked /\ n.since = o.since
         /\ Conf(n, p) = Conf(o, p) /\ Seen(n, p) = Seen(o, p)
         /\ Ways(n, p) = Ways(o, p) /\ CloudWays(n, p) = CloudWays(o, p)
         /\ ToTyped(n) <=> ToTyped(o)
         /\ CountedOf(n) = CountedOf(o)
<1>1. n.kind = o.kind /\ n.asked = o.asked /\ n.since = o.since /\ n.input = o.input
  BY DEF Goes
<1>2. QED
  BY <1>1 DEF Conf, Seen, Ways, CloudWays, ToTyped, CountedOf

LEMMA SameHistory ==
  ASSUME NEW o, NEW n, NEW p, NEW gone, Goes(o, n, gone)
  PROVE  /\ Skips(n, p) <=> Skips(o, p)
         /\ \A road : Away(n, p, road) <=> Away(o, p, road)
         /\ \A a : Came(n, p, a) <=> Came(o, p, a)
         /\ \A f : Deleted(n, p, f) <=> Deleted(o, p, f)
<1>1. /\ n.kind = o.kind /\ n.asked = o.asked /\ n.since = o.since
      /\ Conf(n, p) = Conf(o, p) /\ Seen(n, p) = Seen(o, p)
      /\ Ways(n, p) = Ways(o, p)
  BY SameInput
<1>2. Skips(n, p) <=> Skips(o, p)
  BY <1>1 DEF Skips
<1>3. \A road : Away(n, p, road) <=> Away(o, p, road)
  BY <1>1 DEF Away
<1>4. \A a, w, road : CameBy(n, p, a, w, road) <=> CameBy(o, p, a, w, road)
  BY <1>1, <1>3 DEF CameBy
<1>5. \A a : Came(n, p, a) <=> Came(o, p, a)
  BY <1>1, <1>4 DEF Came
<1>6. \A f : Deleted(n, p, f) <=> Deleted(o, p, f)
  BY <1>1 DEF Deleted
<1>7. QED
  BY <1>2, <1>3, <1>5, <1>6

LEMMA SamePassed ==
  ASSUME NEW o, NEW n, NEW gone, Goes(o, n, gone)
  PROVE  \A step : /\ Passed(n, step) => Passed(o, step) \/ step \in gone
                   /\ Passed(n, step) => n.end \in {"running", "done"}
                   /\ step \in Range(n.left) => step \in Range(o.left) /\ step \notin gone
                   /\ step \in Range(o.left) /\ step \notin gone =>
                        step \in Range(n.left) \/ ~Passed(n, step)
  BY DEF Goes, Passed, Ends

LEMMA LocalKept ==
  ASSUME NEW o, NEW n, NEW p, NEW gone, Goes(o, n, gone), LocalFact(o, p),
         n.local = o.local, "local" \notin gone
  PROVE  LocalFact(n, p)
  BY SameInput, SameHistory, SamePassed DEF LocalFact

LEMMA RowsKept ==
  ASSUME NEW o, NEW n, NEW p, NEW gone, Goes(o, n, gone), RowsFact(o, p),
         n.rows = o.rows, "tables" \notin gone, n.local = o.local
  PROVE  RowsFact(n, p)
<1>1. Ways(n, p) = Ways(o, p) /\ (Skips(n, p) <=> Skips(o, p))
      /\ (\A road : Away(n, p, road) <=> Away(o, p, road)) /\ (Came(n, p, n.rows) <=> Came(o, p, o.rows))
  BY SameInput, SameHistory
<1>2. /\ Passed(n, "tables") => Passed(o, "tables")
      /\ "tables" \in Range(n.left) => "tables" \in Range(o.left)
  BY SamePassed
<1>3. QED
  BY <1>1, <1>2 DEF RowsFact

LEMMA CloudKept ==
  ASSUME NEW o, NEW n, NEW p, NEW gone, Goes(o, n, gone), CloudFact(o, p),
         n.cloud = o.cloud, "cloud" \notin gone, n.local = o.local
  PROVE  CloudFact(n, p)
<1>1. AsksCloud(n, p) <=> AsksCloud(o, p)
  BY SameInput DEF AsksCloud
<1>2. QED
  BY <1>1, SameInput, SamePassed DEF CloudFact

LEMMA CountKept ==
  ASSUME NEW o, NEW n, NEW p, NEW gone, Goes(o, n, gone), CountFact(o, p),
         n.count = o.count, "count" \notin gone
  PROVE  CountFact(n, p)
<1>1. CountedOf(n) = CountedOf(o) /\ Seen(n, p) = Seen(o, p)
  BY SameInput
<1>2. Passed(n, "count") => Passed(o, "count")
  BY SamePassed
<1>3. QED
  BY <1>1, <1>2 DEF CountFact

LEMMA FileKept ==
  ASSUME NEW o, NEW n, NEW p, NEW gone, Goes(o, n, gone), FileFact(o, p),
         n.file = o.file, "config" \notin gone
  PROVE  FileFact(n, p)
  BY SameInput, SamePassed DEF FileFact

LEMMA NamesKept ==
  ASSUME NEW o, NEW n, NEW p, NEW gone, Goes(o, n, gone), NamesFact(o, p),
         n.names = o.names, "glob" \notin gone
  PROVE  NamesFact(n, p)
<1>1. n.kind = o.kind /\ Seen(n, p) = Seen(o, p)
  BY SameInput
<1>2. /\ Passed(n, "glob") => Passed(o, "glob")
      /\ "glob" \in Range(n.left) => "glob" \in Range(o.left)
  BY SamePassed
<1>3. QED
  BY <1>1, <1>2 DEF NamesFact

LEMMA ExactKept ==
  ASSUME NEW o, NEW n, NEW p, NEW gone, Goes(o, n, gone), ExactFact(o, p),
         n.names = o.names, gone \cap {"glob", "stat", "pick"} = {}
  PROVE  ExactFact(n, p)
<1> SUFFICES ASSUME n.since = Len(p), Passed(n, "glob") PROVE
       /\ n.kind = "snapshots" =>
            n.names = IF "stat" \in Range(n.left) THEN Now(p).files ELSE Reverse(Now(p).files)
       /\ n.kind = "apiSnapshots" => n.names = Now(p).files
       /\ n.kind = "status" =>
            LET pushes == Among(Now(p).files, Pushes) IN
            IF "pick" \in Range(n.left) THEN n.names = pushes
            ELSE n.names = IF pushes = <<>> THEN <<>> ELSE <<Last(pushes)>>
  BY DEF ExactFact
<1>1. n.kind = o.kind /\ n.since = o.since /\ n.names = o.names
  BY SameInput
<1>2. Passed(o, "glob")
  BY SamePassed
<1>3. Range(n.left) = Range(o.left) \ gone
  BY SamePassed DEF Goes
<1>4. /\ "stat" \in Range(n.left) <=> "stat" \in Range(o.left)
      /\ "pick" \in Range(n.left) <=> "pick" \in Range(o.left)
  BY <1>3
<1>5. QED
  BY <1>1, <1>2, <1>4 DEF ExactFact

LEMMA GoneKept ==
  ASSUME NEW o, NEW n, NEW p, NEW gone, Goes(o, n, gone), GoneFact(o, p),
         n.names = o.names, n.end # "panic", gone \cap {"glob", "pick"} = {}
  PROVE  GoneFact(n, p)
<1>1. "pick" \in Range(n.left) /\ "glob" \notin Range(n.left) =>
         "pick" \in Range(o.left) /\ "glob" \notin Range(o.left)
  BY DEF Goes, Ends
<1>2. QED
  BY <1>1, SameHistory DEF GoneFact
-----------------------------------------------------------------------------
(***************************************************************************)
(* The steps of a report.                                                  *)
(***************************************************************************)
Calm(o, n) == n.old = o.old /\ (Hushes(n) <=> Hushes(o))

\* The report of r moves on, and nothing else does.
Moves(r, n) == /\ report' = [report EXCEPT ![r] = n]
               /\ Fine(n, past) /\ Calm(report[r], n)

LEMMA RunningIs ==
  ASSUME IInv, NEW r \in Runs, Running(r)
  PROVE  LET o == report[r] IN
         /\ Shape(o) /\ Formed(o) /\ o.end = "running" /\ o.kind \in Kinds
         /\ o.left \in Rests(o.kind) /\ o.left # <<>>
         /\ Placed(o, past) /\ Facts(o, past)
         /\ o.since \in 1 .. Len(past) /\ Len(past) \in Nat
         /\ ConfigOf(r) = Conf(o, past) /\ ConfigOf(r) \in Configs
         /\ World = Now(past) /\ World \in Seen(o, past) /\ World \in OneWorld
         /\ Distinct(World.files)
<1>1. PICK o : o = report[r]
  OBVIOUS
<1>2. Fine(o, past) /\ o.end = "running"
  BY <1>1 DEF IInv, ReportTyped, Running
<1>3. /\ Shape(o) /\ Placed(o, past) /\ Facts(o, past)
      /\ o.since \in 1 .. Len(past)
  BY <1>2 DEF Fine, Placed
<1>4. Formed(o) /\ o.kind \in Kinds /\ o.left \in Rests(o.kind) /\ o.left # <<>>
  BY <1>2, <1>3 DEF Shape
<1>5. PICK len \in Nat : len = Len(past) /\ past \in Seq(OneWorld) /\ len >= 1
  BY DEF IInv, Worlds
<1>6. World = past[len] /\ Now(past) = past[len] /\ len \in 1 .. len
  BY <1>5 DEF World, Last, Now
<1>7. World \in OneWorld /\ Distinct(World.files)
  BY <1>5, <1>6 DEF IInv, Worlds
<1>8. World \in Seen(o, past)
  BY <1>3, <1>5, <1>6 DEF Seen
<1>9. ConfigOf(r) = Conf(o, past)
  BY <1>1 DEF ConfigOf, Conf
<1>10. Conf(o, past) \in Configs
  <2>1. past[o.since] \in OneWorld
    BY <1>3, <1>5
  <2>. QED
    BY <2>1 DEF OneWorld, Conf
<1>11. QED
  BY <1>1, <1>2, <1>3, <1>4, <1>5, <1>6, <1>7, <1>8, <1>9, <1>10

LEMMA AtIs == ASSUME NEW r, NEW step, At(r, step)
              PROVE  Running(r) /\ Head(report[r].left) = step
  BY DEF At

\* A step that is taken, whatever data it sets.
LEMMA TookIs ==
  ASSUME IInv, NEW r \in Runs, NEW step, At(r, step), NEW g, Formed(g),
         \A f \in Fields \ Data : g[f] = report[r][f], Took(r, g)
  PROVE  LET n == Ahead(g) o == report[r] IN
         /\ report' = [report EXCEPT ![r] = n]
         /\ Shape(n) /\ Goes(o, n, {step}) /\ n.again = FALSE
         /\ \A f \in Data : n[f] = g[f]
         /\ AgainFact(n, past) /\ Placed(n, past)
<1>1. PICK o : o = report[r]
  OBVIOUS
<1>2. Shape(o) /\ o.end = "running" /\ o.since \in 1 .. Len(past) /\ Head(o.left) = step
  BY <1>1, RunningIs, AtIs
<1>3. PICK n : n = Ahead(g)
  OBVIOUS
<1>4. /\ Shape(n) /\ Goes(o, n, {step}) /\ n.again = FALSE
      /\ \A f \in Data : n[f] = g[f]
  <2>1. \A f \in Fields \ Data : g[f] = o[f]
    BY <1>1
  <2>2. Shape(Ahead(g)) /\ Goes(o, Ahead(g), {Head(o.left)}) /\ Ahead(g).again = FALSE
    BY <1>2, <2>1, AheadGoes
  <2>3. \A f \in Fields \ {"left", "again", "end"} : n[f] = g[f]
    BY <1>3, AheadFields
  <2>4. \A f \in Data : n[f] = g[f]
    BY <2>3 DEF Data, Fields
  <2>. QED
    BY <1>2, <1>3, <2>2, <2>4
<1>5. AgainFact(n, past)
  BY <1>4 DEF AgainFact
<1>6. Placed(n, past)
  <2>1. n.since = o.since
    BY <1>4 DEF Goes
  <2>. QED
    BY <1>2, <2>1 DEF Placed
<1>7. report' = [report EXCEPT ![r] = n]
  BY <1>3 DEF Took, Ahead
<1>8. QED
  BY <1>1, <1>3, <1>4, <1>5, <1>6, <1>7

LEMMA StaysCalm ==
  ASSUME NEW o, NEW n, NEW step, Goes(o, n, {step}), step \notin {"note", "speak"}, n.old = o.old,
         n.end \in {"running", "done"} \/ o.kind # "apiCheck"
  PROVE  Calm(o, n)
<1>1. n.kind = o.kind
  BY DEF Goes
<1>2. n.end \in {"running", "done"} => Range(n.left) = Range(o.left) \ {step}
  BY DEF Goes
<1>3. QED
  BY <1>1, <1>2 DEF Calm, Hushes

LEMMA AheadEnd == ASSUME NEW g, Formed(g) PROVE Ahead(g).end \in {"running", "done"}
  BY AheadFields
\* A step that sets one field of the data and changes no other.
Advances(o, n, p, step, d, x) ==
  /\ Shape(n) /\ Goes(o, n, {step}) /\ AgainFact(n, p) /\ Placed(n, p)
  /\ n[d] = x /\ \A f \in Data \ {d} : n[f] = o[f]
  /\ n.end \in {"running", "done"}

LEMMA SetsOne ==
  ASSUME IInv, NEW r \in Runs, NEW step, At(r, step), NEW d \in Data, NEW x,
         Took(r, [report[r] EXCEPT ![d] = x])
  PROVE  \E n : /\ report' = [report EXCEPT ![r] = n]
                /\ Advances(report[r], n, past, step, d, x)
<1>1. PICK o : o = report[r]
  OBVIOUS
<1>2. PICK g : g = [o EXCEPT ![d] = x]
  OBVIOUS
<1>3. Formed(o)
  BY <1>1, RunningIs, AtIs
<1>4. Formed(g) /\ (\A f \in Fields \ Data : g[f] = o[f]) /\ g[d] = x /\ \A f \in Data \ {d} : g[f] = o[f]
  <2>1. d \in Fields /\ Data \subseteq Fields
    BY DEF Data, Fields
  <2>2. Formed(g) /\ g[d] = x /\ \A f \in Fields \ {d} : g[f] = o[f]
    BY <1>2, <1>3, <2>1 DEF Formed
  <2>. QED
    BY <2>1, <2>2
<1>5. Took(r, g)
  BY <1>1, <1>2
<1>6. \A f \in Fields \ Data : g[f] = report[r][f]
  BY <1>1, <1>4
<1>7. PICK n : n = Ahead(g)
  OBVIOUS
<1>8. /\ report' = [report EXCEPT ![r] = n]
      /\ Shape(n) /\ Goes(o, n, {step}) /\ AgainFact(n, past) /\ Placed(n, past)
      /\ \A f \in Data : n[f] = g[f]
  BY <1>1, <1>4, <1>5, <1>6, <1>7, TookIs
<1>9. n.end \in {"running", "done"}
  BY <1>4, <1>7, AheadEnd
<1>10. n[d] = x /\ \A f \in Data \ {d} : n[f] = o[f]
  BY <1>4, <1>8
<1>11. Advances(o, n, past, step, d, x)
  BY <1>8, <1>9, <1>10 DEF Advances
<1>12. QED
  BY <1>1, <1>8, <1>11

LEMMA SetsNone ==
  ASSUME IInv, NEW r \in Runs, NEW step, At(r, step), Took(r, report[r])
  PROVE  \E n : /\ report' = [report EXCEPT ![r] = n]
                /\ Advances(report[r], n, past, step, "found", report[r].found)
<1>1. PICK o : o = report[r]
  OBVIOUS
<1>2. Formed(o)
  BY <1>1, RunningIs, AtIs
<1>3. o = [o EXCEPT !["found"] = o.found]
  BY <1>2 DEF Formed, Fields
<1>4. Took(r, [o EXCEPT !["found"] = o.found])
  BY <1>1, <1>3
<1>5. "found" \in Data
  BY DEF Data
<1>6. QED
  BY <1>1, <1>4, <1>5, SetsOne

LEMMA Untouched ==
  ASSUME NEW o, NEW n, NEW p, NEW step, NEW d, NEW x,
         Advances(o, n, p, step, d, x), Facts(o, p)
  PROVE  /\ d # "local" /\ step # "local" => LocalFact(n, p)
         /\ d \notin {"local", "rows"} /\ step # "tables" => RowsFact(n, p)
         /\ d \notin {"local", "cloud"} /\ step # "cloud" => CloudFact(n, p)
         /\ d # "count" /\ step # "count" => CountFact(n, p)
         /\ d # "file" /\ step # "config" => FileFact(n, p)
         /\ d # "names" /\ step # "glob" => NamesFact(n, p)
         /\ d # "names" /\ step \notin {"glob", "stat", "pick"} => ExactFact(n, p)
         /\ d # "names" /\ step \notin {"glob", "pick"} => GoneFact(n, p)
<1>1. /\ Goes(o, n, {step}) /\ n.end # "panic"
      /\ \A f \in Data \ {d} : n[f] = o[f]
  BY DEF Advances
<1>2. /\ d # "local" => n.local = o.local
      /\ d # "rows" => n.rows = o.rows
      /\ d # "cloud" => n.cloud = o.cloud
      /\ d # "count" => n.count = o.count
      /\ d # "file" => n.file = o.file
      /\ d # "names" => n.names = o.names
  BY <1>1 DEF Data
<1>3. d # "local" /\ step # "local" => LocalFact(n, p)
  BY <1>1, <1>2, LocalKept DEF Facts
<1>4. d \notin {"local", "rows"} /\ step # "tables" => RowsFact(n, p)
  BY <1>1, <1>2, RowsKept DEF Facts
<1>5. d \notin {"local", "cloud"} /\ step # "cloud" => CloudFact(n, p)
  BY <1>1, <1>2, CloudKept DEF Facts
<1>6. d # "count" /\ step # "count" => CountFact(n, p)
  BY <1>1, <1>2, CountKept DEF Facts
<1>7. d # "file" /\ step # "config" => FileFact(n, p)
  BY <1>1, <1>2, FileKept DEF Facts
<1>8. d # "names" /\ step # "glob" => NamesFact(n, p)
  BY <1>1, <1>2, NamesKept DEF Facts
<1>9. d # "names" /\ step \notin {"glob", "stat", "pick"} => ExactFact(n, p)
  BY <1>1, <1>2, ExactKept DEF Facts
<1>10. d # "names" /\ step \notin {"glob", "pick"} => GoneFact(n, p)
  BY <1>1, <1>2, GoneKept DEF Facts
<1>11. QED
  BY <1>3, <1>4, <1>5, <1>6, <1>7, <1>8, <1>9, <1>10

LEMMA AdvanceFine ==
  ASSUME NEW o, NEW n, NEW p, NEW step, NEW d, NEW x, Advances(o, n, p, step, d, x),
         step \notin {"note", "speak"}, d # "old",
         LocalFact(n, p), RowsFact(n, p), CloudFact(n, p), CountFact(n, p),
         FileFact(n, p), NamesFact(n, p), ExactFact(n, p), GoneFact(n, p)
  PROVE  Fine(n, p) /\ Calm(o, n)
<1>1. /\ Shape(n) /\ Goes(o, n, {step}) /\ AgainFact(n, p) /\ Placed(n, p)
      /\ n[d] = x /\ (\A f \in Data \ {d} : n[f] = o[f]) /\ n.end \in {"running", "done"}
  BY DEF Advances
<1>2. n.old = o.old
  BY <1>1 DEF Data
<1>3. Calm(o, n)
  BY <1>1, <1>2, StaysCalm
<1>4. Fine(n, p)
  BY <1>1 DEF Fine, Facts
<1>5. QED
  BY <1>3, <1>4

LEMMA NextIs ==
  ASSUME IInv, NEW r \in Runs, NEW step, At(r, step)
  PROVE  LET o == report[r] IN
         /\ Head(o.left) = step /\ step \in Range(o.left) /\ step \in Range(Order[o.kind])
         /\ \A n, p, d, x : Advances(o, n, p, step, d, x) => step \notin Range(n.left)
<1>1. PICK o : o = report[r]
  OBVIOUS
<1>2. o.kind \in Kinds /\ o.left \in Rests(o.kind) /\ o.left # <<>> /\ Head(o.left) = step
  BY <1>1, RunningIs, AtIs
<1>3. step \in Range(o.left) /\ step \in Range(Order[o.kind])
  BY <1>2, RestTail
<1>4. ASSUME NEW n, NEW p, NEW d, NEW x, Advances(o, n, p, step, d, x)
      PROVE step \notin Range(n.left)
  BY <1>4 DEF Advances, Goes
<1>5. QED
  BY <1>1, <1>2, <1>3, <1>4

LEMMA AskCloudStep ==
  ASSUME IInv, NEW r \in Runs, AskCloud(r)
  PROVE  \E n : Moves(r, n)
<1>1. PICK o : o = report[r]
  OBVIOUS
<1>2. At(r, "cloud")
  BY DEF AskCloud
<1>3. /\ Facts(o, past) /\ ConfigOf(r) = Conf(o, past)
      /\ World = Now(past) /\ World \in Seen(o, past)
  BY <1>1, <1>2, RunningIs, AtIs
<1>4. /\ CloudAsked(r) <=> AsksCloud(o, past)
      /\ CloudRoads(r) = CloudWays(o, past)
  BY <1>1, <1>3 DEF CloudAsked, AsksCloud, CloudRoads, CloudWays, GoesToTyped, ToTyped
<1>5. o.cloud = NoAnswer
  BY <1>1, <1>2, <1>3, NextIs DEF Facts, CloudFact
<1>6. CASE CloudAsked(r) /\ CloudRoads(r) \cap World.reach # {}
  <2>1. Took(r, [report[r] EXCEPT !["cloud"] = Reached("cloud")])
    BY <1>6 DEF AskCloud
  <2>2. PICK n : /\ report' = [report EXCEPT ![r] = n]
                 /\ Advances(o, n, past, "cloud", "cloud", Reached("cloud"))
    BY <1>1, <1>2, <2>1, SetsOne DEF Data
  <2>3. /\ LocalFact(n, past) /\ RowsFact(n, past) /\ CountFact(n, past) /\ FileFact(n, past)
        /\ NamesFact(n, past) /\ ExactFact(n, past) /\ GoneFact(n, past)
    BY <1>3, <2>2, Untouched
  <2>4. /\ Goes(o, n, {"cloud"}) /\ n.cloud = Reached("cloud") /\ n.local = o.local
    BY <2>2 DEF Advances, Data
  <2>5. Reached("cloud") = Answer(World, "cloud") /\ Answer(World, "cloud").ok
    BY DEF Reached, Answer
  <2>6. Seen(n, past) = Seen(o, past) /\ CloudWays(n, past) = CloudWays(o, past)
        /\ (AsksCloud(n, past) <=> AsksCloud(o, past))
    BY <2>4, SameInput DEF AsksCloud
  <2>7. "cloud" \notin Range(n.left)
    BY <1>1, <1>2, <2>2, NextIs
  <2>8. CloudFact(n, past)
    <3>1. \E w \in Seen(n, past) : CloudWays(n, past) \cap w.reach # {} /\ n.cloud = Answer(w, "cloud")
      BY <1>3, <1>4, <1>6, <2>4, <2>5, <2>6
    <3>2. n.cloud.ok /\ AsksCloud(n, past)
      BY <1>4, <1>6, <2>4, <2>5, <2>6
    <3>. QED
      BY <2>7, <3>1, <3>2 DEF CloudFact
  <2>9. Fine(n, past) /\ Calm(o, n)
    BY <2>2, <2>3, <2>8, AdvanceFine
  <2>. QED
    BY <1>1, <2>2, <2>9 DEF Moves
<1>7. CASE ~(CloudAsked(r) /\ CloudRoads(r) \cap World.reach # {})
  <2>1. Took(r, report[r])
    BY <1>7 DEF AskCloud
  <2>2. PICK n : /\ report' = [report EXCEPT ![r] = n]
                 /\ Advances(o, n, past, "cloud", "found", o.found)
    BY <1>1, <1>2, <2>1, SetsNone
  <2>3. /\ LocalFact(n, past) /\ RowsFact(n, past) /\ CountFact(n, past) /\ FileFact(n, past)
        /\ NamesFact(n, past) /\ ExactFact(n, past) /\ GoneFact(n, past)
    BY <1>3, <2>2, Untouched
  <2>4. /\ Goes(o, n, {"cloud"}) /\ n.cloud = o.cloud /\ n.local = o.local
    BY <2>2 DEF Advances, Data
  <2>6. Seen(n, past) = Seen(o, past) /\ CloudWays(n, past) = CloudWays(o, past)
        /\ (AsksCloud(n, past) <=> AsksCloud(o, past))
    BY <2>4, SameInput DEF AsksCloud
  <2>7. "cloud" \notin Range(n.left)
    BY <1>1, <1>2, <2>2, NextIs
  <2>8. CloudFact(n, past)
    <3>1. n.cloud = NoAnswer /\ ~n.cloud.ok
      BY <1>5, <2>4 DEF NoAnswer
    <3>2. ~AsksCloud(n, past) \/ \E w \in Seen(n, past) : CloudWays(n, past) \cap w.reach = {}
      BY <1>3, <1>4, <1>7, <2>6
    <3>. QED
      BY <2>7, <3>1, <3>2 DEF CloudFact
  <2>9. Fine(n, past) /\ Calm(o, n)
    BY <2>2, <2>3, <2>8, AdvanceFine
  <2>. QED
    BY <1>1, <2>2, <2>9 DEF Moves
<1>8. QED
  BY <1>6, <1>7

\* Which reports take a step.
LEMMA StepKinds ==
  ASSUME NEW kind \in Kinds, NEW step \in Range(Order[kind])
  PROVE  /\ step \in {"look", "open"} => kind = "apiDownload"
         /\ step = "glob" => kind \in {"status", "snapshots", "apiSnapshots"}
         /\ step = "stat" => kind \in {"snapshots", "apiSnapshots"}
         /\ step = "pick" => kind = "status"
         /\ step = "again" => kind \in {"status", "snapshots"}
         /\ step = "tables" => kind = "apiStatus"
         /\ step = "detect" => kind = "apiDetect"
         /\ step \in {"note", "hush", "speak"} => kind = "apiCheck"
<1>1. CASE kind = "check"
  <2>1. Order["check"] = <<"local", "cloud", "count">>
    BY DEF Order
  <2>2. Range(Order["check"]) = {"local", "cloud", "count"}
    BY <2>1 DEF Range
  <2>. QED
    BY <1>1, <2>2
<1>2. CASE kind = "status"
  <2>1. Order["status"] = <<"glob", "pick", "again", "count", "local", "cloud">>
    BY DEF Order
  <2>2. Range(Order["status"]) = {"glob", "pick", "again", "count", "local", "cloud"}
    BY <2>1 DEF Range
  <2>. QED
    BY <1>2, <2>2
<1>3. CASE kind = "statusJson"
  <2>1. Order["statusJson"] = <<"local">>
    BY DEF Order
  <2>2. Range(Order["statusJson"]) = {"local"}
    BY <2>1 DEF Range
  <2>. QED
    BY <1>3, <2>2
<1>4. CASE kind = "diff"
  <2>1. Order["diff"] = <<"local", "cloud">>
    BY DEF Order
  <2>2. Range(Order["diff"]) = {"local", "cloud"}
    BY <2>1 DEF Range
  <2>. QED
    BY <1>4, <2>2
<1>5. CASE kind = "doctor"
  <2>1. Order["doctor"] = <<"config", "local", "count">>
    BY DEF Order
  <2>2. Range(Order["doctor"]) = {"config", "local", "count"}
    BY <2>1 DEF Range
  <2>. QED
    BY <1>5, <2>2
<1>6. CASE kind = "snapshots"
  <2>1. Order["snapshots"] = <<"glob", "stat", "again">>
    BY DEF Order
  <2>2. Range(Order["snapshots"]) = {"glob", "stat", "again"}
    BY <2>1 DEF Range
  <2>. QED
    BY <1>6, <2>2
<1>7. CASE kind = "apiStatus"
  <2>1. Order["apiStatus"] = <<"local", "tables", "cloud">>
    BY DEF Order
  <2>2. Range(Order["apiStatus"]) = {"local", "tables", "cloud"}
    BY <2>1 DEF Range
  <2>. QED
    BY <1>7, <2>2
<1>8. CASE kind = "apiCheck"
  <2>1. Order["apiCheck"] = <<"note", "hush", "local", "speak", "count">>
    BY DEF Order
  <2>2. Range(Order["apiCheck"]) = {"note", "hush", "local", "speak", "count"}
    BY <2>1 DEF Range
  <2>. QED
    BY <1>8, <2>2
<1>9. CASE kind = "apiDoctor"
  <2>1. Order["apiDoctor"] = <<"config", "local", "cloud", "count">>
    BY DEF Order
  <2>2. Range(Order["apiDoctor"]) = {"config", "local", "cloud", "count"}
    BY <2>1 DEF Range
  <2>. QED
    BY <1>9, <2>2
<1>10. CASE kind = "apiDiff"
  <2>1. Order["apiDiff"] = <<"local", "cloud">>
    BY DEF Order
  <2>2. Range(Order["apiDiff"]) = {"local", "cloud"}
    BY <2>1 DEF Range
  <2>. QED
    BY <1>10, <2>2
<1>11. CASE kind = "localTest"
  <2>1. Order["localTest"] = <<"local">>
    BY DEF Order
  <2>2. Range(Order["localTest"]) = {"local"}
    BY <2>1 DEF Range
  <2>. QED
    BY <1>11, <2>2
<1>12. CASE kind = "remoteTest"
  <2>1. Order["remoteTest"] = <<"cloud">>
    BY DEF Order
  <2>2. Range(Order["remoteTest"]) = {"cloud"}
    BY <2>1 DEF Range
  <2>. QED
    BY <1>12, <2>2
<1>13. CASE kind = "apiSnapshots"
  <2>1. Order["apiSnapshots"] = <<"glob", "stat">>
    BY DEF Order
  <2>2. Range(Order["apiSnapshots"]) = {"glob", "stat"}
    BY <2>1 DEF Range
  <2>. QED
    BY <1>13, <2>2
<1>14. CASE kind = "apiDownload"
  <2>1. Order["apiDownload"] = <<"look", "open">>
    BY DEF Order
  <2>2. Range(Order["apiDownload"]) = {"look", "open"}
    BY <2>1 DEF Range
  <2>. QED
    BY <1>14, <2>2
<1>15. CASE kind = "apiDetect"
  <2>1. Order["apiDetect"] = <<"detect">>
    BY DEF Order
  <2>2. Range(Order["apiDetect"]) = {"detect"}
    BY <2>1 DEF Range
  <2>. QED
    BY <1>15, <2>2
<1>. QED
  BY <1>1, <1>2, <1>3, <1>4, <1>5, <1>6, <1>7, <1>8, <1>9, <1>10, <1>11, <1>12, <1>13, <1>14, <1>15 DEF Kinds

LEMMA PlainFine ==
  ASSUME NEW o, NEW n, NEW p, NEW step, NEW x, Advances(o, n, p, step, "found", x), Facts(o, p),
         step \in {"open", "again", "hush", "detect"}
  PROVE  Fine(n, p) /\ Calm(o, n)
<1>1. /\ LocalFact(n, p) /\ RowsFact(n, p) /\ CloudFact(n, p) /\ CountFact(n, p)
      /\ FileFact(n, p) /\ NamesFact(n, p) /\ ExactFact(n, p) /\ GoneFact(n, p)
  BY Untouched
<1>2. QED
  BY <1>1, AdvanceFine

LEMMA DetectStep ==
  ASSUME IInv, NEW r \in Runs, Detect(r)
  PROVE  \E n : Moves(r, n)
<1>1. PICK o : o = report[r]
  OBVIOUS
<1>2. At(r, "detect") /\ \E x : Took(r, [report[r] EXCEPT !["found"] = x])
  BY DEF Detect
<1>3. PICK x : Took(r, [report[r] EXCEPT !["found"] = x])
  BY <1>2
<1>4. PICK n : /\ report' = [report EXCEPT ![r] = n]
               /\ Advances(o, n, past, "detect", "found", x)
  BY <1>1, <1>2, <1>3, SetsOne DEF Data
<1>5. Facts(o, past)
  BY <1>1, <1>2, RunningIs, AtIs
<1>6. Fine(n, past) /\ Calm(o, n)
  BY <1>4, <1>5, PlainFine
<1>7. QED
  BY <1>1, <1>4, <1>6 DEF Moves

LEMMA CountStep ==
  ASSUME IInv, NEW r \in Runs, Count(r)
  PROVE  \E n : Moves(r, n)
<1>1. PICK o : o = report[r]
  OBVIOUS
<1>2. PICK x : x = Len(Among(World.files, CountedOf(o)))
  OBVIOUS
<1>3. At(r, "count") /\ Took(r, [report[r] EXCEPT !["count"] = x])
  BY <1>1, <1>2 DEF Count, CountedOf
<1>4. PICK n : /\ report' = [report EXCEPT ![r] = n]
               /\ Advances(o, n, past, "count", "count", x)
  BY <1>1, <1>3, SetsOne DEF Data
<1>5. Facts(o, past) /\ World \in Seen(o, past)
  BY <1>1, <1>3, RunningIs, AtIs
<1>6. /\ LocalFact(n, past) /\ RowsFact(n, past) /\ CloudFact(n, past) /\ FileFact(n, past)
      /\ NamesFact(n, past) /\ ExactFact(n, past) /\ GoneFact(n, past)
  BY <1>4, <1>5, Untouched
<1>7. CountFact(n, past)
  <2>1. Goes(o, n, {"count"}) /\ n.count = x
    BY <1>4 DEF Advances
  <2>2. Seen(n, past) = Seen(o, past) /\ CountedOf(n) = CountedOf(o)
    BY <2>1, SameInput
  <2>. QED
    BY <1>2, <1>5, <2>1, <2>2 DEF CountFact
<1>8. Fine(n, past) /\ Calm(o, n)
  BY <1>4, <1>6, <1>7, AdvanceFine
<1>9. QED
  BY <1>1, <1>4, <1>8 DEF Moves

LEMMA LookForConfigStep ==
  ASSUME IInv, NEW r \in Runs, LookForConfig(r)
  PROVE  \E n : Moves(r, n)
<1>1. PICK o : o = report[r]
  OBVIOUS
<1>2. PICK x : x = World.config.file
  OBVIOUS
<1>3. At(r, "config") /\ Took(r, [report[r] EXCEPT !["file"] = x])
  BY <1>2 DEF LookForConfig
<1>4. PICK n : /\ report' = [report EXCEPT ![r] = n]
               /\ Advances(o, n, past, "config", "file", x)
  BY <1>1, <1>3, SetsOne DEF Data
<1>5. Facts(o, past) /\ World \in Seen(o, past)
  BY <1>1, <1>3, RunningIs, AtIs
<1>6. /\ LocalFact(n, past) /\ RowsFact(n, past) /\ CloudFact(n, past) /\ CountFact(n, past)
      /\ NamesFact(n, past) /\ ExactFact(n, past) /\ GoneFact(n, past)
  BY <1>4, <1>5, Untouched
<1>7. FileFact(n, past)
  <2>1. Goes(o, n, {"config"}) /\ n.file = x
    BY <1>4 DEF Advances
  <2>2. Seen(n, past) = Seen(o, past)
    BY <2>1, SameInput
  <2>. QED
    BY <1>2, <1>5, <2>1, <2>2 DEF FileFact
<1>8. Fine(n, past) /\ Calm(o, n)
  BY <1>4, <1>6, <1>7, AdvanceFine
<1>9. QED
  BY <1>1, <1>4, <1>8 DEF Moves

\* A report that is cut short.
LEMMA EndsShort ==
  ASSUME IInv, NEW r \in Runs, NEW step \in {"look", "open", "again"}, At(r, step),
         NEW end \in {"panic", "not found", "failed"}, Ended(r, end),
         end = "panic" => \E f \in Range(report[r].names) : Deleted(report[r], past, f)
  PROVE  \E n : Moves(r, n)
<1>1. PICK o : o = report[r]
  OBVIOUS
<1>2. /\ Shape(o) /\ Formed(o) /\ o.end = "running" /\ o.kind \in Kinds /\ Placed(o, past) /\ Facts(o, past)
      /\ o.left \in Rests(o.kind) /\ o.left # <<>>
  BY <1>1, RunningIs, AtIs
<1>3. PICK n : n = [o EXCEPT !.left = <<>>, !.end = end]
  OBVIOUS
<1>4. /\ Formed(n) /\ n.left = <<>> /\ n.end = end
      /\ \A f \in Fields \ {"left", "end"} : n[f] = o[f]
  BY <1>2, <1>3 DEF Formed, Fields
<1>5. <<>> \in Rests(o.kind) /\ Range(<<>>) = {}
  BY <1>2, NoneLeft
<1>6. /\ n.kind = o.kind /\ n.asked = o.asked /\ n.input = o.input /\ n.since = o.since
      /\ n.again = o.again /\ n.old = o.old /\ n.local = o.local /\ n.rows = o.rows
      /\ n.cloud = o.cloud /\ n.names = o.names /\ n.count = o.count /\ n.file = o.file
  BY <1>4 DEF Fields
<1>7. Shape(n)
  BY <1>2, <1>4, <1>5, <1>6 DEF Shape, Ends
<1>8. Goes(o, n, {})
  BY <1>2, <1>4, <1>5, <1>6 DEF Goes, Ends
<1>9. Placed(n, past)
  BY <1>2, <1>4, <1>6 DEF Placed
<1>10. AgainFact(n, past)
  <2>1. Conf(n, past) = Conf(o, past) /\ (ToTyped(n) <=> ToTyped(o)) /\ n.kind = o.kind
    BY <1>8, SameInput
  <2>2. Away(n, past, "host") <=> Away(o, past, "host")
    BY <1>8, SameHistory
  <2>. QED
    BY <1>2, <1>6, <2>1, <2>2 DEF Facts, AgainFact
<1>11. LocalFact(n, past) /\ RowsFact(n, past) /\ CloudFact(n, past)
  BY <1>2, <1>6, <1>8, LocalKept, RowsKept, CloudKept DEF Facts
<1>12. CountFact(n, past) /\ FileFact(n, past) /\ NamesFact(n, past) /\ ExactFact(n, past)
  BY <1>2, <1>6, <1>8, CountKept, FileKept, NamesKept, ExactKept DEF Facts
<1>13. GoneFact(n, past)
  <2>1. \A f : Deleted(n, past, f) <=> Deleted(o, past, f)
    BY <1>8, SameHistory
  <2>2. n.end = "panic" => \E f \in Range(o.names) : Deleted(o, past, f)
    BY <1>1, <1>4
  <2>3. GoneFact(o, past) /\ Range(n.left) = {}
    BY <1>2, <1>4, <1>5 DEF Facts
  <2>. QED
    BY <1>6, <2>1, <2>2, <2>3 DEF GoneFact
<1>14. Calm(o, n)
  <2>1. step \in Range(Order[o.kind])
    BY <1>1, NextIs
  <2>2. o.kind # "apiCheck"
    BY <1>2, <2>1, StepKinds
  <2>. QED
    BY <1>6, <2>2 DEF Calm, Hushes
<1>15. report' = [report EXCEPT ![r] = n]
  BY <1>1, <1>3 DEF Ended
<1>16. QED
  BY <1>1, <1>7, <1>9, <1>10, <1>11, <1>12, <1>13, <1>14, <1>15 DEF Moves, Fine, Facts

LEMMA PlainStep ==
  ASSUME IInv, NEW r \in Runs, NEW step \in {"open", "again", "hush", "detect"}, At(r, step),
         Took(r, report[r])
  PROVE  \E n : Moves(r, n)
<1>1. PICK o : o = report[r]
  OBVIOUS
<1>2. PICK n : /\ report' = [report EXCEPT ![r] = n]
               /\ Advances(o, n, past, step, "found", o.found)
  BY <1>1, SetsNone
<1>3. Facts(o, past)
  BY <1>1, RunningIs, AtIs
<1>4. Fine(n, past) /\ Calm(o, n)
  BY <1>2, <1>3, PlainFine
<1>5. QED
  BY <1>1, <1>2, <1>4 DEF Moves

LEMMA OpenStep ==
  ASSUME IInv, NEW r \in Runs, OpenFile(r)
  PROVE  \E n : Moves(r, n)
<1>1. At(r, "open") /\ (Took(r, report[r]) \/ Ended(r, "failed"))
  BY DEF OpenFile
<1>2. CASE Took(r, report[r])
  BY <1>1, <1>2, PlainStep
<1>3. CASE Ended(r, "failed")
  BY <1>1, <1>3, EndsShort
<1>4. QED
  BY <1>1, <1>2, <1>3

LEMMA StatAgainStep ==
  ASSUME IInv, NEW r \in Runs, StatAgain(r)
  PROVE  \E n : Moves(r, n)
<1>1. At(r, "again")
  BY DEF StatAgain
<1>2. CASE Range(report[r].names) \subseteq Range(World.files)
  <2>1. Took(r, report[r])
    BY <1>2 DEF StatAgain
  <2>. QED
    BY <1>1, <2>1, PlainStep
<1>3. CASE ~(Range(report[r].names) \subseteq Range(World.files))
  <2>1. Ended(r, "panic")
    BY <1>3 DEF StatAgain
  <2>2. PICK f \in Range(report[r].names) : f \notin Range(World.files)
    BY <1>3
  <2>3. Facts(report[r], past) /\ World = Now(past)
    BY <1>1, RunningIs, AtIs
  <2>4. Deleted(report[r], past, f)
    BY <2>2, <2>3 DEF Facts, GoneFact
  <2>. QED
    BY <1>1, <2>1, <2>2, <2>4, EndsShort
<1>4. QED
  BY <1>2, <1>3

LEMMA LookStep ==
  ASSUME IInv, NEW r \in Runs, Look(r)
  PROVE  \E n : Moves(r, n)
<1>1. At(r, "look")
  BY DEF Look
<1>2. CASE report[r].asked \notin Range(World.files)
  <2>1. Ended(r, "not found")
    BY <1>2 DEF Look
  <2>. QED
    BY <1>1, <2>1, EndsShort
<1>3. CASE report[r].asked \in Range(World.files)
  <2>1. PICK o : o = report[r]
    OBVIOUS
  <2>2. /\ Shape(o) /\ o.kind \in Kinds /\ Facts(o, past)
        /\ World = Now(past) /\ World \in OneWorld
    BY <1>1, <2>1, RunningIs, AtIs
  <2>3. PICK f \in Snapshots : f = o.asked /\ f \in Range(World.files)
    BY <1>3, <2>1, <2>2 DEF OneWorld, Range
  <2>4. Took(r, [report[r] EXCEPT !["names"] = <<f>>])
    BY <1>3, <2>1, <2>3 DEF Look
  <2>5. PICK n : /\ report' = [report EXCEPT ![r] = n]
                 /\ Advances(o, n, past, "look", "names", <<f>>)
    BY <1>1, <2>1, <2>4, SetsOne DEF Data
  <2>6. /\ LocalFact(n, past) /\ RowsFact(n, past) /\ CloudFact(n, past) /\ CountFact(n, past)
        /\ FileFact(n, past)
    BY <2>2, <2>5, Untouched
  <2>7. n.kind = "apiDownload" /\ n.names = <<f>> /\ Shape(n) /\ n.end \notin {"none", "panic"}
    <3>1. o.kind = "apiDownload"
      BY <1>1, <2>1, <2>2, NextIs, StepKinds
    <3>. QED
      BY <2>5, <3>1 DEF Advances, Goes
  <2>8. {"glob", "pick"} \cap Range(n.left) = {}
    <3>1. n.kind \in Kinds /\ n.left \in Rests(n.kind)
      BY <2>7 DEF Shape, Kinds
    <3>2. n.left = <<>> \/ Range(n.left) \subseteq Range(Order[n.kind])
      BY <3>1, RestTail
    <3>3. {"glob", "pick"} \cap Range(Order[n.kind]) = {}
      BY <2>7, <3>1, StepKinds
    <3>4. Range(<<>>) = {}
      BY <3>1, NoneLeft
    <3>. QED
      BY <3>2, <3>3, <3>4
  <2>9. NamesFact(n, past) /\ ExactFact(n, past) /\ GoneFact(n, past)
    <3>1. Range(n.names) = {f}
      BY <2>7 DEF Range
    <3>. QED
      BY <2>2, <2>3, <2>7, <2>8, <3>1 DEF NamesFact, ExactFact, GoneFact
  <2>10. Fine(n, past) /\ Calm(o, n)
    BY <2>5, <2>6, <2>9, AdvanceFine
  <2>. QED
    BY <2>1, <2>5, <2>10 DEF Moves
<1>4. QED
  BY <1>2, <1>3
-----------------------------------------------------------------------------
\* The road that the local call takes, and what is known when it leads nowhere.
LEMMA LocalRoadIs ==
  ASSUME IInv, NEW r \in Runs, Running(r)
  PROVE  LET o == report[r] road == LocalRoad(r) IN
         /\ road \in Ways(o, past)
         /\ road = "socket" => Away(o, past, "host")
         /\ road \notin World.reach => Away(o, past, road)
         /\ road \notin World.reach /\ ~FallsBack(r) => \A way \in Ways(o, past) : Away(o, past, way)
         /\ road \notin World.reach /\ FallsBack(r) =>
              /\ Conf(o, past).near /\ o.kind # "apiCheck" /\ ~ToTyped(o)
              /\ Away(o, past, "host")
<1>1. PICK o, road : o = report[r] /\ road = LocalRoad(r)
  OBVIOUS
<1>2. /\ AgainFact(o, past) /\ ConfigOf(r) = Conf(o, past)
      /\ World \in Seen(o, past)
  BY <1>1, RunningIs DEF Facts
<1>3. GoesToTyped(r) <=> ToTyped(o)
  BY <1>1 DEF GoesToTyped, ToTyped
<1>4. road \notin World.reach => Away(o, past, road)
  BY <1>2 DEF Away
<1>5. FallsBack(r) <=> Conf(o, past).near /\ o.kind # "apiCheck" /\ ~ToTyped(o) /\ ~o.again
  BY <1>1, <1>2, <1>3 DEF FallsBack
<1>6. CASE ToTyped(o)
  <2>1. road = "typed" /\ Ways(o, past) = {"typed"}
    <3>1. road = "typed"
      BY <1>1, <1>3, <1>6 DEF LocalRoad
    <3>2. Ways(o, past) = {"typed"}
      BY <1>6 DEF Ways
    <3>. QED
      BY <3>1, <3>2
  <2>. QED
    BY <1>1, <1>4, <1>5, <1>6, <2>1
<1>7. CASE ~ToTyped(o) /\ o.again
  <2>1. road = "socket"
    BY <1>1, <1>3, <1>7 DEF LocalRoad
  <2>2. Conf(o, past).near /\ o.kind # "apiCheck" /\ Away(o, past, "host")
    BY <1>2, <1>7 DEF AgainFact
  <2>3. Ways(o, past) = {"host", "socket"}
    BY <1>7, <2>2 DEF Ways
  <2>. QED
    BY <1>1, <1>4, <1>5, <1>7, <2>1, <2>2, <2>3
<1>8. CASE ~ToTyped(o) /\ ~o.again
  <2>1. road = "host"
    BY <1>1, <1>3, <1>8 DEF LocalRoad
  <2>2. Ways(o, past) = IF Conf(o, past).near /\ o.kind # "apiCheck" THEN {"host", "socket"} ELSE {"host"}
    BY <1>8 DEF Ways
  <2>. QED
    BY <1>1, <1>4, <1>5, <1>8, <2>1, <2>2
<1>9. QED
  BY <1>6, <1>7, <1>8

\* The local call comes before what builds on it.
LEMMA LocalFirst ==
  ASSUME IInv, NEW r \in Runs, At(r, "local"), report[r].kind = "apiStatus"
  PROVE  {"tables", "cloud"} \subseteq Range(report[r].left)
<1>1. PICK o : o = report[r]
  OBVIOUS
<1>2. o.kind \in Kinds /\ o.left \in Rests(o.kind) /\ "local" \in Range(o.left)
  BY <1>1, RunningIs, AtIs, NextIs
<1>3. Order["apiStatus"] = <<"local", "tables", "cloud">>
  BY DEF Order
<1>4. PICK ord : ord = Order[o.kind]
  OBVIOUS
<1>5. ord = <<"local", "tables", "cloud">>
  BY <1>1, <1>3, <1>4
<1>6. PICK a \in DOMAIN ord, b \in DOMAIN ord, c \in DOMAIN ord : a < b /\ b < c
        /\ ord[a] = "local" /\ ord[b] = "tables" /\ ord[c] = "cloud"
  <2>1. DOMAIN ord = 1 .. 3 /\ ord[1] = "local" /\ ord[2] = "tables" /\ ord[3] = "cloud"
    BY <1>5
  <2>. QED
    BY <2>1
<1>7. a < c
  <2>1. a \in Nat /\ b \in Nat /\ c \in Nat
    BY <1>5
  <2>. QED
    BY <1>6, <2>1
<1>8. "tables" \in Range(o.left) /\ "cloud" \in Range(o.left)
  BY <1>2, <1>4, <1>6, <1>7, RestOrder
<1>9. QED
  BY <1>1, <1>8

\* The answer of a local call.
LEMMA AnswerCame ==
  ASSUME IInv, NEW r \in Runs, Running(r), LocalRoad(r) \in World.reach
  PROVE  Came(report[r], past, Reached(LocalRoad(r))) /\ Reached(LocalRoad(r)).ok
<1>1. PICK o, road, w : o = report[r] /\ road = LocalRoad(r) /\ w = World
  OBVIOUS
<1>2. /\ road \in Ways(o, past) /\ (road = "socket" => Away(o, past, "host"))
      /\ w \in Seen(o, past) /\ road \in w.reach
  BY <1>1, RunningIs, LocalRoadIs
<1>3. CameBy(o, past, Answer(w, road), w, road)
  BY <1>2 DEF CameBy
<1>4. Came(o, past, Answer(w, road))
  BY <1>2, <1>3 DEF Came
<1>5. Answer(w, road) = Reached(road) /\ Answer(w, road).ok
  BY <1>1 DEF Answer, Reached
<1>6. QED
  BY <1>1, <1>4, <1>5

LEMMA LocalSet ==
  ASSUME IInv, NEW r \in Runs, At(r, "local"), NEW x, Came(report[r], past, x), x.ok,
         ~Skips(report[r], past), Took(r, [report[r] EXCEPT !["local"] = x])
  PROVE  \E n : Moves(r, n)
<1>1. PICK o : o = report[r]
  OBVIOUS
<1>2. PICK n : /\ report' = [report EXCEPT ![r] = n]
               /\ Advances(o, n, past, "local", "local", x)
  BY <1>1, SetsOne DEF Data
<1>3. Facts(o, past)
  BY <1>1, RunningIs, AtIs
<1>4. /\ CountFact(n, past) /\ FileFact(n, past)
      /\ NamesFact(n, past) /\ ExactFact(n, past) /\ GoneFact(n, past)
  BY <1>2, <1>3, Untouched
<1>5. /\ Goes(o, n, {"local"}) /\ n.local = x /\ n.rows = o.rows /\ n.cloud = o.cloud
      /\ n.end \in {"running", "done"}
  BY <1>2 DEF Advances, Data
<1>6. (Skips(n, past) <=> Skips(o, past)) /\ \A a : Came(n, past, a) <=> Came(o, past, a)
  BY <1>5, SameHistory
<1>7. LocalFact(n, past)
  BY <1>1, <1>5, <1>6 DEF LocalFact
<1>8. Range(n.left) = Range(o.left) \ {"local"} /\ n.kind = o.kind /\ o.kind \in Kinds
  BY <1>1, <1>5, RunningIs, AtIs DEF Goes
<1>9. o.kind = "apiStatus" => {"tables", "cloud"} \subseteq Range(n.left)
  BY <1>1, <1>8, LocalFirst
<1>10. RowsFact(n, past)
  <2>1. Came(n, past, n.rows)
    BY <1>3, <1>5, <1>6 DEF Facts, RowsFact
  <2>2. "tables" \in Range(n.left) => n.rows = NoAnswer
    BY <1>3, <1>5, <1>8 DEF Facts, RowsFact
  <2>3. n.rows.ok => ~Skips(n, past) /\ n.local.ok
    BY <1>1, <1>5, <1>6
  <2>4. ~Passed(n, "tables")
    <3>1. Passed(n, "tables") => n.kind = "apiStatus"
      BY <1>8, StepKinds DEF Passed
    <3>. QED
      BY <1>8, <1>9, <3>1 DEF Passed
  <2>. QED
    BY <2>1, <2>2, <2>3, <2>4 DEF RowsFact
<1>11. CloudFact(n, past)
  <2>1. Seen(n, past) = Seen(o, past) /\ CloudWays(n, past) = CloudWays(o, past)
    BY <1>5, SameInput
  <2>2. /\ \/ n.cloud = NoAnswer
           \/ \E w \in Seen(n, past) : CloudWays(n, past) \cap w.reach # {} /\ n.cloud = Answer(w, "cloud")
        /\ "cloud" \in Range(n.left) => n.cloud = NoAnswer
    BY <1>3, <1>5, <1>8, <2>1 DEF Facts, CloudFact
  <2>3. CASE o.kind = "apiStatus"
    <3>1. "cloud" \in Range(n.left) /\ ~Passed(n, "cloud")
      BY <1>9, <2>3 DEF Passed
    <3>2. ~n.cloud.ok
      BY <2>2, <3>1 DEF NoAnswer
    <3>. QED
      BY <2>2, <3>1, <3>2 DEF CloudFact
  <2>4. CASE o.kind # "apiStatus"
    <3>1. AsksCloud(n, past) <=> AsksCloud(o, past)
      BY <1>5, <2>4, SameInput DEF AsksCloud
    <3>2. Passed(n, "cloud") => Passed(o, "cloud")
      BY <1>5, SamePassed
    <3>. QED
      BY <1>3, <1>5, <2>1, <2>2, <3>1, <3>2 DEF Facts, CloudFact
  <2>. QED
    BY <2>3, <2>4
<1>12. Fine(n, past) /\ Calm(o, n)
  BY <1>2, <1>4, <1>7, <1>10, <1>11, AdvanceFine
<1>13. QED
  BY <1>1, <1>2, <1>12 DEF Moves

LEMMA RowsSet ==
  ASSUME IInv, NEW r \in Runs, At(r, "tables"), NEW x, Came(report[r], past, x), x.ok,
         ~Skips(report[r], past), report[r].local.ok, Took(r, [report[r] EXCEPT !["rows"] = x])
  PROVE  \E n : Moves(r, n)
<1>1. PICK o : o = report[r]
  OBVIOUS
<1>2. PICK n : /\ report' = [report EXCEPT ![r] = n]
               /\ Advances(o, n, past, "tables", "rows", x)
  BY <1>1, SetsOne DEF Data
<1>3. Facts(o, past)
  BY <1>1, RunningIs, AtIs
<1>4. /\ LocalFact(n, past) /\ CloudFact(n, past) /\ CountFact(n, past) /\ FileFact(n, past)
      /\ NamesFact(n, past) /\ ExactFact(n, past) /\ GoneFact(n, past)
  BY <1>2, <1>3, Untouched
<1>5. Goes(o, n, {"tables"}) /\ n.rows = x /\ n.local = o.local
  BY <1>2 DEF Advances, Data
<1>6. (Skips(n, past) <=> Skips(o, past)) /\ \A a : Came(n, past, a) <=> Came(o, past, a)
  BY <1>5, SameHistory
<1>7. "tables" \notin Range(n.left)
  BY <1>1, <1>2, NextIs
<1>8. RowsFact(n, past)
  BY <1>1, <1>5, <1>6, <1>7 DEF RowsFact
<1>9. Fine(n, past) /\ Calm(o, n)
  BY <1>2, <1>4, <1>8, AdvanceFine
<1>10. QED
  BY <1>1, <1>2, <1>9 DEF Moves

\* A local call that is not made, or is made in vain.
LEMMA NoneSet ==
  ASSUME IInv, NEW r \in Runs, NEW step \in {"local", "tables"}, At(r, step), Took(r, report[r]),
         \/ Skips(report[r], past)
         \/ step = "tables" /\ ~report[r].local.ok
         \/ \A way \in Ways(report[r], past) : Away(report[r], past, way)
  PROVE  \E n : Moves(r, n)
<1>1. PICK o : o = report[r]
  OBVIOUS
<1>2. PICK n : /\ report' = [report EXCEPT ![r] = n]
               /\ Advances(o, n, past, step, "found", o.found)
  BY <1>1, SetsNone
<1>3. Facts(o, past)
  BY <1>1, RunningIs, AtIs
<1>4. /\ CloudFact(n, past) /\ CountFact(n, past) /\ FileFact(n, past)
      /\ NamesFact(n, past) /\ ExactFact(n, past) /\ GoneFact(n, past)
      /\ step # "local" => LocalFact(n, past)
      /\ step # "tables" => RowsFact(n, past)
  BY <1>2, <1>3, Untouched
<1>5. Goes(o, n, {step}) /\ n.rows = o.rows /\ n.local = o.local
  BY <1>2 DEF Advances, Data
<1>6. /\ Skips(n, past) <=> Skips(o, past)
      /\ \A a : Came(n, past, a) <=> Came(o, past, a)
      /\ \A road : Away(n, past, road) <=> Away(o, past, road)
      /\ Ways(n, past) = Ways(o, past)
  BY <1>5, SameInput, SameHistory
<1>7. step \notin Range(n.left)
  BY <1>1, <1>2, NextIs
<1>8. step = "local" => LocalFact(n, past)
  BY <1>1, <1>3, <1>5, <1>6 DEF Facts, LocalFact
<1>9. step = "tables" => RowsFact(n, past)
  BY <1>1, <1>3, <1>5, <1>6, <1>7 DEF Facts, RowsFact
<1>10. Fine(n, past) /\ Calm(o, n)
  BY <1>2, <1>4, <1>8, <1>9, AdvanceFine
<1>11. QED
  BY <1>1, <1>2, <1>10 DEF Moves

\* The second call, by the socket.
LEMMA TriesAgain ==
  ASSUME IInv, NEW r \in Runs, Running(r), LocalRoad(r) \notin World.reach, FallsBack(r),
         report' = [report EXCEPT ![r].again = TRUE]
  PROVE  \E n : Moves(r, n)
<1>1. PICK o : o = report[r]
  OBVIOUS
<1>2. /\ Shape(o) /\ Formed(o) /\ o.end = "running" /\ Placed(o, past) /\ Facts(o, past)
  BY <1>1, RunningIs
<1>3. PICK n : n = [o EXCEPT !.again = TRUE]
  OBVIOUS
<1>4. Formed(n) /\ n.again = TRUE /\ \A f \in Fields \ {"again"} : n[f] = o[f]
  BY <1>2, <1>3 DEF Formed, Fields
<1>5. /\ n.kind = o.kind /\ n.asked = o.asked /\ n.input = o.input /\ n.since = o.since
      /\ n.left = o.left /\ n.end = o.end /\ n.old = o.old /\ n.local = o.local /\ n.rows = o.rows
      /\ n.cloud = o.cloud /\ n.names = o.names /\ n.count = o.count /\ n.file = o.file
  BY <1>4 DEF Fields
<1>6. Shape(n)
  BY <1>2, <1>4, <1>5 DEF Shape, Ends
<1>7. Goes(o, n, {}) /\ n.end # "panic"
  BY <1>2, <1>5 DEF Goes, Ends
<1>8. Placed(n, past)
  BY <1>2, <1>5 DEF Placed
<1>9. AgainFact(n, past)
  <2>1. Conf(n, past) = Conf(o, past) /\ (ToTyped(n) <=> ToTyped(o)) /\ n.kind = o.kind
    BY <1>7, SameInput
  <2>2. Away(n, past, "host") <=> Away(o, past, "host")
    BY <1>7, SameHistory
  <2>3. /\ Conf(o, past).near /\ o.kind # "apiCheck" /\ ~ToTyped(o)
        /\ Away(o, past, "host")
    BY <1>1, LocalRoadIs
  <2>. QED
    BY <2>1, <2>2, <2>3 DEF AgainFact
<1>10. LocalFact(n, past) /\ RowsFact(n, past) /\ CloudFact(n, past)
  BY <1>2, <1>5, <1>7, LocalKept, RowsKept, CloudKept DEF Facts
<1>11. CountFact(n, past) /\ FileFact(n, past) /\ NamesFact(n, past) /\ ExactFact(n, past)
  BY <1>2, <1>5, <1>7, CountKept, FileKept, NamesKept, ExactKept DEF Facts
<1>12. GoneFact(n, past)
  BY <1>2, <1>5, <1>7, GoneKept DEF Facts
<1>13. Calm(o, n)
  BY <1>5 DEF Calm, Hushes
<1>14. report' = [report EXCEPT ![r] = n]
  BY <1>1, <1>3
<1>15. QED
  BY <1>1, <1>6, <1>8, <1>9, <1>10, <1>11, <1>12, <1>13, <1>14 DEF Moves, Fine, Facts

LEMMA AskLocalStep ==
  ASSUME IInv, NEW r \in Runs, AskLocal(r)
  PROVE  \E n : Moves(r, n)
<1>1. PICK step \in {"local", "tables"} : At(r, step)
  BY DEF AskLocal
<1>2. Running(r) /\ Head(report[r].left) = step
  BY <1>1, AtIs
<1>3. At(r, "tables") <=> step = "tables"
  BY <1>1, <1>2 DEF At
<1>4. ConfigOf(r) = Conf(report[r], past)
  BY <1>2, RunningIs
<1>5. LocalSkipped(r) <=> Skips(report[r], past) \/ (step = "tables" /\ ~report[r].local.ok)
  BY <1>3, <1>4 DEF LocalSkipped, Skips
<1>6. CASE LocalSkipped(r)
  <2>1. Took(r, report[r])
    BY <1>6 DEF AskLocal
  <2>. QED
    BY <1>1, <1>5, <1>6, <2>1, NoneSet
<1>7. CASE ~LocalSkipped(r) /\ LocalRoad(r) \in World.reach
  <2>1. PICK x : x = Reached(LocalRoad(r))
    OBVIOUS
  <2>2. Came(report[r], past, x) /\ x.ok
    BY <1>2, <1>7, <2>1, AnswerCame
  <2>3. CASE step = "local"
    <3>1. Took(r, [report[r] EXCEPT !["local"] = x])
      BY <1>1, <1>7, <2>1, <2>3 DEF AskLocal
    <3>. QED
      BY <1>1, <1>5, <1>7, <2>2, <2>3, <3>1, LocalSet
  <2>4. CASE step = "tables"
    <3>1. ~At(r, "local")
      BY <1>2, <2>4 DEF At
    <3>2. Took(r, [report[r] EXCEPT !["rows"] = x])
      BY <1>7, <2>1, <3>1 DEF AskLocal
    <3>. QED
      BY <1>1, <1>5, <1>7, <2>2, <2>4, <3>2, RowsSet
  <2>. QED
    BY <2>3, <2>4
<1>8. CASE ~LocalSkipped(r) /\ LocalRoad(r) \notin World.reach /\ FallsBack(r)
  <2>1. report' = [report EXCEPT ![r].again = TRUE]
    BY <1>8 DEF AskLocal
  <2>. QED
    BY <1>2, <1>8, <2>1, TriesAgain
<1>9. CASE ~LocalSkipped(r) /\ LocalRoad(r) \notin World.reach /\ ~FallsBack(r)
  <2>1. Took(r, report[r])
    BY <1>9 DEF AskLocal
  <2>2. \A way \in Ways(report[r], past) : Away(report[r], past, way)
    BY <1>2, <1>9, LocalRoadIs
  <2>. QED
    BY <1>1, <2>1, <2>2, NoneSet
<1>10. QED
  BY <1>6, <1>7, <1>8, <1>9
-----------------------------------------------------------------------------
\* The list of snapshots is made first, and worked on afterwards.
LEMMA GlobFirst ==
  ASSUME NEW kind \in {"status", "snapshots", "apiSnapshots"}, NEW l \in Rests(kind), l # <<>>
  PROVE  /\ Head(l) \in {"stat", "pick"} => "glob" \notin Range(l)
         /\ Head(l) = "glob" => l = Order[kind]
<1>1. kind \in Kinds
  BY DEF Kinds
<1>2. PICK ord \in Seq(Steps), n \in 1 .. 6 : \E i \in 1 .. (n + 1) :
        ord = Order[kind] /\ n = Len(ord) /\ RestAt(l, ord, n, i)
  BY <1>1, RestIs
<1>3. PICK i \in 1 .. (n + 1) : RestAt(l, ord, n, i)
  BY <1>2
<1>4. /\ ord[1] = "glob" /\ 1 \in 1 .. n
      /\ \A j \in 1 .. n : ord[j] = "glob" => j = 1
  <2>1. CASE kind = "status"
    <3>1. ord = <<"glob", "pick", "again", "count", "local", "cloud">>
      BY <1>2, <2>1 DEF Order
    <3>. QED
      BY <1>2, <3>1
  <2>2. CASE kind = "snapshots"
    <3>1. ord = <<"glob", "stat", "again">>
      BY <1>2, <2>2 DEF Order
    <3>. QED
      BY <1>2, <3>1
  <2>3. CASE kind = "apiSnapshots"
    <3>1. ord = <<"glob", "stat">>
      BY <1>2, <2>3 DEF Order
    <3>. QED
      BY <1>2, <3>1
  <2>. QED
    BY <2>1, <2>2, <2>3
<1>5. /\ l \in Seq(Steps) /\ Len(l) = n - i + 1 /\ Range(l) = {ord[j] : j \in i .. n}
      /\ \A j \in 1 .. (n - i + 1) : l[j] = ord[i + j - 1]
      /\ l = SubSeq(ord, i, n)
  BY <1>3 DEF RestAt
<1>6. i \in 1 .. n /\ Head(l) = ord[i]
  <2>1. 1 \in 1 .. (n - i + 1) /\ i + 1 - 1 = i /\ i \in 1 .. n
    BY <1>5
  <2>2. Head(l) = l[1]
    BY <1>5
  <2>. QED
    BY <1>5, <2>1, <2>2
<1>7. Head(l) = "glob" => l = Order[kind]
  <2>1. SubSeq(ord, 1, n) = ord
    BY <1>2
  <2>. QED
    BY <1>2, <1>4, <1>5, <1>6, <2>1
<1>8. ASSUME Head(l) \in {"stat", "pick"} PROVE "glob" \notin Range(l)
  <2>1. i # 1
    BY <1>4, <1>6, <1>8
  <2>2. \A j \in i .. n : j \in 1 .. n /\ j # 1
    BY <1>6, <2>1
  <2>. QED
    BY <1>4, <1>5, <2>2
<1>9. QED
  BY <1>7, <1>8

\* The snapshots of the world, as lists are made of them.
LEMMA FilesAre ==
  ASSUME IInv, NEW r \in Runs, Running(r)
  PROVE  /\ Now(past).files \in Seq(Snapshots) /\ Distinct(Now(past).files)
         /\ Now(past) \in Seen(report[r], past) /\ Range(Now(past).files) \subseteq Snapshots
<1>1. /\ World = Now(past) /\ World \in Seen(report[r], past) /\ World \in OneWorld
      /\ Distinct(World.files)
  BY RunningIs
<1>2. World.files \in Seq(Snapshots)
  BY <1>1 DEF OneWorld
<1>3. QED
  BY <1>1, <1>2 DEF Range

LEMMA GlobSome ==
  ASSUME IInv, NEW r \in Runs, At(r, "glob"),
         NEW x, x = Among(World.files, Listed(report[r].kind)),
         ~(report[r].kind = "status" /\ x = <<>>),
         Took(r, [report[r] EXCEPT !["names"] = x])
  PROVE  \E n : Moves(r, n)
<1>1. PICK o, w : o = report[r] /\ w = Now(past)
  OBVIOUS
<1>2. /\ Shape(o) /\ o.kind \in Kinds /\ Facts(o, past) /\ Running(r) /\ World = w
      /\ o.left \in Rests(o.kind) /\ o.left # <<>> /\ Head(o.left) = "glob"
  BY <1>1, RunningIs, AtIs
<1>3. o.kind \in {"status", "snapshots", "apiSnapshots"}
  BY <1>1, <1>2, NextIs, StepKinds
<1>4. w.files \in Seq(Snapshots) /\ w \in Seen(o, past) /\ Range(w.files) \subseteq Snapshots
  BY <1>1, <1>2, FilesAre
<1>5. x \in Seq(Snapshots) /\ Range(x) = Range(w.files) \cap Listed(o.kind)
  BY <1>1, <1>2, <1>4, AmongRange
<1>6. o.kind # "status" => x = w.files
  <2>1. o.kind # "status" => Listed(o.kind) = Snapshots
    BY <1>3 DEF Listed
  <2>. QED
    BY <1>1, <1>2, <1>4, <2>1, AmongAll
<1>7. o.kind = "status" => x = Among(w.files, Pushes) /\ x # <<>>
  BY <1>1, <1>2 DEF Listed
<1>8. PICK n : /\ report' = [report EXCEPT ![r] = n]
               /\ Advances(o, n, past, "glob", "names", x)
  BY <1>1, SetsOne DEF Data
<1>9. /\ LocalFact(n, past) /\ RowsFact(n, past) /\ CloudFact(n, past) /\ CountFact(n, past)
      /\ FileFact(n, past)
  BY <1>2, <1>8, Untouched
<1>10. Goes(o, n, {"glob"}) /\ n.names = x /\ n.end \in {"running", "done"}
  BY <1>8 DEF Advances
<1>11. /\ n.kind = o.kind /\ Seen(n, past) = Seen(o, past)
       /\ Range(n.left) = Range(o.left) \ {"glob"}
  BY <1>10 DEF Goes, Seen
<1>12. NamesFact(n, past)
  <2>1. "glob" \notin Range(n.left)
    BY <1>11
  <2>2. ASSUME n.kind \in {"snapshots", "apiSnapshots"}, NEW f \in Snapshots
        PROVE f \in Range(n.names) <=> f \in Range(w.files)
    BY <1>6, <1>10, <1>11, <2>2
  <2>. QED
    BY <1>4, <1>5, <1>10, <1>11, <2>1, <2>2 DEF NamesFact
<1>13. ExactFact(n, past)
  <2>1. o.kind \in {"snapshots", "apiSnapshots"} => n.names = w.files
    BY <1>6, <1>10
  <2>2. Order[o.kind] = o.left
    BY <1>2, <1>3, GlobFirst
  <2>3. o.kind = "snapshots" => "stat" \in Range(n.left)
    <3>1. Order["snapshots"] = <<"glob", "stat", "again">>
      BY DEF Order
    <3>2. "stat" \in Range(Order["snapshots"])
      BY <3>1 DEF Range
    <3>. QED
      BY <1>11, <2>2, <3>2
  <2>4. o.kind = "status" => "pick" \in Range(n.left)
    <3>1. Order["status"] = <<"glob", "pick", "again", "count", "local", "cloud">>
      BY DEF Order
    <3>2. "pick" \in Range(Order["status"])
      BY <3>1 DEF Range
    <3>. QED
      BY <1>11, <2>2, <3>2
  <2>. QED
    BY <1>1, <1>7, <1>10, <1>11, <2>1, <2>3, <2>4 DEF ExactFact
<1>14. GoneFact(n, past)
  <2>1. \A f \in Range(n.names) : f \in Range(w.files)
    BY <1>5, <1>10
  <2>2. "pick" \in Range(n.left) => n.names # <<>>
    <3>1. "pick" \in Range(n.left) => "pick" \in Range(Order[o.kind])
      BY <1>2, <1>11, RestTail
    <3>2. "pick" \in Range(n.left) => o.kind = "status"
      BY <1>2, <3>1, StepKinds
    <3>. QED
      BY <1>7, <1>10, <3>2
  <2>. QED
    BY <1>1, <1>10, <2>1, <2>2 DEF GoneFact
<1>15. Fine(n, past) /\ Calm(o, n)
  BY <1>8, <1>9, <1>12, <1>13, <1>14, AdvanceFine
<1>16. QED
  BY <1>1, <1>8, <1>15 DEF Moves

\* status finds no push, and goes on without.
LEMMA GlobNothing ==
  ASSUME IInv, NEW r \in Runs, At(r, "glob"), report[r].kind = "status",
         Among(World.files, Pushes) = <<>>,
         report' = [report EXCEPT ![r].left = SubSeq(@, 4, Len(@))]
  PROVE  \E n : Moves(r, n)
<1>1. PICK o, w : o = report[r] /\ w = Now(past)
  OBVIOUS
<1>2. /\ Shape(o) /\ Formed(o) /\ o.end = "running" /\ o.kind \in Kinds /\ Placed(o, past)
      /\ Facts(o, past) /\ World = w
      /\ o.left \in Rests(o.kind) /\ o.left # <<>> /\ Head(o.left) = "glob"
      /\ "glob" \in Range(o.left)
  BY <1>1, RunningIs, AtIs, NextIs
<1>3. Order["status"] = <<"glob", "pick", "again", "count", "local", "cloud">>
  BY DEF Order
<1>4. o.left = Order["status"]
  BY <1>1, <1>2, GlobFirst
<1>5. PICK rest : rest = <<"count", "local", "cloud">>
  OBVIOUS
<1>6. /\ Len(o.left) = 6 /\ rest = SubSeq(o.left, 4, Len(o.left)) /\ rest # <<>>
      /\ Range(rest) = Range(o.left) \ {"glob", "pick", "again"}
  <2>1. Len(o.left) = 6 /\ SubSeq(o.left, 4, 6) = rest
    <3>1. PICK s : s = <<"glob", "pick", "again", "count", "local", "cloud">>
      OBVIOUS
    <3>2. s \in Seq(Steps) /\ Len(s) = 6 /\ s[4] = "count" /\ s[5] = "local" /\ s[6] = "cloud"
      BY <3>1 DEF Steps
    <3>3. PICK m \in Int, n \in Int : m = 4 /\ n = 6
      OBVIOUS
    <3>4. \A i \in m .. n : s[i] \in Steps
      <4>1. \A i \in 1 .. 6 : s[i] \in Steps
        BY <3>1 DEF Steps
      <4>2. m .. n \subseteq 1 .. 6
        BY <3>3
      <4>. QED
        BY <4>1, <4>2
    <3>5. /\ SubSeq(s, m, n) \in Seq(Steps) /\ Len(SubSeq(s, m, n)) = IF m <= n THEN n - m + 1 ELSE 0
          /\ \A i \in 1 .. n - m + 1 : SubSeq(s, m, n)[i] = s[m + i - 1]
      BY <3>4, SubSeqProperties
    <3>6. /\ SubSeq(s, m, n) \in Seq(Steps) /\ Len(SubSeq(s, m, n)) = 3
          /\ \A i \in 1 .. 3 : SubSeq(s, m, n)[i] = s[3 + i]
      BY <3>3, <3>5
    <3>7. /\ rest \in Seq(Steps) /\ Len(rest) = 3
          /\ rest[1] = "count" /\ rest[2] = "local" /\ rest[3] = "cloud"
      BY <1>5 DEF Steps
    <3>8. SubSeq(s, m, n) = rest
      <4>1. PICK t : t = SubSeq(s, m, n)
        OBVIOUS
      <4>2. t \in Seq(Steps) /\ Len(t) = 3 /\ t[1] = s[4] /\ t[2] = s[5] /\ t[3] = s[6]
        <5>1. 1 \in 1 .. 3 /\ 2 \in 1 .. 3 /\ 3 \in 1 .. 3 /\ 3 + 1 = 4 /\ 3 + 2 = 5 /\ 3 + 3 = 6
          OBVIOUS
        <5>. QED
          BY <3>6, <4>1, <5>1
      <4>3. \A i \in 1 .. Len(t) : t[i] = rest[i]
        <5>1. \A i \in 1 .. 3 : i = 1 \/ i = 2 \/ i = 3
          OBVIOUS
        <5>. QED
          BY <3>2, <3>7, <4>2, <5>1
      <4>. QED
        BY <3>7, <4>1, <4>2, <4>3, SeqEqual
    <3>. QED
      BY <1>3, <1>4, <3>1, <3>2, <3>3, <3>8
  <2>2. Range(rest) = {"count", "local", "cloud"}
    BY <1>5 DEF Range
  <2>3. Range(o.left) = {"glob", "pick", "again", "count", "local", "cloud"}
    BY <1>3, <1>4 DEF Range
  <2>4. rest # <<>>
    BY <1>5
  <2>. QED
    BY <2>1, <2>2, <2>3, <2>4
<1>7. rest \in Rests(o.kind)
  <2>1. Len(Order[o.kind]) = 6 /\ 4 \in 1 .. 7
    BY <1>1, <1>4, <1>6
  <2>2. rest = SubSeq(Order[o.kind], 4, Len(Order[o.kind]))
    BY <1>1, <1>4, <1>6
  <2>. QED
    BY <2>1, <2>2 DEF Rests
<1>8. PICK n : n = [o EXCEPT !.left = rest]
  OBVIOUS
<1>9. Formed(n) /\ n.left = rest /\ \A f \in Fields \ {"left"} : n[f] = o[f]
  BY <1>2, <1>8 DEF Formed, Fields
<1>10. /\ n.kind = o.kind /\ n.asked = o.asked /\ n.input = o.input /\ n.since = o.since
       /\ n.again = o.again /\ n.end = o.end /\ n.old = o.old /\ n.local = o.local /\ n.rows = o.rows
       /\ n.cloud = o.cloud /\ n.names = o.names /\ n.count = o.count /\ n.file = o.file
  BY <1>9 DEF Fields
<1>11. Shape(n)
  BY <1>2, <1>6, <1>7, <1>9, <1>10 DEF Shape, Ends
<1>12. Goes(o, n, {"glob", "pick", "again"}) /\ n.end # "panic"
  BY <1>2, <1>6, <1>9, <1>10 DEF Goes, Ends
<1>13. Placed(n, past)
  BY <1>2, <1>10 DEF Placed
<1>14. AgainFact(n, past)
  <2>1. Conf(n, past) = Conf(o, past) /\ (ToTyped(n) <=> ToTyped(o)) /\ n.kind = o.kind
    BY <1>12, SameInput
  <2>2. Away(n, past, "host") <=> Away(o, past, "host")
    BY <1>12, SameHistory
  <2>. QED
    BY <1>2, <1>10, <2>1, <2>2 DEF Facts, AgainFact
<1>15. LocalFact(n, past) /\ RowsFact(n, past) /\ CloudFact(n, past)
  BY <1>2, <1>10, <1>12, LocalKept, RowsKept, CloudKept DEF Facts
<1>16. CountFact(n, past) /\ FileFact(n, past)
  BY <1>2, <1>10, <1>12, CountKept, FileKept DEF Facts
<1>17. n.names = <<>> /\ Range(n.names) = {}
  <2>1. n.names = <<>>
    BY <1>2, <1>10 DEF Facts, NamesFact
  <2>. QED
    BY <2>1 DEF Range
<1>18. NamesFact(n, past)
  BY <1>1, <1>6, <1>9, <1>10, <1>17 DEF NamesFact
<1>19. ExactFact(n, past)
  BY <1>1, <1>2, <1>6, <1>9, <1>10, <1>17 DEF ExactFact
<1>20. GoneFact(n, past)
  BY <1>6, <1>9, <1>12, <1>17 DEF GoneFact
<1>21. Calm(o, n)
  BY <1>1, <1>10 DEF Calm, Hushes
<1>22. report' = [report EXCEPT ![r] = n]
  BY <1>1, <1>6, <1>8
<1>23. QED
  BY <1>1, <1>11, <1>13, <1>14, <1>15, <1>16, <1>18, <1>19, <1>20, <1>21, <1>22 DEF Moves, Fine, Facts

LEMMA GlobStep ==
  ASSUME IInv, NEW r \in Runs, Glob(r)
  PROVE  \E n : Moves(r, n)
<1>1. At(r, "glob")
  BY DEF Glob
<1>2. PICK x : x = Among(World.files, Listed(report[r].kind))
  OBVIOUS
<1>3. CASE report[r].kind = "status" /\ x = <<>>
  <2>1. x = Among(World.files, Pushes)
    BY <1>2, <1>3 DEF Listed
  <2>2. report' = [report EXCEPT ![r].left = SubSeq(@, 4, Len(@))]
    BY <1>2, <1>3 DEF Glob
  <2>. QED
    BY <1>1, <1>3, <2>1, <2>2, GlobNothing
<1>4. CASE ~(report[r].kind = "status" /\ x = <<>>)
  <2>1. Took(r, [report[r] EXCEPT !["names"] = x])
    BY <1>2, <1>4 DEF Glob
  <2>. QED
    BY <1>1, <1>2, <1>4, <2>1, GlobSome
<1>5. QED
  BY <1>3, <1>4

LEMMA StatStep ==
  ASSUME IInv, NEW r \in Runs, Stat(r)
  PROVE  \E n : Moves(r, n)
<1>1. PICK o, w : o = report[r] /\ w = Now(past)
  OBVIOUS
<1>2. At(r, "stat")
  BY DEF Stat
<1>3. /\ o.kind \in Kinds /\ Facts(o, past) /\ Running(r) /\ World = w /\ o.end = "running"
      /\ o.left \in Rests(o.kind) /\ o.left # <<>> /\ Head(o.left) = "stat"
      /\ "stat" \in Range(o.left) /\ "stat" \in Range(Order[o.kind])
  BY <1>1, <1>2, RunningIs, AtIs, NextIs
<1>4. o.kind \in {"snapshots", "apiSnapshots"}
  BY <1>3, StepKinds
<1>5. "glob" \notin Range(o.left) /\ Passed(o, "glob")
  <2>1. "glob" \notin Range(o.left)
    BY <1>3, <1>4, GlobFirst
  <2>2. "glob" \in Range(Order[o.kind])
    <3>1. Order["snapshots"] = <<"glob", "stat", "again">> /\ Order["apiSnapshots"] = <<"glob", "stat">>
      BY DEF Order
    <3>. QED
      BY <1>4, <3>1 DEF Range
  <2>. QED
    BY <1>3, <2>1, <2>2 DEF Passed
<1>6. w.files \in Seq(Snapshots) /\ w \in Seen(o, past) /\ Range(w.files) \subseteq Snapshots
  BY <1>1, <1>3, FilesAre
<1>7. PICK there : there = Among(o.names, Range(w.files))
  OBVIOUS
<1>8. there \in Seq(Snapshots) /\ Range(there) = Range(o.names) \cap Range(w.files)
  BY <1>3, <1>7, AmongRange DEF Facts, NamesFact
<1>9. PICK x : x = IF o.kind = "snapshots" THEN Reverse(there) ELSE there
  OBVIOUS
<1>10. x \in Seq(Snapshots) /\ Range(x) = Range(there)
  BY <1>8, <1>9, ReverseRange
<1>11. Took(r, [report[r] EXCEPT !["names"] = x])
  BY <1>1, <1>3, <1>7, <1>9 DEF Stat
<1>12. PICK n : /\ report' = [report EXCEPT ![r] = n]
                /\ Advances(o, n, past, "stat", "names", x)
  BY <1>1, <1>2, <1>11, SetsOne DEF Data
<1>13. /\ LocalFact(n, past) /\ RowsFact(n, past) /\ CloudFact(n, past) /\ CountFact(n, past)
       /\ FileFact(n, past)
  BY <1>3, <1>12, Untouched
<1>14. Goes(o, n, {"stat"}) /\ n.names = x /\ n.end \in {"running", "done"}
  BY <1>12 DEF Advances
<1>15. /\ n.kind = o.kind /\ n.since = o.since /\ Seen(n, past) = Seen(o, past)
       /\ Range(n.left) = Range(o.left) \ {"stat"}
  BY <1>14 DEF Goes, Seen
<1>16. NamesFact(n, past)
  <2>1. ASSUME NEW f \in Snapshots
        PROVE /\ f \in Range(n.names) => \E v \in Seen(n, past) : f \in Range(v.files)
              /\ f \notin Range(n.names) => \E v \in Seen(n, past) : f \notin Range(v.files)
    <3>1. f \in Range(n.names) <=> f \in Range(o.names) /\ f \in Range(w.files)
      BY <1>8, <1>10, <1>14
    <3>2. f \notin Range(o.names) => \E v \in Seen(o, past) : f \notin Range(v.files)
      BY <1>3, <1>4, <1>5 DEF Facts, NamesFact
    <3>. QED
      BY <1>6, <1>15, <3>1, <3>2
  <2>2. "glob" \notin Range(n.left)
    BY <1>5, <1>15
  <2>. QED
    BY <1>10, <1>14, <2>1, <2>2 DEF NamesFact
<1>17. ExactFact(n, past)
  <2>1. ASSUME n.since = Len(past) PROVE there = w.files
    <3>1. o.names = w.files
      BY <1>1, <1>3, <1>4, <1>5, <1>15, <2>1 DEF Facts, ExactFact
    <3>. QED
      BY <1>6, <1>7, <3>1, AmongAll
  <2>. QED
    BY <1>1, <1>4, <1>9, <1>14, <1>15, <2>1 DEF ExactFact
<1>18. GoneFact(n, past)
  <2>1. \A f \in Range(n.names) : f \in Range(w.files)
    BY <1>8, <1>10, <1>14
  <2>2. "pick" \notin Range(n.left)
    <3>1. "pick" \notin Range(Order[o.kind])
      BY <1>3, <1>4, StepKinds
    <3>2. Range(n.left) \subseteq Range(Order[o.kind])
      BY <1>3, <1>15, RestTail
    <3>. QED
      BY <3>1, <3>2
  <2>. QED
    BY <1>1, <1>14, <2>1, <2>2 DEF GoneFact
<1>19. Fine(n, past) /\ Calm(o, n)
  BY <1>12, <1>13, <1>16, <1>17, <1>18, AdvanceFine
<1>20. QED
  BY <1>1, <1>12, <1>19 DEF Moves

LEMMA PickStep ==
  ASSUME IInv, NEW r \in Runs, Pick(r)
  PROVE  \E n : Moves(r, n)
<1>1. PICK o, w : o = report[r] /\ w = Now(past)
  OBVIOUS
<1>2. At(r, "pick")
  BY DEF Pick
<1>3. /\ o.kind \in Kinds /\ Facts(o, past) /\ Running(r) /\ World = w /\ o.end = "running"
      /\ o.left \in Rests(o.kind) /\ o.left # <<>> /\ Head(o.left) = "pick"
      /\ "pick" \in Range(o.left) /\ "pick" \in Range(Order[o.kind])
  BY <1>1, <1>2, RunningIs, AtIs, NextIs
<1>4. o.kind = "status"
  BY <1>3, StepKinds
<1>5. "glob" \notin Range(o.left) /\ Passed(o, "glob")
  <2>1. "glob" \notin Range(o.left)
    BY <1>3, <1>4, GlobFirst
  <2>2. Order["status"] = <<"glob", "pick", "again", "count", "local", "cloud">>
    BY DEF Order
  <2>3. "glob" \in Range(Order[o.kind])
    BY <1>4, <2>2 DEF Range
  <2>. QED
    BY <1>3, <2>1, <2>3 DEF Passed
<1>6. w.files \in Seq(Snapshots) /\ w \in Seen(o, past) /\ Range(w.files) \subseteq Snapshots
  BY <1>1, <1>3, FilesAre
<1>7. o.names \in Seq(Snapshots) /\ o.names # <<>>
  BY <1>3, <1>5 DEF Facts, NamesFact, GoneFact
<1>8. PICK there : there = Among(o.names, Range(w.files))
  OBVIOUS
<1>9. there \in Seq(Snapshots) /\ Range(there) = Range(o.names) \cap Range(w.files)
  BY <1>7, <1>8, AmongRange
<1>10. PICK f : f = IF there = <<>> THEN Head(o.names) ELSE Last(there)
  OBVIOUS
<1>11. f \in Range(o.names) /\ f \in Snapshots
  <2>1. CASE there = <<>>
    BY <1>7, <1>10, <2>1, LastIn
  <2>2. CASE there # <<>>
    BY <1>7, <1>9, <1>10, <2>2, LastIn
  <2>. QED
    BY <2>1, <2>2
<1>12. Took(r, [report[r] EXCEPT !["names"] = <<f>>])
  BY <1>1, <1>3, <1>8, <1>10 DEF Pick
<1>13. PICK n : /\ report' = [report EXCEPT ![r] = n]
                /\ Advances(o, n, past, "pick", "names", <<f>>)
  BY <1>1, <1>2, <1>12, SetsOne DEF Data
<1>14. /\ LocalFact(n, past) /\ RowsFact(n, past) /\ CloudFact(n, past) /\ CountFact(n, past)
       /\ FileFact(n, past)
  BY <1>3, <1>13, Untouched
<1>15. Goes(o, n, {"pick"}) /\ n.names = <<f>> /\ n.end \in {"running", "done"}
  BY <1>13 DEF Advances
<1>16. /\ n.kind = "status" /\ n.since = o.since /\ "glob" \notin Range(n.left)
       /\ "pick" \notin Range(n.left)
  BY <1>4, <1>5, <1>15 DEF Goes
<1>17. NamesFact(n, past)
  BY <1>11, <1>15, <1>16 DEF NamesFact
<1>18. ExactFact(n, past)
  <2>1. ASSUME n.since = Len(past)
        PROVE  Among(w.files, Pushes) # <<>> /\ f = Last(Among(w.files, Pushes))
    <3>1. o.names = Among(w.files, Pushes)
      BY <1>1, <1>3, <1>4, <1>5, <1>16, <2>1 DEF Facts, ExactFact
    <3>2. Range(o.names) \subseteq Range(w.files)
      BY <1>6, <3>1, AmongRange
    <3>3. there = o.names
      BY <1>7, <1>8, <3>2, AmongAll
    <3>. QED
      BY <1>7, <1>10, <3>1, <3>3
  <2>. QED
    BY <1>1, <1>15, <1>16, <2>1 DEF ExactFact
<1>19. GoneFact(n, past)
  <2>1. f \in Range(w.files) \/ Deleted(o, past, f)
    BY <1>1, <1>3, <1>11 DEF Facts, GoneFact
  <2>2. Deleted(n, past, f) <=> Deleted(o, past, f)
    BY <1>15, SameHistory
  <2>3. Range(n.names) = {f}
    BY <1>15 DEF Range
  <2>. QED
    BY <1>1, <1>15, <1>16, <2>1, <2>2, <2>3 DEF GoneFact
<1>20. Fine(n, past) /\ Calm(o, n)
  BY <1>13, <1>14, <1>17, <1>18, <1>19, AdvanceFine
<1>21. QED
  BY <1>1, <1>13, <1>20 DEF Moves
-----------------------------------------------------------------------------
\* The order of a check of the dashboard.
LEMMA CheckOrder ==
  ASSUME NEW l \in Rests("apiCheck"), l # <<>>
  PROVE  /\ Head(l) = "hush" => "note" \notin Range(l) /\ "speak" \in Range(l)
         /\ Head(l) = "speak" => "note" \notin Range(l)
         /\ "note" \in Range(l) => Head(l) = "note" /\ "speak" \in Range(l)
<1>1. PICK kind \in Kinds : kind = "apiCheck"
  BY DEF Kinds
<1>2. PICK ord : ord = Order[kind]
  OBVIOUS
<1>3. ord = <<"note", "hush", "local", "speak", "count">>
  BY <1>1, <1>2 DEF Order
<1>4. /\ 1 \in DOMAIN ord /\ 2 \in DOMAIN ord /\ 3 \in DOMAIN ord /\ 4 \in DOMAIN ord /\ 5 \in DOMAIN ord
      /\ ord[1] = "note" /\ ord[2] = "hush" /\ ord[3] = "local" /\ ord[4] = "speak" /\ ord[5] = "count"
      /\ Range(ord) = {"note", "hush", "local", "speak", "count"}
  BY <1>3 DEF Range
<1>5. \A a \in DOMAIN ord, b \in DOMAIN ord :
        a < b /\ ord[a] \in Range(l) => ord[b] \in Range(l) /\ Head(l) # ord[b]
  BY <1>1, <1>2, RestOrder
<1>6. Head(l) \in Range(l) /\ Range(l) \subseteq Range(ord)
  BY <1>1, <1>2, RestTail
<1>7. "note" \in Range(l) => /\ "speak" \in Range(l)
                             /\ Head(l) \notin {"hush", "local", "speak", "count"}
  BY <1>4, <1>5
<1>8. "hush" \in Range(l) => "speak" \in Range(l)
  BY <1>4, <1>5
<1>9. QED
  BY <1>4, <1>6, <1>7, <1>8

\* The two ways to say that a check silences the dashboard.
LEMMA SilencedIs ==
  ASSUME IInv, NEW r \in Runs
  PROVE  Silenced(r) <=> Hushes(report[r])
<1>1. PICK o : o = report[r]
  OBVIOUS
<1>2. Shape(o)
  BY <1>1 DEF IInv, ReportTyped, Fine
<1>3. CASE o.kind # "apiCheck"
  BY <1>1, <1>3 DEF Silenced, Hushes
<1>4. CASE o.kind = "apiCheck"
  <2>1. o.left \in Rests("apiCheck") /\ (o.end = "running" <=> o.left # <<>>)
    BY <1>2, <1>4 DEF Shape, Idle
  <2>2. CASE o.left = <<>>
    <3>1. Range(o.left) = {}
      BY <2>2 DEF Range
    <3>. QED
      BY <1>1, <3>1 DEF Silenced, Hushes
  <2>3. CASE o.left # <<>>
    <3>1. "note" \in Range(o.left) => Head(o.left) = "note"
      BY <2>1, <2>3, CheckOrder
    <3>2. Head(o.left) \in Range(o.left)
      <4>1. "apiCheck" \in Kinds
        BY DEF Kinds
      <4>. QED
        BY <2>1, <2>3, <4>1, RestTail
    <3>3. At(r, "note") <=> Head(o.left) = "note"
      BY <1>1, <2>1, <2>3 DEF At, Running
    <3>. QED
      BY <1>1, <1>4, <3>1, <3>2, <3>3 DEF Silenced, Hushes
  <2>. QED
    BY <2>2, <2>3
<1>5. QED
  BY <1>3, <1>4

\* Of reports that move, only one changes, and the world does not.
LEMMA OneFine ==
  ASSUME IInv, NEW r \in Runs, NEW n, report' = [report EXCEPT ![r] = n], Fine(n, past),
         UNCHANGED past
  PROVE  /\ ReportTyped' /\ Worlds(past)'
         /\ report'[r] = n /\ \A s \in Runs \ {r} : report'[s] = report[s]
<1>1. report = [s \in Runs |-> report[s]] /\ \A s \in Runs : Fine(report[s], past)
  BY DEF IInv, ReportTyped
<1>2. /\ report' = [s \in Runs |-> report'[s]]
      /\ report'[r] = n /\ \A s \in Runs \ {r} : report'[s] = report[s]
  BY <1>1, OneReport
<1>3. \A s \in Runs : Fine(report'[s], past)
  BY <1>1, <1>2
<1>4. ReportTyped'
  BY <1>2, <1>3 DEF ReportTyped
<1>5. Worlds(past)'
  BY DEF IInv
<1>6. QED
  BY <1>2, <1>4, <1>5

LEMMA CalmStep ==
  ASSUME IInv, NEW r \in Runs, NEW n, Moves(r, n), UNCHANGED <<past, overlaps>>,
         quiet' = quiet \/ (quiet' = TRUE /\ Hushes(n))
  PROVE  IInv'
<1>1. PICK o : o = report[r]
  OBVIOUS
<1>2. report' = [report EXCEPT ![r] = n] /\ Fine(n, past) /\ Calm(o, n)
  BY <1>1 DEF Moves
<1>3. /\ ReportTyped' /\ Worlds(past)'
      /\ report'[r] = n /\ \A s \in Runs \ {r} : report'[s] = report[s]
  BY <1>2, OneFine
<1>4. \A s \in Runs : (Hushes(report'[s]) <=> Hushes(report[s])) /\ report'[s].old = report[s].old
  BY <1>1, <1>2, <1>3 DEF Calm
<1>5. OldTyped'
  BY <1>4 DEF IInv, OldTyped
<1>6. quiet' \in BOOLEAN /\ overlaps' \in BOOLEAN
  BY DEF IInv
<1>7. QuietFact'
  <2> SUFFICES ASSUME ~overlaps
               PROVE /\ quiet' => \E s \in Runs : Hushes(report'[s])
                     /\ \A s, t \in Runs : Hushes(report'[s]) /\ Hushes(report'[t]) => s = t
                     /\ \A s \in Runs : Hushes(report'[s]) => ~report'[s].old
    BY DEF QuietFact
  <2>1. /\ quiet => \E s \in Runs : Hushes(report[s])
        /\ \A s, t \in Runs : Hushes(report[s]) /\ Hushes(report[t]) => s = t
        /\ \A s \in Runs : Hushes(report[s]) => ~report[s].old
    BY DEF IInv, QuietFact
  <2>2. quiet' => \E s \in Runs : Hushes(report'[s])
    BY <1>3, <1>4, <2>1
  <2>. QED
    BY <1>4, <2>1, <2>2
<1>8. QED
  BY <1>3, <1>5, <1>6, <1>7 DEF IInv

LEMMA HushStep ==
  ASSUME IInv, NEW r \in Runs, Hush(r)
  PROVE  IInv'
<1>1. PICK o : o = report[r]
  OBVIOUS
<1>2. At(r, "hush") /\ Took(r, report[r]) /\ quiet' = TRUE /\ UNCHANGED <<past, overlaps>>
  BY DEF Hush
<1>3. PICK n : Moves(r, n)
  BY <1>2, PlainStep
<1>4. Hushes(n)
  <2>1. /\ o.kind \in Kinds /\ o.left \in Rests(o.kind) /\ o.left # <<>> /\ Head(o.left) = "hush"
        /\ "hush" \in Range(Order[o.kind])
    BY <1>1, <1>2, RunningIs, AtIs, NextIs
  <2>2. o.kind = "apiCheck"
    BY <2>1, StepKinds
  <2>3. Hushes(o)
    BY <2>1, <2>2, CheckOrder DEF Hushes
  <2>. QED
    BY <1>1, <1>3, <2>3 DEF Moves, Calm
<1>5. QED
  BY <1>2, <1>3, <1>4, CalmStep

LEMMA AdvanceAlone ==
  ASSUME NEW o, NEW n, NEW p, NEW step \in {"note", "speak"}, NEW d \in {"old", "found"}, NEW x,
         Advances(o, n, p, step, d, x), Facts(o, p)
  PROVE  Fine(n, p)
<1>1. /\ LocalFact(n, p) /\ RowsFact(n, p) /\ CloudFact(n, p) /\ CountFact(n, p)
      /\ FileFact(n, p) /\ NamesFact(n, p) /\ ExactFact(n, p) /\ GoneFact(n, p)
  BY Untouched
<1>2. Shape(n) /\ AgainFact(n, p) /\ Placed(n, p)
  BY DEF Advances
<1>3. QED
  BY <1>1, <1>2 DEF Fine, Facts

\* As long as checks did not overlap, a check finds the dashboard as it is
\* outside of checks: not silent.
LEMMA NoteQuietStep ==
  ASSUME IInv, NEW r \in Runs, NoteQuiet(r)
  PROVE  IInv'
<1>1. PICK o : o = report[r]
  OBVIOUS
<1>2. /\ At(r, "note") /\ Took(r, [report[r] EXCEPT !["old"] = quiet])
      /\ overlaps' = (overlaps \/ \E other \in Runs : Silenced(other)) /\ UNCHANGED <<past, quiet>>
  BY DEF NoteQuiet
<1>3. PICK x : x = quiet
  OBVIOUS
<1>4. PICK n : /\ report' = [report EXCEPT ![r] = n]
               /\ Advances(o, n, past, "note", "old", x)
  BY <1>1, <1>2, <1>3, SetsOne DEF Data
<1>5. Facts(o, past)
  BY <1>1, <1>2, RunningIs, AtIs
<1>6. Fine(n, past)
  BY <1>4, <1>5, AdvanceAlone
<1>7. /\ ReportTyped' /\ Worlds(past)'
      /\ report'[r] = n /\ \A s \in Runs \ {r} : report'[s] = report[s]
  BY <1>2, <1>4, <1>6, OneFine
<1>8. n.old = x
  BY <1>4 DEF Advances
<1>9. OldTyped' /\ quiet' \in BOOLEAN /\ overlaps' \in BOOLEAN
  BY <1>2, <1>3, <1>7, <1>8 DEF IInv, OldTyped
<1>10. QuietFact'
  <2> SUFFICES ASSUME ~overlaps'
               PROVE /\ quiet' => \E s \in Runs : Hushes(report'[s])
                     /\ \A s, t \in Runs : Hushes(report'[s]) /\ Hushes(report'[t]) => s = t
                     /\ \A s \in Runs : Hushes(report'[s]) => ~report'[s].old
    BY DEF QuietFact
  <2>1. ~overlaps /\ \A s \in Runs : ~Hushes(report[s])
    BY <1>2, SilencedIs
  <2>2. ~quiet
    BY <2>1 DEF IInv, QuietFact
  <2>3. \A s \in Runs : Hushes(report'[s]) => s = r
    BY <1>7, <2>1
  <2>. QED
    BY <1>2, <1>3, <1>7, <1>8, <2>2, <2>3
<1>11. QED
  BY <1>7, <1>9, <1>10 DEF IInv

LEMMA SpeakStep ==
  ASSUME IInv, NEW r \in Runs, Speak(r)
  PROVE  IInv'
<1>1. PICK o : o = report[r]
  OBVIOUS
<1>2. /\ At(r, "speak") /\ Took(r, report[r]) /\ quiet' = o.old /\ UNCHANGED <<past, overlaps>>
  BY <1>1 DEF Speak
<1>3. PICK n : /\ report' = [report EXCEPT ![r] = n]
               /\ Advances(o, n, past, "speak", "found", o.found)
  BY <1>1, <1>2, SetsNone
<1>4. /\ Facts(o, past) /\ o.kind \in Kinds /\ o.left \in Rests(o.kind) /\ o.left # <<>>
      /\ Head(o.left) = "speak" /\ "speak" \in Range(o.left) /\ "speak" \in Range(Order[o.kind])
  BY <1>1, <1>2, RunningIs, AtIs, NextIs
<1>5. Fine(n, past)
  BY <1>3, <1>4, AdvanceAlone
<1>6. /\ ReportTyped' /\ Worlds(past)'
      /\ report'[r] = n /\ \A s \in Runs \ {r} : report'[s] = report[s]
  BY <1>2, <1>3, <1>5, OneFine
<1>7. n.old = o.old /\ "speak" \notin Range(n.left)
  BY <1>1, <1>2, <1>3, NextIs DEF Advances, Data
<1>8. OldTyped' /\ quiet' \in BOOLEAN /\ overlaps' \in BOOLEAN
  BY <1>1, <1>2, <1>6, <1>7 DEF IInv, OldTyped
<1>9. Hushes(o) /\ ~Hushes(n)
  <2>1. o.kind = "apiCheck"
    BY <1>4, StepKinds
  <2>. QED
    BY <1>4, <1>7, <2>1, CheckOrder DEF Hushes
<1>10. QuietFact'
  <2> SUFFICES ASSUME ~overlaps
               PROVE /\ quiet' => \E s \in Runs : Hushes(report'[s])
                     /\ \A s, t \in Runs : Hushes(report'[s]) /\ Hushes(report'[t]) => s = t
                     /\ \A s \in Runs : Hushes(report'[s]) => ~report'[s].old
    BY <1>2 DEF QuietFact
  <2>1. /\ \A s, t \in Runs : Hushes(report[s]) /\ Hushes(report[t]) => s = t
        /\ \A s \in Runs : Hushes(report[s]) => ~report[s].old
    BY DEF IInv, QuietFact
  <2>2. ~quiet'
    BY <1>1, <1>2, <1>9, <2>1
  <2>3. \A s \in Runs : Hushes(report'[s]) => s # r /\ report'[s] = report[s]
    BY <1>6, <1>9
  <2>. QED
    BY <2>1, <2>2, <2>3
<1>11. QED
  BY <1>6, <1>8, <1>10 DEF IInv

LEMMA StepInv ==
  ASSUME IInv, NEW r \in Runs, Step(r)
  PROVE  IInv'
<1>1. ASSUME UNCHANGED <<past, quiet, overlaps>>, \E n : Moves(r, n) PROVE IInv'
  <2>1. PICK n : Moves(r, n)
    BY <1>1
  <2>2. UNCHANGED <<past, overlaps>> /\ quiet' = quiet
    BY <1>1
  <2>. QED
    BY <2>1, <2>2, CalmStep
<1>2. CASE AskLocal(r)
  <2>1. UNCHANGED <<past, quiet, overlaps>>
    BY <1>2 DEF AskLocal
  <2>. QED
    BY <1>1, <1>2, <2>1, AskLocalStep
<1>3. CASE AskCloud(r)
  <2>1. UNCHANGED <<past, quiet, overlaps>>
    BY <1>3 DEF AskCloud
  <2>. QED
    BY <1>1, <1>3, <2>1, AskCloudStep
<1>4. CASE Glob(r)
  <2>1. UNCHANGED <<past, quiet, overlaps>>
    BY <1>4 DEF Glob
  <2>. QED
    BY <1>1, <1>4, <2>1, GlobStep
<1>5. CASE Stat(r)
  <2>1. UNCHANGED <<past, quiet, overlaps>>
    BY <1>5 DEF Stat
  <2>. QED
    BY <1>1, <1>5, <2>1, StatStep
<1>6. CASE Pick(r)
  <2>1. UNCHANGED <<past, quiet, overlaps>>
    BY <1>6 DEF Pick
  <2>. QED
    BY <1>1, <1>6, <2>1, PickStep
<1>7. CASE StatAgain(r)
  <2>1. UNCHANGED <<past, quiet, overlaps>>
    BY <1>7 DEF StatAgain
  <2>. QED
    BY <1>1, <1>7, <2>1, StatAgainStep
<1>8. CASE Look(r)
  <2>1. UNCHANGED <<past, quiet, overlaps>>
    BY <1>8 DEF Look
  <2>. QED
    BY <1>1, <1>8, <2>1, LookStep
<1>9. CASE OpenFile(r)
  <2>1. UNCHANGED <<past, quiet, overlaps>>
    BY <1>9 DEF OpenFile
  <2>. QED
    BY <1>1, <1>9, <2>1, OpenStep
<1>10. CASE Count(r)
  <2>1. UNCHANGED <<past, quiet, overlaps>>
    BY <1>10 DEF Count
  <2>. QED
    BY <1>1, <1>10, <2>1, CountStep
<1>11. CASE LookForConfig(r)
  <2>1. UNCHANGED <<past, quiet, overlaps>>
    BY <1>11 DEF LookForConfig
  <2>. QED
    BY <1>1, <1>11, <2>1, LookForConfigStep
<1>12. CASE Detect(r)
  <2>1. UNCHANGED <<past, quiet, overlaps>>
    BY <1>12 DEF Detect
  <2>. QED
    BY <1>1, <1>12, <2>1, DetectStep
<1>13. QED
  BY <1>2, <1>3, <1>4, <1>5, <1>6, <1>7, <1>8, <1>9, <1>10, <1>11, <1>12,
     NoteQuietStep, HushStep, SpeakStep DEF Step
-----------------------------------------------------------------------------
\* A report that begins has found nothing.
LEMMA BeginsInv ==
  ASSUME IInv, NEW r \in Runs, NEW kind \in Kinds, NEW asked, NEW input,
         Begins(r, kind, asked, input),
         kind \notin {"localTest", "remoteTest", "apiDownload"} => asked = "saved"
  PROVE  IInv'
<1>1. PICK n : n = [Idle EXCEPT !.kind = kind, !.asked = asked, !.input = input, !.left = Order[kind],
                                !.end = "running", !.since = Len(past)]
  OBVIOUS
<1>2. /\ report[r].end = "none" /\ report' = [report EXCEPT ![r] = n]
      /\ UNCHANGED <<past, quiet, overlaps>>
  BY <1>1 DEF Begins, MayBegin
<1>3. report[r] = Idle
  BY <1>2 DEF IInv, ReportTyped, Fine, Shape
<1>4. /\ Formed(n) /\ n.kind = kind /\ n.asked = asked /\ n.left = Order[kind] /\ n.end = "running"
      /\ n.since = Len(past) /\ n.again = FALSE /\ n.old = FALSE
      /\ n.local = NoAnswer /\ n.rows = NoAnswer /\ n.cloud = NoAnswer /\ n.names = <<>>
  BY <1>1 DEF Idle, Formed, Fields
<1>5. Idle.kind = "none" /\ Idle.old = FALSE
  BY DEF Idle
<1>6. Order[kind] \in Rests(kind) /\ Order[kind] # <<>>
  BY WholeOrder
<1>7. Shape(n)
  BY <1>4, <1>6 DEF Shape, Ends
<1>8. Placed(n, past)
  <2>1. Len(past) \in Nat /\ Len(past) >= 1
    BY DEF IInv, Worlds
  <2>. QED
    BY <1>4, <2>1 DEF Placed
<1>9. \A step : ~Passed(n, step)
  BY <1>4 DEF Passed
<1>10. ~NoAnswer.ok
  BY DEF NoAnswer
<1>11. AgainFact(n, past)
  BY <1>4 DEF AgainFact
<1>12. LocalFact(n, past)
  BY <1>4, <1>9, <1>10 DEF LocalFact, Came
<1>13. RowsFact(n, past)
  BY <1>4, <1>9, <1>10 DEF RowsFact, Came
<1>14. CloudFact(n, past)
  BY <1>4, <1>9, <1>10 DEF CloudFact
<1>15. CountFact(n, past) /\ FileFact(n, past)
  BY <1>9 DEF CountFact, FileFact
<1>16. NamesFact(n, past) /\ ExactFact(n, past)
  BY <1>4, <1>9 DEF NamesFact, ExactFact
<1>17. GoneFact(n, past)
  <2>1. Range(n.names) = {}
    BY <1>4 DEF Range
  <2>2. "pick" \in Range(n.left) => "glob" \in Range(n.left)
    <3>1. "pick" \in Range(n.left) => kind = "status"
      BY <1>4, StepKinds
    <3>2. Order["status"] = <<"glob", "pick", "again", "count", "local", "cloud">>
      BY DEF Order
    <3>3. "glob" \in Range(Order["status"])
      BY <3>2 DEF Range
    <3>. QED
      BY <1>4, <3>1, <3>3
  <2>. QED
    BY <1>4, <2>1, <2>2 DEF GoneFact
<1>18. Calm(report[r], n)
  <2>1. ~Hushes(Idle)
    BY <1>5 DEF Hushes
  <2>2. ~Hushes(n)
    <3>1. Order["apiCheck"] = <<"note", "hush", "local", "speak", "count">>
      BY DEF Order
    <3>2. "note" \in Range(Order["apiCheck"])
      BY <3>1 DEF Range
    <3>. QED
      BY <1>4, <3>2 DEF Hushes
  <2>. QED
    BY <1>3, <1>4, <1>5, <2>1, <2>2 DEF Calm
<1>19. Fine(n, past)
  BY <1>7, <1>8, <1>11, <1>12, <1>13, <1>14, <1>15, <1>16, <1>17 DEF Fine, Facts
<1>20. Moves(r, n)
  BY <1>2, <1>18, <1>19 DEF Moves
<1>21. QED
  BY <1>2, <1>20, CalmStep
-----------------------------------------------------------------------------
(***************************************************************************)
(* The world changes.  What was seen stays seen, and a report sees one     *)
(* world more.                                                             *)
(***************************************************************************)
Grown(p, q, w) == /\ Worlds(p) /\ q = Append(p, w) /\ w \in OneWorld /\ Distinct(w.files)

LEMMA GrownIs ==
  ASSUME NEW p, NEW q, NEW w, Grown(p, q, w)
  PROVE  /\ Worlds(q) /\ Len(q) = Len(p) + 1 /\ Len(p) \in Nat /\ Len(p) >= 1
         /\ \A i \in 1 .. Len(p) : q[i] = p[i]
         /\ Now(q) = w
<1>1. p \in Seq(OneWorld) /\ Len(p) >= 1 /\ w \in OneWorld /\ q = Append(p, w)
  BY DEF Grown, Worlds
<1>2. PICK n \in Nat : n = Len(p)
  BY <1>1
<1>3. /\ q \in Seq(OneWorld) /\ Len(q) = n + 1 /\ q[n + 1] = w
      /\ \A i \in 1 .. n : q[i] = p[i]
  BY <1>1, <1>2
<1>4. ASSUME NEW i \in 1 .. Len(q) PROVE Distinct(q[i].files)
  <2>1. CASE i = n + 1
    BY <1>3, <2>1 DEF Grown
  <2>2. CASE i # n + 1
    <3>1. i \in 1 .. n
      BY <1>3, <2>2
    <3>. QED
      BY <1>2, <1>3, <3>1 DEF Grown, Worlds
  <2>. QED
    BY <2>1, <2>2
<1>5. Worlds(q)
  BY <1>3, <1>4 DEF Worlds
<1>6. QED
  BY <1>1, <1>2, <1>3, <1>5 DEF Now

LEMMA GrownSeen ==
  ASSUME NEW p, NEW q, NEW w, Grown(p, q, w), NEW o, o.since \in 1 .. Len(p)
  PROVE  /\ o.since \in 1 .. Len(q) /\ o.since # Len(q)
         /\ Seen(o, p) \subseteq Seen(o, q) /\ Conf(o, q) = Conf(o, p)
         /\ Ways(o, q) = Ways(o, p) /\ CloudWays(o, q) = CloudWays(o, p)
         /\ Skips(o, q) <=> Skips(o, p)
         /\ AsksCloud(o, q) <=> AsksCloud(o, p)
         /\ \A f : Deleted(o, p, f) => Deleted(o, q, f)
         /\ \A f : f \in Range(Now(p).files) => f \in Range(w.files) \/ Deleted(o, q, f)
         /\ \A road : Away(o, p, road) => Away(o, q, road)
         /\ \A a : Came(o, p, a) => Came(o, q, a)
<1>1. /\ Len(q) = Len(p) + 1 /\ Len(p) \in Nat /\ Len(p) >= 1
      /\ \A i \in 1 .. Len(p) : q[i] = p[i]
      /\ Now(q) = w
  BY GrownIs
<1>2. o.since \in 1 .. Len(q) /\ o.since # Len(q)
  BY <1>1
<1>3. Conf(o, q) = Conf(o, p)
  BY <1>1 DEF Conf
<1>4. Ways(o, q) = Ways(o, p) /\ CloudWays(o, q) = CloudWays(o, p)
      /\ (Skips(o, q) <=> Skips(o, p)) /\ (AsksCloud(o, q) <=> AsksCloud(o, p))
  BY <1>3 DEF Ways, CloudWays, Skips, AsksCloud
<1>5. Seen(o, p) \subseteq Seen(o, q)
  <2>1. \A i \in o.since .. Len(p) : i \in o.since .. Len(q) /\ q[i] = p[i]
    BY <1>1
  <2>. QED
    BY <2>1 DEF Seen
<1>6. \A road : Away(o, p, road) => Away(o, q, road)
  BY <1>5 DEF Away
<1>7. \A a, v, road : CameBy(o, p, a, v, road) => CameBy(o, q, a, v, road)
  BY <1>4, <1>5, <1>6 DEF CameBy
<1>8. ASSUME NEW a, Came(o, p, a) PROVE Came(o, q, a)
  <2>1. CASE a = NoAnswer
    BY <2>1 DEF Came
  <2>2. CASE \E v \in Seen(o, p), road \in Ways(o, p) : CameBy(o, p, a, v, road)
    BY <1>4, <1>5, <1>7, <2>2 DEF Came
  <2>. QED
    BY <1>8, <2>1, <2>2 DEF Came
<1>9. ASSUME NEW f, Deleted(o, p, f) PROVE Deleted(o, q, f)
  <2>1. PICK i \in o.since .. Len(p) - 1 : f \in Range(p[i].files) /\ f \notin Range(p[i + 1].files)
    BY <1>9 DEF Deleted
  <2>2. /\ i \in o.since .. Len(q) - 1 /\ i \in 1 .. Len(p) /\ i + 1 \in 1 .. Len(p)
    BY <1>1
  <2>3. q[i] = p[i] /\ q[i + 1] = p[i + 1]
    BY <1>1, <2>2
  <2>. QED
    BY <2>1, <2>2, <2>3 DEF Deleted
<1>10. ASSUME NEW f, f \in Range(Now(p).files), f \notin Range(w.files) PROVE Deleted(o, q, f)
  <2>1. PICK i \in 1 .. Len(p) : i = Len(p)
    BY <1>1
  <2>2. i \in o.since .. Len(q) - 1 /\ i + 1 = Len(q)
    BY <1>1, <2>1
  <2>3. f \in Range(q[i].files)
    BY <1>1, <1>10, <2>1 DEF Now
  <2>4. f \notin Range(q[i + 1].files)
    BY <1>1, <1>10, <2>2 DEF Now
  <2>. QED
    BY <2>2, <2>3, <2>4 DEF Deleted
<1>11. QED
  BY <1>2, <1>3, <1>4, <1>5, <1>6, <1>8, <1>9, <1>10

LEMMA GrownFine ==
  ASSUME NEW p, NEW q, NEW w, Grown(p, q, w), NEW o, Fine(o, p)
  PROVE  Fine(o, q)
<1>1. CASE o.end = "none"
  BY <1>1 DEF Fine, Placed
<1>2. CASE o.end # "none"
  <2>1. Shape(o) /\ o.since \in 1 .. Len(p) /\ Facts(o, p)
    BY <1>2 DEF Fine, Placed
  <2>2. /\ o.since \in 1 .. Len(q) /\ o.since # Len(q)
        /\ Seen(o, p) \subseteq Seen(o, q) /\ Conf(o, q) = Conf(o, p)
        /\ Ways(o, q) = Ways(o, p) /\ CloudWays(o, q) = CloudWays(o, p)
        /\ Skips(o, q) <=> Skips(o, p)
        /\ AsksCloud(o, q) <=> AsksCloud(o, p)
    BY <2>1, GrownSeen
  <2>3. /\ \A f : Deleted(o, p, f) => Deleted(o, q, f)
        /\ \A f : f \in Range(Now(p).files) => f \in Range(w.files) \/ Deleted(o, q, f)
    BY <2>1, GrownSeen
  <2>4. /\ \A road : Away(o, p, road) => Away(o, q, road)
        /\ \A a : Came(o, p, a) => Came(o, q, a)
    BY <2>1, GrownSeen
  <2>5. AgainFact(o, q)
    BY <2>1, <2>2, <2>4 DEF Facts, AgainFact
  <2>6. LocalFact(o, q)
    <3>1. LocalFact(o, p)
      BY <2>1 DEF Facts
    <3>. QED
      BY <2>2, <2>4, <3>1 DEF LocalFact
  <2>7. RowsFact(o, q)
    <3>1. RowsFact(o, p)
      BY <2>1 DEF Facts
    <3>. QED
      BY <2>2, <2>4, <3>1 DEF RowsFact
  <2>8. CloudFact(o, q)
    <3>1. CloudFact(o, p)
      BY <2>1 DEF Facts
    <3>. QED
      BY <2>2, <3>1 DEF CloudFact
  <2>9. CountFact(o, q) /\ FileFact(o, q)
    <3>1. CountFact(o, p) /\ FileFact(o, p)
      BY <2>1 DEF Facts
    <3>. QED
      BY <2>2, <3>1 DEF CountFact, FileFact
  <2>10. NamesFact(o, q)
    <3>1. NamesFact(o, p)
      BY <2>1 DEF Facts
    <3>. QED
      BY <2>2, <3>1 DEF NamesFact
  <2>11. ExactFact(o, q)
    BY <2>2 DEF ExactFact
  <2>12. GoneFact(o, q)
    <3>1. GoneFact(o, p) /\ Now(q) = w
      BY <2>1, GrownIs DEF Facts
    <3>. QED
      BY <2>3, <3>1 DEF GoneFact
  <2>13. Facts(o, q)
    BY <2>5, <2>6, <2>7, <2>8, <2>9, <2>10, <2>11, <2>12 DEF Facts
  <2>. QED
    BY <2>1, <2>2, <2>13 DEF Fine, Placed
<1>3. QED
  BY <1>1, <1>2

LEMMA ChangeInv ==
  ASSUME IInv, NEW w, w \in OneWorld, Distinct(w.files), Change(w)
  PROVE  IInv'
<1>1. PICK p, q : p = past /\ q = past'
  OBVIOUS
<1>2. q = Append(p, w) /\ UNCHANGED <<quiet, report, overlaps>>
  BY <1>1 DEF Change
<1>3. Grown(p, q, w)
  BY <1>1, <1>2 DEF IInv, Grown
<1>4. Worlds(past)'
  <2>1. Worlds(q)
    BY <1>3, GrownIs
  <2>. QED
    BY <1>1, <2>1
<1>5. ReportTyped'
  <2>1. \A r \in Runs : Fine(report[r], q)
    <3>1. ASSUME NEW r \in Runs PROVE Fine(report[r], q)
      <4>1. PICK o : o = report[r]
        OBVIOUS
      <4>2. Fine(o, p)
        BY <1>1, <4>1 DEF IInv, ReportTyped
      <4>. QED
        BY <1>3, <4>1, <4>2, GrownFine
    <3>. QED
      BY <3>1
  <2>2. report' = report /\ report = [r \in Runs |-> report[r]]
    BY <1>2 DEF IInv, ReportTyped
  <2>. QED
    BY <1>1, <2>1, <2>2 DEF ReportTyped
<1>6. OldTyped' /\ QuietFact' /\ quiet' \in BOOLEAN /\ overlaps' \in BOOLEAN
  BY <1>2 DEF IInv, OldTyped, QuietFact
<1>7. QED
  BY <1>4, <1>5, <1>6 DEF IInv

LEMMA WorldIs ==
  ASSUME IInv
  PROVE  /\ World \in OneWorld /\ Distinct(World.files) /\ World.files \in Seq(Snapshots)
         /\ World = Now(past) /\ Len(past) \in DOMAIN past
<1>1. PICK n \in Nat : n = Len(past) /\ past \in Seq(OneWorld) /\ n >= 1 /\ DOMAIN past = 1 .. n
  BY DEF IInv, Worlds
<1>2. n \in 1 .. n /\ World = past[n] /\ Now(past) = past[n]
  BY <1>1 DEF World, Last, Now
<1>3. World \in OneWorld /\ Distinct(World.files)
  BY <1>1, <1>2 DEF IInv, Worlds
<1>4. World.files \in Seq(Snapshots)
  BY <1>3 DEF OneWorld
<1>5. QED
  BY <1>1, <1>2, <1>3, <1>4

LEMMA FilesChange ==
  ASSUME NEW w \in OneWorld, NEW files \in Seq(Snapshots)
  PROVE  [w EXCEPT !.files = files] \in OneWorld /\ [w EXCEPT !.files = files].files = files
  BY DEF OneWorld

LEMMA ChangesInv ==
  ASSUME IInv,
         \/ \E d \in Databases, t \in Tables, state \in TableStates : ChangeTable(d, t, state)
         \/ \E road \in Roads : ChangeRoad(road)
         \/ \E config \in Configs : Configure(config)
         \/ \E f \in Snapshots : Publish(f) \/ Delete(f)
  PROVE  IInv'
<1>1. PICK v : v = World
  OBVIOUS
<1>2. v \in OneWorld /\ Distinct(v.files) /\ v.files \in Seq(Snapshots) /\ v = Now(past)
  BY <1>1, WorldIs
<1>3. ASSUME NEW d \in Databases, NEW t \in Tables, NEW state \in TableStates, ChangeTable(d, t, state)
      PROVE IInv'
  <2>1. PICK one : one = [v.tables[d] EXCEPT ![t] = state]
    OBVIOUS
  <2>2. v.tables \in [Databases -> [Tables -> TableStates]]
    BY <1>2 DEF OneWorld
  <2>3. one \in [Tables -> TableStates]
    BY <2>1, <2>2
  <2>4. PICK all : all = [v.tables EXCEPT ![d] = one]
    OBVIOUS
  <2>5. all \in [Databases -> [Tables -> TableStates]]
    BY <2>2, <2>3, <2>4
  <2>6. PICK w : w = [v EXCEPT !.tables = all]
    OBVIOUS
  <2>7. w \in OneWorld /\ w.files = v.files
    BY <1>2, <2>5, <2>6 DEF OneWorld
  <2>8. w = [World EXCEPT !.tables[d][t] = state]
    BY <1>1, <2>1, <2>4, <2>6
  <2>9. Change(w)
    BY <1>3, <2>8 DEF ChangeTable
  <2>. QED
    BY <1>2, <2>7, <2>9, ChangeInv
<1>4. ASSUME NEW road \in Roads, ChangeRoad(road) PROVE IInv'
  <2>1. PICK reach : reach = SymDiff(v.reach, {road})
    OBVIOUS
  <2>2. reach \in SUBSET Roads
    BY <1>2, <2>1 DEF OneWorld, SymDiff
  <2>3. PICK w : w = [v EXCEPT !.reach = reach]
    OBVIOUS
  <2>4. w \in OneWorld /\ w.files = v.files
    BY <1>2, <2>2, <2>3 DEF OneWorld
  <2>5. Change(w)
    BY <1>1, <1>4, <2>1, <2>3 DEF ChangeRoad
  <2>. QED
    BY <1>2, <2>4, <2>5, ChangeInv
<1>5. ASSUME NEW config \in Configs, Configure(config) PROVE IInv'
  <2>1. PICK w : w = [v EXCEPT !.config = config]
    OBVIOUS
  <2>2. w \in OneWorld /\ w.files = v.files
    BY <1>2, <2>1 DEF OneWorld
  <2>3. Change(w)
    BY <1>1, <1>5, <2>1 DEF Configure
  <2>. QED
    BY <1>2, <2>2, <2>3, ChangeInv
<1>6. ASSUME NEW f \in Snapshots, Publish(f) PROVE IInv'
  <2>1. PICK files : files = Append(v.files, f)
    OBVIOUS
  <2>2. f \notin Range(v.files)
    <3>1. f \notin Range(past[Len(past)].files)
      BY <1>6, WorldIs DEF Publish
    <3>. QED
      BY <1>2, <3>1 DEF Now
  <2>3. files \in Seq(Snapshots)
    BY <1>2, <2>1
  <2>4. Distinct(files)
    <3>1. PICK n \in Nat : n = Len(v.files) /\ DOMAIN v.files = 1 .. n
      BY <1>2
    <3>2. /\ DOMAIN files = 1 .. (n + 1) /\ files[n + 1] = f
          /\ \A i \in 1 .. n : files[i] = v.files[i]
      BY <1>2, <2>1, <3>1
    <3>3. \A i \in 1 .. n : files[i] # f
      BY <2>2, <3>1, <3>2 DEF Range
    <3>4. \A i \in 1 .. (n + 1) : i = n + 1 \/ i \in 1 .. n
      OBVIOUS
    <3>5. \A i, j \in 1 .. n : files[i] = files[j] => i = j
      BY <1>2, <3>1, <3>2 DEF Distinct
    <3>. QED
      BY <3>2, <3>3, <3>4, <3>5 DEF Distinct
  <2>5. PICK w : w = [v EXCEPT !.files = files]
    OBVIOUS
  <2>6. w \in OneWorld /\ w.files = files
    BY <1>2, <2>3, <2>5, FilesChange
  <2>7. Change(w)
    BY <1>1, <1>6, <2>1, <2>5 DEF Publish
  <2>. QED
    BY <2>4, <2>6, <2>7, ChangeInv
<1>7. ASSUME NEW f \in Snapshots, Delete(f) PROVE IInv'
  <2>1. PICK files : files = Among(v.files, Snapshots \ {f})
    OBVIOUS
  <2>2. files \in Seq(Snapshots) /\ Distinct(files)
    BY <1>2, <2>1, AmongRange, AmongDistinct
  <2>3. PICK w : w = [v EXCEPT !.files = files]
    OBVIOUS
  <2>4. w \in OneWorld /\ w.files = files
    BY <1>2, <2>2, <2>3, FilesChange
  <2>5. Change(w)
    BY <1>1, <1>7, <2>1, <2>3 DEF Delete
  <2>. QED
    BY <2>2, <2>4, <2>5, ChangeInv
<1>8. QED
  BY <1>3, <1>4, <1>5, <1>6, <1>7
-----------------------------------------------------------------------------
LEMMA NextInv == IInv /\ [Next]_vars => IInv'
<1> SUFFICES ASSUME IInv, [Next]_vars PROVE IInv'
  OBVIOUS
<1>1. ASSUME NEW r \in Runs, Step(r) PROVE IInv'
  BY <1>1, StepInv
<1>2. ASSUME NEW r \in Runs, NEW kind \in Kinds \ {"apiDownload", "apiDetect"}, Begin(r, kind) PROVE IInv'
  BY <1>2, BeginsInv DEF Begin
<1>3. ASSUME NEW r \in Runs, NEW f \in Snapshots, BeginDownload(r, f) PROVE IInv'
  <2>1. "apiDownload" \in Kinds
    BY DEF Kinds
  <2>. QED
    BY <1>3, <2>1, BeginsInv DEF BeginDownload
<1>4. ASSUME NEW r \in Runs, NEW kind \in {"localTest", "remoteTest"}, BeginTest(r, kind) PROVE IInv'
  <2>1. PICK typed : Begins(r, kind, "typed", typed)
    BY <1>4 DEF BeginTest
  <2>2. kind \in Kinds
    BY DEF Kinds
  <2>. QED
    BY <2>1, <2>2, BeginsInv
<1>5. ASSUME NEW r \in Runs, BeginDetect(r) PROVE IInv'
  <2>1. PICK scene : Begins(r, "apiDetect", "saved", scene)
    BY <1>5 DEF BeginDetect
  <2>2. "apiDetect" \in Kinds
    BY DEF Kinds
  <2>. QED
    BY <2>1, <2>2, BeginsInv
<1>6. CASE \/ \E d \in Databases, t \in Tables, state \in TableStates : ChangeTable(d, t, state)
           \/ \E road \in Roads : ChangeRoad(road)
           \/ \E config \in Configs : Configure(config)
           \/ \E f \in Snapshots : Publish(f) \/ Delete(f)
  BY <1>6, ChangesInv
<1>7. CASE UNCHANGED vars
  <2>1. UNCHANGED <<past, quiet, report, overlaps>>
    BY <1>7 DEF vars
  <2>. QED
    BY <2>1 DEF IInv, Worlds, ReportTyped, OldTyped, QuietFact
<1>8. QED
  BY <1>1, <1>2, <1>3, <1>4, <1>5, <1>6, <1>7 DEF Next
-----------------------------------------------------------------------------
LEMMA PushesOnce ==
  LET s == SetToSeq(Pushes) IN s \in Seq(Snapshots) /\ Distinct(s)
<1>1. IsFiniteSet(Pushes) /\ Pushes \subseteq Snapshots
  BY ReportsAssumption, FS_Subset
<1>2. PICK n \in Nat : ExistsBijection(1 .. n, Pushes)
  BY <1>1, FS_NatBijection
<1>3. Cardinality(Pushes) = n
  BY <1>2, FS_CountingElements
<1>4. \E f \in [1 .. n -> Pushes] : IsInjective(f)
  BY <1>2 DEF ExistsBijection, Bijection, Injection
<1>5. PICK s : s = SetToSeq(Pushes)
  OBVIOUS
<1>6. s \in [1 .. n -> Pushes] /\ IsInjective(s)
  BY <1>3, <1>4, <1>5 DEF SetToSeq
<1>7. s \in Seq(Snapshots) /\ Distinct(s)
  BY <1>1, <1>6 DEF IsInjective, Distinct
<1>8. QED
  BY <1>5, <1>7

LEMMA InitInv == Init => IInv
<1> SUFFICES ASSUME Init PROVE IInv
  OBVIOUS
<1>1. PICK w : past = <<w>> /\ w \in [tables : {[d \in Databases |-> [t \in Tables |-> "full"]]},
                                      reach : {Roads}, files : {SetToSeq(Pushes)},
                                      config : Configs]
  BY DEF Init
<1>2. w \in OneWorld /\ Distinct(w.files)
  BY <1>1, PushesOnce DEF OneWorld, TableStates
<1>3. Worlds(past)
  BY <1>1, <1>2 DEF Worlds
<1>4. \A r \in Runs : report[r] = Idle
  BY DEF Init
<1>5. Formed(Idle) /\ Idle.end = "none" /\ Idle.left = <<>> /\ Idle.kind = "none"
      /\ Idle.asked = "saved" /\ Idle.old = FALSE
  BY DEF Idle, Formed, Fields
<1>6. Shape(Idle) /\ Placed(Idle, past) /\ ~Hushes(Idle)
  BY <1>5 DEF Shape, Placed, Hushes, Ends
<1>7. \A r \in Runs : Fine(report[r], past)
  BY <1>4, <1>5, <1>6 DEF Fine
<1>8. report = [r \in Runs |-> report[r]]
  BY DEF Init
<1>9. ReportTyped
  BY <1>7, <1>8 DEF ReportTyped
<1>10. OldTyped
  BY <1>4, <1>5 DEF OldTyped
<1>11. quiet = FALSE /\ overlaps = FALSE
  BY DEF Init
<1>12. QuietFact
  BY <1>4, <1>6, <1>11 DEF QuietFact
<1>13. QED
  BY <1>3, <1>9, <1>10, <1>11, <1>12 DEF IInv

LEMMA Invariant == Spec => []IInv
<1>1. Init => IInv
  BY InitInv
<1>2. IInv /\ [Next]_vars => IInv'
  BY NextInv
<1>3. QED
  BY <1>1, <1>2, PTL DEF Spec

\* As long as no two checks of the dashboard were ever under way at once, its
\* output is silenced only during a check (server.go:318, 329).
THEOREM SilenceEnds == Spec => []QuietComesBack
<1>1. IInv => QuietComesBack
  BY SilencedIs DEF IInv, QuietFact, QuietComesBack
<1>2. QED
  BY <1>1, Invariant, PTL

\* A crash of gaet snapshots or gaet status names a snapshot that was deleted
\* while the command ran (snapshots.go:50).
THEOREM CrashNamesTheDeleted == Spec => []PanicsOnlyUnderDeletion
<1>1. ASSUME IInv, NEW r \in Runs, report[r].end = "panic"
      PROVE  \E i \in report[r].since .. Len(past) - 1 :
               \E f \in Range(report[r].names) :
                 f \in Range(past[i].files) /\ f \notin Range(past[i + 1].files)
  <2>1. Fine(report[r], past)
    BY <1>1 DEF IInv, ReportTyped
  <2>2. GoneFact(report[r], past)
    BY <1>1, <2>1 DEF Fine, Facts
  <2>. QED
    BY <1>1, <2>2 DEF GoneFact, Deleted
<1>2. IInv => PanicsOnlyUnderDeletion
  BY <1>1 DEF PanicsOnlyUnderDeletion
<1>3. QED
  BY <1>2, Invariant, PTL
-----------------------------------------------------------------------------
(***************************************************************************)
(* What a report says once it is done.                                     *)
(***************************************************************************)
LEMMA DoneIs ==
  ASSUME IInv, NEW r \in Runs, report[r].end = "done"
  PROVE  LET o == report[r] IN
         /\ Shape(o) /\ Facts(o, past) /\ o.kind \in Kinds /\ o.left = <<>>
         /\ \A step \in Range(Order[o.kind]) : Passed(o, step)
         /\ During(r) = Seen(o, past) /\ LocalWays(r) = Ways(o, past)
         /\ CloudRoads(r) = CloudWays(o, past) /\ ConfigOf(r) = Conf(o, past)
         /\ World = Now(past) /\ World \in Seen(o, past) /\ World \in OneWorld
         /\ \A w \in Seen(o, past) : w \in OneWorld /\ Distinct(w.files)
         /\ o.since = Len(past) => Seen(o, past) = {World}
<1>1. PICK o : o = report[r]
  OBVIOUS
<1>2. Shape(o) /\ Facts(o, past) /\ o.since \in 1 .. Len(past)
  BY <1>1 DEF IInv, ReportTyped, Fine, Placed
<1>3. o.kind \in Kinds /\ o.left = <<>>
  BY <1>1, <1>2 DEF Shape
<1>4. \A step \in Range(Order[o.kind]) : Passed(o, step)
  <2>1. Range(o.left) = {}
    BY <1>3 DEF Range
  <2>. QED
    BY <1>1, <2>1 DEF Passed
<1>5. During(r) = Seen(o, past) /\ ConfigOf(r) = Conf(o, past)
  BY <1>1 DEF During, Seen, ConfigOf, Conf
<1>6. GoesToTyped(r) <=> ToTyped(o)
  BY <1>1 DEF GoesToTyped, ToTyped
<1>7. LocalWays(r) = Ways(o, past)
  BY <1>1, <1>5, <1>6 DEF LocalWays, Ways
<1>8. CloudRoads(r) = CloudWays(o, past)
  BY <1>1, <1>5, <1>6 DEF CloudRoads, CloudWays
<1>9. PICK len \in Nat : len = Len(past) /\ past \in Seq(OneWorld) /\ len >= 1
  BY DEF IInv, Worlds
<1>10. /\ World = past[len] /\ Now(past) = past[len] /\ len \in o.since .. len
       /\ o.since = len => o.since .. len = {len}
  BY <1>2, <1>9 DEF World, Last, Now
<1>11. World \in Seen(o, past) /\ (o.since = len => Seen(o, past) = {World})
  BY <1>9, <1>10 DEF Seen
<1>12. ASSUME NEW w \in Seen(o, past) PROVE w \in OneWorld /\ Distinct(w.files)
  <2>1. PICK i \in o.since .. len : w = past[i]
    BY <1>9 DEF Seen
  <2>2. i \in 1 .. len
    BY <1>2, <1>9, <2>1
  <2>. QED
    BY <1>9, <2>1, <2>2 DEF IInv, Worlds
<1>13. QED
  BY <1>1, <1>2, <1>3, <1>4, <1>5, <1>7, <1>8, <1>9, <1>10, <1>11, <1>12

\* The steps behind each part of a report.
LEMMA PartSteps ==
  ASSUME NEW kind \in Kinds, NEW c
  PROVE  /\ Checks(kind, c) \subseteq {"tools", "config", "local", "cloud", "backups"}
         /\ "local" \in Checks(kind, c) =>
              "local" \in Range(Order[kind]) /\ (kind = "apiDiff" => Configured(c))
         /\ "cloud" \in Checks(kind, c) => "cloud" \in Range(Order[kind]) /\ kind # "apiStatus"
         /\ "config" \in Checks(kind, c) => "config" \in Range(Order[kind])
         /\ "backups" \in Checks(kind, c) => kind = "doctor" /\ "count" \in Range(Order[kind])
<1>1. CASE kind \in {"check", "status", "diff", "doctor", "apiDoctor"}
  BY <1>1 DEF Checks, Order, Range
<1>2. CASE kind \in {"statusJson", "apiStatus", "apiCheck", "localTest", "remoteTest"}
  BY <1>2 DEF Checks, Order, Range
<1>3. CASE kind = "apiDiff"
  BY <1>3 DEF Checks, Order, Range
<1>4. CASE kind \in {"snapshots", "apiSnapshots", "apiDownload", "apiDetect"}
  BY <1>4 DEF Checks
<1>5. QED
  BY <1>1, <1>2, <1>3, <1>4 DEF Kinds

LEMMA ToolsPart ==
  ASSUME NEW r, NEW w
  PROVE  Passes(r, "tools") <=> Holds(w, r, "tools")
<1>1. PICK m, has : m = Tools(ConfigOf(r).machine) /\ has = ConfigOf(r).machine.has
  OBVIOUS
<1>2. m = {t \in ToolNames : \/ t \in ConfigOf(r).machine.named
                             \/ \E dir \in Range(Dirs(ConfigOf(r).machine)) : t \in has[dir]}
  BY <1>1, ToolsAre
<1>3. Passes(r, "tools") <=> m = ToolNames
  BY <1>1 DEF Passes
<1>4. Holds(w, r, "tools") <=>
        \A t \in ToolNames : \/ t \in ConfigOf(r).machine.named
                             \/ \E dir \in Range(Dirs(ConfigOf(r).machine)) : t \in has[dir]
  BY <1>1 DEF Holds
<1>5. QED
  BY <1>2, <1>3, <1>4

LEMMA ConfigPart ==
  ASSUME IInv, NEW r \in Runs, report[r].end = "done",
         "config" \in Checks(report[r].kind, ConfigOf(r))
  PROVE  \E w \in During(r) : Passes(r, "config") <=> Holds(w, r, "config")
<1>1. PICK o : o = report[r]
  OBVIOUS
<1>2. FileFact(o, past) /\ o.kind \in Kinds /\ During(r) = Seen(o, past)
      /\ \A step \in Range(Order[o.kind]) : Passed(o, step)
  BY <1>1, DoneIs DEF Facts
<1>3. Passed(o, "config")
  BY <1>1, <1>2, PartSteps
<1>4. PICK w \in Seen(o, past) : o.file = w.config.file
  BY <1>2, <1>3 DEF FileFact
<1>5. Passes(r, "config") <=> o.file
  BY <1>1 DEF Passes
<1>6. Holds(w, r, "config") <=> w.config.file
  BY DEF Holds
<1>7. QED
  BY <1>2, <1>4, <1>5, <1>6

LEMMA BackupsPart ==
  ASSUME IInv, NEW r \in Runs, report[r].end = "done",
         "backups" \in Checks(report[r].kind, ConfigOf(r))
  PROVE  \E w \in During(r) : Passes(r, "backups") <=> Holds(w, r, "backups")
<1>1. PICK o : o = report[r]
  OBVIOUS
<1>2. /\ CountFact(o, past) /\ o.kind \in Kinds /\ During(r) = Seen(o, past)
      /\ \A step \in Range(Order[o.kind]) : Passed(o, step)
      /\ \A w \in Seen(o, past) : w \in OneWorld
  BY <1>1, DoneIs DEF Facts
<1>3. Passed(o, "count") /\ o.kind = "doctor"
  BY <1>1, <1>2, PartSteps
<1>4. PICK w \in Seen(o, past) : o.count = Len(Among(w.files, Pushes))
  BY <1>2, <1>3 DEF CountFact, CountedOf
<1>5. w.files \in Seq(Snapshots)
  BY <1>2 DEF OneWorld
<1>6. PICK l \in Seq(Snapshots) : l = Among(w.files, Pushes) /\ Range(l) = Range(w.files) \cap Pushes
  BY <1>5, AmongRange
<1>7. Len(l) > 0 <=> Range(l) # {}
  <2>1. PICK n \in Nat : n = Len(l) /\ DOMAIN l = 1 .. n
    OBVIOUS
  <2>2. n > 0 => 1 \in DOMAIN l
    BY <2>1
  <2>3. n = 0 => DOMAIN l = {}
    BY <2>1
  <2>. QED
    BY <2>1, <2>2, <2>3 DEF Range
<1>8. Passes(r, "backups") <=> o.count > 0
  BY <1>1 DEF Passes
<1>9. Holds(w, r, "backups") <=> Pushes \cap Range(w.files) # {}
  BY DEF Holds
<1>10. QED
  BY <1>2, <1>4, <1>6, <1>7, <1>8, <1>9

LEMMA LocalPart ==
  ASSUME IInv, NEW r \in Runs, report[r].end = "done",
         "local" \in Checks(report[r].kind, ConfigOf(r))
  PROVE  /\ Passes(r, "local") => \E w \in During(r) : Holds(w, r, "local")
         /\ ~Passes(r, "local") /\ Psql(ConfigOf(r)) =>
              \A road \in LocalWays(r) : \E w \in During(r) : road \notin w.reach
<1>1. PICK o : o = report[r]
  OBVIOUS
<1>2. /\ LocalFact(o, past) /\ o.kind \in Kinds /\ During(r) = Seen(o, past)
      /\ LocalWays(r) = Ways(o, past) /\ ConfigOf(r) = Conf(o, past)
      /\ \A step \in Range(Order[o.kind]) : Passed(o, step)
  BY <1>1, DoneIs DEF Facts
<1>3. Passed(o, "local") /\ (o.kind = "apiDiff" => Configured(Conf(o, past)))
  BY <1>1, <1>2, PartSteps
<1>4. Passes(r, "local") <=> o.local.ok
  BY <1>1 DEF Passes
<1>5. \A w : Holds(w, r, "local") <=> Psql(Conf(o, past)) /\ Ways(o, past) \cap w.reach # {}
  BY <1>2 DEF Holds
<1>6. ASSUME o.local.ok PROVE \E w \in Seen(o, past) : Holds(w, r, "local")
  <2>1. o.local # NoAnswer
    BY <1>6 DEF NoAnswer
  <2>2. PICK w \in Seen(o, past), road \in Ways(o, past) : CameBy(o, past, o.local, w, road)
    BY <1>2, <2>1 DEF LocalFact, Came
  <2>3. road \in w.reach /\ ~Skips(o, past)
    BY <1>2, <1>6, <2>2 DEF CameBy, LocalFact
  <2>4. Psql(Conf(o, past))
    BY <2>3 DEF Skips
  <2>. QED
    BY <1>5, <2>3, <2>4
<1>7. ASSUME ~o.local.ok, Psql(Conf(o, past))
      PROVE  \A road \in Ways(o, past) : \E w \in Seen(o, past) : road \notin w.reach
  <2>1. ~Skips(o, past)
    BY <1>3, <1>7 DEF Skips
  <2>. QED
    BY <1>2, <1>3, <1>7, <2>1 DEF LocalFact, Away
<1>8. QED
  BY <1>2, <1>4, <1>6, <1>7

LEMMA CloudPart ==
  ASSUME IInv, NEW r \in Runs, report[r].end = "done",
         "cloud" \in Checks(report[r].kind, ConfigOf(r))
  PROVE  \E w \in During(r) : Passes(r, "cloud") <=> Holds(w, r, "cloud")
<1>1. PICK o : o = report[r]
  OBVIOUS
<1>2. /\ CloudFact(o, past) /\ o.kind \in Kinds /\ During(r) = Seen(o, past)
      /\ CloudRoads(r) = CloudWays(o, past) /\ ConfigOf(r) = Conf(o, past)
      /\ \A step \in Range(Order[o.kind]) : Passed(o, step)
      /\ World \in Seen(o, past)
  BY <1>1, DoneIs DEF Facts
<1>3. Passed(o, "cloud") /\ o.kind # "apiStatus"
  BY <1>1, <1>2, PartSteps
<1>4. Passes(r, "cloud") <=> o.cloud.ok
  BY <1>1 DEF Passes
<1>5. \A w : Holds(w, r, "cloud") <=>
        /\ Psql(Conf(o, past)) /\ (o.asked = "saved" => Configured(Conf(o, past)))
        /\ CloudWays(o, past) \cap w.reach # {}
  BY <1>1, <1>2 DEF Holds
<1>6. \A w : Holds(w, r, "cloud") <=> AsksCloud(o, past) /\ CloudWays(o, past) \cap w.reach # {}
  BY <1>3, <1>5 DEF AsksCloud
<1>7. ASSUME o.cloud.ok PROVE \E w \in Seen(o, past) : Holds(w, r, "cloud")
  <2>1. o.cloud # NoAnswer
    BY <1>7 DEF NoAnswer
  <2>2. PICK w \in Seen(o, past) : CloudWays(o, past) \cap w.reach # {}
    BY <1>2, <2>1 DEF CloudFact
  <2>3. AsksCloud(o, past)
    BY <1>2, <1>7 DEF CloudFact
  <2>. QED
    BY <1>6, <2>2, <2>3
<1>8. ASSUME ~o.cloud.ok PROVE \E w \in Seen(o, past) : ~Holds(w, r, "cloud")
  <2>1. ~AsksCloud(o, past) \/ \E w \in Seen(o, past) : CloudWays(o, past) \cap w.reach = {}
    BY <1>2, <1>3, <1>8 DEF CloudFact
  <2>. QED
    BY <1>2, <1>6, <2>1
<1>9. QED
  BY <1>2, <1>4, <1>7, <1>8

\* Every part of a report was found right at some moment, and the local one
\* missed on each of its ways at one.
LEMMA PartIs ==
  ASSUME IInv, NEW r \in Runs, report[r].end = "done",
         NEW p \in Checks(report[r].kind, ConfigOf(r))
  PROVE  IF Passes(r, p) THEN \E w \in During(r) : Holds(w, r, p)
         ELSE IF p # "local" THEN \E w \in During(r) : ~Holds(w, r, p)
         ELSE Psql(ConfigOf(r)) => \A road \in LocalWays(r) : \E w \in During(r) : road \notin w.reach
<1>1. report[r].kind \in Kinds /\ World \in During(r)
  BY DoneIs
<1>2. p \in {"tools", "config", "local", "cloud", "backups"}
  BY <1>1, PartSteps
<1>3. CASE p = "tools"
  BY <1>1, <1>3, ToolsPart
<1>4. CASE p = "config"
  BY <1>4, ConfigPart
<1>5. CASE p = "backups"
  BY <1>5, BackupsPart
<1>6. CASE p = "cloud"
  BY <1>6, CloudPart
<1>7. CASE p = "local"
  BY <1>7, LocalPart
<1>8. QED
  BY <1>2, <1>3, <1>4, <1>5, <1>6, <1>7

\* The databases behind the answers of a report that asks those of the settings.
LEMMA LocalCame ==
  ASSUME IInv, NEW r \in Runs, report[r].end = "done", report[r].kind \in {"diff", "apiDiff", "apiStatus"},
         NEW a, Came(report[r], past, a), a # NoAnswer
  PROVE  /\ \E w \in During(r), d \in {"host", "socket"} :
              /\ d \in w.reach /\ a.tables = w.tables[d] /\ a.ok
              /\ d \in LocalWays(r)
              /\ d = "socket" => \E v \in During(r) : "host" \notin v.reach
         /\ a.tables \in [Tables -> TableStates]
<1>1. PICK o : o = report[r]
  OBVIOUS
<1>2. /\ Shape(o) /\ During(r) = Seen(o, past) /\ LocalWays(r) = Ways(o, past)
      /\ \A w \in Seen(o, past) : w \in OneWorld
  BY <1>1, DoneIs
<1>3. o.asked = "saved"
  BY <1>1, <1>2 DEF Shape
<1>4. Ways(o, past) \subseteq {"host", "socket"}
  BY <1>3 DEF Ways, ToTyped
<1>5. PICK w \in Seen(o, past), d \in Ways(o, past) : CameBy(o, past, a, w, d)
  BY <1>1 DEF Came
<1>6. d \in {"host", "socket"} /\ d \in Databases
  BY <1>4 DEF Databases
<1>7. a = Answer(w, d) /\ d \in w.reach /\ (d = "socket" => Away(o, past, "host"))
  BY <1>5 DEF CameBy
<1>8. a.ok /\ a.tables = w.tables[d]
  BY <1>6, <1>7 DEF Answer
<1>9. w.tables[d] \in [Tables -> TableStates]
  BY <1>2, <1>6 DEF OneWorld
<1>10. QED
  BY <1>2, <1>6, <1>7, <1>8, <1>9 DEF Away

LEMMA CloudCame ==
  ASSUME IInv, NEW r \in Runs, report[r].end = "done", report[r].cloud # NoAnswer
  PROVE  /\ \E w \in During(r) : /\ CloudRoads(r) \cap w.reach # {}
                                 /\ report[r].cloud.tables = w.tables["cloud"]
         /\ report[r].cloud.ok
         /\ report[r].cloud.tables \in [Tables -> TableStates]
<1>1. PICK o : o = report[r]
  OBVIOUS
<1>2. /\ CloudFact(o, past) /\ During(r) = Seen(o, past) /\ CloudRoads(r) = CloudWays(o, past)
      /\ \A w \in Seen(o, past) : w \in OneWorld
  BY <1>1, DoneIs DEF Facts
<1>3. PICK w \in Seen(o, past) : CloudWays(o, past) \cap w.reach # {} /\ o.cloud = Answer(w, "cloud")
  BY <1>1, <1>2 DEF CloudFact
<1>4. o.cloud.ok /\ o.cloud.tables = w.tables["cloud"]
  BY <1>3 DEF Answer, Databases
<1>5. w.tables["cloud"] \in [Tables -> TableStates]
  BY <1>2 DEF OneWorld, Databases
<1>6. QED
  BY <1>1, <1>2, <1>3, <1>4, <1>5

\* What pg_class counts tells the states of a table apart.
LEMMA CountedIs ==
  ASSUME NEW a, NEW b, NEW t, a.tables[t] \in TableStates, b.tables[t] \in TableStates
  PROVE  /\ Counted(a, t) = Counted(b, t) <=> a.tables[t] = b.tables[t]
         /\ Counted(a, t) = -1 <=> a.tables[t] = "absent"
<1>1. PICK x \in TableStates, y \in TableStates : x = a.tables[t] /\ y = b.tables[t]
  OBVIOUS
<1>2. Counted(a, t) = IF x = "absent" THEN -1 ELSE IF x = "fresh" THEN 0 ELSE 1
  BY <1>1 DEF Counted, TableStates
<1>3. Counted(b, t) = IF y = "absent" THEN -1 ELSE IF y = "fresh" THEN 0 ELSE 1
  BY <1>1 DEF Counted, TableStates
<1>4. QED
  BY <1>1, <1>2, <1>3 DEF TableStates

LEMMA SyncedCame ==
  ASSUME IInv, NEW r \in Runs, Done(r, "apiStatus"), NEW t \in SyncedRows(r)
  PROVE  /\ report[r].rows # NoAnswer /\ report[r].cloud # NoAnswer
         /\ report[r].rows.tables[t] = report[r].cloud.tables[t]
         /\ report[r].rows.tables[t] # "absent"
<1>1. PICK o : o = report[r]
  OBVIOUS
<1>2. /\ t \in Tables /\ Counted(o.rows, t) # -1 /\ Counted(o.rows, t) = Counted(o.cloud, t)
      /\ o.end = "done" /\ o.kind = "apiStatus"
  BY <1>1 DEF SyncedRows, Done
<1>3. Counted(NoAnswer, t) = -1
  BY <1>2 DEF Counted, NoAnswer, Nothing
<1>4. o.rows # NoAnswer /\ o.cloud # NoAnswer
  BY <1>2, <1>3
<1>5. Came(o, past, o.rows)
  BY <1>1, <1>2, DoneIs DEF Facts, RowsFact
<1>6. o.rows.tables[t] \in TableStates /\ o.cloud.tables[t] \in TableStates
  BY <1>1, <1>2, <1>4, <1>5, LocalCame, CloudCame
<1>7. QED
  BY <1>1, <1>2, <1>4, <1>6, CountedIs

\* While the world changes under it, what a report says was still so at some
\* moment of its time: each part it found was there, each it misses was away on
\* every way it may take, each table it calls in sync was so counted on each side,
\* and a list leaves out no snapshot that was there all along and names none that
\* never was (status.go, snapshots.go, server.go:170-584).
THEOREM NothingInvented == Spec => []PartsWereTrue
<1>1. ASSUME IInv, NEW r \in Runs, report[r].end = "done",
             report[r].kind \in {"diff", "apiDiff"}, InSync(r)
      PROVE  \E w1, w2 \in During(r), d \in {"host", "socket"} :
               Cardinality(Names(w1.tables[d])) = Cardinality(Names(w2.tables["cloud"]))
  <2>1. PICK o : o = report[r]
    OBVIOUS
  <2>2. o.local.ok /\ o.cloud.ok
    BY <1>1, <2>1 DEF InSync
  <2>3. Cardinality(Names(o.local.tables)) = Cardinality(Names(o.cloud.tables))
    <3>1. CASE o.kind = "diff"
      BY <1>1, <2>1, <3>1 DEF InSync
    <3>2. CASE o.kind = "apiDiff"
      BY <1>1, <2>1, <3>2 DEF InSync
    <3>. QED
      BY <1>1, <2>1, <3>1, <3>2
  <2>4. o.local # NoAnswer /\ o.cloud # NoAnswer
    BY <2>2 DEF NoAnswer
  <2>5. Came(o, past, o.local)
    BY <1>1, <2>1, DoneIs DEF Facts, LocalFact
  <2>6. PICK w1 \in During(r), d \in {"host", "socket"} : o.local.tables = w1.tables[d]
    BY <1>1, <2>1, <2>4, <2>5, LocalCame
  <2>7. PICK w2 \in During(r) : o.cloud.tables = w2.tables["cloud"]
    BY <1>1, <2>1, <2>4, CloudCame
  <2>. QED
    BY <2>3, <2>6, <2>7
<1>2. ASSUME IInv, NEW r \in Runs, Done(r, "apiStatus"), NEW t \in SyncedRows(r)
      PROVE  \E w1, w2 \in During(r), d \in {"host", "socket"} :
               w1.tables[d][t] = w2.tables["cloud"][t] /\ w1.tables[d][t] # "absent"
  <2>1. PICK o : o = report[r]
    OBVIOUS
  <2>2. /\ o.rows # NoAnswer /\ o.cloud # NoAnswer
        /\ o.rows.tables[t] = o.cloud.tables[t] /\ o.rows.tables[t] # "absent"
    BY <1>2, <2>1, SyncedCame
  <2>3. o.end = "done" /\ o.kind = "apiStatus"
    BY <1>2, <2>1 DEF Done
  <2>4. Came(o, past, o.rows)
    BY <1>2, <2>1, <2>3, DoneIs DEF Facts, RowsFact
  <2>5. PICK w1 \in During(r), d \in {"host", "socket"} : o.rows.tables = w1.tables[d]
    BY <1>2, <2>1, <2>2, <2>3, <2>4, LocalCame
  <2>6. PICK w2 \in During(r) : o.cloud.tables = w2.tables["cloud"]
    BY <1>2, <2>1, <2>2, <2>3, CloudCame
  <2>. QED
    BY <2>2, <2>5, <2>6
<1>3. ASSUME IInv, NEW r \in Runs, report[r].end = "done",
             report[r].kind \in {"snapshots", "apiSnapshots"}, NEW f \in Snapshots
      PROVE  /\ f \in Range(report[r].names) => \E w \in During(r) : f \in Range(w.files)
             /\ f \notin Range(report[r].names) => \E w \in During(r) : f \notin Range(w.files)
  <2>1. PICK o : o = report[r]
    OBVIOUS
  <2>2. /\ NamesFact(o, past) /\ During(r) = Seen(o, past)
        /\ \A step \in Range(Order[o.kind]) : Passed(o, step)
    BY <1>3, <2>1, DoneIs DEF Facts
  <2>3. "glob" \in Range(Order[o.kind])
    BY <1>3, <2>1 DEF Order, Range
  <2>. QED
    BY <1>3, <2>1, <2>2, <2>3 DEF NamesFact
<1>4. IInv => PartsWereTrue
  BY <1>1, <1>2, <1>3, PartIs DEF PartsWereTrue
<1>5. QED
  BY <1>4, Invariant, PTL
-----------------------------------------------------------------------------
(***************************************************************************)
(* A report that ends in the world it began in.                            *)
(***************************************************************************)
Steady(r) == r \in Runs /\ report[r].end = "done" /\ report[r].since = Len(past)

LEMMA SteadyIs ==
  ASSUME IInv, NEW r, Steady(r)
  PROVE  r \in Runs /\ report[r].end = "done" /\ During(r) = {World}
  BY DoneIs DEF Steady

LEMMA SteadyParts ==
  ASSUME IInv, NEW r, Steady(r), NEW p \in Checks(report[r].kind, ConfigOf(r))
  PROVE  Passes(r, p) <=> Holds(World, r, p)
<1>1. r \in Runs /\ report[r].end = "done" /\ During(r) = {World}
  BY SteadyIs
<1>2. CASE Passes(r, p)
  BY <1>1, <1>2, PartIs
<1>3. CASE ~Passes(r, p) /\ p # "local"
  BY <1>1, <1>3, PartIs
<1>4. CASE ~Passes(r, p) /\ p = "local"
  <2>1. Psql(ConfigOf(r)) => \A road \in LocalWays(r) : road \notin World.reach
    BY <1>1, <1>4, PartIs
  <2>2. Holds(World, r, "local") <=> Psql(ConfigOf(r)) /\ LocalWays(r) \cap World.reach # {}
    BY DEF Holds
  <2>. QED
    BY <1>4, <2>1, <2>2
<1>5. QED
  BY <1>2, <1>3, <1>4

\* The tables of an answer are those of the world.
LEMMA SteadyLocal ==
  ASSUME IInv, NEW r, Steady(r), report[r].kind \in {"diff", "apiDiff", "apiStatus"},
         NEW a, Came(report[r], past, a), a # NoAnswer
  PROVE  a.tables = LocalOf(World) /\ LocalWays(r) \cap World.reach # {}
<1>1. r \in Runs /\ report[r].end = "done" /\ During(r) = {World}
  BY SteadyIs
<1>2. PICK d \in {"host", "socket"} :
        /\ d \in World.reach /\ a.tables = World.tables[d] /\ d \in LocalWays(r)
        /\ d = "socket" => "host" \notin World.reach
  BY <1>1, LocalCame
<1>3. d = IF "host" \in World.reach THEN "host" ELSE "socket"
  BY <1>2
<1>4. QED
  BY <1>2, <1>3 DEF LocalOf

LEMMA SteadyCloud ==
  ASSUME IInv, NEW r, Steady(r), report[r].cloud # NoAnswer
  PROVE  /\ report[r].cloud.tables = World.tables["cloud"]
         /\ CloudRoads(r) \cap World.reach # {} /\ report[r].cloud.ok
<1>1. r \in Runs /\ report[r].end = "done" /\ During(r) = {World}
  BY SteadyIs
<1>2. QED
  BY <1>1, CloudCame

LEMMA SteadySync ==
  ASSUME IInv, NEW r, Steady(r), report[r].kind \in {"diff", "apiDiff"}
  PROVE  InSync(r) <=>
           /\ Holds(World, r, "local") /\ Holds(World, r, "cloud")
           /\ LET here == Names(LocalOf(World))
                  there == Names(World.tables["cloud"])
              IN  IF report[r].kind = "diff" THEN Cardinality(here) = Cardinality(there)
                                             ELSE here = there
<1>1. PICK o : o = report[r]
  OBVIOUS
<1>2. /\ r \in Runs /\ o.end = "done" /\ Came(o, past, o.local)
      /\ Shape(o) /\ Facts(o, past) /\ ConfigOf(r) = Conf(o, past)
      /\ CloudRoads(r) = CloudWays(o, past)
  BY <1>1, SteadyIs, DoneIs DEF Facts, LocalFact
<1>3. o.asked = "saved" /\ o.kind \in {"diff", "apiDiff"}
  BY <1>1, <1>2 DEF Shape
<1>4. PICK lok, cok : lok = Passes(r, "local") /\ cok = Passes(r, "cloud")
  OBVIOUS
<1>5. (lok <=> o.local.ok) /\ (cok <=> o.cloud.ok)
  BY <1>1, <1>4 DEF Passes
<1>6. o.local.ok => o.local # NoAnswer /\ o.local.tables = LocalOf(World)
  <2>1. o.local.ok => o.local # NoAnswer
    BY DEF NoAnswer
  <2>. QED
    BY <1>1, <1>2, <1>3, <2>1, SteadyLocal
<1>7. o.cloud.ok => o.cloud # NoAnswer /\ o.cloud.tables = World.tables["cloud"]
  <2>1. o.cloud.ok => o.cloud # NoAnswer
    BY DEF NoAnswer
  <2>. QED
    BY <1>1, <2>1, SteadyCloud
<1>8. /\ Holds(World, r, "cloud") => Configured(ConfigOf(r))
      /\ o.cloud.ok => Configured(ConfigOf(r))
  <2>1. Holds(World, r, "cloud") => Configured(ConfigOf(r))
    BY <1>1, <1>3 DEF Holds
  <2>2. o.cloud.ok => Configured(ConfigOf(r))
    BY <1>2, <1>3 DEF Facts, CloudFact, AsksCloud
  <2>. QED
    BY <2>1, <2>2
<1>9. Configured(ConfigOf(r)) => /\ o.local.ok <=> Holds(World, r, "local")
                                 /\ o.cloud.ok <=> Holds(World, r, "cloud")
  <2>1. SUFFICES ASSUME Configured(ConfigOf(r))
                 PROVE  {"local", "cloud"} \subseteq Checks(o.kind, ConfigOf(r))
    BY <1>1, <1>4, <1>5, SteadyParts
  <2>2. CASE o.kind = "diff"
    BY <2>1, <2>2 DEF Checks
  <2>3. CASE o.kind = "apiDiff"
    BY <2>1, <2>3 DEF Checks
  <2>. QED
    BY <1>3, <2>2, <2>3
<1>10. o.local.ok /\ o.cloud.ok <=> Holds(World, r, "local") /\ Holds(World, r, "cloud")
  BY <1>8, <1>9
<1>11. CASE o.kind = "diff"
  <2>1. InSync(r) <=> /\ o.local.ok /\ o.cloud.ok
                      /\ Cardinality(Names(o.local.tables)) = Cardinality(Names(o.cloud.tables))
    BY <1>1, <1>11 DEF InSync
  <2>. QED
    BY <1>1, <1>6, <1>7, <1>10, <1>11, <2>1
<1>12. CASE o.kind = "apiDiff"
  <2>1. InSync(r) <=> /\ o.local.ok /\ o.cloud.ok
                      /\ Names(o.local.tables) = Names(o.cloud.tables)
    BY <1>1, <1>12 DEF InSync
  <2>. QED
    BY <1>1, <1>6, <1>7, <1>10, <1>12, <2>1
<1>13. QED
  BY <1>3, <1>11, <1>12

LEMMA SteadyRows ==
  ASSUME IInv, NEW r, Steady(r), Done(r, "apiStatus")
  PROVE  SyncedRows(r) = {t \in Tables :
           /\ Holds(World, r, "local") /\ Holds(World, r, "cloud")
           /\ LocalOf(World)[t] = World.tables["cloud"][t]
           /\ LocalOf(World)[t] # "absent"}
<1>1. PICK o : o = report[r]
  OBVIOUS
<1>2. /\ r \in Runs /\ o.end = "done" /\ o.kind = "apiStatus"
      /\ Came(o, past, o.local) /\ Came(o, past, o.rows)
      /\ Shape(o) /\ Facts(o, past) /\ ConfigOf(r) = Conf(o, past)
      /\ CloudRoads(r) = CloudWays(o, past) /\ LocalWays(r) = Ways(o, past)
      /\ Seen(o, past) = {World}
      /\ \A step \in Range(Order[o.kind]) : Passed(o, step)
  BY <1>1, SteadyIs, DoneIs DEF Done, Facts, LocalFact, RowsFact
<1>3. o.asked = "saved" /\ Range(Order[o.kind]) = {"local", "tables", "cloud"}
  BY <1>2 DEF Shape, Order, Range
<1>4. Holds(World, r, "local") <=> Psql(Conf(o, past)) /\ Ways(o, past) \cap World.reach # {}
  BY <1>2 DEF Holds
<1>5. Holds(World, r, "cloud") <=> /\ Psql(Conf(o, past)) /\ Configured(Conf(o, past))
                                   /\ CloudWays(o, past) \cap World.reach # {}
  BY <1>1, <1>2, <1>3 DEF Holds
<1>6. o.rows # NoAnswer =>
        /\ Holds(World, r, "local") /\ o.rows.tables = LocalOf(World)
        /\ o.rows.tables \in [Tables -> TableStates]
  <2>1. SUFFICES ASSUME o.rows # NoAnswer
                 PROVE  /\ Holds(World, r, "local") /\ o.rows.tables = LocalOf(World)
                        /\ o.rows.tables \in [Tables -> TableStates]
    OBVIOUS
  <2>2. o.rows.tables = LocalOf(World) /\ Ways(o, past) \cap World.reach # {}
    BY <1>1, <1>2, <2>1, SteadyLocal
  <2>3. o.rows.tables \in [Tables -> TableStates] /\ o.rows.ok
    BY <1>1, <1>2, <2>1, LocalCame
  <2>4. Psql(Conf(o, past))
    BY <1>2, <2>3 DEF Facts, RowsFact, Skips
  <2>. QED
    BY <1>4, <2>2, <2>3, <2>4
<1>7. o.cloud # NoAnswer =>
        /\ Holds(World, r, "cloud") /\ o.cloud.tables = World.tables["cloud"]
        /\ o.cloud.tables \in [Tables -> TableStates]
  <2>1. SUFFICES ASSUME o.cloud # NoAnswer
                 PROVE  /\ Holds(World, r, "cloud") /\ o.cloud.tables = World.tables["cloud"]
                        /\ o.cloud.tables \in [Tables -> TableStates]
    OBVIOUS
  <2>2. /\ o.cloud.tables = World.tables["cloud"] /\ CloudWays(o, past) \cap World.reach # {}
        /\ o.cloud.ok
    BY <1>1, <1>2, <2>1, SteadyCloud
  <2>3. o.cloud.tables \in [Tables -> TableStates]
    BY <1>1, <1>2, <2>1, CloudCame
  <2>4. AsksCloud(o, past)
    BY <1>2, <2>2 DEF Facts, CloudFact
  <2>5. Psql(Conf(o, past)) /\ Configured(Conf(o, past))
    BY <1>3, <2>4 DEF AsksCloud
  <2>. QED
    BY <1>5, <2>2, <2>3, <2>5
<1>8. ASSUME Holds(World, r, "local"), Holds(World, r, "cloud")
      PROVE  o.rows # NoAnswer /\ o.cloud # NoAnswer
  <2>1. Psql(Conf(o, past)) /\ Configured(Conf(o, past)) /\ ~Skips(o, past)
    BY <1>2, <1>4, <1>5, <1>8 DEF Skips
  <2>2. PICK road \in Ways(o, past) : road \in World.reach
    BY <1>4, <1>8
  <2>3. ~Away(o, past, road)
    BY <1>2, <2>2 DEF Away
  <2>4. Passed(o, "local") /\ Passed(o, "tables") /\ Passed(o, "cloud")
    BY <1>2, <1>3
  <2>5. o.local.ok
    BY <1>2, <2>1, <2>2, <2>3, <2>4 DEF Facts, LocalFact
  <2>6. o.rows.ok
    BY <1>2, <2>1, <2>2, <2>3, <2>4, <2>5 DEF Facts, RowsFact
  <2>7. AsksCloud(o, past)
    BY <2>1, <2>5 DEF AsksCloud
  <2>8. o.cloud.ok
    BY <1>2, <1>5, <1>8, <2>4, <2>7 DEF Facts, CloudFact
  <2>. QED
    BY <2>6, <2>8 DEF NoAnswer
<1>9. ASSUME NEW t \in SyncedRows(r)
      PROVE  /\ t \in Tables /\ Holds(World, r, "local") /\ Holds(World, r, "cloud")
             /\ LocalOf(World)[t] = World.tables["cloud"][t]
             /\ LocalOf(World)[t] # "absent"
  <2>1. t \in Tables
    BY DEF SyncedRows
  <2>. QED
    BY <1>1, <1>2, <1>6, <1>7, <2>1, SyncedCame
<1>10. ASSUME NEW t \in Tables, Holds(World, r, "local"), Holds(World, r, "cloud"),
              LocalOf(World)[t] = World.tables["cloud"][t], LocalOf(World)[t] # "absent"
       PROVE  t \in SyncedRows(r)
  <2>1. /\ o.rows.tables[t] \in TableStates /\ o.cloud.tables[t] \in TableStates
        /\ o.rows.tables[t] = o.cloud.tables[t] /\ o.rows.tables[t] # "absent"
    BY <1>6, <1>7, <1>8, <1>10
  <2>2. Counted(o.rows, t) # -1 /\ Counted(o.rows, t) = Counted(o.cloud, t)
    BY <2>1, CountedIs
  <2>. QED
    BY <1>1, <2>2 DEF SyncedRows
<1>11. QED
  BY <1>9, <1>10

LEMMA SteadyLists ==
  ASSUME IInv, NEW r, Steady(r)
  PROVE  /\ Done(r, "snapshots") => report[r].names = Reverse(World.files)
         /\ Done(r, "apiSnapshots") => Range(report[r].names) = Range(World.files)
         /\ Done(r, "status") =>
              /\ report[r].count = Len(World.files)
              /\ \A f \in Pushes \cap Range(World.files) :
                   report[r].names # <<>> /\ ~\E i, j \in DOMAIN World.files :
                     i < j /\ World.files[i] = report[r].names[1] /\ World.files[j] \in Pushes
<1>1. PICK o : o = report[r]
  OBVIOUS
<1>2. /\ o.end = "done" /\ o.kind \in Kinds /\ o.left = <<>> /\ o.since = Len(past)
      /\ ExactFact(o, past) /\ CountFact(o, past) /\ World = Now(past)
      /\ Seen(o, past) = {World} /\ World \in OneWorld /\ Distinct(World.files)
      /\ \A step \in Range(Order[o.kind]) : Passed(o, step)
  BY <1>1, SteadyIs, DoneIs DEF Steady, Facts
<1>3. Range(o.left) = {} /\ World.files \in Seq(Snapshots)
  BY <1>2 DEF Range, OneWorld
<1>4. CASE o.kind = "snapshots"
  <2>1. Passed(o, "glob")
    BY <1>2, <1>4 DEF Order, Range
  <2>2. o.names = Reverse(World.files)
    BY <1>2, <1>3, <1>4, <2>1 DEF ExactFact
  <2>. QED
    BY <1>1, <1>4, <2>2 DEF Done
<1>5. CASE o.kind = "apiSnapshots"
  <2>1. Passed(o, "glob")
    BY <1>2, <1>5 DEF Order, Range
  <2>2. o.names = World.files
    BY <1>2, <1>3, <1>5, <2>1 DEF ExactFact
  <2>. QED
    BY <1>1, <1>5, <2>2 DEF Done
<1>6. CASE o.kind = "status"
  <2>1. Passed(o, "glob") /\ Passed(o, "count")
    BY <1>2, <1>6 DEF Order, Range
  <2>2. PICK pushes : pushes = Among(World.files, Pushes)
    OBVIOUS
  <2>3. o.names = IF pushes = <<>> THEN <<>> ELSE <<Last(pushes)>>
    BY <1>2, <1>3, <1>6, <2>1, <2>2 DEF ExactFact
  <2>4. o.count = Len(Among(World.files, Snapshots))
    BY <1>2, <1>6, <2>1 DEF CountFact, CountedOf
  <2>5. Among(World.files, Snapshots) = World.files
    <3>1. Range(World.files) \subseteq Snapshots
      BY <1>3 DEF Range
    <3>. QED
      BY <1>3, <3>1, AmongAll
  <2>6. ASSUME NEW f \in Pushes \cap Range(World.files)
        PROVE  o.names # <<>> /\ ~\E i, j \in DOMAIN World.files :
                 i < j /\ World.files[i] = o.names[1] /\ World.files[j] \in Pushes
    <3>1. Range(pushes) = Range(World.files) \cap Pushes
      BY <1>3, <2>2, AmongRange
    <3>2. pushes # <<>>
      BY <3>1 DEF Range
    <3>3. o.names = <<Last(pushes)>>
      BY <2>3, <3>2
    <3>4. o.names # <<>> /\ o.names[1] = Last(pushes)
      BY <3>3
    <3>5. ~\E i, j \in DOMAIN World.files :
             i < j /\ World.files[i] = Last(pushes) /\ World.files[j] \in Pushes
      BY <1>2, <1>3, <2>2, <3>2, LastAmong
    <3>. QED
      BY <3>4, <3>5
  <2>. QED
    BY <1>1, <1>6, <2>4, <2>5, <2>6 DEF Done
<1>7. CASE o.kind \notin {"snapshots", "apiSnapshots", "status"}
  BY <1>1, <1>7 DEF Done
<1>8. QED
  BY <1>4, <1>5, <1>6, <1>7

\* A report that ends in the world it began in tells the truth about it, whatever
\* else is down: which parts fail, whether the databases are in sync as far as that
\* report compares them, and which snapshots there are, newest first (status.go,
\* snapshots.go, server.go:170-584).
THEOREM SteadyTruth == Spec => []SteadyVerdicts
<1>1. ASSUME IInv, NEW r \in Runs, report[r].end = "done", report[r].since = Len(past)
      PROVE  Steady(r) /\ Complaints(r) = {p \in Checks(report[r].kind, ConfigOf(r)) : ~Holds(World, r, p)}
  <2>1. Steady(r)
    BY <1>1 DEF Steady
  <2>2. \A p \in Checks(report[r].kind, ConfigOf(r)) : Passes(r, p) <=> Holds(World, r, p)
    BY <1>1, <2>1, SteadyParts
  <2>. QED
    BY <2>1, <2>2 DEF Complaints
<1>2. IInv => SteadyVerdicts
  BY <1>1, SteadySync, SteadyRows, SteadyLists DEF SteadyVerdicts
<1>3. QED
  BY <1>2, Invariant, PTL

-----------------------------------------------------------------------------
(***************************************************************************)
(* Detection: a loop over what is tried, and what it has reported so far.  *)
(***************************************************************************)
\* A loop has a value after every round.
Rounds(n, S) == [1 .. n -> [S -> S]]
RunsThrough(n, S, start, step) ==
  \E g \in [0 .. n -> S] : g[0] = start /\ \A i \in 1 .. n : g[i] = step[i][g[i - 1]]

LEMMA Iterates ==
  ASSUME NEW n \in Nat, NEW S, NEW start \in S, NEW step \in Rounds(n, S)
  PROVE  RunsThrough(n, S, start, step)
<1> DEFINE Holds1(k, g) == /\ g \in [0 .. k -> S] /\ g[0] = start
                          /\ \A i \in 1 .. k : g[i] = step[i][g[i - 1]]
           Wrong == {k \in 0 .. n : ~\E g : Holds1(k, g)}
<1>0. step \in [1 .. n -> [S -> S]]
  BY DEF Rounds
<1>1. Wrong = {}
  <2>1. SUFFICES ASSUME Wrong # {} PROVE FALSE
    OBVIOUS
  <2>2. PICK m \in Wrong : \A k \in Wrong : m <= k
    <3>1. Wrong \in SUBSET Nat
      OBVIOUS
    <3>. QED
      BY <2>1, <3>1, Least
  <2>3. m # 0
    <3>1. PICK g : g = [i \in 0 .. 0 |-> start]
      OBVIOUS
    <3>2. Holds1(0, g)
      BY <3>1
    <3>. QED
      BY <2>2, <3>2
  <2>4. PICK l \in 0 .. n : l = m - 1 /\ m = l + 1 /\ l \notin Wrong
    <3>1. PICK l \in 0 .. n : l = m - 1 /\ m = l + 1
      BY <2>2, <2>3
    <3>2. l \notin Wrong
      <4>. HIDE DEF Wrong
      <4>. QED
        BY <2>2, <3>1
    <3>. QED
      BY <3>1, <3>2
  <2>5. PICK g : Holds1(l, g)
    BY <2>4
  <2>6. PICK h : h = [i \in 0 .. m |-> IF i = m THEN step[m][g[l]] ELSE g[i]]
    OBVIOUS
  <2>7. h \in [0 .. m -> S] /\ h[0] = start
    <3>1. \A i \in 0 .. m : i # m => i \in 0 .. l
      BY <2>4
    <3>2. m \in 1 .. n
      BY <2>2, <2>3
    <3>3. step[m][g[l]] \in S
      <4>1. step[m] \in [S -> S]
        BY <1>0, <3>2
      <4>2. g[l] \in S
        BY <2>4, <2>5
      <4>. QED
        BY <4>1, <4>2
    <3>4. \A i \in 0 .. m : (IF i = m THEN step[m][g[l]] ELSE g[i]) \in S
      BY <2>5, <3>1, <3>3
    <3>5. h[0] = g[0]
      BY <2>3, <2>4, <2>6
    <3>. QED
      BY <2>5, <2>6, <3>4, <3>5
  <2>8. ASSUME NEW i \in 1 .. m PROVE h[i] = step[i][h[i - 1]]
    <3>1. CASE i = m
      BY <2>4, <2>6, <3>1
    <3>2. CASE i # m
      <4>1. i \in 1 .. l /\ i - 1 \in 0 .. m /\ i - 1 # m /\ i \in 0 .. m
        BY <2>4, <3>2
      <4>2. h[i] = g[i] /\ h[i - 1] = g[i - 1]
        BY <2>6, <3>2, <4>1
      <4>. QED
        BY <2>5, <4>1, <4>2
    <3>. QED
      BY <3>1, <3>2
  <2>9. Holds1(m, h)
    BY <2>7, <2>8
  <2>. QED
    BY <2>2, <2>9
<1>2. PICK g : Holds1(n, g)
  BY <1>1
<1>3. QED
  BY <1>2 DEF RunsThrough

\* The list of users names nobody twice.
LEMMA UsersAre ==
  Users \in Seq(Range(Users)) /\ Distinct(Users)
<1>1. PICK u : u = <<"me", "postgres", "root">>
  OBVIOUS
<1>2. u \in [1 .. 3 -> {"me", "postgres", "root"}] /\ u[1] = "me" /\ u[2] = "postgres" /\ u[3] = "root"
  BY <1>1
<1>3. Distinct(u)
  BY <1>2 DEF Distinct
<1>4. u \in Seq(Range(u))
  <2>1. PICK S : S = Range(u)
    OBVIOUS
  <2>2. \A i \in 1 .. 3 : u[i] \in S
    BY <1>2, <2>1 DEF Range
  <2>3. PICK n \in Nat : n = 3
    OBVIOUS
  <2>4. u \in [1 .. n -> S]
    BY <1>2, <2>2, <2>3
  <2>5. u \in Seq(S)
    BY <2>4
  <2>. QED
    BY <2>1, <2>5
<1>5. Users = u
  BY <1>1 DEF Users
<1>6. QED
  BY <1>3, <1>4, <1>5

\* Of the users that a server lets in, the first of the list is reported.
LEMMA LetsInIs ==
  ASSUME NEW answers \in SUBSET Range(Users)
  PROVE  /\ LetsIn(Users, answers) = <<>> <=> answers = {}
         /\ answers # {} => /\ LetsIn(Users, answers)[1] = Foremost(answers)
                            /\ Foremost(answers) \in answers
<1>1. PICK users \in Seq(Range(Users)) : users = Users /\ Distinct(users)
  BY UsersAre
<1>2. PICK n \in Nat : \E at : Picks(at, n, users, answers)
  BY <1>1, AmongIs
<1>3. PICK at : Picks(at, n, users, answers)
  BY <1>2
<1>4. PICK lets : lets = LetsIn(Users, answers)
  OBVIOUS
<1>5. lets = [i \in 1 .. n |-> users[at[i]]]
  BY <1>1, <1>3, <1>4 DEF LetsIn, Picks
<1>6. \A i \in 1 .. n : at[i] \in DOMAIN users /\ users[at[i]] \in answers
  BY <1>3 DEF Picks, PlacesIn
<1>7. \A u \in answers : \E i \in 1 .. n : users[at[i]] = u
  <2>1. \A u \in answers : \E k \in DOMAIN users : users[k] = u
    BY <1>1 DEF Range
  <2>2. \A u \in answers : \E k \in PlacesIn(users, answers) : users[k] = u
    BY <2>1 DEF PlacesIn
  <2>. QED
    BY <1>3, <2>2 DEF Picks
<1>8. lets = <<>> <=> n = 0
  BY <1>5
<1>9. n = 0 <=> answers = {}
  BY <1>6, <1>7
<1>10. ASSUME answers # {} PROVE lets[1] = Foremost(answers) /\ Foremost(answers) \in answers
  <2>1. n # 0 /\ 1 \in 1 .. n
    BY <1>9, <1>10
  <2>2. PICK u \in answers : u = users[at[1]] /\ lets[1] = u
    BY <1>5, <1>6, <2>1
  <2> DEFINE Before1(v) == \A other \in answers :
                             \E i, j \in DOMAIN users : i <= j /\ users[i] = v /\ users[j] = other
  <2>3. Before1(u)
    <3>1. ASSUME NEW other \in answers
          PROVE \E i, j \in DOMAIN users : i <= j /\ users[i] = u /\ users[j] = other
      <4>1. PICK k \in 1 .. n : users[at[k]] = other
        BY <1>7
      <4>2. k = 1 \/ at[1] < at[k]
        BY <1>3, <2>1 DEF Picks
      <4>3. at[1] \in DOMAIN users /\ at[k] \in DOMAIN users /\ DOMAIN users \subseteq Nat
        BY <1>6, <2>1
      <4>4. PICK i \in DOMAIN users, j \in DOMAIN users : i = at[1] /\ j = at[k]
        BY <4>3
      <4>5. i <= j
        BY <4>2, <4>3, <4>4
      <4>. QED
        BY <2>2, <4>1, <4>4, <4>5
    <3>. QED
      BY <3>1
  <2>4. ASSUME NEW v \in answers, Before1(v) PROVE v = u
    <3>1. PICK i \in DOMAIN users, j \in DOMAIN users : i <= j /\ users[i] = u /\ users[j] = v
      BY <2>3
    <3>2. PICK k \in DOMAIN users, l \in DOMAIN users : k <= l /\ users[k] = v /\ users[l] = u
      BY <2>4
    <3>3. i = l /\ j = k
      BY <1>1, <3>1, <3>2 DEF Distinct
    <3>4. i = j
      BY <3>1, <3>2, <3>3
    <3>. QED
      BY <3>1, <3>4
  <2>5. Foremost(answers) = CHOOSE v \in answers : Before1(v)
    BY <1>1 DEF Foremost
  <2>6. (CHOOSE v \in answers : Before1(v)) = u
    BY <2>3, <2>4
  <2>. QED
    BY <2>2, <2>5, <2>6
<1>11. QED
  BY <1>4, <1>8, <1>9, <1>10

-----------------------------------------------------------------------------
\* Servers: what is tried, and what is reported of those that answer.
Attempted(P) == [port : P, answers : SUBSET Range(Users), isSocket : BOOLEAN]
Instances(P) == [port : P, user : Range(Users), isSocket : BOOLEAN]
InstanceOf(a) == Instance(a.port, Foremost(a.answers), a.isSocket)

\* One attempt adds a server to the list, or leaves the list as it is.
LEMMA TriedIs ==
  ASSUME NEW P, NEW a \in Attempted(P), NEW results \in Seq(Instances(P))
  PROVE  /\ Tried(results, a, Users) \in Seq(Instances(P))
         /\ Tried(results, a, Users) =
              IF a.port \in Ports(results) \/ a.answers = {} THEN results
              ELSE Append(results, InstanceOf(a))
<1>1. PICK answers \in SUBSET Range(Users) : answers = a.answers
  BY DEF Attempted
<1>2. PICK lets : lets = LetsIn(Users, answers)
  OBVIOUS
<1>3. /\ lets = <<>> <=> answers = {}
      /\ answers # {} => lets[1] = Foremost(answers) /\ Foremost(answers) \in answers
  BY <1>2, LetsInIs
<1>4. CASE a.port \in Ports(results) \/ answers = {}
  BY <1>1, <1>2, <1>3, <1>4 DEF Tried
<1>5. CASE a.port \notin Ports(results) /\ answers # {}
  <2>1. PICK new : new = InstanceOf(a)
    OBVIOUS
  <2>2. new \in Instances(P)
    BY <1>1, <1>3, <1>5, <2>1 DEF InstanceOf, Instance, Instances, Attempted
  <2>3. Tried(results, a, Users) = Append(results, Instance(a.port, lets[1], a.isSocket))
    BY <1>1, <1>2, <1>3, <1>5 DEF Tried
  <2>4. Tried(results, a, Users) = Append(results, new)
    BY <1>1, <1>3, <1>5, <2>1, <2>3 DEF InstanceOf
  <2>. QED
    BY <1>1, <1>5, <2>1, <2>2, <2>4
<1>6. QED
  BY <1>1, <1>4, <1>5

\* What is reported after the first k attempts: of every port that answered, the
\* first attempt that did.
Winner(attempts, i) ==
  /\ attempts[i].answers # {}
  /\ \A j \in 1 .. i - 1 : attempts[j].answers = {} \/ attempts[j].port # attempts[i].port
Reported(attempts, results, k) ==
  /\ \A x, y \in DOMAIN results : results[x].port = results[y].port => x = y
  /\ \A i \in 1 .. k : attempts[i].answers # {} => attempts[i].port \in Ports(results)
  /\ \A x \in DOMAIN results : \E i \in 1 .. k :
       Winner(attempts, i) /\ results[x] = InstanceOf(attempts[i])

\* What is reported of the attempts so far, after one more.
LEMMA OneMoreTried ==
  ASSUME NEW P, NEW n \in Nat, NEW attempts \in [1 .. n -> Attempted(P)],
         NEW old \in Seq(Instances(P)), NEW k \in 1 .. n, Reported(attempts, old, k - 1)
  PROVE  Reported(attempts, Tried(old, attempts[k], Users), k)
<1>1. PICK a \in Attempted(P) : a = attempts[k]
  OBVIOUS
<1>2. PICK results \in Seq(Instances(P)) :
        /\ results = Tried(old, a, Users)
        /\ results = IF a.port \in Ports(old) \/ a.answers = {} THEN old
                     ELSE Append(old, InstanceOf(a))
  BY TriedIs
<1>3. /\ \A x, y \in DOMAIN old : old[x].port = old[y].port => x = y
      /\ \A i \in 1 .. k - 1 : attempts[i].answers # {} => attempts[i].port \in Ports(old)
      /\ \A x \in DOMAIN old : \E i \in 1 .. k - 1 :
           Winner(attempts, i) /\ old[x] = InstanceOf(attempts[i])
  BY DEF Reported
<1>4. 1 .. k - 1 \subseteq 1 .. k /\ \A i \in 1 .. k : i = k \/ i \in 1 .. k - 1
  OBVIOUS
<1>5. CASE a.port \in Ports(old) \/ a.answers = {}
  <2>1. results = old
    BY <1>2, <1>5
  <2>2. \A i \in 1 .. k : attempts[i].answers # {} => attempts[i].port \in Ports(results)
    BY <1>1, <1>3, <1>4, <1>5, <2>1
  <2>3. \A x \in DOMAIN results : \E i \in 1 .. k :
          Winner(attempts, i) /\ results[x] = InstanceOf(attempts[i])
    BY <1>3, <1>4, <2>1
  <2>. QED
    BY <1>1, <1>2, <1>3, <2>1, <2>2, <2>3 DEF Reported
<1>6. CASE a.port \notin Ports(old) /\ a.answers # {}
  <2>1. PICK new : new = InstanceOf(a)
    OBVIOUS
  <2>2. new.port = a.port
    BY <2>1 DEF InstanceOf, Instance
  <2>3. PICK m \in Nat : m = Len(old) /\ DOMAIN old = 1 .. m
    OBVIOUS
  <2>4. /\ results = Append(old, new) /\ DOMAIN results = 1 .. (m + 1) /\ results[m + 1] = new
        /\ \A x \in 1 .. m : results[x] = old[x]
    BY <1>2, <1>6, <2>1, <2>3
  <2>5. \A x \in 1 .. (m + 1) : x = m + 1 \/ x \in 1 .. m
    OBVIOUS
  <2>6. \A x \in 1 .. m : old[x].port # a.port
    BY <1>6, <2>3 DEF Ports
  <2>7. \A x, y \in DOMAIN results : results[x].port = results[y].port => x = y
    BY <1>3, <2>2, <2>3, <2>4, <2>5, <2>6
  <2>8. Ports(old) \subseteq Ports(results) /\ a.port \in Ports(results)
    BY <2>2, <2>3, <2>4 DEF Ports
  <2>9. \A i \in 1 .. k : attempts[i].answers # {} => attempts[i].port \in Ports(results)
    BY <1>1, <1>3, <1>4, <2>8
  <2>10. Winner(attempts, k)
    BY <1>1, <1>3, <1>6 DEF Winner
  <2>11. ASSUME NEW x \in DOMAIN results
         PROVE \E i \in 1 .. k : Winner(attempts, i) /\ results[x] = InstanceOf(attempts[i])
    <3>1. CASE x = m + 1
      <4>1. k \in 1 .. k
        OBVIOUS
      <4>. QED
        BY <1>1, <2>1, <2>4, <2>10, <3>1, <4>1
    <3>2. CASE x \in 1 .. m
      BY <1>3, <1>4, <2>3, <2>4, <3>2
    <3>. QED
      BY <2>4, <2>5, <3>1, <3>2
  <2>. QED
    BY <1>1, <1>2, <2>7, <2>9, <2>11 DEF Reported
<1>7. QED
  BY <1>5, <1>6

\* So the loop reports, in order, the first answer of each port.
LEMMA LoopReports ==
  ASSUME NEW P, NEW attempts \in Seq(Attempted(P)),
         NEW loop, loop = CHOOSE f : f = [i \in 0 .. Len(attempts) |->
                            IF i = 0 THEN <<>> ELSE Tried(f[i - 1], attempts[i], Users)]
  PROVE  LET results == loop[Len(attempts)] IN
         results \in Seq(Instances(P)) /\ Reported(attempts, results, Len(attempts))
<1>1. PICK n \in Nat : n = Len(attempts) /\ attempts \in [1 .. n -> Attempted(P)]
  OBVIOUS
<1>2. PICK S : S = Seq(Instances(P)) /\ <<>> \in S
  <2>1. PICK T : T = Instances(P)
    OBVIOUS
  <2>2. <<>> \in Seq(T)
    OBVIOUS
  <2>. QED
    BY <2>1, <2>2
<1>3. PICK step : step = [i \in 1 .. n |-> [results \in S |-> Tried(results, attempts[i], Users)]]
  OBVIOUS
<1>4. step \in [1 .. n -> [S -> S]]
  <2>1. ASSUME NEW i \in 1 .. n, NEW results \in S PROVE Tried(results, attempts[i], Users) \in S
    <3>1. attempts[i] \in Attempted(P)
      BY <1>1
    <3>. QED
      BY <1>2, <3>1, TriedIs
  <2>. QED
    BY <1>3, <2>1
<1>5. PICK g \in [0 .. n -> S] : g[0] = <<>> /\ \A i \in 1 .. n : g[i] = step[i][g[i - 1]]
  <2>1. PICK start \in S : start = <<>>
    BY <1>2
  <2>2. \E g \in [0 .. n -> S] : g[0] = start /\ \A i \in 1 .. n : g[i] = step[i][g[i - 1]]
    <3>1. step \in Rounds(n, S)
      BY <1>4 DEF Rounds
    <3>2. RunsThrough(n, S, start, step)
      BY <3>1, Iterates
    <3>. QED
      BY <3>2 DEF RunsThrough
  <2>. QED
    BY <2>1, <2>2
<1> DEFINE Next1(f) == [i \in 0 .. n |-> IF i = 0 THEN <<>> ELSE Tried(f[i - 1], attempts[i], Users)]
<1>6. g = Next1(g)
  <2>1. \A i \in 0 .. n : i # 0 => i \in 1 .. n /\ i - 1 \in 0 .. n
    OBVIOUS
  <2>2. ASSUME NEW i \in 1 .. n, NEW results \in S PROVE step[i][results] = Tried(results, attempts[i], Users)
    BY <1>3
  <2>3. ASSUME NEW i \in 0 .. n, i # 0 PROVE step[i][g[i - 1]] = Tried(g[i - 1], attempts[i], Users)
    <3>1. i \in 1 .. n /\ i - 1 \in 0 .. n
      BY <2>1, <2>3
    <3>2. g[i - 1] \in S
      BY <1>5, <3>1
    <3>. QED
      BY <2>2, <3>1, <3>2
  <2>4. \A i \in 0 .. n : g[i] = IF i = 0 THEN <<>> ELSE Tried(g[i - 1], attempts[i], Users)
    BY <1>5, <2>1, <2>3
  <2>5. g = [i \in 0 .. n |-> g[i]]
    BY <1>5
  <2>. QED
    BY <2>4, <2>5
<1>7. loop = CHOOSE f : f = Next1(f)
  BY <1>1
<1>8. loop = Next1(loop)
  BY <1>6, <1>7
<1>9. /\ loop[0] = <<>>
      /\ \A i \in 1 .. n : i \in 0 .. n /\ i - 1 \in 0 .. n /\ loop[i] = Tried(loop[i - 1], attempts[i], Users)
  <2>1. \A i \in 0 .. n : loop[i] = IF i = 0 THEN <<>> ELSE Tried(loop[i - 1], attempts[i], Users)
    BY <1>8
  <2>2. 0 \in 0 .. n /\ \A i \in 1 .. n : i \in 0 .. n /\ i - 1 \in 0 .. n /\ i # 0
    OBVIOUS
  <2>. QED
    BY <2>1, <2>2
<1> DEFINE Right(k) == loop[k] \in S /\ Reported(attempts, loop[k], k)
           Wrong == {k \in 0 .. n : ~Right(k)}
<1>10. Right(0)
  <2>1. PICK results : results = loop[0] /\ results = <<>>
    BY <1>9
  <2>2. DOMAIN results = {}
    <3>1. PICK empty : empty = <<>> /\ DOMAIN empty = {}
      OBVIOUS
    <3>. QED
      BY <2>1, <3>1
  <2>3. Reported(attempts, results, 0)
    BY <2>2 DEF Reported
  <2>. QED
    BY <1>2, <2>1, <2>3
<1>11. ASSUME NEW k \in 1 .. n, Right(k - 1) PROVE Right(k)
  <2>1. PICK old \in Seq(Instances(P)) : old = loop[k - 1] /\ Reported(attempts, old, k - 1)
    BY <1>2, <1>11
  <2>2. loop[k] = Tried(old, attempts[k], Users)
    BY <1>9, <2>1
  <2>3. attempts[k] \in Attempted(P)
    BY <1>1
  <2>4. Tried(old, attempts[k], Users) \in Seq(Instances(P))
    BY <2>3, TriedIs
  <2>5. Reported(attempts, Tried(old, attempts[k], Users), k)
    BY <1>1, <2>1, OneMoreTried
  <2>. QED
    BY <1>2, <2>2, <2>4, <2>5
<1>12. Wrong = {}
  <2>1. SUFFICES ASSUME Wrong # {} PROVE FALSE
    OBVIOUS
  <2>2. PICK m \in Wrong : \A k \in Wrong : m <= k
    <3>1. Wrong \in SUBSET Nat
      OBVIOUS
    <3>. QED
      BY <2>1, <3>1, Least
  <2>3. m \in 0 .. n /\ ~Right(m) /\ m # 0
    BY <1>10, <2>2
  <2>4. m \in 1 .. n /\ m - 1 \in 0 .. n
    BY <2>3
  <2>5. Right(m - 1)
    <3>1. PICK l \in 0 .. n : l = m - 1
      BY <2>4
    <3>2. l \notin Wrong
      <4>. HIDE DEF Wrong
      <4>. QED
        BY <2>2, <2>3, <3>1
    <3>. QED
      BY <3>1, <3>2
  <2>. QED
    BY <1>11, <2>3, <2>4, <2>5
<1>13. Right(n)
  BY <1>12
<1>14. QED
  BY <1>1, <1>2, <1>13
-----------------------------------------------------------------------------
\* What is tried in a scene.
PortsSeen(files) == {SocketPort(f) : f \in Range(files)} \cup Range(TcpPorts)
Unlocked(files) == {f \in Range(files) : f.suffix # "lock"}
TriedIn(files, tcp, n, m, at, attempts) ==
  /\ Picks(at, n, files, Unlocked(files))
  /\ m = Len(TcpPorts)
  /\ attempts = Attempts(files, tcp)
  /\ attempts \in Seq(Attempted(PortsSeen(files))) /\ Len(attempts) = n + m
  /\ \A i \in 1 .. n : attempts[i] = BySocket(files[at[i]])
  /\ \A j \in 1 .. m : attempts[n + j] = ByTcp(TcpPorts[j], tcp)

\* The ports that are tried without a socket.
LEMMA TcpPortsAre == TcpPorts \in Seq(Range(TcpPorts))
<1>1. PICK u : u = <<"5432", "5433">>
  OBVIOUS
<1>2. u \in [1 .. 2 -> {"5432", "5433"}] /\ u[1] = "5432" /\ u[2] = "5433"
  BY <1>1
<1>3. u \in Seq(Range(u))
  <2>1. PICK S : S = Range(u)
    OBVIOUS
  <2>2. \A i \in 1 .. 2 : u[i] \in S
    BY <1>2, <2>1 DEF Range
  <2>3. PICK n \in Nat : n = 2
    OBVIOUS
  <2>4. u \in [1 .. n -> S]
    BY <1>2, <2>2, <2>3
  <2>5. u \in Seq(S)
    BY <2>4
  <2>. QED
    BY <2>1, <2>5
<1>4. TcpPorts = u
  BY <1>1 DEF TcpPorts
<1>5. QED
  BY <1>3, <1>4

\* A list whose first n elements are s, and whose next m are t.
JoinedOf(all, s, n, t, m) ==
  /\ Len(all) = n + m
  /\ \A i \in 1 .. n : all[i] = s[i]
  /\ \A j \in 1 .. m : all[n + j] = t[j]

\* A list and the one that follows it.
LEMMA Joined ==
  ASSUME NEW T, NEW s \in Seq(T), NEW t \in Seq(T)
  PROVE  s \o t \in Seq(T) /\ JoinedOf(s \o t, s, Len(s), t, Len(t))
<1>0. PICK n \in Nat, m \in Nat : n = Len(s) /\ m = Len(t)
  OBVIOUS
<1>1. s \o t \in Seq(T) /\ Len(s \o t) = n + m
  BY <1>0
<1>2. ASSUME NEW i \in 1 .. n PROVE (s \o t)[i] = s[i]
  BY <1>0
<1>3. ASSUME NEW j \in 1 .. m PROVE (s \o t)[n + j] = t[j]
  <2>1. n + j \in 1 .. (n + m) /\ ~(n + j <= n) /\ (n + j) - n = j
    OBVIOUS
  <2>. QED
    BY <1>0, <2>1
<1>4. QED
  BY <1>0, <1>1, <1>2, <1>3 DEF JoinedOf

\* The attempts are the sockets without a lock suffix, then the TCP ports.
LEMMA AttemptsAre ==
  ASSUME NEW files, files \in Seq(Range(files)), \A f \in Range(files) : f.answers \subseteq Range(Users),
         NEW tcp \in [Range(TcpPorts) -> SUBSET Range(Users)]
  PROVE  \E n, m \in Nat : \E at, attempts : TriedIn(files, tcp, n, m, at, attempts)
<1>1. PICK n \in Nat : \E at : Picks(at, n, files, Unlocked(files))
  BY AmongIs
<1>2. PICK at : Picks(at, n, files, Unlocked(files))
  BY <1>1
<1>3. PICK m \in Nat : m = Len(TcpPorts) /\ DOMAIN TcpPorts = 1 .. m
  BY TcpPortsAre
<1>4. PICK T : T = Attempted(PortsSeen(files))
  OBVIOUS
<1>5. PICK first : first = [i \in 1 .. n |-> BySocket(files[at[i]])]
  OBVIOUS
<1>6. PICK second : second = [j \in 1 .. m |-> ByTcp(TcpPorts[j], tcp)]
  OBVIOUS
<1>7. ASSUME NEW i \in 1 .. n PROVE BySocket(files[at[i]]) \in T
  <2>1. PICK f \in Range(files) : f = files[at[i]]
    BY <1>2 DEF Picks, PlacesIn, Range
  <2>2. SocketPort(f) \in PortsSeen(files)
    BY DEF PortsSeen
  <2>. QED
    BY <1>4, <2>1, <2>2 DEF BySocket, Attempted
<1>8. ASSUME NEW j \in 1 .. m PROVE ByTcp(TcpPorts[j], tcp) \in T
  <2>1. PICK p \in Range(TcpPorts) : p = TcpPorts[j]
    BY <1>3 DEF Range
  <2>2. p \in PortsSeen(files)
    BY DEF PortsSeen
  <2>. QED
    BY <1>4, <2>1, <2>2 DEF ByTcp, Attempted
<1>9. first \in Seq(T) /\ Len(first) = n
  BY <1>5, <1>7
<1>10. second \in Seq(T) /\ Len(second) = m
  BY <1>6, <1>8
<1>11. PICK attempts : attempts = first \o second
  OBVIOUS
<1>12. /\ attempts \in Seq(T) /\ Len(attempts) = n + m
       /\ \A i \in 1 .. n : attempts[i] = first[i]
       /\ \A j \in 1 .. m : attempts[n + j] = second[j]
  <2>1. attempts \in Seq(T) /\ JoinedOf(attempts, first, n, second, m)
    BY <1>9, <1>10, <1>11, Joined
  <2>. QED
    BY <2>1 DEF JoinedOf
<1>13. \A i \in 1 .. n : attempts[i] = BySocket(files[at[i]])
  BY <1>5, <1>12
<1>14. \A j \in 1 .. m : attempts[n + j] = ByTcp(TcpPorts[j], tcp)
  BY <1>6, <1>12
<1>15. attempts = Attempts(files, tcp)
  <2>1. PICK paths : paths = FindSocketPaths(files)
    OBVIOUS
  <2>2. paths = [i \in 1 .. n |-> files[at[i]]]
    BY <1>2, <2>1 DEF Picks, FindSocketPaths, Unlocked
  <2>3. first = [i \in DOMAIN paths |-> BySocket(paths[i])]
    BY <1>5, <2>2
  <2>4. second = [i \in DOMAIN TcpPorts |-> ByTcp(TcpPorts[i], tcp)]
    BY <1>3, <1>6
  <2>. QED
    BY <1>11, <2>1, <2>3, <2>4 DEF Attempts
<1>16. TriedIn(files, tcp, n, m, at, attempts)
  BY <1>2, <1>3, <1>4, <1>12, <1>13, <1>14, <1>15 DEF TriedIn
<1>17. QED
  BY <1>16

\* No two of a list have the same port: there are as many ports as elements.
LEMMA PortsCounted ==
  ASSUME NEW S, NEW found \in Seq(S),
         \A x, y \in DOMAIN found : found[x].port = found[y].port => x = y
  PROVE  Len(found) = Cardinality(Ports(found))
<1>1. PICK n \in Nat : n = Len(found) /\ DOMAIN found = 1 .. n
  OBVIOUS
<1>2. PICK T : T = Ports(found)
  OBVIOUS
<1>3. PICK f : f = [i \in 1 .. n |-> found[i].port]
  OBVIOUS
<1>4. f \in [1 .. n -> T]
  BY <1>1, <1>2, <1>3 DEF Ports
<1>5. \A x, y \in 1 .. n : f[x] = f[y] => x = y
  BY <1>1, <1>3
<1>6. \A t \in T : \E x \in 1 .. n : f[x] = t
  BY <1>1, <1>2, <1>3 DEF Ports
<1>7. f \in Bijection(1 .. n, T)
  BY <1>4, <1>5, <1>6 DEF Bijection, Injection, Surjection, IsInjective
<1>8. Cardinality(T) = n
  BY <1>7, FS_CountingElements DEF ExistsBijection
<1>9. QED
  BY <1>1, <1>2, <1>8

\* The least element is found by Min.
LEMMA MinIs ==
  ASSUME NEW S \in SUBSET Nat, NEW k \in S, \A l \in S : k <= l
  PROVE  Min(S) = k
<1>1. \A l \in S : (\A x \in S : l <= x) => l = k
  OBVIOUS
<1>2. QED
  BY <1>1 DEF Min

\* What was reported of the attempts is what a detection that finds each server reports.
LEMMA FoundIs ==
  ASSUME NEW files, files \in Seq(Range(files)), NEW tcp \in [Range(TcpPorts) -> SUBSET Range(Users)],
         NEW n \in Nat, NEW m \in Nat, NEW at, NEW attempts, TriedIn(files, tcp, n, m, at, attempts),
         NEW found \in Seq(Instances(PortsSeen(files))), Reported(attempts, found, n + m)
  PROVE  FindsEach(found, files, tcp)
<1> DEFINE sockets == {PortAt(files[i]) : i \in Answering(files)}
<1>1. \A i \in 1 .. n : /\ at[i] \in DOMAIN files /\ files[at[i]].suffix # "lock"
                        /\ attempts[i].port = PortAt(files[at[i]])
                        /\ attempts[i].answers = files[at[i]].answers
                        /\ attempts[i].isSocket = TRUE
  <2>1. ASSUME NEW i \in 1 .. n
        PROVE  /\ at[i] \in DOMAIN files /\ files[at[i]].suffix # "lock"
               /\ attempts[i] = BySocket(files[at[i]])
    BY DEF TriedIn, Picks, PlacesIn, Unlocked
  <2>2. \A f : LET a == BySocket(f) IN a.port = PortAt(f) /\ a.answers = f.answers /\ a.isSocket = TRUE
    BY DEF PortAt, SocketPort, BySocket
  <2>. QED
    BY <2>1, <2>2
<1>2. \A k \in Answering(files) : \E i \in 1 .. n : at[i] = k
  <2>1. \A k \in Answering(files) : k \in PlacesIn(files, Unlocked(files))
    BY DEF Answering, PlacesIn, Unlocked, Range
  <2>. QED
    BY <2>1 DEF TriedIn, Picks
<1>3. \A i \in 1 .. n : attempts[i].answers # {} => at[i] \in Answering(files)
  BY <1>1 DEF Answering
<1>4. \A i, j \in 1 .. n : i < j => at[i] < at[j]
  BY DEF TriedIn, Picks
<1>5. \A j \in 1 .. m : /\ TcpPorts[j] \in DOMAIN tcp
                        /\ attempts[n + j].port = TcpPorts[j]
                        /\ attempts[n + j].answers = tcp[TcpPorts[j]]
                        /\ attempts[n + j].isSocket = FALSE
  <2>1. \A j \in 1 .. m : TcpPorts[j] \in Range(TcpPorts)
    BY TcpPortsAre DEF TriedIn, Range
  <2>2. \A p : LET a == ByTcp(p, tcp) IN a.port = p /\ a.answers = tcp[p] /\ a.isSocket = FALSE
    BY DEF ByTcp
  <2>. QED
    BY <2>1, <2>2 DEF TriedIn
<1>6. \A p \in DOMAIN tcp : \E j \in 1 .. m : TcpPorts[j] = p
  BY TcpPortsAre DEF TriedIn, Range
<1>7. ASSUME NEW i \in 1 .. (n + m) PROVE i \in 1 .. n \/ \E j \in 1 .. m : i = n + j
  <2>1. CASE i <= n
    BY <2>1
  <2>2. CASE i > n
    <3>1. i - n \in 1 .. m /\ i = n + (i - n)
      BY <2>2
    <3>. QED
      BY <3>1
  <2>. QED
    BY <2>1, <2>2
<1>8. \A i \in 1 .. n : i \in 1 .. (n + m)
  OBVIOUS
<1>9. \A j \in 1 .. m : n + j \in 1 .. (n + m) /\ \A i \in 1 .. n : i \in 1 .. n + j - 1
  OBVIOUS
<1>10. /\ \A x, y \in DOMAIN found : found[x].port = found[y].port => x = y
       /\ \A i \in 1 .. (n + m) : attempts[i].answers # {} => attempts[i].port \in Ports(found)
  BY DEF Reported
<1>11. \A x \in DOMAIN found : \E i \in 1 .. (n + m) :
         /\ Winner(attempts, i)
         /\ found[x].port = attempts[i].port /\ found[x].user = Foremost(attempts[i].answers)
         /\ found[x].isSocket = attempts[i].isSocket
  BY DEF Reported, InstanceOf, Instance
<1>12. Len(found) = Cardinality(Ports(found))
  BY <1>10, PortsCounted
<1>13. Ports(found) = sockets \cup {p \in DOMAIN tcp : tcp[p] # {}}
  <2>1. ASSUME NEW x \in DOMAIN found
        PROVE  found[x].port \in sockets \cup {p \in DOMAIN tcp : tcp[p] # {}}
    <3>1. PICK i \in 1 .. (n + m) : Winner(attempts, i) /\ found[x].port = attempts[i].port
      BY <1>11
    <3>2. attempts[i].answers # {}
      BY <3>1 DEF Winner
    <3>3. CASE i \in 1 .. n
      <4>1. PICK k \in Answering(files) : k = at[i]
        BY <1>3, <3>2, <3>3
      <4>2. found[x].port = PortAt(files[k])
        BY <1>1, <3>1, <3>3, <4>1
      <4>. QED
        BY <4>2
    <3>4. CASE \E j \in 1 .. m : i = n + j
      <4>1. PICK j \in 1 .. m : i = n + j
        BY <3>4
      <4>2. PICK p \in DOMAIN tcp : p = TcpPorts[j] /\ attempts[i].port = p /\ attempts[i].answers = tcp[p]
        BY <1>5, <4>1
      <4>3. found[x].port = p /\ tcp[p] # {}
        BY <3>1, <3>2, <4>2
      <4>. QED
        BY <4>3
    <3>. QED
      BY <1>7, <3>3, <3>4
  <2>2. ASSUME NEW k \in Answering(files) PROVE PortAt(files[k]) \in Ports(found)
    <3>1. PICK i \in 1 .. n : at[i] = k
      BY <1>2
    <3>2. attempts[i].answers # {}
      BY <1>1, <3>1 DEF Answering
    <3>. QED
      BY <1>1, <1>8, <1>10, <3>1, <3>2
  <2>3. ASSUME NEW p \in DOMAIN tcp, tcp[p] # {} PROVE p \in Ports(found)
    <3>1. PICK j \in 1 .. m : TcpPorts[j] = p
      BY <1>6
    <3>2. PICK i \in 1 .. (n + m) : i = n + j
      BY <1>9
    <3>3. attempts[i].answers # {} /\ attempts[i].port = p
      BY <1>5, <2>3, <3>1, <3>2
    <3>. QED
      BY <1>10, <3>3
  <2>4. Ports(found) \subseteq sockets \cup {p \in DOMAIN tcp : tcp[p] # {}}
    <3>. HIDE DEF sockets
    <3>. QED
      BY <2>1 DEF Ports
  <2>5. sockets \cup {p \in DOMAIN tcp : tcp[p] # {}} \subseteq Ports(found)
    BY <2>2, <2>3
  <2>. QED
    BY <2>4, <2>5
<1>14. ASSUME NEW instance \in Range(found)
       PROVE  /\ instance.isSocket <=> instance.port \in sockets
              /\ instance.user =
                   IF instance.isSocket
                   THEN Foremost(files[Min({i \in Answering(files) :
                                             PortAt(files[i]) = instance.port})].answers)
                   ELSE Foremost(tcp[instance.port])
  <2>1. PICK x \in DOMAIN found : found[x] = instance
    BY DEF Range
  <2>2. PICK i \in 1 .. (n + m) :
          /\ Winner(attempts, i)
          /\ instance.port = attempts[i].port /\ instance.user = Foremost(attempts[i].answers)
          /\ instance.isSocket = attempts[i].isSocket
    BY <1>11, <2>1
  <2>3. /\ attempts[i].answers # {}
        /\ \A j \in 1 .. i - 1 : attempts[j].answers = {} \/ attempts[j].port # attempts[i].port
    BY <2>2 DEF Winner
  <2>4. CASE i \in 1 .. n
    <3>1. at[i] \in Answering(files) /\ instance.port = PortAt(files[at[i]]) /\ instance.isSocket = TRUE
      BY <1>1, <1>3, <2>2, <2>3, <2>4
    <3>2. PICK same : same = {k \in Answering(files) : PortAt(files[k]) = instance.port}
      OBVIOUS
    <3>3. same \in SUBSET Nat /\ at[i] \in same
      <4>1. Answering(files) \subseteq Nat
        BY DEF Answering
      <4>. QED
        BY <3>1, <3>2, <4>1
    <3>4. ASSUME NEW k \in same PROVE at[i] <= k
      <4>1. PICK j \in 1 .. n : at[j] = k
        BY <1>2, <3>2
      <4>2. attempts[j].answers # {} /\ attempts[j].port = attempts[i].port
        BY <1>1, <2>2, <3>2, <4>1 DEF Answering
      <4>3. j \notin 1 .. i - 1
        BY <2>3, <4>2
      <4>4. j = i \/ i < j
        BY <2>4, <4>3
      <4>5. at[i] \in Nat /\ k \in Nat
        BY <3>3
      <4>. QED
        BY <1>4, <2>4, <4>1, <4>4, <4>5
    <3>5. Min(same) = at[i]
      BY <3>3, <3>4, MinIs
    <3>6. instance.port \in sockets
      BY <3>1
    <3>7. instance.user = Foremost(files[Min(same)].answers)
      BY <1>1, <2>2, <2>4, <3>5
    <3>. QED
      BY <3>1, <3>2, <3>6, <3>7
  <2>5. CASE \E j \in 1 .. m : i = n + j
    <3>1. PICK j \in 1 .. m : i = n + j
      BY <2>5
    <3>2. instance.isSocket = FALSE /\ instance.user = Foremost(tcp[instance.port])
      BY <1>5, <2>2, <3>1
    <3>3. ASSUME NEW k \in Answering(files), PortAt(files[k]) = instance.port PROVE FALSE
      <4>1. PICK l \in 1 .. n : at[l] = k
        BY <1>2
      <4>2. attempts[l].answers # {} /\ attempts[l].port = attempts[i].port
        BY <1>1, <2>2, <3>3, <4>1 DEF Answering
      <4>3. l \in 1 .. i - 1
        BY <1>9, <3>1
      <4>. QED
        BY <2>3, <4>2, <4>3
    <3>. QED
      BY <3>2, <3>3
  <2>. QED
    BY <1>7, <2>4, <2>5
<1>15. QED
  BY <1>12, <1>13, <1>14 DEF FindsEach

\* Detection reports each server of a scene.
LEMMA DetectIs ==
  ASSUME NEW scene \in Scenes, NEW tools, "psql" \in tools
  PROVE  LET found == DetectLocalDB(tools, Users, scene.files, scene.tcp) IN
         found \in Seq(Instances(PortsSeen(scene.files))) /\ FindsEach(found, scene.files, scene.tcp)
<1>1. PICK files, tcp : files = scene.files /\ tcp = scene.tcp
  OBVIOUS
<1>2. /\ files \in Seq(Range(files)) /\ \A f \in Range(files) : f.answers \subseteq Range(Users)
      /\ tcp \in [Range(TcpPorts) -> SUBSET Range(Users)]
  BY <1>1, ReportsAssumption
<1>3. PICK n, m \in Nat : \E at, attempts : TriedIn(files, tcp, n, m, at, attempts)
  BY <1>2, AttemptsAre
<1>4. PICK at, attempts : TriedIn(files, tcp, n, m, at, attempts)
  BY <1>3
<1>5. attempts = Attempts(files, tcp) /\ attempts \in Seq(Attempted(PortsSeen(files))) /\ Len(attempts) = n + m
  BY <1>4 DEF TriedIn
<1>6. PICK loop : loop = CHOOSE f : f = [i \in 0 .. Len(attempts) |->
                            IF i = 0 THEN <<>> ELSE Tried(f[i - 1], attempts[i], Users)]
  OBVIOUS
<1>7. PICK found : found = DetectLocalDB(tools, Users, files, tcp)
  OBVIOUS
<1>8. found = loop[Len(attempts)]
  BY <1>5, <1>6, <1>7 DEF DetectLocalDB
<1>9. found \in Seq(Instances(PortsSeen(files))) /\ Reported(attempts, found, n + m)
  BY <1>5, <1>6, <1>8, LoopReports
<1>10. FindsEach(found, files, tcp)
  BY <1>2, <1>4, <1>9, FoundIs
<1>11. QED
  BY <1>1, <1>7, <1>9, <1>10

-----------------------------------------------------------------------------
(***************************************************************************)
(* What a report counts, and whom it detects.                              *)
(***************************************************************************)
\* A list without repetition is no longer than there are elements.
LEMMA NoLonger ==
  ASSUME NEW s \in Seq(Snapshots), Distinct(s)
  PROVE  Len(s) \in 0 .. Cardinality(Snapshots)
<1>1. PICK n \in Nat : n = Len(s) /\ s \in [1 .. n -> Snapshots]
  OBVIOUS
<1>2. PICK k \in Nat : k = Cardinality(Snapshots)
  BY ReportsAssumption, FS_CardinalityType
<1>3. s \in Injection(1 .. n, Snapshots)
  BY <1>1 DEF Distinct, Injection, IsInjective
<1>4. Cardinality(1 .. n) <= Cardinality(Snapshots)
  BY <1>3, ReportsAssumption, FS_Injection
<1>5. Cardinality(1 .. n) = n
  BY UpToFinite
<1>6. QED
  BY <1>1, <1>2, <1>4, <1>5

\* The servers that a report is to find.
Detection(o, p) == DetectLocalDB(Tools(Conf(o, p).machine), Users, o.input.files, o.input.tcp)
OnlyUsers(found) == \A i \in DOMAIN found : found[i].user \in Range(Users)

\* What the second invariant says of a report.
Sound(o, p) ==
  /\ o.count \in 0 .. Cardinality(Snapshots)
  /\ OnlyUsers(o.found)
  /\ o.kind = "apiDetect" => o.input \in Scenes /\ (o.end = "done" => o.found = Detection(o, p))
  /\ o.asked = "typed" => o.input \in Typed \cup {NoInput}

JInv == Len(past) <= MaxChanges + 1 /\ \A r \in Runs : Sound(report[r], past)

\* Only users of the list are reported.
LEMMA DetectedUsers ==
  ASSUME NEW scene \in Scenes, NEW tools
  PROVE  OnlyUsers(DetectLocalDB(tools, Users, scene.files, scene.tcp))
<1>1. PICK found : found = DetectLocalDB(tools, Users, scene.files, scene.tcp)
  OBVIOUS
<1>2. CASE "psql" \in tools
  <2>1. PICK P : found \in Seq(Instances(P))
    BY <1>1, <1>2, DetectIs
  <2>2. \A i \in DOMAIN found : found[i] \in Instances(P)
    BY <2>1
  <2>. QED
    BY <1>1, <2>2 DEF OnlyUsers, Instances
<1>3. CASE "psql" \notin tools
  <2>1. found = <<>>
    BY <1>1, <1>3 DEF DetectLocalDB
  <2>. QED
    BY <1>1, <2>1 DEF OnlyUsers
<1>4. QED
  BY <1>2, <1>3

\* A report takes a step that neither counts nor detects.
Beneath(r, step) ==
  \/ \E d \in Data \ {"count", "found"} : \E x : Took(r, [report[r] EXCEPT ![d] = x])
  \/ Took(r, report[r])
  \/ \E end : Ended(r, end)
  \/ report' = [report EXCEPT ![r].again = TRUE]
  \/ \E left : report' = [report EXCEPT ![r].left = left]

\* Only /api/detect detects.
LEMMA DetectOnly ==
  ASSUME IInv, NEW r \in Runs, NEW step, At(r, step), step # "detect"
  PROVE  report[r].kind # "apiDetect"
<1>1. step \in Range(Order[report[r].kind])
  BY NextIs
<1>2. PICK order : order = Order["apiDetect"] /\ order = <<"detect">>
  BY DEF Order
<1>3. Range(order) = {"detect"}
  BY <1>2 DEF Range
<1>4. QED
  BY <1>1, <1>2, <1>3

\* Such a step leaves count and servers as they were.
LEMMA BeneathKeeps ==
  ASSUME IInv, NEW r \in Runs, NEW step, At(r, step), Beneath(r, step)
  PROVE  \E n : /\ report' = [report EXCEPT ![r] = n]
                /\ \A f \in {"kind", "asked", "input", "since", "count", "found"} : n[f] = report[r][f]
<1>1. PICK o : o = report[r]
  OBVIOUS
<1>2. Formed(o) /\ report = [s \in Runs |-> report[s]]
  BY <1>1, RunningIs, AtIs DEF IInv, ReportTyped
<1>3. CASE \E d \in Data \ {"count", "found"} : \E x : Took(r, [report[r] EXCEPT ![d] = x])
  <2>1. PICK d \in Data \ {"count", "found"} : \E x : Took(r, [report[r] EXCEPT ![d] = x])
    BY <1>3
  <2>2. PICK n, x : report' = [report EXCEPT ![r] = n] /\ Advances(o, n, past, step, d, x)
    BY <1>1, <2>1, SetsOne
  <2>3. \A f \in {"kind", "asked", "input", "since", "count", "found"} : n[f] = o[f]
    BY <2>1, <2>2 DEF Advances, Goes, Data
  <2>. QED
    BY <1>1, <2>2, <2>3
<1>4. CASE Took(r, report[r])
  <2>1. PICK n : report' = [report EXCEPT ![r] = n] /\ Advances(o, n, past, step, "found", o.found)
    BY <1>1, <1>4, SetsNone
  <2>2. \A f \in {"kind", "asked", "input", "since", "count", "found"} : n[f] = o[f]
    BY <2>1 DEF Advances, Goes, Data
  <2>. QED
    BY <1>1, <2>1, <2>2
<1>5. CASE \E end : Ended(r, end)
  <2>1. PICK end : Ended(r, end)
    BY <1>5
  <2>2. PICK n : n = [o EXCEPT !.left = <<>>, !.end = end]
    OBVIOUS
  <2>3. report' = [report EXCEPT ![r] = n]
    BY <1>1, <2>1, <2>2 DEF Ended
  <2>4. \A f \in {"kind", "asked", "input", "since", "count", "found"} : n[f] = o[f]
    BY <1>2, <2>2 DEF Formed, Fields
  <2>. QED
    BY <1>1, <2>3, <2>4
<1>6. CASE report' = [report EXCEPT ![r].again = TRUE]
  <2>1. PICK n : n = [o EXCEPT !.again = TRUE]
    OBVIOUS
  <2>2. report' = [report EXCEPT ![r] = n]
    BY <1>1, <1>6, <2>1
  <2>3. \A f \in {"kind", "asked", "input", "since", "count", "found"} : n[f] = o[f]
    BY <1>2, <2>1 DEF Formed, Fields
  <2>. QED
    BY <1>1, <2>2, <2>3
<1>7. CASE \E left : report' = [report EXCEPT ![r].left = left]
  <2>1. PICK left : report' = [report EXCEPT ![r].left = left]
    BY <1>7
  <2>2. PICK n : n = [o EXCEPT !.left = left]
    OBVIOUS
  <2>3. report' = [report EXCEPT ![r] = n]
    BY <1>1, <2>1, <2>2
  <2>4. \A f \in {"kind", "asked", "input", "since", "count", "found"} : n[f] = o[f]
    BY <1>2, <2>2 DEF Formed, Fields
  <2>. QED
    BY <1>1, <2>3, <2>4
<1>8. QED
  BY <1>3, <1>4, <1>5, <1>6, <1>7 DEF Beneath

\* One report goes on, the world stands still.
LEMMA OneSound ==
  ASSUME IInv, JInv, NEW r \in Runs, NEW n, report' = [report EXCEPT ![r] = n], past' = past,
         Sound(n, past)
  PROVE  JInv'
<1>1. report'[r] = n /\ \A s \in Runs \ {r} : report'[s] = report[s]
  BY DEF IInv, ReportTyped
<1>2. ASSUME NEW s \in Runs PROVE Sound(report'[s], past)
  BY <1>1 DEF JInv
<1>3. QED
  BY <1>2 DEF JInv

\* The second invariant, step by step.
LEMMA BeneathSound ==
  ASSUME IInv, JInv, NEW r \in Runs, NEW step, At(r, step), step # "detect",
         Beneath(r, step), past' = past
  PROVE  JInv'
<1>1. PICK n : /\ report' = [report EXCEPT ![r] = n]
               /\ \A f \in {"kind", "asked", "input", "since", "count", "found"} : n[f] = report[r][f]
  BY BeneathKeeps
<1>2. report[r].kind # "apiDetect" /\ Sound(report[r], past)
  BY DetectOnly DEF JInv
<1>3. Sound(n, past)
  BY <1>1, <1>2 DEF Sound
<1>4. QED
  BY <1>1, <1>3, OneSound

LEMMA CountSound ==
  ASSUME IInv, JInv, NEW r \in Runs, Count(r)
  PROVE  JInv'
<1>1. PICK o : o = report[r]
  OBVIOUS
<1>2. PICK x : x = Len(Among(World.files, CountedOf(o)))
  OBVIOUS
<1>3. At(r, "count") /\ Took(r, [report[r] EXCEPT !["count"] = x]) /\ past' = past
  BY <1>1, <1>2 DEF Count, CountedOf
<1>4. PICK n : /\ report' = [report EXCEPT ![r] = n]
               /\ Advances(o, n, past, "count", "count", x)
  BY <1>1, <1>3, SetsOne DEF Data
<1>5. x \in 0 .. Cardinality(Snapshots)
  <2>1. PICK files \in Seq(Snapshots) : files = World.files /\ Distinct(files)
    BY WorldIs
  <2>2. PICK few : few = Among(files, CountedOf(o))
    OBVIOUS
  <2>3. few \in Seq(Snapshots) /\ Distinct(few)
    BY <2>1, <2>2, AmongRange, AmongDistinct
  <2>. QED
    BY <1>2, <2>1, <2>2, <2>3, NoLonger
<1>6. o.kind # "apiDetect" /\ Sound(o, past)
  BY <1>1, <1>3, DetectOnly DEF JInv
<1>7. /\ n.count = x /\ n.found = o.found /\ n.kind = o.kind
      /\ n.asked = o.asked /\ n.input = o.input
  BY <1>4 DEF Advances, Goes, Data
<1>8. Sound(n, past)
  BY <1>5, <1>6, <1>7 DEF Sound
<1>9. QED
  BY <1>3, <1>4, <1>8, OneSound

LEMMA DetectSound ==
  ASSUME IInv, JInv, NEW r \in Runs, Detect(r)
  PROVE  JInv'
<1>1. PICK o : o = report[r]
  OBVIOUS
<1>2. PICK x : x = Detection(o, past)
  OBVIOUS
<1>3. At(r, "detect") /\ Took(r, [report[r] EXCEPT !["found"] = x]) /\ past' = past
  BY <1>1, <1>2 DEF Detect, Detection, Conf, ConfigOf
<1>4. PICK n : /\ report' = [report EXCEPT ![r] = n]
               /\ Advances(o, n, past, "detect", "found", x)
  BY <1>1, <1>3, SetsOne DEF Data
<1>5. o.kind = "apiDetect"
  <2>1. o.kind \in Kinds /\ "detect" \in Range(Order[o.kind])
    BY <1>1, <1>3, NextIs, RunningIs, AtIs
  <2>. QED
    BY <2>1, StepKinds
<1>6. Sound(o, past)
  BY <1>1 DEF JInv
<1>7. OnlyUsers(x)
  BY <1>2, <1>5, <1>6, DetectedUsers DEF Sound, Detection
<1>8. /\ n.count = o.count /\ n.found = x /\ n.kind = o.kind /\ n.input = o.input
      /\ n.since = o.since /\ n.asked = o.asked
  BY <1>4 DEF Advances, Goes, Data
<1>9. Detection(n, past) = x
  BY <1>2, <1>8 DEF Detection, Conf
<1>10. Sound(n, past)
  BY <1>5, <1>6, <1>7, <1>8, <1>9 DEF Sound
<1>11. QED
  BY <1>3, <1>4, <1>10, OneSound

LEMMA StepSound ==
  ASSUME IInv, JInv, NEW r \in Runs, Step(r)
  PROVE  JInv'
<1>1. ASSUME NEW step, At(r, step), step # "detect", Beneath(r, step), past' = past PROVE JInv'
  BY <1>1, BeneathSound
<1>2. CASE AskLocal(r)
  <2>1. Beneath(r, "local") /\ past' = past
    BY <1>2 DEF AskLocal, Beneath, Data
  <2>2. At(r, "local") \/ At(r, "tables")
    BY <1>2 DEF AskLocal
  <2>. QED
    BY <1>1, <2>1, <2>2 DEF Beneath
<1>3. CASE AskCloud(r)
  BY <1>1, <1>3 DEF AskCloud, Beneath, Data
<1>4. CASE Glob(r)
  BY <1>1, <1>4 DEF Glob, Beneath, Data
<1>5. CASE Stat(r)
  BY <1>1, <1>5 DEF Stat, Beneath, Data
<1>6. CASE Pick(r)
  BY <1>1, <1>6 DEF Pick, Beneath, Data
<1>7. CASE StatAgain(r)
  BY <1>1, <1>7 DEF StatAgain, Beneath
<1>8. CASE Look(r)
  BY <1>1, <1>8 DEF Look, Beneath, Data
<1>9. CASE OpenFile(r)
  BY <1>1, <1>9 DEF OpenFile, Beneath
<1>10. CASE LookForConfig(r)
  BY <1>1, <1>10 DEF LookForConfig, Beneath, Data
<1>11. CASE NoteQuiet(r)
  BY <1>1, <1>11 DEF NoteQuiet, Beneath, Data
<1>12. CASE Hush(r)
  BY <1>1, <1>12 DEF Hush, Beneath
<1>13. CASE Speak(r)
  BY <1>1, <1>13 DEF Speak, Beneath
<1>14. QED
  BY <1>2, <1>3, <1>4, <1>5, <1>6, <1>7, <1>8, <1>9, <1>10, <1>11, <1>12, <1>13,
     CountSound, DetectSound DEF Step

LEMMA BeginsSound ==
  ASSUME IInv, JInv, NEW r \in Runs, NEW kind \in Kinds, NEW asked, NEW input,
         Begins(r, kind, asked, input), kind = "apiDetect" => input \in Scenes,
         asked = "typed" => input \in Typed \cup {NoInput}
  PROVE  JInv'
<1>1. PICK n : n = [Idle EXCEPT !.kind = kind, !.asked = asked, !.input = input, !.left = Order[kind],
                                !.end = "running", !.since = Len(past)]
  OBVIOUS
<1>2. report' = [report EXCEPT ![r] = n] /\ past' = past
  BY <1>1 DEF Begins
<1>3. /\ n.kind = kind /\ n.input = input /\ n.end = "running" /\ n.count = 0 /\ n.found = <<>>
      /\ n.asked = asked
  BY <1>1 DEF Idle
<1>4. Cardinality(Snapshots) \in Nat
  BY ReportsAssumption, FS_CardinalityType
<1>5. Sound(n, past)
  BY <1>3, <1>4 DEF Sound, OnlyUsers
<1>6. QED
  BY <1>2, <1>5, OneSound

LEMMA ChangeSound ==
  ASSUME IInv, JInv, NEW w, Change(w)
  PROVE  JInv'
<1>1. PICK n \in Nat : n = Len(past) /\ past \in Seq(OneWorld) /\ n >= 1
  BY DEF IInv, Worlds
<1>2. n <= MaxChanges /\ MaxChanges \in Nat
  BY <1>1, ReportsAssumption DEF Change
<1>3. PICK q : q = past'
  OBVIOUS
<1>4. q = Append(past, w) /\ report' = report
  BY <1>3 DEF Change
<1>5. Len(q) = n + 1 /\ \A i \in 1 .. n : q[i] = past[i]
  BY <1>1, <1>4
<1>6. ASSUME NEW r \in Runs PROVE Sound(report[r], q)
  <2>1. PICK o : o = report[r]
    OBVIOUS
  <2>2. Sound(o, past) /\ Placed(o, past) /\ Shape(o)
    BY <2>1 DEF JInv, IInv, ReportTyped, Fine
  <2>3. CASE o.end = "none"
    BY <2>1, <2>2, <2>3 DEF Sound
  <2>4. CASE o.end # "none"
    <3>1. o.since \in 1 .. n
      BY <1>1, <2>2, <2>4 DEF Placed
    <3>2. Detection(o, q) = Detection(o, past)
      BY <1>5, <3>1 DEF Detection, Conf
    <3>. QED
      BY <2>1, <2>2, <3>2 DEF Sound
  <2>. QED
    BY <2>3, <2>4
<1>7. Len(q) <= MaxChanges + 1
  BY <1>1, <1>2, <1>5
<1>8. QED
  BY <1>3, <1>4, <1>6, <1>7 DEF JInv

LEMMA NextSound == IInv /\ JInv /\ [Next]_vars => JInv'
<1> SUFFICES ASSUME IInv, JInv, [Next]_vars PROVE JInv'
  OBVIOUS
<1>1. ASSUME NEW r \in Runs, Step(r) PROVE JInv'
  BY <1>1, StepSound
<1>2. ASSUME NEW r \in Runs, NEW kind \in Kinds \ {"apiDownload", "apiDetect"}, Begin(r, kind) PROVE JInv'
  BY <1>2, BeginsSound DEF Begin
<1>3. ASSUME NEW r \in Runs, NEW f \in Snapshots, BeginDownload(r, f) PROVE JInv'
  <2>1. "apiDownload" \in Kinds
    BY DEF Kinds
  <2>. QED
    BY <1>3, <2>1, BeginsSound DEF BeginDownload
<1>4. ASSUME NEW r \in Runs, NEW kind \in {"localTest", "remoteTest"}, BeginTest(r, kind) PROVE JInv'
  <2>1. PICK typed \in Typed : Begins(r, kind, "typed", typed)
    BY <1>4, ReportsAssumption DEF BeginTest
  <2>2. kind \in Kinds
    BY DEF Kinds
  <2>. QED
    BY <2>1, <2>2, BeginsSound
<1>5. ASSUME NEW r \in Runs, BeginDetect(r) PROVE JInv'
  <2>1. PICK scene \in Scenes : Begins(r, "apiDetect", "saved", scene)
    BY <1>5 DEF BeginDetect
  <2>2. "apiDetect" \in Kinds
    BY DEF Kinds
  <2>. QED
    BY <2>1, <2>2, BeginsSound
<1>6. CASE \E w : Change(w)
  BY <1>6, ChangeSound
<1>7. \/ \E d \in Databases, t \in Tables, state \in TableStates : ChangeTable(d, t, state)
      \/ \E road \in Roads : ChangeRoad(road)
      \/ \E config \in Configs : Configure(config)
      \/ \E f \in Snapshots : Publish(f) \/ Delete(f)
      => \E w : Change(w)
  BY DEF ChangeTable, ChangeRoad, Configure, Publish, Delete
<1>8. CASE UNCHANGED vars
  BY <1>8 DEF vars, JInv
<1>9. QED
  BY <1>1, <1>2, <1>3, <1>4, <1>5, <1>6, <1>7, <1>8 DEF Next

LEMMA InitSound == Init => JInv
<1> SUFFICES ASSUME Init PROVE JInv
  OBVIOUS
<1>1. PICK w : past = <<w>>
  BY DEF Init
<1>2. Len(past) = 1 /\ MaxChanges \in Nat
  BY <1>1, ReportsAssumption
<1>3. \A r \in Runs : report[r] = Idle
  BY DEF Init
<1>4. Idle.kind = "none" /\ Idle.asked = "saved" /\ Idle.count = 0 /\ Idle.found = <<>>
  BY DEF Idle
<1>5. Cardinality(Snapshots) \in Nat
  BY ReportsAssumption, FS_CardinalityType
<1>6. Sound(Idle, past)
  BY <1>4, <1>5 DEF Sound, OnlyUsers
<1>7. QED
  BY <1>2, <1>3, <1>6 DEF JInv

LEMMA SoundAlways == Spec => []JInv
<1>1. Init => JInv
  BY InitSound
<1>2. IInv /\ JInv /\ [Next]_vars => JInv'
  BY NextSound
<1>3. QED
  BY <1>1, <1>2, Invariant, PTL DEF Spec

\* A detection reports each server that lets a user of the list in, once, by its socket if
\* it has one, with the first such user, and reports nothing else (detect.go:27-97).
THEOREM DetectionComplete == Spec => []DetectsEach
<1>1. ASSUME IInv, JInv, NEW r \in Runs, Done(r, "apiDetect"), Psql(ConfigOf(r))
      PROVE  FindsEach(report[r].found, report[r].input.files, report[r].input.tcp)
  <2>1. PICK o : o = report[r]
    OBVIOUS
  <2>2. o.input \in Scenes /\ o.found = Detection(o, past)
    BY <1>1, <2>1 DEF JInv, Sound, Done
  <2>3. PICK scene, c : scene \in Scenes /\ scene = o.input /\ c = Conf(o, past)
    BY <2>2
  <2>4. c = ConfigOf(r)
    BY <2>1, <2>3 DEF Conf, ConfigOf
  <2>5. PICK tools : tools = Tools(c.machine)
    OBVIOUS
  <2>6. "psql" \in tools
    BY <1>1, <2>4, <2>5 DEF Psql
  <2>7. FindsEach(DetectLocalDB(tools, Users, scene.files, scene.tcp), scene.files, scene.tcp)
    BY <2>3, <2>6, DetectIs
  <2>8. o.found = DetectLocalDB(tools, Users, scene.files, scene.tcp)
    BY <2>2, <2>3, <2>5 DEF Detection
  <2>. QED
    BY <2>1, <2>3, <2>7, <2>8
<1>2. IInv /\ JInv => DetectsEach
  BY <1>1 DEF DetectsEach
<1>3. QED
  BY <1>2, Invariant, SoundAlways, PTL

\* Answers are counts of tables, and no others.
LEMMA AnswersAre ==
  ASSUME NEW p, Worlds(p), NEW o, Placed(o, p), o.end # "none", Facts(o, p)
  PROVE  {o.local, o.rows, o.cloud} \subseteq Answers
<1>1. NoAnswer \in Answers /\ Nothing \in [Tables -> TableStates]
  BY DEF NoAnswer, Nothing, Answers, TableStates
<1>2. Seen(o, p) \subseteq OneWorld
  BY DEF Seen, Worlds, Placed
<1>3. ASSUME NEW w \in OneWorld, NEW road PROVE Answer(w, road) \in Answers
  BY <1>1 DEF Answer, Answers, OneWorld
<1>4. ASSUME NEW a, Came(o, p, a) PROVE a \in Answers
  BY <1>1, <1>2, <1>3, <1>4 DEF Came, CameBy
<1>5. o.local \in Answers /\ o.rows \in Answers
  BY <1>4 DEF Facts, LocalFact, RowsFact
<1>6. o.cloud \in Answers
  BY <1>1, <1>2, <1>3 DEF Facts, CloudFact
<1>7. QED
  BY <1>5, <1>6

\* The worlds so far are worlds.
LEMMA WorldsAre ==
  ASSUME IInv
  PROVE  past \in Seq(WorldStates)
<1>1. PICK n \in Nat : n = Len(past) /\ past \in [1 .. n -> OneWorld]
  BY DEF IInv, Worlds
<1>2. ASSUME NEW i \in 1 .. n PROVE past[i] \in WorldStates
  <2>1. PICK w \in OneWorld : w = past[i] /\ Distinct(w.files)
    BY <1>1 DEF IInv, Worlds
  <2>2. PICK files \in Seq(Snapshots) : files = w.files /\ Distinct(files)
    BY <2>1 DEF OneWorld
  <2>3. PICK m \in 0 .. Cardinality(Snapshots) : m = Len(files) /\ files \in [1 .. m -> Snapshots]
    BY <2>2, NoLonger
  <2>4. files \in SeqOf(Snapshots, Cardinality(Snapshots))
    BY <2>3 DEF SeqOf
  <2>. QED
    BY <2>1, <2>2, <2>4 DEF OneWorld, WorldStates
<1>3. QED
  BY <1>1, <1>2

\* Every variable has its type: a report's count is never above the number of snapshots,
\* its answers are those of some world, its servers have users of the list (status.go, detect.go).
THEOREM ReportTypes == Spec => []TypeOK
<1>1. ASSUME IInv, JInv, NEW r \in Runs
      PROVE  /\ report[r].kind \in Kinds \cup {"none"}
             /\ report[r].end \in {"none", "running", "done", "panic", "not found", "failed"}
             /\ Running(r) <=> report[r].left # <<>>
             /\ report[r].since \in 0 .. Len(past)
             /\ {report[r].local, report[r].rows, report[r].cloud} \subseteq Answers
             /\ Range(report[r].names) \subseteq Snapshots
             /\ report[r].count \in 0 .. Cardinality(Snapshots)
             /\ \A i \in DOMAIN report[r].found : report[r].found[i].user \in Range(Users)
  <2>1. PICK o : o = report[r]
    OBVIOUS
  <2>2. Fine(o, past) /\ Sound(o, past) /\ Worlds(past)
    BY <1>1, <2>1 DEF IInv, JInv, ReportTyped
  <2>3. o.end \in Ends /\ (Running(r) <=> o.left # <<>>)
    BY <2>1, <2>2 DEF Fine, Shape, Running
  <2>4. o.count \in 0 .. Cardinality(Snapshots) /\ \A i \in DOMAIN o.found : o.found[i].user \in Range(Users)
    BY <2>2 DEF Sound, OnlyUsers
  <2>5. /\ o.kind \in Kinds \cup {"none"} /\ o.since \in 0 .. Len(past)
        /\ {o.local, o.rows, o.cloud} \subseteq Answers /\ Range(o.names) \subseteq Snapshots
    <3>1. CASE o.end = "none"
      <4>1. o = Idle
        BY <2>2, <3>1 DEF Fine, Shape
      <4>2. /\ o.kind = "none" /\ o.since = 0 /\ o.names = <<>>
            /\ o.local = NoAnswer /\ o.rows = NoAnswer /\ o.cloud = NoAnswer
        BY <4>1 DEF Idle
      <4>3. NoAnswer \in Answers
        BY DEF NoAnswer, Nothing, Answers, TableStates
      <4>4. Len(past) \in Nat
        BY <2>2 DEF Worlds
      <4>. QED
        BY <4>2, <4>3, <4>4 DEF Range
    <3>2. CASE o.end # "none"
      <4>1. Facts(o, past) /\ Placed(o, past) /\ o.kind \in Kinds
        BY <2>2, <3>2 DEF Fine, Shape
      <4>2. o.since \in 0 .. Len(past)
        BY <3>2, <4>1 DEF Placed
      <4>3. {o.local, o.rows, o.cloud} \subseteq Answers
        BY <2>2, <3>2, <4>1, AnswersAre
      <4>4. Range(o.names) \subseteq Snapshots
        BY <4>1 DEF Facts, NamesFact, Range
      <4>. QED
        BY <4>1, <4>2, <4>3, <4>4
    <3>. QED
      BY <3>1, <3>2
  <2>. QED
    BY <2>1, <2>3, <2>4, <2>5 DEF Ends
<1>2. ASSUME IInv, JInv PROVE past \in Seq(WorldStates) /\ Len(past) \in 1 .. MaxChanges + 1
  <2>1. Len(past) \in Nat /\ Len(past) >= 1 /\ MaxChanges \in Nat /\ Len(past) <= MaxChanges + 1
    BY <1>2, ReportsAssumption DEF IInv, JInv, Worlds
  <2>. QED
    BY <1>2, <2>1, WorldsAre
<1>3. IInv /\ JInv => TypeOK
  BY <1>1, <1>2 DEF TypeOK, IInv
<1>4. QED
  BY <1>3, Invariant, SoundAlways, PTL

-----------------------------------------------------------------------------
(***************************************************************************)
(* URLs: cut at a character, and put together again.                       *)
(***************************************************************************)
\* The greatest element of a set.
Greatest(S, k) == k \in S /\ \A l \in S : l <= k

\* The greatest element is found by Max.
LEMMA MaxIs ==
  ASSUME NEW S \in SUBSET Nat, NEW k, Greatest(S, k)
  PROVE  Max(S) = k
<1>1. k \in S /\ \A l \in S : k >= l
  BY DEF Greatest
<1>2. \A l \in S : (\A x \in S : l >= x) => l = k
  BY <1>1
<1>3. QED
  BY <1>1, <1>2 DEF Max

\* A bounded set of numbers has a greatest element.
LEMMA Most ==
  ASSUME NEW n \in Nat, NEW S \in SUBSET (1 .. n), S # {}
  PROVE  \E k \in 1 .. n : Greatest(S, k)
<1>1. PICK T : T = {l \in 0 .. n : n - l \in S}
  OBVIOUS
<1>2. T # {} /\ T \in SUBSET Nat
  <2>1. PICK k \in 1 .. n : k \in S
    OBVIOUS
  <2>2. n - k \in 0 .. n /\ n - (n - k) = k
    OBVIOUS
  <2>. QED
    BY <1>1, <2>1, <2>2
<1>3. PICK m \in T : \A l \in T : m <= l
  BY <1>2, Least
<1>4. m \in 0 .. n /\ n - m \in S
  BY <1>1
<1>5. ASSUME NEW l \in S PROVE l <= n - m
  <2>1. n - l \in 0 .. n /\ n - (n - l) = l
    OBVIOUS
  <2>2. n - l \in T
    BY <1>1, <2>1
  <2>3. m <= n - l
    BY <1>3, <2>2
  <2>. QED
    BY <1>4, <2>3
<1>6. QED
  BY <1>4, <1>5 DEF Greatest

\* The place of a character, if there is one.
LEMMA FirstPlace ==
  ASSUME NEW s \in Seq(Chars), NEW c
  PROVE  \/ FirstOf(s, c) = 0 /\ c \notin Range(s)
         \/ /\ FirstOf(s, c) \in 1 .. Len(s) /\ s[FirstOf(s, c)] = c
            /\ \A i \in 1 .. Len(s) : s[i] = c => FirstOf(s, c) <= i
<1>0. PICK n \in Nat : n = Len(s) /\ DOMAIN s = 1 .. n
  OBVIOUS
<1>1. PICK P : P = Places(s, c) /\ P = {i \in 1 .. Len(s) : s[i] = c} /\ P \in SUBSET Nat
  <2>1. Places(s, c) = {i \in 1 .. n : s[i] = c}
    BY <1>0 DEF Places
  <2>. QED
    BY <1>0, <2>1
<1>2. CASE P = {}
  BY <1>0, <1>1, <1>2 DEF FirstOf, Range
<1>3. CASE P # {}
  <2>1. PICK k \in P : \A l \in P : k <= l
    BY <1>1, <1>3, Least
  <2>2. FirstOf(s, c) = k
    BY <1>1, <1>3, <2>1, MinIs DEF FirstOf
  <2>. QED
    BY <1>1, <2>1, <2>2
<1>4. QED
  BY <1>2, <1>3

LEMMA LastPlace ==
  ASSUME NEW s \in Seq(Chars), NEW c
  PROVE  \/ LastOf(s, c) = 0 /\ c \notin Range(s)
         \/ /\ LastOf(s, c) \in 1 .. Len(s) /\ s[LastOf(s, c)] = c
            /\ \A i \in 1 .. Len(s) : s[i] = c => i <= LastOf(s, c)
<1>1. PICK n \in Nat : n = Len(s) /\ DOMAIN s = 1 .. n
  OBVIOUS
<1>2. PICK P : P = Places(s, c) /\ P = {i \in 1 .. n : s[i] = c} /\ P \in SUBSET (1 .. n)
  <2>1. Places(s, c) = {i \in 1 .. n : s[i] = c}
    BY <1>1 DEF Places
  <2>. QED
    BY <2>1
<1>3. CASE P = {}
  BY <1>1, <1>2, <1>3 DEF LastOf, Range
<1>4. CASE P # {}
  <2>1. PICK k \in 1 .. n : Greatest(P, k)
    BY <1>2, <1>4, Most
  <2>2. P \in SUBSET Nat
    BY <1>2
  <2>3. Max(P) = k
    BY <2>1, <2>2, MaxIs
  <2>4. LastOf(s, c) = k
    BY <1>2, <1>4, <2>3 DEF LastOf
  <2>5. k \in P /\ \A l \in P : l <= k
    BY <2>1 DEF Greatest
  <2>. QED
    BY <1>1, <1>2, <2>4, <2>5
<1>5. QED
  BY <1>3, <1>4

\* What is before and after a place.
PartsAt(s, k) ==
  /\ Before(s, k) \in Seq(Chars) /\ Len(Before(s, k)) = k - 1
  /\ After(s, k) \in Seq(Chars) /\ Len(After(s, k)) = Len(s) - k
  /\ \A i \in 1 .. k - 1 : Before(s, k)[i] = s[i]
  /\ \A i \in 1 .. Len(s) - k : After(s, k)[i] = s[k + i]

LEMMA PartsAre ==
  ASSUME NEW s \in Seq(Chars), NEW k \in 1 .. Len(s)
  PROVE  PartsAt(s, k)
<1>1. PICK n \in Nat : n = Len(s) /\ s \in [1 .. n -> Chars]
  OBVIOUS
<1>2. PICK b, a : b = Before(s, k) /\ a = After(s, k)
  OBVIOUS
<1>3. b \in Seq(Chars) /\ Len(b) = k - 1 /\ \A i \in 1 .. k - 1 : b[i] = s[i]
  <2>1. PICK one, m \in Int : one = 1 /\ m = k - 1
    OBVIOUS
  <2>2. /\ (IF one <= m THEN m - one + 1 ELSE 0) = k - 1 /\ m - one + 1 = k - 1
        /\ \A j \in Int : one + j - 1 = j
    BY <1>1, <2>1
  <2>3. \A j \in one .. m : s[j] \in Chars
    BY <1>1, <2>1
  <2>4. /\ SubSeq(s, one, m) \in Seq(Chars)
        /\ Len(SubSeq(s, one, m)) = IF one <= m THEN m - one + 1 ELSE 0
        /\ \A j \in 1 .. m - one + 1 : SubSeq(s, one, m)[j] = s[one + j - 1]
    BY <2>3, SubSeqProperties
  <2>5. b = SubSeq(s, one, m)
    BY <1>2, <2>1 DEF Before
  <2>. QED
    BY <2>2, <2>4, <2>5
<1>4. a \in Seq(Chars) /\ Len(a) = n - k /\ \A i \in 1 .. n - k : a[i] = s[k + i]
  <2>1. PICK m \in Int : m = k + 1
    BY <1>1
  <2>2. /\ (IF m <= n THEN n - m + 1 ELSE 0) = n - k /\ n - m + 1 = n - k
        /\ \A j \in Int : m + j - 1 = k + j
    <3>1. k \in 1 .. n
      BY <1>1
    <3>2. n - m + 1 = n - k /\ \A j \in Int : m + j - 1 = k + j
      BY <2>1, <3>1
    <3>3. CASE k = n
      BY <2>1, <3>1, <3>2, <3>3
    <3>4. CASE k # n
      BY <2>1, <3>1, <3>2, <3>4
    <3>. QED
      BY <3>2, <3>3, <3>4
  <2>3. \A j \in m .. n : s[j] \in Chars
    BY <1>1, <2>1
  <2>4. /\ SubSeq(s, m, n) \in Seq(Chars)
        /\ Len(SubSeq(s, m, n)) = IF m <= n THEN n - m + 1 ELSE 0
        /\ \A j \in 1 .. n - m + 1 : SubSeq(s, m, n)[j] = s[m + j - 1]
    BY <2>3, SubSeqProperties
  <2>5. a = SubSeq(s, m, n)
    BY <1>1, <1>2, <2>1 DEF After
  <2>. QED
    BY <2>2, <2>4, <2>5
<1>5. QED
  BY <1>1, <1>2, <1>3, <1>4 DEF PartsAt

\* Two lists that agree at each place are one.
LEMMA SameSeq ==
  ASSUME NEW s \in Seq(Chars), NEW t \in Seq(Chars), Len(s) = Len(t),
         \A i \in 1 .. Len(s) : s[i] = t[i]
  PROVE  s = t
  OBVIOUS

\* A sequence, a character and a sequence.
Glued(s, a, c, b) ==
  /\ s \in Seq(Chars) /\ Len(s) = Len(a) + 1 + Len(b)
  /\ \A i \in 1 .. Len(a) : s[i] = a[i]
  /\ s[Len(a) + 1] = c
  /\ \A i \in 1 .. Len(b) : s[Len(a) + 1 + i] = b[i]

\* What is glued together is whole.
LEMMA Glue ==
  ASSUME NEW a \in Seq(Chars), NEW c \in Chars, NEW b \in Seq(Chars)
  PROVE  Glued(a \o <<c>> \o b, a, c, b)
<1>1. PICK n \in Nat, m \in Nat : n = Len(a) /\ m = Len(b)
  OBVIOUS
<1>2. PICK one : one = <<c>> /\ one \in Seq(Chars) /\ Len(one) = 1 /\ one[1] = c
  <2>1. PICK S : S = Chars
    OBVIOUS
  <2>2. <<c>> \in Seq(S) /\ Len(<<c>>) = 1 /\ <<c>>[1] = c
    BY <2>1
  <2>. QED
    BY <2>1, <2>2
<1>3. PICK front : front = a \o one
  OBVIOUS
<1>4. front \in Seq(Chars) /\ JoinedOf(front, a, n, one, 1)
  BY <1>1, <1>2, <1>3, Joined
<1>5. Len(front) = n + 1 /\ front[n + 1] = c /\ \A i \in 1 .. n : front[i] = a[i]
  BY <1>1, <1>2, <1>4 DEF JoinedOf
<1>6. PICK all : all = front \o b
  OBVIOUS
<1>7. all \in Seq(Chars) /\ JoinedOf(all, front, n + 1, b, m)
  BY <1>1, <1>4, <1>5, <1>6, Joined
<1>8. /\ Len(all) = n + 1 + m /\ \A i \in 1 .. (n + 1) : all[i] = front[i]
      /\ \A j \in 1 .. m : all[n + 1 + j] = b[j]
  BY <1>1, <1>7 DEF JoinedOf
<1>9. all[n + 1] = c /\ \A i \in 1 .. n : all[i] = a[i]
  BY <1>1, <1>5, <1>8
<1>10. Glued(all, a, c, b)
  BY <1>1, <1>7, <1>8, <1>9 DEF Glued
<1>11. QED
  BY <1>2, <1>3, <1>6, <1>10

\* It is cut at the character into the same two, as the last or the first of its kind.
LEMMA CutAt ==
  ASSUME NEW a \in Seq(Chars), NEW c \in Chars, NEW b \in Seq(Chars), NEW s, Glued(s, a, c, b)
  PROVE  LET k == Len(a) + 1 IN
         /\ k \in 1 .. Len(s) /\ s[k] = c /\ Before(s, k) = a /\ After(s, k) = b
         /\ c \notin Range(b) => LastOf(s, c) = k
         /\ c \notin Range(a) => FirstOf(s, c) = k
<1>1. PICK n \in Nat, m \in Nat : n = Len(a) /\ m = Len(b)
  OBVIOUS
<1>2. /\ s \in Seq(Chars) /\ Len(s) = n + 1 + m /\ s[n + 1] = c
      /\ \A i \in 1 .. n : s[i] = a[i]
      /\ \A i \in 1 .. m : s[n + 1 + i] = b[i]
  BY <1>1 DEF Glued
<1>3. PICK k \in 1 .. Len(s) : k = n + 1
  BY <1>1, <1>2
<1>4. PartsAt(s, k)
  BY <1>2, PartsAre
<1>5. Before(s, k) = a
  <2>1. PICK t : t = Before(s, k)
    OBVIOUS
  <2>2. t \in Seq(Chars) /\ Len(t) = n /\ \A i \in 1 .. n : t[i] = a[i]
    BY <1>1, <1>2, <1>3, <1>4, <2>1 DEF PartsAt
  <2>. QED
    BY <1>1, <2>1, <2>2, SameSeq
<1>6. After(s, k) = b
  <2>1. PICK t : t = After(s, k)
    OBVIOUS
  <2>2. t \in Seq(Chars) /\ Len(t) = m /\ \A i \in 1 .. m : t[i] = b[i]
    BY <1>1, <1>2, <1>3, <1>4, <2>1 DEF PartsAt
  <2>. QED
    BY <1>1, <2>1, <2>2, SameSeq
<1>7. ASSUME c \notin Range(b) PROVE LastOf(s, c) = k
  <2>1. PICK l : l = LastOf(s, c)
    OBVIOUS
  <2>2. \/ l = 0 /\ c \notin Range(s)
        \/ l \in 1 .. Len(s) /\ s[l] = c /\ \A i \in 1 .. Len(s) : s[i] = c => i <= l
    BY <1>2, <2>1, LastPlace
  <2>3. c \in Range(s)
    BY <1>2, <1>3 DEF Range
  <2>4. l \in 1 .. Len(s) /\ s[l] = c /\ k <= l
    BY <1>2, <1>3, <2>2, <2>3
  <2>5. \A i \in 1 .. m : b[i] # c
    BY <1>1, <1>7 DEF Range
  <2>6. ASSUME l # k PROVE FALSE
    <3>1. l - k \in 1 .. m /\ l = n + 1 + (l - k)
      BY <1>2, <1>3, <2>4, <2>6
    <3>. QED
      BY <1>2, <2>4, <2>5, <3>1
  <2>. QED
    BY <2>1, <2>6
<1>8. ASSUME c \notin Range(a) PROVE FirstOf(s, c) = k
  <2>1. PICK l : l = FirstOf(s, c)
    OBVIOUS
  <2>2. \/ l = 0 /\ c \notin Range(s)
        \/ l \in 1 .. Len(s) /\ s[l] = c /\ \A i \in 1 .. Len(s) : s[i] = c => l <= i
    BY <1>2, <2>1, FirstPlace
  <2>3. c \in Range(s)
    BY <1>2, <1>3 DEF Range
  <2>4. l \in 1 .. Len(s) /\ s[l] = c /\ l <= k
    BY <1>2, <1>3, <2>2, <2>3
  <2>5. \A i \in 1 .. n : a[i] # c
    BY <1>1, <1>8 DEF Range
  <2>6. ASSUME l # k PROVE FALSE
    <3>1. l \in 1 .. n
      BY <1>2, <1>3, <2>4, <2>6
    <3>. QED
      BY <1>2, <2>4, <2>5, <3>1
  <2>. QED
    BY <2>1, <2>6
<1>9. QED
  BY <1>1, <1>2, <1>3, <1>5, <1>6, <1>7, <1>8

\* And every sequence is what is before a place, the character there, and what is after.
Halves(s, a, c, b) == a \in Seq(Chars) /\ b \in Seq(Chars) /\ s = a \o <<c>> \o b

LEMMA WholeAgain ==
  ASSUME NEW s \in Seq(Chars), NEW k \in 1 .. Len(s), NEW c \in Chars, s[k] = c
  PROVE  Halves(s, Before(s, k), c, After(s, k))
<1>1. PICK n \in Nat : n = Len(s) /\ k \in 1 .. n
  OBVIOUS
<1>2. PICK a, b : a = Before(s, k) /\ b = After(s, k)
  OBVIOUS
<1>3. /\ a \in Seq(Chars) /\ Len(a) = k - 1 /\ b \in Seq(Chars) /\ Len(b) = n - k
      /\ \A i \in 1 .. k - 1 : a[i] = s[i]
      /\ \A i \in 1 .. n - k : b[i] = s[k + i]
  BY <1>1, <1>2, PartsAre DEF PartsAt
<1>4. PICK t : t = a \o <<c>> \o b
  OBVIOUS
<1>5. /\ t \in Seq(Chars) /\ Len(t) = (k - 1) + 1 + (n - k)
      /\ \A i \in 1 .. k - 1 : t[i] = a[i]
      /\ t[(k - 1) + 1] = c
      /\ \A i \in 1 .. n - k : t[(k - 1) + 1 + i] = b[i]
  <2>1. PICK j \in Nat : j = Len(a) /\ j = k - 1
    BY <1>3
  <2>2. Glued(t, a, c, b)
    BY <1>3, <1>4, Glue
  <2>3. /\ t \in Seq(Chars) /\ Len(t) = j + 1 + (n - k)
        /\ \A i \in 1 .. j : t[i] = a[i]
        /\ t[j + 1] = c
        /\ \A i \in 1 .. n - k : t[j + 1 + i] = b[i]
    BY <1>3, <2>1, <2>2 DEF Glued
  <2>. QED
    BY <2>1, <2>3
<1>6. (k - 1) + 1 = k /\ k + (n - k) = n
  BY <1>1
<1>7. Len(t) = n /\ t[k] = c /\ \A i \in 1 .. n - k : t[k + i] = s[k + i]
  BY <1>3, <1>5, <1>6
<1>8. ASSUME NEW i \in 1 .. n PROVE s[i] = t[i]
  <2>1. CASE i < k
    <3>1. i \in 1 .. k - 1
      BY <1>1, <2>1
    <3>. QED
      BY <1>3, <1>5, <3>1
  <2>2. CASE i = k
    BY <1>7, <2>2
  <2>3. CASE i > k
    <3>1. i - k \in 1 .. n - k /\ k + (i - k) = i
      BY <1>1, <2>3
    <3>. QED
      BY <1>7, <3>1
  <2>. QED
    BY <1>1, <2>1, <2>2, <2>3
<1>9. s = t
  BY <1>1, <1>5, <1>7, <1>8, SameSeq
<1>10. QED
  BY <1>2, <1>3, <1>4, <1>9 DEF Halves

\* The marks are characters, and no mark is a digit.
LEMMA CharsAre ==
  /\ "@" \in Chars /\ ":" \in Chars /\ "/" \in Chars /\ "?" \in Chars
  /\ Digits \subseteq Chars /\ ":" \notin Digits /\ "@" \notin Digits /\ "/" \notin Digits
  BY DEF Chars, Digits

\* A list over fewer characters.
LEMMA Without ==
  ASSUME NEW T, NEW S \in SUBSET T, NEW s \in Seq(S)
  PROVE  s \in Seq(T) /\ Range(s) \subseteq S
<1>1. PICK n \in Nat : n = Len(s) /\ s \in [1 .. n -> S]
  OBVIOUS
<1>2. s \in [1 .. n -> T]
  BY <1>1
<1>3. s \in Seq(T)
  BY <1>2
<1>4. QED
  BY <1>1, <1>3 DEF Range

\* A character that is in neither part is in the whole only as the mark.
LEMMA GluedRange ==
  ASSUME NEW a \in Seq(Chars), NEW c, NEW b \in Seq(Chars), NEW s, Glued(s, a, c, b),
         NEW x, x \notin Range(a), x \notin Range(b), x # c
  PROVE  x \notin Range(s)
<1>1. PICK n \in Nat, m \in Nat : n = Len(a) /\ m = Len(b)
  OBVIOUS
<1>2. /\ s \in Seq(Chars) /\ Len(s) = n + 1 + m /\ s[n + 1] = c
      /\ \A i \in 1 .. n : s[i] = a[i]
      /\ \A i \in 1 .. m : s[n + 1 + i] = b[i]
  BY <1>1 DEF Glued
<1>3. (\A i \in 1 .. n : a[i] # x) /\ (\A i \in 1 .. m : b[i] # x)
  BY <1>1 DEF Range
<1>4. ASSUME NEW i \in 1 .. (n + 1 + m) PROVE s[i] # x
  <2>1. CASE i <= n
    BY <1>2, <1>3, <2>1
  <2>2. CASE i = n + 1
    BY <1>2, <2>2
  <2>3. CASE i > n + 1
    <3>1. i - (n + 1) \in 1 .. m /\ n + 1 + (i - (n + 1)) = i
      BY <2>3
    <3>. QED
      BY <1>2, <1>3, <3>1
  <2>. QED
    BY <2>1, <2>2, <2>3
<1>5. QED
  BY <1>2, <1>4 DEF Range

\* Credentials are read back (pgurl.go:46-53).
LEMMA UserRead ==
  ASSUME NEW user \in Seq(Chars), ":" \notin Range(user), NEW password \in Seq(Chars),
         NEW userinfo, userinfo = Credentials(user, password)
  PROVE  /\ userinfo \in Seq(Chars) /\ UserOf(userinfo) = user /\ PasswordOf(userinfo) = password
         /\ (user # <<>> \/ password # <<>>) => userinfo # <<>>
<1>1. CASE password = <<>>
  <2>1. userinfo = user /\ FirstOf(userinfo, ":") = 0
    <3>1. \/ FirstOf(user, ":") = 0 /\ ":" \notin Range(user)
          \/ FirstOf(user, ":") \in 1 .. Len(user) /\ user[FirstOf(user, ":")] = ":"
      BY FirstPlace
    <3>2. \A i \in 1 .. Len(user) : user[i] # ":"
      BY DEF Range
    <3>. QED
      BY <1>1, <3>1, <3>2 DEF Credentials
  <2>. QED
    BY <1>1, <2>1 DEF UserOf, PasswordOf, UpTo
<1>2. CASE password # <<>>
  <2>1. Glued(userinfo, user, ":", password)
    BY <1>2, Glue, CharsAre DEF Credentials
  <2>2. PICK k : k = Len(user) + 1
    OBVIOUS
  <2>3. /\ k \in 1 .. Len(userinfo) /\ Before(userinfo, k) = user /\ After(userinfo, k) = password
        /\ FirstOf(userinfo, ":") = k
    BY <2>1, <2>2, CutAt, CharsAre
  <2>4. k # 0 /\ userinfo # <<>>
    BY <2>3
  <2>. QED
    BY <2>1, <2>3, <2>4 DEF UserOf, PasswordOf, UpTo, Glued
<1>3. QED
  BY <1>1, <1>2

\* Host and port are read back, the host that has no port and no end like one too (pgurl.go:71-86).
LEMMA HostRead ==
  ASSUME NEW host \in Seq(Chars), NEW port \in Seq(Chars), Range(port) \subseteq Digits,
         port = DefaultPort => ~EndsLikePort(host),
         NEW hostport, hostport = HostAndPort(host, port)
  PROVE  hostport \in Seq(Chars) /\ HostOf(hostport) = host /\ PortOf(hostport) = port
<1>1. CASE port = DefaultPort
  <2>1. hostport = host
    BY <1>1 DEF HostAndPort
  <2>2. ~HasPort(host)
    <3>1. SUFFICES ASSUME HasPort(host) PROVE FALSE
      OBVIOUS
    <3>2. PICK k : k = LastOf(host, ":")
      OBVIOUS
    <3>3. k # 0 /\ Range(After(host, k)) \subseteq Digits
      BY <3>1, <3>2 DEF HasPort
    <3>4. k \in 1 .. Len(host) /\ host[k] = ":"
      BY <3>2, <3>3, LastPlace
    <3>5. PICK n \in Nat : n = Len(host) /\ DOMAIN host = 1 .. n
      OBVIOUS
    <3>6. PICK a : a = After(host, k)
      OBVIOUS
    <3>7. a \in Seq(Chars) /\ Len(a) = n - k /\ \A i \in 1 .. n - k : a[i] = host[k + i]
      BY <3>4, <3>5, <3>6, PartsAre DEF PartsAt
    <3>8. ASSUME NEW j \in 1 .. n, j > k PROVE host[j] \in Digits
      <4>1. j - k \in 1 .. n - k /\ k + (j - k) = j
        BY <3>4, <3>5, <3>8
      <4>2. a[j - k] = host[j] /\ a[j - k] \in Range(a)
        BY <3>7, <4>1 DEF Range
      <4>. QED
        BY <3>3, <3>6, <4>2
    <3>9. EndsLikePort(host)
      BY <3>4, <3>5, <3>8 DEF EndsLikePort
    <3>. QED
      BY <1>1, <3>9
  <2>. QED
    BY <1>1, <2>1, <2>2 DEF HostOf, PortOf
<1>2. CASE port # DefaultPort
  <2>1. Glued(hostport, host, ":", port)
    BY <1>2, Glue, CharsAre DEF HostAndPort
  <2>2. PICK k : k = Len(host) + 1
    OBVIOUS
  <2>3. ":" \notin Range(port)
    BY CharsAre
  <2>4. /\ k \in 1 .. Len(hostport) /\ Before(hostport, k) = host /\ After(hostport, k) = port
        /\ LastOf(hostport, ":") = k
    BY <2>1, <2>2, <2>3, CutAt, CharsAre
  <2>5. k # 0
    BY <2>4
  <2>6. HasPort(hostport)
    BY <2>4, <2>5 DEF HasPort
  <2>. QED
    BY <2>1, <2>4, <2>6 DEF HostOf, PortOf, Glued
<1>3. QED
  BY <1>1, <1>2

\* A place before which there is a given sequence.
LEMMA Prefix ==
  ASSUME NEW s \in Seq(Chars), NEW k \in 1 .. Len(s), NEW a \in Seq(Chars), Len(a) = k - 1,
         \A i \in 1 .. k - 1 : s[i] = a[i]
  PROVE  Before(s, k) = a
<1>1. PICK b : b = Before(s, k)
  OBVIOUS
<1>2. PICK n \in Nat : n = Len(s) /\ k \in 1 .. n
  OBVIOUS
<1>3. b \in Seq(Chars) /\ Len(b) = k - 1 /\ \A i \in 1 .. k - 1 : b[i] = s[i]
  BY <1>1, PartsAre DEF PartsAt
<1>4. b = a
  BY <1>3, SameSeq
<1>5. QED
  BY <1>1, <1>4

\* The database is read back without its query (pgurl.go:62-66).
LEMMA DbRead ==
  ASSUME NEW db \in Seq(Chars), NEW query \in Seq(Chars), "?" \notin Range(db),
         query = <<>> \/ query[1] = "?", NEW all, all = db \o query
  PROVE  all \in Seq(Chars) /\ UpTo(all, "?") = db /\ Range(all) \subseteq Range(db) \cup Range(query)
<1>1. PICK n \in Nat, m \in Nat : n = Len(db) /\ m = Len(query)
  OBVIOUS
<1>2. all \in Seq(Chars) /\ JoinedOf(all, db, n, query, m)
  BY <1>1, Joined
<1>3. /\ Len(all) = n + m /\ DOMAIN all = 1 .. (n + m)
      /\ \A i \in 1 .. n : all[i] = db[i]
      /\ \A j \in 1 .. m : all[n + j] = query[j]
  BY <1>2 DEF JoinedOf
<1>4. Range(all) \subseteq Range(db) \cup Range(query)
  <2>1. ASSUME NEW i \in 1 .. (n + m) PROVE all[i] \in Range(db) \cup Range(query)
    <3>1. CASE i \in 1 .. n
      BY <1>1, <1>3, <3>1 DEF Range
    <3>2. CASE i \notin 1 .. n
      <4>1. i - n \in 1 .. m /\ n + (i - n) = i
        BY <3>2
      <4>2. all[i] = query[i - n]
        BY <1>3, <4>1
      <4>. QED
        BY <1>1, <4>1, <4>2 DEF Range
    <3>. QED
      BY <3>1, <3>2
  <2>. QED
    BY <1>3, <2>1 DEF Range
<1>5. \A i \in 1 .. n : db[i] # "?"
  BY <1>1 DEF Range
<1>6. PICK k : k = FirstOf(all, "?")
  OBVIOUS
<1>7. \/ k = 0 /\ "?" \notin Range(all)
      \/ /\ k \in 1 .. (n + m) /\ all[k] = "?"
         /\ \A i \in 1 .. (n + m) : all[i] = "?" => k <= i
  BY <1>2, <1>3, <1>6, FirstPlace
<1>8. CASE m = 0
  <2>1. k = 0
    BY <1>3, <1>5, <1>7, <1>8
  <2>2. all = db
    BY <1>1, <1>2, <1>3, <1>8, SameSeq
  <2>. QED
    BY <1>2, <1>4, <1>6, <2>1, <2>2 DEF UpTo
<1>9. CASE m # 0
  <2>1. query[1] = "?"
    BY <1>1, <1>9
  <2>2. 1 \in 1 .. m /\ n + 1 \in 1 .. (n + m)
    BY <1>9
  <2>3. all[n + 1] = "?"
    BY <1>3, <2>1, <2>2
  <2>4. "?" \in Range(all)
    BY <1>3, <2>2, <2>3 DEF Range
  <2>5. /\ k \in 1 .. (n + m) /\ all[k] = "?"
        /\ \A i \in 1 .. (n + m) : all[i] = "?" => k <= i
    BY <1>7, <2>4
  <2>6. k <= n + 1
    BY <2>2, <2>3, <2>5
  <2>7. k = n + 1
    <3>1. k \notin 1 .. n
      BY <1>3, <1>5, <2>5
    <3>. QED
      BY <2>5, <2>6, <3>1
  <2>8. Before(all, k) = db
    <3>1. k \in 1 .. Len(all) /\ Len(db) = k - 1
      BY <1>1, <1>3, <2>5, <2>7
    <3>2. \A i \in 1 .. k - 1 : all[i] = db[i]
      BY <1>3, <2>7
    <3>. QED
      BY <1>2, <3>1, <3>2, Prefix
  <2>9. k # 0
    BY <2>5
  <2>. QED
    BY <1>2, <1>4, <1>6, <2>8, <2>9 DEF UpTo
<1>10. QED
  BY <1>8, <1>9

\* A setting is read back from the URL it is written as.
LEMMA ReadBack ==
  ASSUME NEW c, NEW query, OneReading(c, query)
  PROVE  ParseConnURL(Written(c, query)) = c
<1>1. PICK user, password, host, port, db :
        /\ user = c.user /\ password = c.password /\ host = c.host /\ port = c.port /\ db = c.db
        /\ c = [ok |-> TRUE, user |-> user, password |-> password, host |-> host, port |-> port, db |-> db]
  BY DEF OneReading
<1>2. /\ user \in Seq(Chars) /\ ":" \notin Range(user) /\ password \in Seq(Chars)
      /\ user # <<>> \/ password # <<>>
  <2>1. user \in Seq(Chars \ {":"}) /\ password \in Seq(Chars) /\ (user = <<>> => password # <<>>)
    BY <1>1 DEF OneReading
  <2>2. Chars \ {":"} \in SUBSET Chars
    OBVIOUS
  <2>3. user \in Seq(Chars) /\ Range(user) \subseteq Chars \ {":"}
    BY <2>1, <2>2, Without
  <2>. QED
    BY <2>1, <2>3
<1>3. /\ host \in Seq(Chars) /\ "@" \notin Range(host) /\ host # <<>>
      /\ port \in Seq(Chars) /\ Range(port) \subseteq Digits
      /\ port = DefaultPort => ~EndsLikePort(host)
  <2>1. /\ host \in Seq(Chars \ {"@"}) /\ port \in {DefaultPort} \cup Seq(Digits)
        /\ host # <<>> /\ (port = DefaultPort => ~EndsLikePort(host))
    BY <1>1 DEF OneReading
  <2>2. Chars \ {"@"} \in SUBSET Chars /\ Digits \in SUBSET Chars
    BY CharsAre
  <2>3. host \in Seq(Chars) /\ Range(host) \subseteq Chars \ {"@"}
    BY <2>1, <2>2, Without
  <2>4. DefaultPort \in Seq(Digits)
    <3>0. "2" \in Digits /\ "3" \in Digits /\ "4" \in Digits /\ "5" \in Digits
      BY DEF Digits
    <3>1. PICK S : S = Digits /\ "2" \in S /\ "3" \in S /\ "4" \in S /\ "5" \in S
      BY <3>0
    <3>2. PICK u : u = <<"5", "4", "3", "2">>
      OBVIOUS
    <3>3. \A i \in 1 .. 4 : u[i] \in S
      BY <3>1, <3>2
    <3>4. PICK n \in Nat : n = 4
      OBVIOUS
    <3>5. u \in [1 .. n -> S]
      BY <3>2, <3>3, <3>4
    <3>6. u \in Seq(S)
      BY <3>5
    <3>. QED
      BY <3>1, <3>2, <3>6 DEF DefaultPort
  <2>5. port \in Seq(Digits)
    BY <2>1, <2>4
  <2>6. port \in Seq(Chars) /\ Range(port) \subseteq Digits
    BY <2>2, <2>5, Without
  <2>. QED
    BY <2>1, <2>3, <2>6
<1>4. /\ db \in Seq(Chars) /\ Range(db) \cap {"@", "/", "?"} = {} /\ db # <<>>
      /\ query \in Seq(Chars) /\ Range(query) \cap {"@", "/"} = {}
      /\ query = <<>> \/ query[1] = "?"
  <2>1. /\ db \in Seq(Chars \ {"@", "/", "?"}) /\ db # <<>>
        /\ query \in Seq(Chars \ {"@", "/"}) /\ (query = <<>> \/ query[1] = "?")
    BY <1>1 DEF OneReading
  <2>2. Chars \ {"@", "/", "?"} \in SUBSET Chars /\ Chars \ {"@", "/"} \in SUBSET Chars
    OBVIOUS
  <2>3. db \in Seq(Chars) /\ Range(db) \subseteq Chars \ {"@", "/", "?"}
    BY <2>1, <2>2, Without
  <2>4. query \in Seq(Chars) /\ Range(query) \subseteq Chars \ {"@", "/"}
    BY <2>1, <2>2, Without
  <2>. QED
    BY <2>1, <2>3, <2>4
<1>5. PICK userinfo : userinfo = Credentials(user, password)
  OBVIOUS
<1>6. /\ userinfo \in Seq(Chars) /\ UserOf(userinfo) = user /\ PasswordOf(userinfo) = password
      /\ userinfo # <<>>
  <2>1. /\ userinfo \in Seq(Chars) /\ UserOf(userinfo) = user /\ PasswordOf(userinfo) = password
        /\ (user # <<>> \/ password # <<>>) => userinfo # <<>>
    <3>1. user \in Seq(Chars) /\ ":" \notin Range(user) /\ password \in Seq(Chars)
      BY <1>2
    <3>. QED
      BY <1>5, <3>1, UserRead
  <2>. QED
    BY <1>2, <2>1
<1>7. PICK hostport : hostport = HostAndPort(host, port)
  OBVIOUS
<1>8. hostport \in Seq(Chars) /\ HostOf(hostport) = host /\ PortOf(hostport) = port
  BY <1>3, <1>7, HostRead
<1>9. "@" \notin Range(hostport)
  <2>1. CASE port = DefaultPort
    BY <1>3, <1>7, <2>1 DEF HostAndPort
  <2>2. CASE port # DefaultPort
    <3>1. Glued(hostport, host, ":", port)
      BY <1>3, <1>7, <2>2, Glue, CharsAre DEF HostAndPort
    <3>2. "@" \notin Range(port)
      BY <1>3, CharsAre
    <3>. QED
      BY <1>3, <3>1, <3>2, GluedRange
  <2>. QED
    BY <2>1, <2>2
<1>10. PICK tail : tail = db \o query
  OBVIOUS
<1>11. tail \in Seq(Chars) /\ UpTo(tail, "?") = db /\ "@" \notin Range(tail) /\ "/" \notin Range(tail)
  <2>1. tail \in Seq(Chars) /\ UpTo(tail, "?") = db /\ Range(tail) \subseteq Range(db) \cup Range(query)
    BY <1>4, <1>10, DbRead
  <2>. QED
    BY <1>4, <2>1
<1>12. PICK hostpart : hostpart = hostport \o <<"/">> \o tail
  OBVIOUS
<1>13. Glued(hostpart, hostport, "/", tail)
  BY <1>8, <1>11, <1>12, Glue, CharsAre
<1>14. PICK slash : slash = Len(hostport) + 1
  OBVIOUS
<1>15. /\ slash \in 1 .. Len(hostpart) /\ LastOf(hostpart, "/") = slash
       /\ Before(hostpart, slash) = hostport /\ After(hostpart, slash) = tail
  BY <1>8, <1>11, <1>13, <1>14, CutAt, CharsAre
<1>16. hostpart \in Seq(Chars) /\ "@" \notin Range(hostpart)
  <2>1. "@" \notin Range(hostpart)
    BY <1>8, <1>9, <1>11, <1>13, GluedRange
  <2>. QED
    BY <1>13, <2>1 DEF Glued
<1>17. PICK url : url = userinfo \o <<"@">> \o hostpart
  OBVIOUS
<1>18. Glued(url, userinfo, "@", hostpart)
  BY <1>6, <1>16, <1>17, Glue, CharsAre
<1>19. PICK at : at = Len(userinfo) + 1
  OBVIOUS
<1>20. /\ at \in 1 .. Len(url) /\ LastOf(url, "@") = at
       /\ Before(url, at) = userinfo /\ After(url, at) = hostpart
  BY <1>6, <1>16, <1>18, <1>19, CutAt, CharsAre
<1>21. url = Written(c, query)
  BY <1>1, <1>5, <1>7, <1>10, <1>12, <1>17 DEF Written
<1>22. at # 0 /\ slash # 0
  BY <1>15, <1>20
<1>23. ParseConnURL(url) =
         IF at = 0 \/ slash = 0 \/ <<>> \in {userinfo, db, host} THEN Refused
         ELSE [ok |-> TRUE, user |-> user, password |-> password, host |-> host, port |-> port, db |-> db]
  BY <1>6, <1>8, <1>11, <1>15, <1>20 DEF ParseConnURL
<1>24. <<>> \notin {userinfo, db, host}
  BY <1>3, <1>4, <1>6
<1>25. QED
  BY <1>1, <1>21, <1>22, <1>23, <1>24

(* A list followed by the end of another. *)
TailOf(url, db, tail) == \E i \in 0 .. Len(url) : tail = db \o After(url, i)

\* A list without what follows a place is made whole by it.
LEMMA RestOf ==
  ASSUME NEW url \in Seq(Chars), NEW at \in 1 .. Len(url), NEW hostpart, hostpart = After(url, at),
         NEW slash \in 1 .. Len(hostpart), NEW tail, tail = After(hostpart, slash),
         NEW db, db = UpTo(tail, "?")
  PROVE  db \in Seq(Chars) /\ TailOf(url, db, tail)
<1>1. PICK n \in Nat : n = Len(url) /\ at \in 1 .. n
  OBVIOUS
<1>2. /\ hostpart \in Seq(Chars) /\ Len(hostpart) = n - at
      /\ \A j \in 1 .. n - at : hostpart[j] = url[at + j]
  BY <1>1, PartsAre DEF PartsAt
<1>3. PICK h \in Nat : h = n - at /\ h = Len(hostpart) /\ slash \in 1 .. h
  <2>1. n - at \in Nat
    BY <1>1
  <2>. QED
    BY <1>2, <2>1
<1>4. PICK m \in Nat : m = h - slash
  BY <1>3
<1>5. tail \in Seq(Chars) /\ Len(tail) = m /\ \A j \in 1 .. m : tail[j] = hostpart[slash + j]
  <2>1. PartsAt(hostpart, slash)
    BY <1>2, PartsAre
  <2>. QED
    BY <1>3, <1>4, <2>1 DEF PartsAt
<1>6. PICK start \in Nat : start = at + slash /\ start + m = n
  BY <1>1, <1>3, <1>4
<1>7. \A j \in 1 .. m : tail[j] = url[start + j]
  <2>1. ASSUME NEW j \in 1 .. m PROVE tail[j] = url[start + j]
    <3>1. slash + j \in 1 .. h /\ at + (slash + j) = start + j
      BY <1>3, <1>4, <1>6
    <3>2. tail[j] = hostpart[slash + j]
      BY <1>5
    <3>3. hostpart[slash + j] = url[at + (slash + j)]
      BY <1>2, <1>3, <3>1
    <3>. QED
      BY <3>1, <3>2, <3>3
  <2>. QED
    BY <2>1
<1>8. PICK k \in 0 .. m : /\ db \in Seq(Chars) /\ Len(db) = k
                          /\ \A j \in 1 .. k : db[j] = tail[j]
  <2>1. PICK q : q = FirstOf(tail, "?")
    OBVIOUS
  <2>2. CASE q = 0
    <3>1. db = tail
      BY <2>1, <2>2 DEF UpTo
    <3>. QED
      BY <1>5, <3>1
  <2>3. CASE q # 0
    <3>1. q \in 1 .. m
      BY <1>5, <2>1, <2>3, FirstPlace
    <3>2. db = Before(tail, q)
      BY <2>1, <2>3 DEF UpTo
    <3>3. PICK k \in 0 .. m : k = q - 1
      BY <3>1
    <3>4. db \in Seq(Chars) /\ Len(db) = q - 1 /\ \A j \in 1 .. q - 1 : db[j] = tail[j]
      <4>1. PartsAt(tail, q)
        BY <1>5, <3>1, PartsAre
      <4>. QED
        BY <3>2, <4>1 DEF PartsAt
    <3>. QED
      BY <3>3, <3>4
  <2>. QED
    BY <2>2, <2>3
<1>9. PICK i \in 1 .. n : i = start + k
  BY <1>1, <1>3, <1>6, <1>8
<1>10. PICK rest : rest = After(url, i)
  OBVIOUS
<1>11. /\ rest \in Seq(Chars) /\ Len(rest) = m - k
       /\ \A j \in 1 .. m - k : rest[j] = url[i + j]
  <2>1. n - i = m - k
    BY <1>6, <1>9
  <2>2. /\ rest \in Seq(Chars) /\ Len(rest) = n - i
        /\ \A j \in 1 .. n - i : rest[j] = url[i + j]
    BY <1>1, <1>9, <1>10, PartsAre DEF PartsAt
  <2>. QED
    BY <2>1, <2>2
<1>12. PICK all : all = db \o rest
  OBVIOUS
<1>13. all \in Seq(Chars) /\ JoinedOf(all, db, k, rest, m - k)
  BY <1>8, <1>11, <1>12, Joined
<1>14. /\ Len(all) = k + (m - k)
       /\ \A j \in 1 .. k : all[j] = db[j]
       /\ \A j \in 1 .. m - k : all[k + j] = rest[j]
  BY <1>13 DEF JoinedOf
<1>15. ASSUME NEW j \in 1 .. m PROVE tail[j] = all[j]
  <2>1. CASE j <= k
    BY <1>8, <1>14, <2>1
  <2>2. CASE j > k
    <3>1. PICK l \in 1 .. m - k : l = j - k /\ k + l = j /\ i + l = start + j
      BY <1>8, <1>9, <2>2
    <3>2. all[j] = rest[l] /\ rest[l] = url[i + l]
      BY <1>11, <1>14, <3>1
    <3>. QED
      BY <1>7, <3>1, <3>2
  <2>. QED
    BY <1>8, <2>1, <2>2
<1>16. tail = all
  <2>1. Len(all) = m
    BY <1>14
  <2>. QED
    BY <1>5, <1>13, <1>15, <2>1, SameSeq
<1>17. tail = db \o After(url, i)
  BY <1>10, <1>12, <1>16
<1>18. i \in 0 .. Len(url)
  <2>1. i \in 0 .. n
    BY <1>9
  <2>. QED
    BY <1>1, <2>1
<1>19. TailOf(url, db, tail)
  BY <1>17, <1>18, Zenon DEF TailOf
<1>20. QED
  BY <1>8, <1>19

\* The empty list adds nothing.
LEMMA NothingAdded == ASSUME NEW s \in Seq(Chars) PROVE s = s \o <<>>
  OBVIOUS

\* An accepted URL is its parts, marks between them, and the end that is its query.
LEMMA LosesOnly ==
  ASSUME NEW url \in Seq(Chars), NEW c, c = ParseConnURL(url), c.ok
  PROVE  c.host # <<>> /\ c.db # <<>> /\ LosesOnlyQuery(url, c)
<1>1. PICK at, userinfo, hostpart :
        at = LastOf(url, "@") /\ userinfo = Before(url, at) /\ hostpart = After(url, at)
  OBVIOUS
<1>2. PICK slash, hostport, tail :
        slash = LastOf(hostpart, "/") /\ hostport = Before(hostpart, slash) /\ tail = After(hostpart, slash)
  OBVIOUS
<1>3. PICK db : db = UpTo(tail, "?")
  OBVIOUS
<1>4. c = IF at = 0 \/ slash = 0 \/ <<>> \in {userinfo, db, HostOf(hostport)} THEN Refused
          ELSE [ok |-> TRUE, user |-> UserOf(userinfo), password |-> PasswordOf(userinfo),
                host |-> HostOf(hostport), port |-> PortOf(hostport), db |-> db]
  BY <1>1, <1>2, <1>3 DEF ParseConnURL
<1>5. ~Refused.ok
  BY DEF Refused
<1>6. /\ at # 0 /\ slash # 0 /\ <<>> \notin {userinfo, db, HostOf(hostport)}
      /\ c.user = UserOf(userinfo) /\ c.password = PasswordOf(userinfo)
      /\ c.host = HostOf(hostport) /\ c.port = PortOf(hostport) /\ c.db = db
  <2>1. ~(at = 0 \/ slash = 0 \/ <<>> \in {userinfo, db, HostOf(hostport)})
    BY <1>4, <1>5
  <2>. QED
    BY <1>4, <2>1
<1>7. at \in 1 .. Len(url) /\ url[at] = "@"
  BY <1>1, <1>6, LastPlace
<1>8. /\ userinfo \in Seq(Chars) /\ hostpart \in Seq(Chars)
      /\ url = userinfo \o <<"@">> \o hostpart
  <2>1. Halves(url, userinfo, "@", hostpart)
    BY <1>1, <1>7, WholeAgain, CharsAre
  <2>. QED
    BY <2>1 DEF Halves
<1>9. slash \in 1 .. Len(hostpart) /\ hostpart[slash] = "/"
  BY <1>2, <1>6, <1>8, LastPlace
<1>10. /\ hostport \in Seq(Chars) /\ tail \in Seq(Chars)
       /\ hostpart = hostport \o <<"/">> \o tail
  <2>1. Halves(hostpart, hostport, "/", tail)
    BY <1>2, <1>8, <1>9, WholeAgain, CharsAre
  <2>. QED
    BY <2>1 DEF Halves
<1>11. PICK i \in 0 .. Len(url) : tail = db \o After(url, i)
  <2>1. TailOf(url, db, tail)
    BY <1>1, <1>2, <1>3, <1>7, <1>9, RestOf, Zenon
  <2>. QED
    BY <2>1, Zenon DEF TailOf
<1>12. PICK colon \in BOOLEAN :
         userinfo = IF colon THEN c.user \o <<":">> \o c.password ELSE c.user \o c.password
  <2>1. PICK k : k = FirstOf(userinfo, ":")
    OBVIOUS
  <2>2. CASE k = 0
    <3>1. c.user = userinfo /\ c.password = <<>>
      BY <1>6, <2>1, <2>2 DEF UserOf, PasswordOf, UpTo
    <3>2. userinfo = c.user \o c.password
      BY <1>8, <3>1, NothingAdded
    <3>. QED
      BY <3>2
  <2>3. CASE k # 0
    <3>1. k \in 1 .. Len(userinfo) /\ userinfo[k] = ":"
      BY <1>8, <2>1, <2>3, FirstPlace
    <3>2. c.user = Before(userinfo, k) /\ c.password = After(userinfo, k)
      BY <1>6, <2>1, <2>3 DEF UserOf, PasswordOf, UpTo
    <3>3. userinfo = c.user \o <<":">> \o c.password
      <4>1. Halves(userinfo, c.user, ":", c.password)
        BY <1>8, <3>1, <3>2, WholeAgain, CharsAre
      <4>. QED
        BY <4>1 DEF Halves
    <3>. QED
      BY <3>3
  <2>. QED
    BY <2>2, <2>3
<1>13. PICK port \in BOOLEAN :
         hostport = IF port THEN c.host \o <<":">> \o c.port ELSE c.host
  <2>1. PICK k : k = LastOf(hostport, ":")
    OBVIOUS
  <2>2. CASE ~HasPort(hostport)
    BY <1>6, <2>2 DEF HostOf
  <2>3. CASE HasPort(hostport)
    <3>1. k # 0
      BY <2>1, <2>3 DEF HasPort
    <3>2. k \in 1 .. Len(hostport) /\ hostport[k] = ":"
      BY <1>10, <2>1, <3>1, LastPlace
    <3>3. c.host = Before(hostport, k) /\ c.port = After(hostport, k)
      BY <1>6, <2>1, <2>3 DEF HostOf, PortOf
    <3>4. hostport = c.host \o <<":">> \o c.port
      <4>1. Halves(hostport, c.host, ":", c.port)
        BY <1>10, <3>2, <3>3, WholeAgain, CharsAre
      <4>. QED
        BY <4>1 DEF Halves
    <3>. QED
      BY <3>4
  <2>. QED
    BY <2>2, <2>3
<1>14. url = userinfo \o <<"@">> \o (hostport \o <<"/">> \o (c.db \o After(url, i)))
  BY <1>6, <1>8, <1>10, <1>11
<1>15. LosesOnlyQuery(url, c)
  BY <1>12, <1>13, <1>14 DEF LosesOnlyQuery
<1>16. QED
  BY <1>6, <1>15

\* A URL that is meant as a setting is read as that setting, and one that is accepted loses
\* nothing but its query: user, password, host, port and database make it up again
\* (pgurl.go:24-99).
THEOREM ReadAsMeant == Spec => []ParsesWhatWasMeant
<1>1. ASSUME IInv, JInv, NEW r \in Runs, report[r].asked = "typed"
      PROVE  LET c == ParseConnURL(report[r].input.url) IN
             /\ report[r].input.meant.ok => c = report[r].input.meant
             /\ c.ok => c.host # <<>> /\ c.db # <<>> /\ LosesOnlyQuery(report[r].input.url, c)
  <2>1. PICK typed, c : typed = report[r].input /\ c = ParseConnURL(typed.url)
    OBVIOUS
  <2>2. typed \in Typed \cup {NoInput}
    BY <1>1, <2>1 DEF JInv, Sound
  <2>3. /\ typed.url \in Seq(Chars)
        /\ typed.meant.ok => /\ OneReading(typed.meant, typed.query)
                             /\ typed.url = Written(typed.meant, typed.query)
    <3>1. CASE typed \in Typed
      BY <3>1, ReportsAssumption
    <3>2. CASE typed = NoInput
      <4>1. typed.url = <<>> /\ typed.meant = Refused
        BY <3>2 DEF NoInput
      <4>2. <<>> \in Seq(Chars)
        <5>1. PICK T : T = Chars
          OBVIOUS
        <5>2. <<>> \in Seq(T)
          OBVIOUS
        <5>. QED
          BY <5>1, <5>2
      <4>. QED
        BY <4>1, <4>2 DEF Refused
    <3>. QED
      BY <2>2, <3>1, <3>2
  <2>4. typed.meant.ok => c = typed.meant
    BY <2>1, <2>3, ReadBack
  <2>5. c.ok => c.host # <<>> /\ c.db # <<>> /\ LosesOnlyQuery(typed.url, c)
    BY <2>1, <2>3, LosesOnly
  <2>. QED
    BY <2>1, <2>4, <2>5
<1>2. IInv /\ JInv => ParsesWhatWasMeant
  BY <1>1 DEF ParsesWhatWasMeant
<1>3. QED
  BY <1>2, Invariant, SoundAlways, PTL
=============================================================================
