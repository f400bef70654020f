---------------------------- MODULE RecordsProofs ----------------------------
(***************************************************************************)
(* Proofs about what is recorded and what is shown of it, for any values   *)
(* of the constants: the subscriptions and their overview, the import of   *)
(* a file into a database, the history and heatmap of past captures, and   *)
(* what is predicted and advised from stored readings.                     *)
(*                                                                         *)
(* All of them compute by folding over sets and sequences of any length.   *)
(* The first section says what a fold is without an operator as a          *)
(* parameter: a fold is the last of a run of values, and what holds of the *)
(* first and is kept by each step holds of the last.                       *)
(***************************************************************************)
EXTENDS Subscriptions, UsageImport, ActivityViews, Predictions, FiniteSetTheorems, TLAPS

-----------------------------------------------------------------------------
(* Induction and folds                                                     *)

\* Induction on the natural numbers, stated of a set of them.
LEMMA NatSetInduction ==
  ASSUME NEW S, 0 \in S, \A n \in Nat : n \in S => n + 1 \in S
  PROVE  \A n \in Nat : n \in S
<1> SUFFICES ASSUME NEW t \in Nat, t \notin S PROVE FALSE
  OBVIOUS
<1> DEFINE D == {n \in 0 .. t : \A k \in 0 .. n : k \in S}
           B == D \ {0}
           f == [n \in D |-> n + 1]
<1>1. IsFiniteSet(D) /\ 0 \in D /\ D \subseteq Nat
  <2>1. IsFiniteSet(0 .. t)
    BY ONLY FS_Interval, 0 \in Int, t \in Int
  <2>2. IsFiniteSet(D)
    BY <2>1, FS_Subset
  <2> QED
    BY <2>2
<1>2. \A n \in D : n + 1 \in D
  <2> SUFFICES ASSUME NEW n \in D PROVE n + 1 \in D
    OBVIOUS
  <2>1. n \in Nat /\ n <= t /\ n \in S
    OBVIOUS
  <2>2. n # t
    BY <2>1
  <2>3. n + 1 \in S
    BY <2>1
  <2>4. \A k \in 0 .. (n + 1) : k \in S
    BY <2>1, <2>3
  <2> QED
    BY <2>1, <2>2, <2>4
<1>3. f \in Injection(D, B)
  <2> HIDE DEF D
  <2>1. f \in [D -> B]
    BY <1>1, <1>2
  <2>2. \A a, b \in D : f[a] = f[b] => a = b
    BY <1>1
  <2> QED
    BY <2>1, <2>2 DEF Injection, IsInjective
<1>4. IsFiniteSet(B) /\ Cardinality(B) = Cardinality(D) - 1
  <2> HIDE DEF D
  <2> QED
    BY <1>1, FS_RemoveElement
<1>5. Cardinality(D) \in Nat
  BY <1>1, FS_CardinalityType
<1>6. Cardinality(D) <= Cardinality(B)
  <2> HIDE DEF D, f, B
  <2> QED
    BY <1>1, <1>3, <1>4, FS_Injection
<1> QED
  BY <1>4, <1>5, <1>6

\* Induction on finite sets, stated of sets of subsets.
LEMMA SubsetInduction ==
  ASSUME NEW S, IsFiniteSet(S), NEW G, {} \in G,
         \A s \in SUBSET S : s # {} /\ (\A t \in SUBSET s : t # s => t \in G) => s \in G
  PROVE  \A s \in SUBSET S : s \in G
<1> DEFINE N == {n \in Nat : \A s \in SUBSET S : Cardinality(s) <= n => s \in G}
<1>0. \A s \in SUBSET S : IsFiniteSet(s) /\ Cardinality(s) \in Nat
  BY FS_Subset, FS_CardinalityType
<1>1. 0 \in N
  <2> SUFFICES ASSUME NEW s \in SUBSET S, Cardinality(s) <= 0 PROVE s \in G
    OBVIOUS
  <2>1. Cardinality(s) = 0 /\ IsFiniteSet(s)
    BY <1>0
  <2>2. s = {}
    BY <2>1, FS_EmptySet
  <2> QED
    BY <2>2
<1>2. ASSUME NEW n \in Nat, n \in N PROVE n + 1 \in N
  <2> SUFFICES ASSUME NEW s \in SUBSET S, Cardinality(s) <= n + 1, s # {} PROVE s \in G
    OBVIOUS
  <2>1. ASSUME NEW t \in SUBSET s, t # s PROVE t \in G
    <3>1. Cardinality(t) < Cardinality(s)
      <4>1. Cardinality(t) <= Cardinality(s) /\ Cardinality(t) # Cardinality(s)
        BY <2>1, <1>0, FS_Subset
      <4> QED
        BY <4>1, <1>0, t \in SUBSET S
    <3>2. Cardinality(t) <= n
      <4>1. Cardinality(t) \in Nat /\ Cardinality(s) \in Nat
        BY <1>0, t \in SUBSET S
      <4> QED
        BY <4>1, <3>1
    <3> QED
      BY <3>2, <1>2, t \in SUBSET S
  <2> QED
    BY <2>1
<1>3. \A n \in Nat : n \in N
  <2> HIDE DEF N
  <2> QED
    BY ONLY <1>1, <1>2, NatSetInduction
<1> QED
  BY <1>0, <1>3

\* A fold that picks an element of what is left exists, whichever it picks.
FoldIs(F, S, start, step, pick) ==
  F = [s \in SUBSET S |-> IF s = {} THEN start ELSE step[<<pick[s], F[s \ {pick[s]}]>>]]

LEMMA FoldExists ==
  ASSUME NEW S, IsFiniteSet(S), NEW A, NEW start \in A, NEW step, NEW pick,
         \A x \in S, a \in A : step[<<x, a>>] \in A,
         \A s \in SUBSET S : s # {} => pick[s] \in s
  PROVE  \E F \in [SUBSET S -> A] : FoldIs(F, S, start, step, pick)
<1> DEFINE Rec(F, s) == IF s = {} THEN start ELSE step[<<pick[s], F[s \ {pick[s]}]>>]
           Of(n) == {s \in SUBSET S : Cardinality(s) <= n}
           N == {n \in Nat : \E F \in [Of(n) -> A] : \A s \in Of(n) : F[s] = Rec(F, s)}
<1>0. \A s \in SUBSET S : IsFiniteSet(s) /\ Cardinality(s) \in Nat
  BY FS_Subset, FS_CardinalityType
<1>1. 0 \in N
  <2> DEFINE F == [s \in Of(0) |-> start]
  <2>1. \A s \in Of(0) : s = {}
    BY <1>0, FS_EmptySet
  <2>2. F \in [Of(0) -> A] /\ \A s \in Of(0) : F[s] = Rec(F, s)
    BY <2>1
  <2> QED
    BY <2>2
<1>2. ASSUME NEW n \in Nat, n \in N PROVE n + 1 \in N
  <2>1. PICK F \in [Of(n) -> A] : \A s \in Of(n) : F[s] = Rec(F, s)
    BY <1>2
  <2> DEFINE H == [s \in Of(n + 1) |-> Rec(F, s)]
  <2>2. \A s \in Of(n + 1) : s # {} => pick[s] \in S /\ s \ {pick[s]} \in Of(n)
    <3> SUFFICES ASSUME NEW s \in Of(n + 1), s # {} PROVE pick[s] \in S /\ s \ {pick[s]} \in Of(n)
      OBVIOUS
    <3>1. pick[s] \in s /\ IsFiniteSet(s) /\ Cardinality(s) \in Nat
      BY <1>0
    <3>2. Cardinality(s \ {pick[s]}) = Cardinality(s) - 1
      BY <3>1, FS_RemoveElement
    <3> QED
      BY <3>1, <3>2
  <2>3. \A s \in Of(n + 1) : Rec(F, s) \in A
    BY <2>2
  <2>4. \A s \in Of(n) : s \in Of(n + 1) /\ H[s] = F[s]
    <3>1. \A s \in Of(n) : s \in Of(n + 1)
      BY <1>0
    <3> QED
      BY <3>1, <2>1
  <2>5. \A s \in Of(n + 1) : H[s] = Rec(H, s)
    <3> SUFFICES ASSUME NEW s \in Of(n + 1) PROVE H[s] = Rec(H, s)
      OBVIOUS
    <3>1. CASE s = {}
      BY <3>1
    <3>2. CASE s # {}
      <4>1. H[s \ {pick[s]}] = F[s \ {pick[s]}]
        BY <3>2, <2>2, <2>4
      <4>2. H[s] = Rec(F, s)
        OBVIOUS
      <4> QED
        BY <3>2, <4>1, <4>2
    <3> QED
      BY <3>1, <3>2
  <2>6. H \in [Of(n + 1) -> A]
    BY <2>3
  <2>7. \E G \in [Of(n + 1) -> A] : \A s \in Of(n + 1) : G[s] = Rec(G, s)
    <3> HIDE DEF H, Of
    <3> QED
      BY <2>5, <2>6
  <2>8. n + 1 \in Nat
    OBVIOUS
  <2> HIDE DEF Of, Rec
  <2> QED
    BY ONLY <2>7, <2>8 DEF N
<1>3. \A n \in Nat : n \in N
  <2> HIDE DEF N
  <2> QED
    BY ONLY <1>1, <1>2, NatSetInduction
<1>4. Cardinality(S) \in N
  <2>1. Cardinality(S) \in Nat
    BY <1>0, S \in SUBSET S
  <2> HIDE DEF N
  <2> QED
    BY <2>1, <1>3
<1>5. Of(Cardinality(S)) = SUBSET S
  BY <1>0, FS_Subset
<1>6. PICK F \in [Of(Cardinality(S)) -> A] : \A s \in Of(Cardinality(S)) : F[s] = Rec(F, s)
  BY <1>4
<1>7. F \in [SUBSET S -> A] /\ \A s \in SUBSET S : F[s] = Rec(F, s)
  BY <1>5, <1>6
<1>8. F = [s \in SUBSET S |-> Rec(F, s)]
  BY <1>7
<1> QED
  BY <1>7, <1>8 DEF FoldIs

\* A largest and a least element: what Max picks.
LEMMA Largest ==
  ASSUME NEW n \in Nat, NEW s \in SUBSET (1 .. n), s # {}
  PROVE  Max(s) \in s /\ \A y \in s : y <= Max(s)
<1> DEFINE N == {k \in Nat : \A t \in SUBSET (1 .. k) : t # {} => \E x \in t : \A y \in t : x >= y}
<1>1. 0 \in N
  <2>1. \A t \in SUBSET (1 .. 0) : t = {}
    OBVIOUS
  <2> QED
    BY <2>1
<1>2. ASSUME NEW k \in Nat, k \in N PROVE k + 1 \in N
  <2> SUFFICES ASSUME NEW t \in SUBSET (1 .. (k + 1)), t # {} PROVE \E x \in t : \A y \in t : x >= y
    OBVIOUS
  <2>1. CASE k + 1 \in t
    BY <2>1
  <2>2. CASE k + 1 \notin t
    <3>1. t \in SUBSET (1 .. k)
      BY <2>2
    <3> QED
      BY <3>1, <1>2
  <2> QED
    BY <2>1, <2>2
<1>3. \A k \in Nat : k \in N
  <2> HIDE DEF N
  <2> QED
    BY ONLY <1>1, <1>2, NatSetInduction
<1>4. \E x \in s : \A y \in s : x >= y
  <2>1. n \in N
    BY <1>3
  <2> QED
    BY <2>1
<1>5. Max(s) \in s /\ \A y \in s : Max(s) >= y
  BY <1>4 DEF Max
<1> QED
  BY <1>5

\* Of what is ordered by a number something comes last.
LEMMA LeastExists ==
  ASSUME NEW S, IsFiniteSet(S), NEW key, \A x \in S : key[x] \in Int, S # {}
  PROVE  \E m \in S : \A x \in S : key[m] <= key[x]
<1> DEFINE G == {s \in SUBSET S : s # {} => \E m \in s : \A x \in s : key[m] <= key[x]}
<1>1. {} \in G
  OBVIOUS
<1>2. ASSUME NEW s \in SUBSET S, s # {}, \A t \in SUBSET s : t # s => t \in G PROVE s \in G
  <2>1. PICK z : z \in s
    BY <1>2
  <2>2. s \ {z} \in G
    <3>1. s \ {z} \in SUBSET s /\ s \ {z} # s
      BY <2>1
    <3> HIDE DEF G
    <3> QED
      BY <1>2, <3>1
  <2>3. CASE s \ {z} = {}
    BY <2>1, <2>3
  <2>4. CASE s \ {z} # {}
    <3>1. PICK m \in s \ {z} : \A x \in s \ {z} : key[m] <= key[x]
      BY <2>2, <2>4
    <3> QED
      BY <2>1, <3>1
  <2> QED
    BY <2>3, <2>4
<1>3. \A s \in SUBSET S : s \in G
  <2> HIDE DEF G
  <2> QED
    BY ONLY <1>1, <1>2, IsFiniteSet(S), SubsetInduction
<1> QED
  BY <1>3

\* A fold that picks the largest index goes from each prefix of the indices to the next.
LEMMA EachPrefix ==
  ASSUME NEW n \in Nat, NEW k \in 1 .. n
  PROVE  (1 .. k) \in SUBSET (1 .. n) /\ (1 .. k) # {} /\ (1 .. k) \ {k} = 1 .. (k - 1)
OBVIOUS

LEMMA LargestOfPrefix ==
  ASSUME NEW n \in Nat, NEW k \in 1 .. n
  PROVE  Max(1 .. k) = k
<1> DEFINE m == CHOOSE x \in 1 .. k : \A y \in 1 .. k : x >= y
<1>1. k \in 1 .. k /\ \A y \in 1 .. k : k >= y
  OBVIOUS
<1>2. m \in 1 .. k /\ \A y \in 1 .. k : m >= y
  BY <1>1
<1>3. m = k
  <2> HIDE DEF m
  <2> QED
    BY <1>1, <1>2
<1> QED
  BY <1>3, Zenon DEF Max

FoldsUp(F, n, start, step) ==
  F = [s \in SUBSET (1 .. n) |-> IF s = {} THEN start ELSE step[<<Max(s), F[s \ {Max(s)}]>>]]

LEMMA FoldAlongExists ==
  ASSUME NEW n \in Nat, NEW A, NEW start \in A, NEW step,
         \A x \in 1 .. n, a \in A : step[<<x, a>>] \in A
  PROVE  \E F \in [SUBSET (1 .. n) -> A] : FoldsUp(F, n, start, step)
<1> DEFINE pick == [s \in SUBSET (1 .. n) |-> Max(s)]
<1>1. IsFiniteSet(1 .. n)
  BY FS_Interval
<1>2. \A s \in SUBSET (1 .. n) : s # {} => pick[s] \in s
  BY Largest
<1>3. \A s \in SUBSET (1 .. n) : pick[s] = Max(s)
  OBVIOUS
<1> HIDE DEF pick
<1>4. PICK F \in [SUBSET (1 .. n) -> A] : FoldIs(F, 1 .. n, start, step, pick)
  BY <1>1, <1>2, FoldExists
<1>5. F = [s \in SUBSET (1 .. n) |-> IF s = {} THEN start ELSE step[<<Max(s), F[s \ {Max(s)}]>>]]
  BY <1>3, <1>4 DEF FoldIs
<1> QED
  BY <1>5 DEF FoldsUp

\* What such a fold goes through, given an equation for it alone.
RunOf(g, n, start, step, last) ==
  /\ g[0] = start /\ g[n] = last
  /\ \A k \in 1 .. n : g[k] = step[<<k, g[k - 1]>>]

LEMMA FoldRun ==
  ASSUME NEW n \in Nat, NEW A, NEW start \in A, NEW step, NEW F,
         \A x \in 1 .. n, a \in A : step[<<x, a>>] \in A,
         F[{}] = start,
         \A k \in 1 .. n : F[1 .. (k - 1)] \in A => F[1 .. k] = step[<<k, F[1 .. (k - 1)]>>]
  PROVE  \E g \in [0 .. n -> A] : RunOf(g, n, start, step, F[1 .. n])
<1> DEFINE N == {k \in Nat : k <= n => F[1 .. k] \in A}
           g == [k \in 0 .. n |-> F[1 .. k]]
<1>0. 1 .. 0 = {}
  OBVIOUS
<1>1. 0 \in N
  BY <1>0
<1>2. ASSUME NEW k \in Nat, k \in N PROVE k + 1 \in N
  <2> SUFFICES ASSUME k + 1 <= n PROVE F[1 .. (k + 1)] \in A
    OBVIOUS
  <2>1. k + 1 \in 1 .. n /\ (k + 1) - 1 = k /\ F[1 .. k] \in A
    BY <1>2
  <2>2. F[1 .. (k + 1)] = step[<<k + 1, F[1 .. k]>>]
    BY <2>1
  <2> QED
    BY <2>1, <2>2
<1>3. \A k \in Nat : k \in N
  <2> HIDE DEF N
  <2> QED
    BY ONLY <1>1, <1>2, NatSetInduction
<1>4. \A k \in 0 .. n : F[1 .. k] \in A
  BY <1>3
<1>5. g \in [0 .. n -> A] /\ g[0] = start /\ g[n] = F[1 .. n]
  BY <1>0, <1>4
<1>6. ASSUME NEW k \in 1 .. n PROVE g[k] = step[<<k, g[k - 1]>>]
  <2>1. k - 1 \in 0 .. n /\ k \in 0 .. n
    OBVIOUS
  <2> QED
    BY <1>4, <2>1
<1> HIDE DEF g
<1> QED
  BY <1>5, <1>6 DEF RunOf

\* What holds at first and from each step to the next holds at last.
LEMMA RunInduction ==
  ASSUME NEW n \in Nat, NEW Good, 0 \in Good,
         \A k \in 1 .. n : k - 1 \in Good => k \in Good
  PROVE  \A k \in 0 .. n : k \in Good
<1> DEFINE N == {k \in Nat : k <= n => k \in Good}
<1>1. 0 \in N
  OBVIOUS
<1>2. ASSUME NEW k \in Nat, k \in N PROVE k + 1 \in N
  <2> SUFFICES ASSUME k + 1 <= n PROVE k + 1 \in Good
    OBVIOUS
  <2>1. k + 1 \in 1 .. n /\ (k + 1) - 1 = k /\ k \in Good
    BY <1>2
  <2> QED
    BY <2>1
<1>3. \A k \in Nat : k \in N
  <2> HIDE DEF N
  <2> QED
    BY ONLY <1>1, <1>2, NatSetInduction
<1> QED
  BY <1>3

-----------------------------------------------------------------------------
(* Sums                                                                    *)

\* The sum of w over S, whichever order the elements are picked in.
Some(s) == CHOOSE x \in s : TRUE
SumIs(F, S, w) ==
  F = [s \in SUBSET S |-> IF s = {} THEN 0 ELSE w[Some(s)] + F[s \ {Some(s)}]]
Total(w, S) == (CHOOSE F : SumIs(F, S, w))[S]
Naturals(w, S) == IsFiniteSet(S) /\ \A x \in S : w[x] \in Nat

LEMMA SumExists ==
  ASSUME NEW S, NEW w, Naturals(w, S)
  PROVE  \E F \in [SUBSET S -> Nat] : SumIs(F, S, w)
<1> DEFINE step == [p \in S \X Nat |-> w[p[1]] + p[2]]
           pick == [s \in SUBSET S |-> Some(s)]
<1>1. \A x \in S, a \in Nat : step[<<x, a>>] \in Nat /\ step[<<x, a>>] = w[x] + a
  BY DEF Naturals
<1>2. \A s \in SUBSET S : pick[s] = Some(s) /\ (s # {} => pick[s] \in s)
  BY DEF Some
<1>3. PICK F \in [SUBSET S -> Nat] : FoldIs(F, S, 0, step, pick)
  <2> HIDE DEF step, pick
  <2> QED
    BY <1>1, <1>2, FoldExists DEF Naturals
<1>4. \A s \in SUBSET S : F[s] = IF s = {} THEN 0 ELSE w[Some(s)] + F[s \ {Some(s)}]
  <2> HIDE DEF step, pick
  <2> SUFFICES ASSUME NEW s \in SUBSET S, s # {} PROVE F[s] = w[Some(s)] + F[s \ {Some(s)}]
    BY <1>3 DEF FoldIs
  <2>1. F[s] = step[<<pick[s], F[s \ {pick[s]}]>>]
    BY <1>3 DEF FoldIs
  <2>2. pick[s] \in S /\ pick[s] = Some(s) /\ F[s \ {pick[s]}] \in Nat
    BY <1>2, <1>3
  <2> QED
    BY <1>1, <2>1, <2>2
<1>5. F = [s \in SUBSET S |-> IF s = {} THEN 0 ELSE w[Some(s)] + F[s \ {Some(s)}]]
  BY <1>3, <1>4
<1> QED
  BY <1>3, <1>5 DEF SumIs

LEMMA SumSame ==
  ASSUME NEW S, NEW T, NEW w, NEW v, NEW F, NEW H, SumIs(F, S, w), SumIs(H, T, v),
         NEW U, U \subseteq S, U \subseteq T, IsFiniteSet(U), \A x \in U : w[x] = v[x]
  PROVE  F[U] = H[U]
<1> DEFINE E == {s \in SUBSET U : F[s] = H[s]}
<1>1. {} \in E
  BY DEF SumIs
<1>2. ASSUME NEW s \in SUBSET U, s # {}, \A t \in SUBSET s : t # s => t \in E PROVE s \in E
  <2>1. Some(s) \in s
    BY <1>2 DEF Some
  <2>2. s \ {Some(s)} \in E
    <3>1. s \ {Some(s)} \in SUBSET s /\ s \ {Some(s)} # s
      BY <2>1
    <3> HIDE DEF E
    <3> QED
      BY <3>1, <1>2
  <2>3. F[s] = w[Some(s)] + F[s \ {Some(s)}]
    BY <1>2, s \in SUBSET S DEF SumIs
  <2>4. H[s] = v[Some(s)] + H[s \ {Some(s)}]
    BY <1>2, s \in SUBSET T DEF SumIs
  <2>5. w[Some(s)] = v[Some(s)]
    BY <2>1
  <2> QED
    BY <2>2, <2>3, <2>4, <2>5
<1>3. \A s \in SUBSET U : s \in E
  <2> HIDE DEF E
  <2> QED
    BY <1>1, <1>2, SubsetInduction
<1> QED
  BY <1>3

LEMMA TotalIs ==
  ASSUME NEW T, NEW w, Naturals(w, T), NEW F, SumIs(F, T, w), NEW S, S \subseteq T
  PROVE  F[S] = Total(w, S) /\ F[S] \in Nat
<1>1. IsFiniteSet(S) /\ Naturals(w, S)
  BY FS_Subset DEF Naturals
<1>2. PICK H \in [SUBSET S -> Nat] : SumIs(H, S, w)
  BY <1>1, SumExists
<1>3. SumIs(CHOOSE G : SumIs(G, S, w), S, w)
  BY <1>2
<1>4. H[S] = F[S]
  BY <1>1, <1>2, SumSame
<1>5. (CHOOSE G : SumIs(G, S, w))[S] = F[S]
  BY ONLY <1>1, <1>3, SumIs(F, T, w), S \subseteq T, SumSame
<1>6. H[S] \in Nat
  BY <1>2
<1> QED
  BY <1>4, <1>5, <1>6 DEF Total

LEMMA TotalSame ==
  ASSUME NEW S, NEW w, NEW v, Naturals(w, S), \A x \in S : w[x] = v[x]
  PROVE  Total(w, S) = Total(v, S)
<1>1. Naturals(v, S) /\ IsFiniteSet(S)
  BY DEF Naturals
<1>2. PICK F : SumIs(F, S, w)
  BY SumExists
<1>3. PICK H : SumIs(H, S, v)
  BY <1>1, SumExists
<1>4. F[S] = H[S]
  BY <1>1, <1>2, <1>3, SumSame
<1> QED
  BY <1>1, <1>2, <1>3, <1>4, TotalIs

LEMMA TotalEmpty == \A w : Total(w, {}) = 0
<1> TAKE w
<1>1. Naturals(w, {})
  BY FS_EmptySet DEF Naturals
<1>2. PICK F : SumIs(F, {}, w)
  BY <1>1, SumExists
<1>3. F[{}] = 0
  BY <1>2 DEF SumIs
<1> QED
  BY <1>1, <1>2, <1>3, TotalIs

\* A sum without one of its elements.
LEMMA TotalWithout ==
  ASSUME NEW S, NEW w, Naturals(w, S), NEW x \in S
  PROVE  Total(w, S) = w[x] + Total(w, S \ {x}) /\ Total(w, S \ {x}) \in Nat /\ w[x] \in Nat
<1>1. PICK F \in [SUBSET S -> Nat] : SumIs(F, S, w)
  BY SumExists
<1> DEFINE E == {s \in SUBSET S : \A y \in s : F[s] = w[y] + F[s \ {y}]}
<1>2. {} \in E
  OBVIOUS
<1>3. ASSUME NEW s \in SUBSET S, s # {}, \A t \in SUBSET s : t # s => t \in E PROVE s \in E
  <2> SUFFICES ASSUME NEW y \in s PROVE F[s] = w[y] + F[s \ {y}]
    OBVIOUS
  <2> DEFINE z == Some(s)
  <2>1. z \in s
    BY <1>3 DEF Some
  <2>2. F[s] = w[z] + F[s \ {z}]
    BY <1>1, <1>3 DEF SumIs
  <2>3. CASE y = z
    BY <2>2, <2>3
  <2>4. CASE y # z
    <3> HIDE DEF z
    <3>1. s \ {z} \in E /\ s \ {y} \in E
      <4>1. /\ s \ {z} \in SUBSET s /\ s \ {z} # s
            /\ s \ {y} \in SUBSET s /\ s \ {y} # s
        BY <2>1
      <4> HIDE DEF E
      <4> QED
        BY <4>1, <1>3
    <3>2. F[s \ {z}] = w[y] + F[(s \ {z}) \ {y}]
      BY <3>1, <2>4
    <3>3. F[s \ {y}] = w[z] + F[(s \ {y}) \ {z}]
      BY <3>1, <2>4, <2>1
    <3>4. F[(s \ {z}) \ {y}] = F[(s \ {y}) \ {z}]
      <4>1. (s \ {z}) \ {y} = (s \ {y}) \ {z}
        OBVIOUS
      <4> QED
        BY ONLY <4>1
    <3>5. F[(s \ {y}) \ {z}] \in Nat /\ w[y] \in Nat /\ w[z] \in Nat
      BY <2>1 DEF Naturals
    <3>6. F[s] = w[z] + (w[y] + F[(s \ {y}) \ {z}])
      BY ONLY <2>2, <3>2, <3>4
    <3>7. w[z] + (w[y] + F[(s \ {y}) \ {z}]) = w[y] + (w[z] + F[(s \ {y}) \ {z}])
      BY ONLY <3>5
    <3> QED
      BY ONLY <3>3, <3>6, <3>7
  <2> QED
    BY <2>3, <2>4
<1>4. \A s \in SUBSET S : s \in E
  <2> HIDE DEF E
  <2> QED
    BY <1>2, <1>3, SubsetInduction DEF Naturals
<1>5. F[S] = w[x] + F[S \ {x}]
  BY <1>4
<1>6. F[S] = Total(w, S) /\ F[S \ {x}] = Total(w, S \ {x}) /\ F[S \ {x}] \in Nat
  BY <1>1, TotalIs
<1> QED
  BY <1>5, <1>6 DEF Naturals

\* A sum over a part is at most that over the whole, and the same when nothing is left out.
LEMMA TotalOfPart ==
  ASSUME NEW S, NEW w, Naturals(w, S), NEW T \in SUBSET S
  PROVE  /\ Total(w, T) \in Nat /\ Total(w, S) \in Nat /\ Total(w, T) <= Total(w, S)
         /\ (\A x \in S \ T : w[x] = 0) => Total(w, T) = Total(w, S)
<1> DEFINE Whole(s) == /\ Total(w, T) <= Total(w, s)
                       /\ (\A x \in s \ T : w[x] = 0) => Total(w, T) = Total(w, s)
           E == {s \in SUBSET S : T \subseteq s => Whole(s)}
<1>0. \A s \in SUBSET S : Total(w, s) \in Nat /\ Naturals(w, s)
  <2> SUFFICES ASSUME NEW s \in SUBSET S PROVE Total(w, s) \in Nat /\ Naturals(w, s)
    OBVIOUS
  <2>1. PICK F : SumIs(F, S, w)
    BY SumExists
  <2> QED
    BY <2>1, TotalIs, FS_Subset DEF Naturals
<1>1. {} \in E
  BY <1>0
<1>2. ASSUME NEW s \in SUBSET S, s # {}, \A t \in SUBSET s : t # s => t \in E PROVE s \in E
  <2> SUFFICES ASSUME T \subseteq s PROVE Whole(s)
    OBVIOUS
  <2>1. CASE T = s
    BY <2>1, <1>0
  <2>2. CASE T # s
    <3>1. PICK x \in s : x \notin T
      BY <2>2
    <3>2. s \ {x} \in E
      <4>1. s \ {x} \in SUBSET s /\ s \ {x} # s
        OBVIOUS
      <4> HIDE DEF E
      <4> QED
        BY <4>1, <1>2
    <3>3. Whole(s \ {x})
      BY <3>1, <3>2
    <3>4. Total(w, s) = w[x] + Total(w, s \ {x}) /\ Total(w, s \ {x}) \in Nat /\ w[x] \in Nat
      <4>1. Naturals(w, s)
        BY <1>0
      <4> QED
        BY ONLY <4>1, x \in s, TotalWithout
    <3>5. Total(w, T) \in Nat
      BY <1>0
    <3>6. Total(w, T) <= Total(w, s)
      BY <3>3, <3>4, <3>5
    <3>7. ASSUME \A y \in s \ T : w[y] = 0 PROVE Total(w, T) = Total(w, s)
      <4>1. w[x] = 0 /\ \A y \in (s \ {x}) \ T : w[y] = 0
        BY <3>1, <3>7
      <4> QED
        BY <4>1, <3>3, <3>4, <3>5
    <3> QED
      BY <3>6, <3>7
  <2> QED
    BY <2>1, <2>2
<1>3. \A s \in SUBSET S : s \in E
  <2> HIDE DEF E
  <2> QED
    BY <1>1, <1>2, SubsetInduction DEF Naturals
<1>4. S \in E
  <2> HIDE DEF E
  <2> QED
    BY <1>3
<1> QED
  BY <1>0, <1>4

\* The image of a finite set is finite.
LEMMA FiniteImage ==
  ASSUME NEW S, IsFiniteSet(S), NEW f
  PROVE  IsFiniteSet({f[x] : x \in S})
<1> DEFINE T == {f[x] : x \in S}
           g == [x \in S |-> f[x]]
<1>1. g \in Surjection(S, T)
  BY DEF Surjection
<1> HIDE DEF g, T
<1>2. IsFiniteSet(T)
  BY <1>1, FS_Surjection
<1> QED
  BY <1>2 DEF T

-----------------------------------------------------------------------------
(* Subscriptions (Subscriptions)                                           *)

\* The row of the last capture by hand is kept while it is young; no capture, no row.
RowIsKept ==
  /\ byHand = NoTimeYet => row = NoTimeYet
  /\ byHand # NoTimeYet =>
       /\ byHand <= clock
       /\ \/ row = byHand
          \/ row = NoTimeYet /\ clock - byHand > RetentionDays * 24

LedgerInv == LedgerTypeOK /\ RowIsKept

LEMMA OffersAreSubs == Offers \subseteq SubRecords
<1>1. \A s \in {"active", "cancelled", ""} : Offer(s, "monthly", 12, 3, NoDate, FALSE) \in SubRecords
  BY DEF Offer, SubRecords, Dates, NoDate
<1>2. /\ Offer("active", "annual", 120, 0, NoDate, FALSE) \in SubRecords
      /\ Offer("active", "lifetime", 240, NoDate, NoDate, FALSE) \in SubRecords
      /\ Offer("trial", "monthly", 12, NoDate, 4, FALSE) \in SubRecords
      /\ Offer("active", "monthly", 12, NoDate, NoDate, TRUE) \in SubRecords
  BY DEF Offer, SubRecords, Dates, NoDate
<1> QED
  BY <1>1, <1>2 DEF Offers

LEMMA StoreKeepsLedger ==
  ASSUME LedgerInv, NEW s \in SubIds, NEW sub \in {NoSub} \cup SubRecords, Store(s, sub)
  PROVE  LedgerInv'
BY DEF Store, LedgerInv, LedgerTypeOK, RowIsKept

LEMMA LedgerStarts == LedgerInit => LedgerInv
BY DEF LedgerInit, LedgerNew, LedgerInv, LedgerTypeOK, RowIsKept

LEMMA LedgerSteps == LedgerInv /\ [LedgerNext]_ledgerVars => LedgerInv'
<1> SUFFICES ASSUME LedgerInv, [LedgerNext]_ledgerVars PROVE LedgerInv'
  OBVIOUS
<1> USE LedgerAssumption
<1>1. ASSUME NEW s \in SubIds, Create(s) PROVE LedgerInv'
  <2>1. PICK o \in Offers : Store(s, IF o.status = "" THEN [o EXCEPT !.status = "active"] ELSE o)
    BY <1>1 DEF Create
  <2>2. (IF o.status = "" THEN [o EXCEPT !.status = "active"] ELSE o) \in SubRecords
    BY OffersAreSubs DEF SubRecords
  <2> QED
    BY <2>1, <2>2, StoreKeepsLedger
<1>2. ASSUME NEW s \in SubIds, Update(s) PROVE LedgerInv'
  BY <1>2, OffersAreSubs, StoreKeepsLedger DEF Update
<1>3. ASSUME NEW s \in SubIds, Delete(s) PROVE LedgerInv'
  BY <1>3, StoreKeepsLedger DEF Delete
<1>4. CASE CaptureByHand
  BY <1>4 DEF CaptureByHand, LedgerInv, LedgerTypeOK, RowIsKept, NoTimeYet
<1>5. CASE DeleteOldRows
  BY <1>5 DEF DeleteOldRows, LedgerInv, LedgerTypeOK, RowIsKept, NoTimeYet
<1>6. CASE Passes
  BY <1>6 DEF Passes, LedgerInv, LedgerTypeOK, RowIsKept, NoTimeYet
<1>7. CASE UNCHANGED ledgerVars
  BY <1>7 DEF ledgerVars, LedgerInv, LedgerTypeOK, RowIsKept
<1> QED
  BY <1>1, <1>2, <1>3, <1>4, <1>5, <1>6, <1>7 DEF LedgerNext

\* What a current subscription is.
LEMMA CurrentFacts ==
  ASSUME LedgerTypeOK, NEW s \in Current
  PROVE  /\ s \in SubIds /\ ledger[s] \in SubRecords /\ ledger[s].status \in {"active", "trial"}
         /\ ledger[s].renewal \in Dates /\ ledger[s].trialEnds \in Dates
<1>1. s \in SubIds /\ ledger[s] # NoSub /\ ledger[s].status \in {"active", "trial"}
  BY DEF Current, Known
<1>2. ledger[s] \in SubRecords
  BY <1>1 DEF LedgerTypeOK
<1> QED
  BY <1>1, <1>2 DEF SubRecords

LEMMA TimeLeft ==
  ASSUME LedgerTypeOK, NEW date \in Nat
  PROVE  /\ Until(date) \in Int
         /\ Until(date) > -24 /\ Until(date) <= 72 => DaysLeft(date) \in 0 .. 3
         /\ DaysLeft(date) \in 0 .. 3 => Until(date) > -24 /\ Until(date) <= 96
         /\ Until(date) > -24 /\ Until(date) <= 120 => DaysLeft(date) \in 0 .. 5
         /\ DaysLeft(date) \in 0 .. 5 => Until(date) > -24 /\ Until(date) <= 144
         /\ DaysLeft(date) \in Int
<1>1. Until(date) \in Int
  BY DEF Until, LedgerTypeOK
<1> DEFINE u == Until(date)
<1> HIDE DEF u
<1>2. \A h \in Int : /\ h > -24 /\ h <= 72 => Truncated(h) \in 0 .. 3
                     /\ Truncated(h) \in 0 .. 3 => h > -24 /\ h <= 96
                     /\ h > -24 /\ h <= 120 => Truncated(h) \in 0 .. 5
                     /\ Truncated(h) \in 0 .. 5 => h > -24 /\ h <= 144
                     /\ Truncated(h) \in Int
  BY DEF Truncated
<1> QED
  BY <1>1, <1>2 DEF DaysLeft

LEMMA AnnouncedThen == LedgerInv => \A L \in UpcomingRenewals : AnnouncedInTime(Overview(L))
<1> SUFFICES ASSUME LedgerInv, NEW s \in Current
             PROVE  LET in(date, hours) == date # NoDate /\ Until(date) > -24 /\ Until(date) <= hours
                    IN  /\ in(ledger[s].renewal, 3 * 24) => s \in RenewalInsights
                        /\ s \in RenewalInsights => in(ledger[s].renewal, 4 * 24)
                        /\ ledger[s].status = "trial" /\ in(ledger[s].trialEnds, 5 * 24) => s \in TrialInsights
                        /\ s \in TrialInsights => in(ledger[s].trialEnds, 6 * 24)
  BY DEF AnnouncedInTime, Overview
<1>0. LedgerTypeOK
  BY DEF LedgerInv
<1>1. ledger[s].renewal \in Dates /\ ledger[s].trialEnds \in Dates
  BY <1>0, CurrentFacts
<1>2. \A date \in Dates : date # NoDate => date \in Nat
  BY DEF Dates
<1>3. ledger[s].renewal # NoDate => ledger[s].renewal \in Nat
  BY <1>1, <1>2
<1>4. ledger[s].trialEnds # NoDate => ledger[s].trialEnds \in Nat
  BY <1>1, <1>2
<1>5. s \in RenewalInsights <=> ledger[s].renewal # NoDate /\ DaysLeft(ledger[s].renewal) \in 0 .. 3
  BY DEF RenewalInsights
<1>6. s \in TrialInsights <=>
        /\ ledger[s].status = "trial" /\ ledger[s].trialEnds # NoDate
        /\ DaysLeft(ledger[s].trialEnds) \in 0 .. 5
  BY DEF TrialInsights
<1> QED
  BY <1>0, <1>3, <1>4, <1>5, <1>6, TimeLeft

LEMMA ListedThen == LedgerInv => \A L \in UpcomingRenewals : ListedAsAnnounced(Overview(L))
<1> SUFFICES ASSUME LedgerInv, NEW L \in UpcomingRenewals PROVE ListedAsAnnounced(Overview(L))
  OBVIOUS
<1>0. LedgerTypeOK /\ clock \in Nat /\ zone \in -23 .. 23
  BY LedgerAssumption DEF LedgerInv, LedgerTypeOK
<1>1. /\ Overview(L).imminent = RenewalInsights
      /\ Overview(L).renewals = {<<s, DaysUntilRenewal(s)>> : s \in L}
  BY DEF Overview
<1> DEFINE listed == {r[1] : r \in Overview(L).renewals}
<1>4. listed = L
  <2>1. listed = {r[1] : r \in {<<s, DaysUntilRenewal(s)>> : s \in L}}
    BY <1>1
  <2>2. \A s \in L : s \in listed
    <3> SUFFICES ASSUME NEW s \in L PROVE s \in listed
      OBVIOUS
    <3>1. <<s, DaysUntilRenewal(s)>> \in Overview(L).renewals
      BY <1>1
    <3> QED
      BY <3>1
  <2>3. \A s \in listed : s \in L
    BY <2>1
  <2> QED
    BY <2>2, <2>3
<1>5. /\ L \subseteq DueRenewals /\ (L # DueRenewals => Cardinality(L) = RenewalLimit)
      /\ \A x \in L, y \in DueRenewals \ L : ledger[x].renewal <= ledger[y].renewal
  BY DEF UpcomingRenewals
<1>2. ASSUME NEW s \in RenewalInsights, zone <= 0 \/ Until(ledger[s].renewal) > 0
      PROVE  \/ \E d \in {0, 1} : <<s, DaysLeft(ledger[s].renewal) + d>> \in Overview(L).renewals
             \/ /\ s \notin listed /\ Cardinality(listed) = RenewalLimit
                /\ \A t \in listed : ledger[t].renewal <= ledger[s].renewal
  <2> DEFINE date == ledger[s].renewal
  <2>1. s \in Current /\ date # NoDate /\ DaysLeft(date) \in 0 .. 3
    BY DEF RenewalInsights
  <2>2. date \in Nat
    BY <2>1, <1>0, CurrentFacts DEF Dates
  <2> HIDE DEF date
  <2>3. Until(date) > -24 /\ Until(date) = 24 * date - clock
    BY <2>1, <2>2, <1>0, TimeLeft DEF Until
  <2>4. zone <= 0 \/ Until(date) > 0
    BY <1>2 DEF date
  <2>5. date >= Today
    <3>1. zone <= 0 \/ 24 * date > clock
      BY <2>3, <2>4, <1>0, <2>2
    <3>2. 24 * date > clock - 24
      BY <2>3, <1>0, <2>2
    <3> QED
      BY <3>1, <3>2, <1>0, <2>2 DEF Today
  <2>6. s \in DueRenewals
    BY <2>1, <2>5 DEF DueRenewals, date
  <2>7. \E d \in {0, 1} : DaysUntilRenewal(s) = DaysLeft(date) + d
    <3>1. \A h \in Int : h > -24 => \E d \in {0, 1} : RoundedUp(h) = Truncated(h) + d
      BY DEF RoundedUp, Truncated
    <3>2. Until(date) \in Int
      BY <1>0, <2>2, TimeLeft
    <3> QED
      BY <3>1, <3>2, <2>3 DEF DaysUntilRenewal, DaysLeft, date
  <2>8. CASE s \in L
    BY <2>7, <2>8, <1>1 DEF date
  <2>9. CASE s \notin L
    BY <2>6, <2>9, <1>4, <1>5
  <2> QED
    BY <2>8, <2>9
<1>3. ASSUME NEW s \in L, DaysUntilRenewal(s) < 0
      PROVE  zone < 0 /\ s \notin RenewalInsights
  <2> DEFINE date == ledger[s].renewal
  <2>1. s \in Current /\ date # NoDate /\ date >= Today
    BY <1>5 DEF DueRenewals
  <2>2. date \in Nat
    BY <2>1, <1>0, CurrentFacts DEF Dates
  <2> HIDE DEF date
  <2>3. RoundedUp(Until(date)) < 0
    BY <1>3 DEF DaysUntilRenewal, date
  <2>4. Until(date) = 24 * date - clock /\ Until(date) \in Int
    BY <2>2, <1>0 DEF Until
  <2>5. Until(date) <= -24
    BY <2>3, <2>4 DEF RoundedUp
  <2>6. zone < 0
    BY <2>1, <2>2, <2>4, <2>5, <1>0 DEF Today
  <2>7. ~(DaysLeft(date) \in 0 .. 3)
    BY <2>2, <2>5, <1>0, TimeLeft
  <2> QED
    BY <2>6, <2>7 DEF RenewalInsights, date
<1> QED
  BY <1>1, <1>2, <1>3 DEF ListedAsAnnounced

LEMMA UnusedThen == LedgerInv => \A L \in UpcomingRenewals : UnusedMeansNotByHand(Overview(L))
<1> SUFFICES ASSUME LedgerInv, NEW L \in UpcomingRenewals PROVE UnusedMeansNotByHand(Overview(L))
  OBVIOUS
<1>0. /\ clock \in Nat /\ row \in Nat \cup {NoTimeYet} /\ byHand \in Nat \cup {NoTimeYet}
      /\ RowIsKept /\ RetentionDays \in Nat /\ NoTimeYet = -1
  BY LedgerAssumption DEF LedgerInv, LedgerTypeOK, NoTimeYet
<1>1. Overview(L).unused = UnusedInsights
  BY DEF Overview
<1> DEFINE days == (clock - byHand) \div 24
<1>2. UnusedInsights # {} => byHand # NoTimeYet /\ days > 30
  <2> SUFFICES ASSUME UnusedInsights # {} PROVE byHand # NoTimeYet /\ days > 30
    OBVIOUS
  <2>1. row # NoTimeYet /\ Truncated(clock - row) > 30
    BY DEF UnusedInsights, LastSeen
  <2>2. byHand # NoTimeYet /\ row = byHand /\ byHand <= clock
    BY <2>1, <1>0 DEF RowIsKept
  <2>3. clock - byHand \in Nat
    BY <2>2, <1>0
  <2> QED
    BY <2>1, <2>2, <2>3 DEF Truncated
<1>3. ASSUME byHand # NoTimeYet, days \in 31 .. RetentionDays - 1
      PROVE  {s \in Current : ledger[s].auto} \subseteq UnusedInsights
  <2>1. byHand <= clock /\ byHand \in Nat
    BY <1>0, <1>3 DEF RowIsKept
  <2>2. clock - byHand <= RetentionDays * 24
    <3>1. clock - byHand \in Nat /\ (clock - byHand) \div 24 <= RetentionDays - 1
      BY <2>1, <1>0, <1>3
    <3> QED
      BY <3>1, <1>0
  <2>3. row = byHand
    BY <2>1, <2>2, <1>0, <1>3 DEF RowIsKept
  <2>4. Truncated(clock - row) > 30
    BY <2>1, <2>3, <1>0, <1>3 DEF Truncated
  <2> QED
    BY <2>3, <2>4, <1>3 DEF UnusedInsights, LastSeen
<1> QED
  BY <1>1, <1>2, <1>3 DEF UnusedMeansNotByHand

\* The total of what subscriptions cost a month.
LEMMA MonthlyIs ==
  ASSUME LedgerTypeOK, NEW S, S \subseteq Known
  PROVE  /\ MonthlyOf(S) = Total([s \in Known |-> ToMonthly(ledger[s])], S)
         /\ Naturals([s \in Known |-> ToMonthly(ledger[s])], Known)
<1> DEFINE w == [s \in Known |-> ToMonthly(ledger[s])]
           it == CHOOSE it : it = [s \in SUBSET S |->
                   IF s = {} THEN 0
                     ELSE ToMonthly(ledger[CHOOSE x \in s : TRUE]) + it[s \ {CHOOSE x \in s : TRUE}]]
<1>1. Naturals(w, Known)
  <2>1. IsFiniteSet(Known)
    BY LedgerAssumption, FS_Subset DEF Known
  <2>2. ASSUME NEW s \in Known PROVE ToMonthly(ledger[s]) \in Nat
    <3>1. ledger[s] \in SubRecords
      BY DEF Known, LedgerTypeOK
    <3>2. ledger[s].cost \in Nat
      BY <3>1 DEF SubRecords
    <3> QED
      BY <3>2 DEF ToMonthly
  <2> QED
    BY <2>1, <2>2 DEF Naturals
<1>2. Naturals(w, S)
  BY <1>1, FS_Subset DEF Naturals
<1>3. PICK F \in [SUBSET S -> Nat] : SumIs(F, S, w)
  <2> HIDE DEF w
  <2> QED
    BY <1>2, SumExists
<1>4. \A s \in SUBSET S : s # {} => w[Some(s)] = ToMonthly(ledger[CHOOSE x \in s : TRUE])
  <2> SUFFICES ASSUME NEW s \in SUBSET S, s # {} PROVE w[Some(s)] = ToMonthly(ledger[Some(s)])
    BY DEF Some
  <2>1. Some(s) \in s
    BY DEF Some
  <2> QED
    BY <2>1
<1>5. F = [s \in SUBSET S |->
             IF s = {} THEN 0
               ELSE ToMonthly(ledger[CHOOSE x \in s : TRUE]) + F[s \ {CHOOSE x \in s : TRUE}]]
  <2> HIDE DEF w
  <2> QED
    BY <1>3, <1>4 DEF SumIs, Some
<1>6. it = [s \in SUBSET S |->
              IF s = {} THEN 0
                ELSE ToMonthly(ledger[CHOOSE x \in s : TRUE]) + it[s \ {CHOOSE x \in s : TRUE}]]
  BY <1>5, Zenon
<1> HIDE DEF it
<1>7. SumIs(it, S, w)
  <2> HIDE DEF w
  <2> QED
    BY <1>4, <1>6 DEF SumIs, Some
<1>8. MonthlyOf(S) = it[S]
  BY Zenon DEF MonthlyOf, MapThenSumSet, MapThenFoldSet, it
<1> HIDE DEF w
<1>9. it[S] = Total(w, S)
  BY <1>2, <1>7, TotalIs
<1> QED
  BY <1>1, <1>8, <1>9 DEF w

LEMMA BudgetsThen == LedgerInv => \A L \in UpcomingRenewals : BudgetsAgree(Overview(L))
<1> SUFFICES ASSUME LedgerInv, NEW L \in UpcomingRenewals PROVE BudgetsAgree(Overview(L))
  OBVIOUS
<1> DEFINE w == [s \in Known |-> ToMonthly(ledger[s])]
<1>0. LedgerTypeOK /\ Current \subseteq Known
  BY DEF LedgerInv, Current
<1>1. MonthlyOf(Known) = Total(w, Known) /\ MonthlyOf(Current) = Total(w, Current) /\ Naturals(w, Known)
  BY <1>0, MonthlyIs
<1>2. \A s \in Known : w[s] = ToMonthly(ledger[s])
  OBVIOUS
<1> HIDE DEF w
<1>3. /\ Total(w, Current) \in Nat /\ Total(w, Known) \in Nat /\ Total(w, Current) <= Total(w, Known)
      /\ (\A x \in Known \ Current : w[x] = 0) => Total(w, Current) = Total(w, Known)
  BY <1>0, <1>1, TotalOfPart
<1>4. /\ Overview(L).exceeded <=> Total(w, Current) > 20
      /\ Overview(L).onTrack <=> Total(w, Known) <= 20
  BY <1>1 DEF Overview, BudgetExceeded, OnTrack, Budget
<1>5. (\E s \in Known \ Current : w[s] # 0) => \E s \in Known \ Current : ToMonthly(ledger[s]) > 0
  BY <1>1, <1>2 DEF Naturals
<1> QED
  BY <1>3, <1>4, <1>5 DEF BudgetsAgree

\* The overview tells of renewals and trial ends in time, of disuse and of the budget as
\* recorded (handlers_subscriptions.go, summary.go, subscriptions.go).
THEOREM OverviewAlwaysHolds == LedgerSpec => []OverviewHolds
<1>1. LedgerInv => OverviewHolds
  BY AnnouncedThen, ListedThen, UnusedThen, BudgetsThen DEF OverviewHolds
<1> QED
  BY <1>1, LedgerStarts, LedgerSteps, PTL DEF LedgerSpec

-----------------------------------------------------------------------------
(* Imports (UsageImport)                                                   *)

\* What the tables of a machine always are: accounts numbered without gaps or
\* doubles, one per provider and mail, and every row its account's.
Numbered(d) ==
  /\ IsFiniteSet(d.accounts) /\ IsFiniteSet(d.subs) /\ IsFiniteSet(d.rows)
  /\ \A x \in d.accounts : x.id \in 1 .. Cardinality(d.accounts)
  /\ \A x, y \in d.accounts :
       x.id = y.id \/ (x.provider = y.provider /\ x.mail = y.mail) => x = y
Owning(d) ==
  \A r \in d.rows :
    /\ r.kind # "codex" => r.from = 0
    /\ r.owner # 0 /\ r.from = 0 =>
         \E x \in d.accounts : x.id = r.owner /\ x.provider = r.kind /\ x.mail = r.mail
Bases ==
  {d \in [accounts : SUBSET AccountRows, subs : SUBSET SubRows, rows : SUBSET SnapshotRows] :
     Numbered(d) /\ Owning(d)}
Accs == [d : Bases, failed : BOOLEAN]

Grows(d, e) == d.accounts \subseteq e.accounts /\ d.subs \subseteq e.subs /\ d.rows \subseteq e.rows

\* What an import leaves of each entry of its file.
HasAccount(d, x) == x.mail # NoMail => AccountsNamed(d, x.provider, x.mail) # {}
HasSub(d, s) == \E u \in d.subs : u.platform = s.platform /\ u.mail = s.mail
Near(d, e) ==
  \E r \in d.rows : /\ r.kind = e.kind /\ TakenFor(r, e.at)
                    /\ e.kind = "antigravity" => r.mail = e.mail
TwinOwner(d, e) == IF e.kind = "antigravity" THEN OwnerOf(d, e) ELSE 0
Settled(d, e) ==
  \/ e.kind = "antigravity" /\ e.mail = NoMail
  \/ /\ e.kind = "antigravity" => AccountsNamed(d, e.kind, e.mail) # {}
     /\ ~e.dated => e.kind # "antigravity"
     /\ e.dated => /\ Near(d, e)
                   /\ IsBound(e) => Twins(d.rows, e, TwinOwner(d, e)) # {}
Done(d, f) ==
  /\ \A i \in DOMAIN f.accounts : HasAccount(d, f.accounts[i])
  /\ \A i \in DOMAIN f.subs : HasSub(d, f.subs[i])
  /\ \A i \in DOMAIN f.rows : Settled(d, f.rows[i])

LEMMA GrowsOn == \A d, e, f : Grows(d, e) /\ Grows(e, f) => Grows(d, f)
BY DEF Grows

LEMMA GrowsKeeps ==
  ASSUME NEW d \in Bases, NEW e \in Bases, Grows(d, e)
  PROVE  /\ \A x \in FileAccounts : HasAccount(d, x) => HasAccount(e, x)
         /\ \A s \in SubRows : HasSub(d, s) => HasSub(e, s)
         /\ \A r \in FileRows : Settled(d, r) => Settled(e, r)
<1>1. \A x \in FileAccounts : HasAccount(d, x) => HasAccount(e, x)
  BY DEF HasAccount, AccountsNamed, Grows
<1>2. \A s \in SubRows : HasSub(d, s) => HasSub(e, s)
  BY DEF HasSub, Grows
<1>3. ASSUME NEW r \in FileRows, Settled(d, r) PROVE Settled(e, r)
  <2>1. CASE r.kind = "antigravity" /\ r.mail = NoMail
    BY <2>1 DEF Settled
  <2>2. CASE ~(r.kind = "antigravity" /\ r.mail = NoMail)
    <3>1. r.kind = "antigravity" => AccountsNamed(e, r.kind, r.mail) # {}
      BY <1>3, <2>2 DEF Settled, AccountsNamed, Grows
    <3>2. TwinOwner(d, r) = TwinOwner(e, r)
      <4>1. CASE r.kind # "antigravity"
        BY <4>1 DEF TwinOwner
      <4>2. CASE r.kind = "antigravity"
        <5>1. AccountsNamed(d, r.kind, r.mail) # {}
          BY <1>3, <2>2, <4>2 DEF Settled
        <5>2. AccountsNamed(d, r.kind, r.mail) = AccountsNamed(e, r.kind, r.mail)
          <6>1. AccountsNamed(d, r.kind, r.mail) \subseteq AccountsNamed(e, r.kind, r.mail)
            BY DEF AccountsNamed, Grows
          <6>2. \A x, y \in AccountsNamed(e, r.kind, r.mail) : x = y
            BY DEF AccountsNamed, Bases, Numbered
          <6> QED
            BY <5>1, <6>1, <6>2
        <5> QED
          BY <5>2, <4>2 DEF TwinOwner, OwnerOf, IdOf, Owned
      <4> QED
        BY <4>1, <4>2
    <3>3. Near(d, r) => Near(e, r)
      BY DEF Near, Grows
    <3>4. Twins(d.rows, r, TwinOwner(d, r)) # {} => Twins(e.rows, r, TwinOwner(e, r)) # {}
      BY <3>2 DEF Twins, Grows
    <3> QED
      BY <1>3, <2>2, <3>1, <3>3, <3>4 DEF Settled
  <2> QED
    BY <2>1, <2>2
<1> QED
  BY <1>1, <1>2, <1>3

LEMMA AddAccountKeeps ==
  ASSUME NEW d \in Bases, NEW kind \in KindsOfRows, NEW mail \in MailOrNone
  PROVE  LET e == AddAccount(d, kind, mail)
         IN  /\ e \in Bases /\ Grows(d, e) /\ e.rows = d.rows /\ e.subs = d.subs
             /\ AccountsNamed(e, kind, mail) # {}
             /\ AccountsNamed(d, kind, mail) # {} => e = d
<1>1. CASE AccountsNamed(d, kind, mail) # {}
  BY <1>1 DEF AddAccount, Grows
<1>2. CASE AccountsNamed(d, kind, mail) = {}
  <2> DEFINE x == [id |-> NextId(d), provider |-> kind, mail |-> mail]
             e == [d EXCEPT !.accounts = @ \cup {x}]
  <2>1. /\ d.accounts \in SUBSET AccountRows /\ d.subs \in SUBSET SubRows
        /\ d.rows \in SUBSET SnapshotRows /\ Numbered(d) /\ Owning(d)
        /\ d = [accounts |-> d.accounts, subs |-> d.subs, rows |-> d.rows]
    BY DEF Bases
  <2>2. Cardinality(d.accounts) \in Nat /\ IsFiniteSet(d.accounts)
    BY <2>1, FS_CardinalityType DEF Numbered
  <2>3. x.id = Cardinality(d.accounts) + 1 /\ x.provider = kind /\ x.mail = mail /\ x \in AccountRows
    BY <2>2 DEF NextId, AccountRows
  <2>4. e = [accounts |-> d.accounts \cup {x}, subs |-> d.subs, rows |-> d.rows]
    BY <2>1
  <2> HIDE DEF x
  <2>5. x \notin d.accounts /\ \A y \in d.accounts : y.id # x.id /\ y.id \in Nat
    BY <2>1, <2>2, <2>3 DEF Numbered, AccountRows
  <2>6. IsFiniteSet(d.accounts \cup {x}) /\ Cardinality(d.accounts \cup {x}) = Cardinality(d.accounts) + 1
    BY <2>2, <2>5, FS_AddElement
  <2>7. Numbered(e)
    <3>1. \A y \in d.accounts \cup {x} : y.id \in 1 .. Cardinality(d.accounts \cup {x})
      BY <2>1, <2>2, <2>3, <2>5, <2>6 DEF Numbered
    <3>2. \A y \in d.accounts : ~(y.provider = x.provider /\ y.mail = x.mail)
      BY <1>2, <2>3 DEF AccountsNamed
    <3> QED
      BY <2>1, <2>4, <2>5, <2>6, <3>1, <3>2 DEF Numbered
  <2>8. Owning(e)
    BY <2>1, <2>4 DEF Owning
  <2>9. e \in Bases /\ Grows(d, e)
    <3> HIDE DEF e
    <3>1. e \in [accounts : SUBSET AccountRows, subs : SUBSET SubRows, rows : SUBSET SnapshotRows]
      BY <2>1, <2>3, <2>4
    <3> QED
      BY <3>1, <2>4, <2>7, <2>8 DEF Bases, Grows
  <2>10. x \in AccountsNamed(e, kind, mail)
    BY <2>3, <2>4 DEF AccountsNamed
  <2>11. AddAccount(d, kind, mail) = e
    BY <1>2 DEF AddAccount, x
  <2> HIDE DEF e
  <2> QED
    BY <1>2, <2>4, <2>9, <2>10, <2>11
<1> QED
  BY <1>1, <1>2

LEMMA ImportSubKeeps ==
  ASSUME NEW d \in Bases, NEW s \in SubRows
  PROVE  LET e == ImportSub(d, s)
         IN  /\ e \in Bases /\ Grows(d, e) /\ HasSub(e, s)
             /\ HasSub(d, s) => e = d
<1>1. CASE HasSub(d, s)
  BY <1>1 DEF ImportSub, HasSub, Grows
<1>2. CASE ~HasSub(d, s)
  <2> DEFINE e == [d EXCEPT !.subs = @ \cup {s}]
  <2>1. ImportSub(d, s) = e
    BY <1>2 DEF ImportSub, HasSub
  <2>2. e = [accounts |-> d.accounts, subs |-> d.subs \cup {s}, rows |-> d.rows]
    BY DEF Bases
  <2> HIDE DEF e
  <2>3. IsFiniteSet(d.subs \cup {s})
    BY FS_AddElement DEF Bases, Numbered
  <2>4. e \in Bases
    BY <2>2, <2>3 DEF Bases, Numbered, Owning
  <2> QED
    BY <1>2, <2>1, <2>2, <2>4 DEF Grows, HasSub
<1> QED
  BY <1>1, <1>2

\* The number of an account that is there is its own.
LEMMA IdIs ==
  ASSUME NEW d \in Bases, NEW kind \in KindsOfRows, NEW mail \in MailOrNone
  PROVE  /\ mail = NoMail => IdOf(d, kind, mail) = 0
         /\ mail # NoMail /\ AccountsNamed(d, kind, mail) # {} =>
              /\ IdOf(d, kind, mail) \in Nat
              /\ \E x \in d.accounts : x.id = IdOf(d, kind, mail) /\ x.provider = kind /\ x.mail = mail
<1>1. CASE mail = NoMail
  BY <1>1 DEF IdOf
<1>2. CASE mail # NoMail /\ AccountsNamed(d, kind, mail) # {}
  <2> DEFINE x == CHOOSE y \in AccountsNamed(d, kind, mail) : TRUE
  <2>1. x \in AccountsNamed(d, kind, mail)
    BY <1>2
  <2>2. IdOf(d, kind, mail) = x.id
    BY <1>2 DEF IdOf
  <2> HIDE DEF x
  <2>3. x \in d.accounts /\ x.provider = kind /\ x.mail = mail /\ x \in AccountRows
    BY <2>1 DEF AccountsNamed, Bases
  <2> QED
    BY <1>2, <2>2, <2>3 DEF AccountRows
<1> QED
  BY <1>1, <1>2

LEMMA ResolvedKeeps ==
  ASSUME NEW d \in Bases, NEW r \in FileRows
  PROVE  LET e == Resolved(d, r)
         IN  /\ e \in Bases /\ Grows(d, e) /\ e.rows = d.rows
             /\ r.kind \in Owned /\ r.mail # NoMail /\ r.from = 0 => AccountsNamed(e, r.kind, r.mail) # {}
             /\ AccountsNamed(d, r.kind, r.mail) # {} => e = d
<1>1. r.kind \in KindsOfRows /\ r.mail \in MailOrNone /\ r.from \in Nat /\ (r.from # 0 => r.kind = "codex")
  BY DEF FileRows
<1>2. CASE r.kind \in Owned /\ r.mail # NoMail /\ (r.kind = "codex" => r.from = 0)
  <2>1. Resolved(d, r) = AddAccount(d, r.kind, r.mail)
    BY <1>2 DEF Resolved
  <2> QED
    BY <1>1, <2>1, AddAccountKeeps
<1>3. CASE ~(r.kind \in Owned /\ r.mail # NoMail /\ (r.kind = "codex" => r.from = 0))
  <2>1. Resolved(d, r) = d
    BY <1>3 DEF Resolved
  <2> QED
    BY <1>1, <1>3, <2>1 DEF Grows
<1> QED
  BY <1>2, <1>3

\* The account an entry's row is given, once it was resolved.
LEMMA OwnerIs ==
  ASSUME NEW d \in Bases, NEW r \in FileRows,
         r.kind \in Owned /\ r.mail # NoMail /\ r.from = 0 => AccountsNamed(d, r.kind, r.mail) # {}
  PROVE  /\ OwnerOf(d, r) \in Nat
         /\ OwnerOf(d, r) # 0 /\ r.from = 0 =>
              \E x \in d.accounts : x.id = OwnerOf(d, r) /\ x.provider = r.kind /\ x.mail = r.mail
<1>1. r.kind \in KindsOfRows /\ r.mail \in MailOrNone /\ r.from \in Nat /\ (r.from # 0 => r.kind = "codex")
  BY DEF FileRows
<1>2. CASE r.from # 0
  BY <1>1, <1>2 DEF OwnerOf
<1>3. CASE r.from = 0 /\ r.kind \notin Owned
  BY <1>3 DEF OwnerOf
<1>4. CASE r.from = 0 /\ r.kind \in Owned
  <2>1. OwnerOf(d, r) = IdOf(d, r.kind, r.mail)
    BY <1>4 DEF OwnerOf
  <2> QED
    BY <1>1, <1>4, <2>1, IdIs
<1> QED
  BY <1>2, <1>3, <1>4

-----------------------------------------------------------------------------
\* A twin is taken for the entry; the row of an entry at a whole second in UTC is its
\* own twin.
LEMMA TwinsAreNear ==
  ASSUME NEW r, NEW at \in Nat, r.at \in Nat, InWindow(r, at)
  PROVE  TakenFor(r, at)
<1> DEFINE s == WindowStart(at)
           second == ShownTime(r) \div 2
<1>0. Offset \in Int
  BY ImportAssumption
<1>1. /\ s \in Int /\ WindowEnd(at) = s + 1
      /\ at = 2 * s + 1 \/ at = 2 * s + 2
  BY DEF WindowStart, WindowEnd
<1>2. CASE r.form = "space"
  <2> DEFINE day == DayOf(r.at \div 2)
  <2>1. DayOf(s) < day /\ day <= DayOf(s + 1)
    BY <1>1, <1>2 DEF InWindow, OverMidnight
  <2>2. r.at \div 2 \in Int /\ day \in Int
    BY DEF DayOf
  <2> HIDE DEF day, s
  <2>3. s + 1 = 86400 * day
    BY <1>1, <2>1, <2>2 DEF DayOf
  <2>4. 2 * 86400 * day - at \in 0 .. 1
    BY <1>1, <2>2, <2>3
  <2> QED
    BY <1>2, <2>4 DEF TakenFor, day
<1>3. CASE r.form # "space"
  <2>1. second = s + 1 \/ (second = s /\ IsBound(r))
    BY <1>1, <1>3 DEF InWindow
  <2>2. ShownTime(r) \in Int
    BY <1>0 DEF ShownTime
  <2>3. second \in Int /\ (ShownTime(r) = 2 * second \/ ShownTime(r) = 2 * second + 1)
    BY <2>2
  <2>4. IsBound(r) => ShownTime(r) = 2 * second
    BY <2>2 DEF IsBound, ShownTime
  <2> HIDE DEF second, s
  <2>5. ShownTime(r) - at \in -2 .. 2
    BY <1>1, <2>1, <2>2, <2>3, <2>4
  <2>6. CASE r.form = "offset"
    BY <2>5, <2>6 DEF TakenFor
  <2>7. CASE r.form # "offset"
    BY <2>5, <2>7 DEF TakenFor, ShownTime
  <2> QED
    BY <2>6, <2>7
<1> QED
  BY <1>2, <1>3

LEMMA OwnTwin ==
  ASSUME NEW r, r.at \in Nat, IsBound(r)
  PROVE  InWindow(r, r.at)
<1>1. /\ WindowStart(r.at) = r.at \div 2 - 1 /\ WindowEnd(r.at) = r.at \div 2
      /\ r.at \div 2 \in Int /\ r.form = "utc"
  BY DEF WindowStart, WindowEnd, IsBound
<1> QED
  BY <1>1 DEF InWindow, ShownTime

LEMMA TwinIsThere ==
  ASSUME NEW d \in Bases, NEW r \in FileRows, Twins(d.rows, r, TwinOwner(d, r)) # {},
         r.kind = "antigravity" => r.mail # NoMail /\ AccountsNamed(d, r.kind, r.mail) # {}
  PROVE  Near(d, r)
<1>1. PICK x \in d.rows : x \in Twins(d.rows, r, TwinOwner(d, r))
  BY DEF Twins
<1>2. /\ x \in SnapshotRows /\ x.kind = r.kind /\ InWindow(x, r.at)
      /\ r.kind = "antigravity" => x.owner = TwinOwner(d, r)
  BY <1>1 DEF Twins, Bases
<1>3. r.at \in Nat /\ x.at \in Nat /\ x.from \in Nat /\ r.kind \in KindsOfRows /\ r.mail \in MailOrNone
  BY <1>2 DEF FileRows, SnapshotRows
<1>4. TakenFor(x, r.at)
  BY <1>2, <1>3, TwinsAreNear
<1>5. ASSUME r.kind = "antigravity" PROVE x.mail = r.mail
  <2>1. TwinOwner(d, r) = IdOf(d, r.kind, r.mail)
    BY <1>5 DEF TwinOwner, OwnerOf, Owned
  <2>2. PICK y \in d.accounts : y.id = IdOf(d, r.kind, r.mail) /\ y.provider = r.kind /\ y.mail = r.mail
    BY <1>3, <1>5, IdIs
  <2>3. IdOf(d, r.kind, r.mail) # 0
    BY <2>2 DEF Bases, Numbered
  <2> QED
    BY <1>1, <1>2, <1>5, <2>1, <2>2, <2>3 DEF Bases, Owning, Numbered
<1> QED
  BY <1>1, <1>2, <1>4, <1>5 DEF Near

LEMMA SameOwner ==
  ASSUME NEW d, NEW e, d.accounts = e.accounts, NEW r
  PROVE  OwnerOf(d, r) = OwnerOf(e, r)
<1>1. AccountsNamed(d, r.kind, r.mail) = AccountsNamed(e, r.kind, r.mail)
  BY DEF AccountsNamed
<1> DEFINE x == CHOOSE y \in AccountsNamed(d, r.kind, r.mail) : TRUE
           y == CHOOSE z \in AccountsNamed(e, r.kind, r.mail) : TRUE
<1>2. x = y
  BY <1>1
<1>3. IdOf(d, r.kind, r.mail) = IF r.mail = NoMail THEN 0 ELSE x.id
  BY Zenon DEF IdOf
<1>4. IdOf(e, r.kind, r.mail) = IF r.mail = NoMail THEN 0 ELSE y.id
  BY Zenon DEF IdOf
<1>5. IdOf(d, r.kind, r.mail) = IdOf(e, r.kind, r.mail)
  <2> HIDE DEF x, y
  <2> QED
    BY <1>2, <1>3, <1>4
<1> QED
  BY <1>5 DEF OwnerOf

LEMMA InsertKeeps ==
  ASSUME NEW d \in Bases, NEW r \in FileRows, NEW owner \in Nat,
         r.from = 0 /\ owner # 0 =>
           \E x \in d.accounts : x.id = owner /\ x.provider = r.kind /\ x.mail = r.mail
  PROVE  LET e == Insert(d, r, owner)
         IN  /\ e \in Bases /\ Grows(d, e) /\ e.accounts = d.accounts
             /\ Near(e, r)
             /\ IsBound(r) =>
                  Twins(e.rows, r, IF r.kind = "antigravity" THEN owner ELSE 0) # {}
<1> DEFINE x == [id |-> Cardinality(d.rows) + 1, kind |-> r.kind, mail |-> r.mail,
                 at |-> r.at, form |-> r.form, owner |-> owner, from |-> r.from]
           e == Insert(d, r, owner)
<1>1. /\ d.accounts \in SUBSET AccountRows /\ d.subs \in SUBSET SubRows
      /\ d.rows \in SUBSET SnapshotRows /\ Numbered(d) /\ Owning(d)
  BY DEF Bases
<1>2. e = [accounts |-> d.accounts, subs |-> d.subs, rows |-> d.rows \cup {x}]
  <2>1. d = [accounts |-> d.accounts, subs |-> d.subs, rows |-> d.rows]
    BY DEF Bases
  <2>2. e = [d EXCEPT !.rows = d.rows \cup {x}]
    BY Zenon DEF Insert
  <2> HIDE DEF x, e
  <2> QED
    BY <2>1, <2>2
<1>3. /\ r.kind \in KindsOfRows /\ r.mail \in MailOrNone /\ r.at \in Nat /\ r.from \in Nat
      /\ r.form \in TextForms
      /\ r.from # 0 => r.kind = "codex"
  BY DEF FileRows
<1>4. /\ x \in SnapshotRows /\ x.kind = r.kind /\ x.mail = r.mail /\ x.at = r.at
      /\ x.owner = owner /\ x.form = r.form /\ x.from = r.from
  <2>1. Cardinality(d.rows) \in Nat
    BY <1>1, FS_CardinalityType DEF Numbered
  <2> QED
    BY <2>1, <1>3 DEF SnapshotRows
<1> HIDE DEF x, e
<1>5. IsFiniteSet(d.rows \cup {x})
  BY <1>1, FS_AddElement DEF Numbered
<1>6. e \in Bases
  <2>1. Numbered(e)
    BY <1>1, <1>2, <1>5 DEF Numbered
  <2>2. Owning(e)
    BY <1>1, <1>2, <1>3, <1>4 DEF Owning
  <2> QED
    BY <1>1, <1>2, <1>4, <2>1, <2>2 DEF Bases
<1>7. Near(e, r)
  <2>1. TakenFor(x, r.at)
    BY <1>3, <1>4 DEF TakenFor
  <2> QED
    BY <1>2, <1>4, <2>1 DEF Near
<1>8. ASSUME IsBound(r) PROVE x \in Twins(e.rows, r, IF r.kind = "antigravity" THEN owner ELSE 0)
  <2>1. InWindow(x, r.at)
    BY <1>3, <1>4, <1>8, OwnTwin DEF IsBound
  <2> QED
    BY <1>2, <1>4, <2>1 DEF Twins
<1>9. Grows(d, e) /\ e.accounts = d.accounts
  BY <1>2 DEF Grows
<1> QED
  BY <1>6, <1>7, <1>8, <1>9 DEF e

LEMMA ImportRowKeeps ==
  ASSUME NEW acc \in Accs, NEW r \in FileRows
  PROVE  LET res == ImportRow(acc, r)
         IN  /\ res \in Accs /\ Grows(acc.d, res.d)
             /\ acc.failed => res.failed
             /\ ~res.failed => Settled(res.d, r)
             /\ IsBound(r) /\ Settled(acc.d, r) => res = acc
<1> DEFINE known == IF r.kind = "antigravity" THEN Resolved(acc.d, r) ELSE acc.d
           owner == IF r.kind = "antigravity" THEN OwnerOf(known, r) ELSE 0
           full == Resolved(known, r)
           mine == OwnerOf(full, r)
           res == ImportRow(acc, r)
           Goal == /\ res \in Accs /\ Grows(acc.d, res.d)
                   /\ acc.failed => res.failed
                   /\ ~res.failed => Settled(res.d, r)
                   /\ IsBound(r) /\ Settled(acc.d, r) => res = acc
<1> SUFFICES Goal
  OBVIOUS
<1>1. /\ r.kind \in KindsOfRows /\ r.mail \in MailOrNone /\ r.at \in Nat /\ r.from \in Nat
      /\ r.from # 0 => r.kind = "codex"
      /\ acc.d \in Bases /\ acc.failed \in BOOLEAN /\ acc = [d |-> acc.d, failed |-> acc.failed]
      /\ r.dated \in BOOLEAN
  BY DEF FileRows, Accs
<1>2. /\ known \in Bases /\ Grows(acc.d, known)
      /\ r.kind = "antigravity" /\ r.mail # NoMail => AccountsNamed(known, r.kind, r.mail) # {}
      /\ r.kind = "antigravity" /\ AccountsNamed(acc.d, r.kind, r.mail) # {} => known = acc.d
      /\ r.kind # "antigravity" => known = acc.d
  BY <1>1, ResolvedKeeps DEF Grows, Owned
<1> HIDE DEF known
<1>3. /\ full \in Bases /\ Grows(known, full) /\ full.rows = known.rows
      /\ r.kind \in Owned /\ r.mail # NoMail /\ r.from = 0 => AccountsNamed(full, r.kind, r.mail) # {}
      /\ r.kind = "antigravity" /\ r.mail # NoMail => full = known
  BY <1>2, ResolvedKeeps
<1> HIDE DEF full
<1>4. /\ mine \in Nat
      /\ mine # 0 /\ r.from = 0 =>
           \E x \in full.accounts : x.id = mine /\ x.provider = r.kind /\ x.mail = r.mail
  BY <1>3, OwnerIs
<1>5. owner = TwinOwner(known, r) /\ (r.kind = "antigravity" /\ r.mail # NoMail => owner = mine)
  BY <1>3 DEF TwinOwner
<1> HIDE DEF owner, mine
<1>6. res = IF r.kind = "antigravity" /\ r.mail = NoMail THEN acc
            ELSE IF ~r.dated THEN [d |-> known, failed |-> r.kind = "antigravity" \/ acc.failed]
            ELSE IF Twins(known.rows, r, owner) # {} THEN [acc EXCEPT !.d = known]
            ELSE IF mine # 0 /\ ~\E x \in full.accounts : x.id = mine THEN [d |-> full, failed |-> TRUE]
            ELSE [acc EXCEPT !.d = Insert(full, r, mine)]
  BY DEF ImportRow, known, owner, full, mine
<1> HIDE DEF res
<1>7. CASE r.kind = "antigravity" /\ r.mail = NoMail
  <2>1. res = acc
    BY <1>6, <1>7
  <2>2. Grows(acc.d, acc.d) /\ Settled(acc.d, r)
    BY <1>7 DEF Settled, Grows
  <2> QED
    BY <2>1, <2>2, Zenon
<1>8. CASE ~(r.kind = "antigravity" /\ r.mail = NoMail) /\ ~r.dated
  <2>1. res = [d |-> known, failed |-> r.kind = "antigravity" \/ acc.failed]
    BY <1>6, <1>8
  <2>2. res.d = known /\ (res.failed <=> r.kind = "antigravity" \/ acc.failed) /\ res \in Accs
    BY <1>1, <1>2, <2>1 DEF Accs
  <2>3. ~res.failed => Settled(res.d, r)
    BY <1>8, <2>2 DEF Settled
  <2>4. ASSUME Settled(acc.d, r) PROVE res = acc
    <3>1. r.kind # "antigravity" /\ known = acc.d
      BY <1>2, <1>8, <2>4 DEF Settled
    <3>2. (r.kind = "antigravity" \/ acc.failed) = acc.failed
      BY <1>1, <3>1
    <3> QED
      BY <1>1, <2>1, <3>1, <3>2
  <2> QED
    BY <1>2, <2>2, <2>3, <2>4, Zenon
<1>9. CASE ~(r.kind = "antigravity" /\ r.mail = NoMail) /\ r.dated /\ Twins(known.rows, r, owner) # {}
  <2>1. res = [d |-> known, failed |-> acc.failed]
    BY <1>1, <1>6, <1>9
  <2>2. res.d = known /\ res.failed = acc.failed /\ res \in Accs
    BY <1>1, <1>2, <2>1 DEF Accs
  <2>3. Near(known, r)
    BY <1>2, <1>5, <1>9, TwinIsThere
  <2>4. Settled(res.d, r)
    BY <1>2, <1>5, <1>9, <2>2, <2>3 DEF Settled
  <2>5. ASSUME Settled(acc.d, r) PROVE res = acc
    <3>1. known = acc.d
      BY <1>2, <1>9, <2>5 DEF Settled
    <3> QED
      BY <1>1, <2>1, <3>1
  <2> QED
    BY <1>2, <2>2, <2>4, <2>5, Zenon
<1>10. CASE ~(r.kind = "antigravity" /\ r.mail = NoMail) /\ r.dated /\ Twins(known.rows, r, owner) = {}
  <2>1. ~(IsBound(r) /\ Settled(acc.d, r))
    <3> SUFFICES ASSUME IsBound(r), Settled(acc.d, r) PROVE FALSE
      OBVIOUS
    <3>1. known = acc.d
      BY <1>2, <1>10 DEF Settled
    <3> QED
      BY <1>5, <1>10, <3>1 DEF Settled
  <2>2. CASE mine # 0 /\ ~\E x \in full.accounts : x.id = mine
    <3>1. res = [d |-> full, failed |-> TRUE]
      BY <1>6, <1>10, <2>2
    <3>2. res \in Accs /\ res.d = full /\ res.failed
      BY <1>3, <3>1 DEF Accs
    <3> QED
      BY <1>2, <1>3, <2>1, <3>2, GrowsOn, Zenon
  <2>3. CASE ~(mine # 0 /\ ~\E x \in full.accounts : x.id = mine)
    <3>1. res = [d |-> Insert(full, r, mine), failed |-> acc.failed]
      BY <1>1, <1>6, <1>10, <2>3
    <3> DEFINE e == Insert(full, r, mine)
    <3>2. /\ e \in Bases /\ Grows(full, e) /\ e.accounts = full.accounts
          /\ Near(e, r)
          /\ IsBound(r) => Twins(e.rows, r, IF r.kind = "antigravity" THEN mine ELSE 0) # {}
      BY <1>3, <1>4, InsertKeeps
    <3> HIDE DEF e
    <3>3. res = [d |-> e, failed |-> acc.failed]
      BY <3>1 DEF e
    <3>4. res.d = e /\ res.failed = acc.failed /\ res \in Accs
      BY <1>1, <3>2, <3>3 DEF Accs
    <3>5. Grows(acc.d, e)
      BY <1>2, <1>3, <3>2, GrowsOn
    <3>6. r.kind = "antigravity" => mine = TwinOwner(e, r) /\ AccountsNamed(e, r.kind, r.mail) # {}
      <4> SUFFICES ASSUME r.kind = "antigravity"
                   PROVE  mine = TwinOwner(e, r) /\ AccountsNamed(e, r.kind, r.mail) # {}
        OBVIOUS
      <4>1. AccountsNamed(e, r.kind, r.mail) = AccountsNamed(full, r.kind, r.mail)
        BY <3>2 DEF AccountsNamed
      <4> QED
        <5>1. mine = OwnerOf(full, r)
          BY DEF mine
        <5>3. OwnerOf(full, r) = OwnerOf(e, r)
          BY <3>2, SameOwner
        <5> QED
          <6>1. mine = TwinOwner(e, r)
            BY <5>1, <5>3 DEF TwinOwner
          <6>2. r.mail # NoMail /\ r.kind \in Owned /\ r.from = 0
            BY <1>1, <1>10 DEF Owned
          <6> QED
            BY <1>3, <4>1, <6>1, <6>2
    <3>7. Settled(e, r)
      BY <1>10, <3>2, <3>6 DEF Settled, TwinOwner
    <3> QED
      BY <2>1, <3>4, <3>5, <3>7, Zenon
  <2> QED
    BY <2>2, <2>3
<1> QED
  BY <1>7, <1>8, <1>9, <1>10, <1>1, Zenon

LEMMA ImportAccountKeeps ==
  ASSUME NEW d \in Bases, NEW x \in FileAccounts
  PROVE  LET e == ImportAccount(d, x)
         IN  /\ e \in Bases /\ Grows(d, e) /\ HasAccount(e, x)
             /\ HasAccount(d, x) => e = d
<1>1. x.provider \in KindsOfRows /\ x.mail \in MailOrNone
  BY DEF FileAccounts
<1>2. CASE x.mail = NoMail
  BY <1>2 DEF ImportAccount, HasAccount, Grows
<1>3. CASE x.mail # NoMail
  <2>1. ImportAccount(d, x) = AddAccount(d, x.provider, x.mail)
    BY <1>3 DEF ImportAccount
  <2> QED
    BY <1>1, <1>3, <2>1, AddAccountKeeps DEF HasAccount
<1> QED
  BY <1>2, <1>3

-----------------------------------------------------------------------------
\* What an import goes through: its accounts,
LEMMA AccountRun ==
  ASSUME NEW d \in Bases, NEW q \in Seq(FileAccounts)
  PROVE  \E g \in [0 .. Len(q) -> Bases] :
           /\ g[0] = d /\ g[Len(q)] = FoldLeft(ImportAccount, d, q)
           /\ \A k \in 1 .. Len(q) : g[k] = ImportAccount(g[k - 1], q[k])
<1> DEFINE n == Len(q)
           step == [p \in (1 .. n) \X Bases |-> ImportAccount(p[2], q[p[1]])]
           Rec(F) == F = [s \in SUBSET DOMAIN q |->
                            IF s = {} THEN d ELSE ImportAccount(F[s \ {Max(s)}], q[Max(s)])]
           it == CHOOSE F : Rec(F)
<1>0. n \in Nat /\ DOMAIN q = 1 .. n /\ \A x \in 1 .. n : q[x] \in FileAccounts
  OBVIOUS
<1> HIDE DEF n
<1>1. \A x \in 1 .. n, a \in Bases : step[<<x, a>>] = ImportAccount(a, q[x])
  OBVIOUS
<1> HIDE DEF step
<1>2. \A x \in 1 .. n, a \in Bases : step[<<x, a>>] \in Bases
  <2> SUFFICES ASSUME NEW x \in 1 .. n, NEW a \in Bases PROVE ImportAccount(a, q[x]) \in Bases
    BY <1>1
  <2>1. q[x] \in FileAccounts
    BY <1>0
  <2> QED
    BY ONLY <2>1, a \in Bases, ImportAccountKeeps
<1>3. PICK F \in [SUBSET (1 .. n) -> Bases] :
        FoldsUp(F, n, d, step)
  BY <1>0, <1>2, FoldAlongExists
<1>4. Rec(F)
  <2>1. ASSUME NEW s \in SUBSET (1 .. n), s # {}
        PROVE  step[<<Max(s), F[s \ {Max(s)}]>>] = ImportAccount(F[s \ {Max(s)}], q[Max(s)])
    <3>1. Max(s) \in 1 .. n /\ F[s \ {Max(s)}] \in Bases
      <4>1. Max(s) \in s
        BY <1>0, <2>1, Largest
      <4> QED
        BY <4>1, Zenon
    <3> QED
      BY <3>1, <1>1, Zenon
  <2>2. \A s \in SUBSET (1 .. n) :
          F[s] = IF s = {} THEN d ELSE ImportAccount(F[s \ {Max(s)}], q[Max(s)])
    <3>1. \A s \in SUBSET (1 .. n) :
            F[s] = IF s = {} THEN d ELSE step[<<Max(s), F[s \ {Max(s)}]>>]
      BY <1>3, Zenon DEF FoldsUp
    <3> QED
      BY <2>1, <3>1, Zenon
  <2> QED
    BY <1>0, <2>2
<1>5. Rec(it)
  BY <1>4, Zenon
<1>6. FoldLeft(ImportAccount, d, q) = it[1 .. n]
  BY <1>0, Zenon DEF FoldLeft, MapThenFoldSet
<1> HIDE DEF it
<1>7. it[{}] = d
  BY <1>5
<1>8. ASSUME NEW k \in 1 .. n PROVE it[1 .. k] = ImportAccount(it[1 .. (k - 1)], q[k])
  <2> DEFINE s == 1 .. k
  <2>1. s \in SUBSET DOMAIN q /\ s # {} /\ s \ {k} = 1 .. (k - 1)
    BY <1>0, EachPrefix
  <2>2. Max(s) = k
    BY <1>0, LargestOfPrefix
  <2> HIDE DEF s
  <2>3. it[s] = ImportAccount(it[s \ {Max(s)}], q[Max(s)])
    BY <1>5, <2>1, Zenon
  <2>4. it[s] = ImportAccount(it[s \ {k}], q[k])
    BY <2>2, <2>3, Zenon
  <2> QED
    BY <2>1, <2>4, Zenon DEF s
<1>9. \A k \in 1 .. n : it[1 .. (k - 1)] \in Bases => it[1 .. k] = step[<<k, it[1 .. (k - 1)]>>]
  BY <1>1, <1>8, Zenon
<1>10. PICK g \in [0 .. n -> Bases] : RunOf(g, n, d, step, it[1 .. n])
  BY <1>0, <1>2, <1>7, <1>9, FoldRun
<1>11. \A k \in 1 .. n : g[k - 1] \in Bases
  <2>1. \A k \in 1 .. n : k - 1 \in 0 .. n
    BY <1>0
  <2> QED
    BY <2>1
<1>12. \A k \in 1 .. n : g[k] = ImportAccount(g[k - 1], q[k])
  BY <1>1, <1>10, <1>11, Zenon DEF RunOf
<1> QED
  BY <1>6, <1>10, <1>12, Zenon DEF n, RunOf

\* its subscriptions,
LEMMA SubRun ==
  ASSUME NEW d \in Bases, NEW q \in Seq(SubRows)
  PROVE  \E g \in [0 .. Len(q) -> Bases] :
           /\ g[0] = d /\ g[Len(q)] = FoldLeft(ImportSub, d, q)
           /\ \A k \in 1 .. Len(q) : g[k] = ImportSub(g[k - 1], q[k])
<1> DEFINE n == Len(q)
           step == [p \in (1 .. n) \X Bases |-> ImportSub(p[2], q[p[1]])]
           Rec(F) == F = [s \in SUBSET DOMAIN q |->
                            IF s = {} THEN d ELSE ImportSub(F[s \ {Max(s)}], q[Max(s)])]
           it == CHOOSE F : Rec(F)
<1>0. n \in Nat /\ DOMAIN q = 1 .. n /\ \A x \in 1 .. n : q[x] \in SubRows
  OBVIOUS
<1> HIDE DEF n
<1>1. \A x \in 1 .. n, a \in Bases : step[<<x, a>>] = ImportSub(a, q[x])
  OBVIOUS
<1> HIDE DEF step
<1>2. \A x \in 1 .. n, a \in Bases : step[<<x, a>>] \in Bases
  <2> SUFFICES ASSUME NEW x \in 1 .. n, NEW a \in Bases PROVE ImportSub(a, q[x]) \in Bases
    BY <1>1
  <2>1. q[x] \in SubRows
    BY <1>0
  <2> QED
    BY ONLY <2>1, a \in Bases, ImportSubKeeps
<1>3. PICK F \in [SUBSET (1 .. n) -> Bases] :
        FoldsUp(F, n, d, step)
  BY <1>0, <1>2, FoldAlongExists
<1>4. Rec(F)
  <2>1. ASSUME NEW s \in SUBSET (1 .. n), s # {}
        PROVE  step[<<Max(s), F[s \ {Max(s)}]>>] = ImportSub(F[s \ {Max(s)}], q[Max(s)])
    <3>1. Max(s) \in 1 .. n /\ F[s \ {Max(s)}] \in Bases
      <4>1. Max(s) \in s
        BY <1>0, <2>1, Largest
      <4> QED
        BY <4>1, Zenon
    <3> QED
      BY <3>1, <1>1, Zenon
  <2>2. \A s \in SUBSET (1 .. n) :
          F[s] = IF s = {} THEN d ELSE ImportSub(F[s \ {Max(s)}], q[Max(s)])
    <3>1. \A s \in SUBSET (1 .. n) :
            F[s] = IF s = {} THEN d ELSE step[<<Max(s), F[s \ {Max(s)}]>>]
      BY <1>3, Zenon DEF FoldsUp
    <3> QED
      BY <2>1, <3>1, Zenon
  <2> QED
    BY <1>0, <2>2
<1>5. Rec(it)
  BY <1>4, Zenon
<1>6. FoldLeft(ImportSub, d, q) = it[1 .. n]
  BY <1>0, Zenon DEF FoldLeft, MapThenFoldSet
<1> HIDE DEF it
<1>7. it[{}] = d
  BY <1>5
<1>8. ASSUME NEW k \in 1 .. n PROVE it[1 .. k] = ImportSub(it[1 .. (k - 1)], q[k])
  <2> DEFINE s == 1 .. k
  <2>1. s \in SUBSET DOMAIN q /\ s # {} /\ s \ {k} = 1 .. (k - 1)
    BY <1>0, EachPrefix
  <2>2. Max(s) = k
    BY <1>0, LargestOfPrefix
  <2> HIDE DEF s
  <2>3. it[s] = ImportSub(it[s \ {Max(s)}], q[Max(s)])
    BY <1>5, <2>1, Zenon
  <2>4. it[s] = ImportSub(it[s \ {k}], q[k])
    BY <2>2, <2>3, Zenon
  <2> QED
    BY <2>1, <2>4, Zenon DEF s
<1>9. \A k \in 1 .. n : it[1 .. (k - 1)] \in Bases => it[1 .. k] = step[<<k, it[1 .. (k - 1)]>>]
  BY <1>1, <1>8, Zenon
<1>10. PICK g \in [0 .. n -> Bases] : RunOf(g, n, d, step, it[1 .. n])
  BY <1>0, <1>2, <1>7, <1>9, FoldRun
<1>11. \A k \in 1 .. n : g[k - 1] \in Bases
  <2>1. \A k \in 1 .. n : k - 1 \in 0 .. n
    BY <1>0
  <2> QED
    BY <2>1
<1>12. \A k \in 1 .. n : g[k] = ImportSub(g[k - 1], q[k])
  BY <1>1, <1>10, <1>11, Zenon DEF RunOf
<1> QED
  BY <1>6, <1>10, <1>12, Zenon DEF n, RunOf

\* and its rows.
LEMMA RowRun ==
  ASSUME NEW acc \in Accs, NEW q \in Seq(FileRows)
  PROVE  \E g \in [0 .. Len(q) -> Accs] :
           /\ g[0] = acc /\ g[Len(q)] = FoldLeft(ImportRow, acc, q)
           /\ \A k \in 1 .. Len(q) : g[k] = ImportRow(g[k - 1], q[k])
<1> DEFINE n == Len(q)
           step == [p \in (1 .. n) \X Accs |-> ImportRow(p[2], q[p[1]])]
           Rec(F) == F = [s \in SUBSET DOMAIN q |->
                            IF s = {} THEN acc ELSE ImportRow(F[s \ {Max(s)}], q[Max(s)])]
           it == CHOOSE F : Rec(F)
<1>0. n \in Nat /\ DOMAIN q = 1 .. n /\ \A x \in 1 .. n : q[x] \in FileRows
  OBVIOUS
<1> HIDE DEF n
<1>1. \A x \in 1 .. n, a \in Accs : step[<<x, a>>] = ImportRow(a, q[x])
  OBVIOUS
<1> HIDE DEF step
<1>2. \A x \in 1 .. n, a \in Accs : step[<<x, a>>] \in Accs
  <2> SUFFICES ASSUME NEW x \in 1 .. n, NEW a \in Accs PROVE ImportRow(a, q[x]) \in Accs
    BY <1>1
  <2>1. q[x] \in FileRows
    BY <1>0
  <2> QED
    BY ONLY <2>1, a \in Accs, ImportRowKeeps
<1>3. PICK F \in [SUBSET (1 .. n) -> Accs] :
        FoldsUp(F, n, acc, step)
  BY <1>0, <1>2, FoldAlongExists
<1>4. Rec(F)
  <2>1. ASSUME NEW s \in SUBSET (1 .. n), s # {}
        PROVE  step[<<Max(s), F[s \ {Max(s)}]>>] = ImportRow(F[s \ {Max(s)}], q[Max(s)])
    <3>1. Max(s) \in 1 .. n /\ F[s \ {Max(s)}] \in Accs
      <4>1. Max(s) \in s
        BY <1>0, <2>1, Largest
      <4> QED
        BY <4>1, Zenon
    <3> QED
      BY <3>1, <1>1, Zenon
  <2>2. \A s \in SUBSET (1 .. n) :
          F[s] = IF s = {} THEN acc ELSE ImportRow(F[s \ {Max(s)}], q[Max(s)])
    <3>1. \A s \in SUBSET (1 .. n) :
            F[s] = IF s = {} THEN acc ELSE step[<<Max(s), F[s \ {Max(s)}]>>]
      BY <1>3, Zenon DEF FoldsUp
    <3> QED
      BY <2>1, <3>1, Zenon
  <2> QED
    BY <1>0, <2>2
<1>5. Rec(it)
  BY <1>4, Zenon
<1>6. FoldLeft(ImportRow, acc, q) = it[1 .. n]
  BY <1>0, Zenon DEF FoldLeft, MapThenFoldSet
<1> HIDE DEF it
<1>7. it[{}] = acc
  BY <1>5
<1>8. ASSUME NEW k \in 1 .. n PROVE it[1 .. k] = ImportRow(it[1 .. (k - 1)], q[k])
  <2> DEFINE s == 1 .. k
  <2>1. s \in SUBSET DOMAIN q /\ s # {} /\ s \ {k} = 1 .. (k - 1)
    BY <1>0, EachPrefix
  <2>2. Max(s) = k
    BY <1>0, LargestOfPrefix
  <2> HIDE DEF s
  <2>3. it[s] = ImportRow(it[s \ {Max(s)}], q[Max(s)])
    BY <1>5, <2>1, Zenon
  <2>4. it[s] = ImportRow(it[s \ {k}], q[k])
    BY <2>2, <2>3, Zenon
  <2> QED
    BY <2>1, <2>4, Zenon DEF s
<1>9. \A k \in 1 .. n : it[1 .. (k - 1)] \in Accs => it[1 .. k] = step[<<k, it[1 .. (k - 1)]>>]
  BY <1>1, <1>8, Zenon
<1>10. PICK g \in [0 .. n -> Accs] : RunOf(g, n, acc, step, it[1 .. n])
  BY <1>0, <1>2, <1>7, <1>9, FoldRun
<1>11. \A k \in 1 .. n : g[k - 1] \in Accs
  <2>1. \A k \in 1 .. n : k - 1 \in 0 .. n
    BY <1>0
  <2> QED
    BY <2>1
<1>12. \A k \in 1 .. n : g[k] = ImportRow(g[k - 1], q[k])
  BY <1>1, <1>10, <1>11, Zenon DEF RunOf
<1> QED
  BY <1>6, <1>10, <1>12, Zenon DEF n, RunOf

-----------------------------------------------------------------------------
LEMMA AccountsKeep ==
  ASSUME NEW d \in Bases, NEW q \in Seq(FileAccounts)
  PROVE  LET e == FoldLeft(ImportAccount, d, q)
         IN  /\ e \in Bases /\ Grows(d, e)
             /\ \A i \in DOMAIN q : HasAccount(e, q[i])
             /\ (\A i \in DOMAIN q : HasAccount(d, q[i])) => e = d
<1> DEFINE n == Len(q)
<1>1. n \in Nat /\ DOMAIN q = 1 .. n /\ \A k \in 1 .. n : q[k] \in FileAccounts
  OBVIOUS
<1>2. PICK g \in [0 .. n -> Bases] :
        /\ g[0] = d /\ g[n] = FoldLeft(ImportAccount, d, q)
        /\ \A k \in 1 .. n : g[k] = ImportAccount(g[k - 1], q[k])
  BY AccountRun
<1> HIDE DEF n
<1>3. ASSUME NEW k \in 1 .. n
      PROVE  /\ k - 1 \in 0 .. n /\ k \in 0 .. n /\ g[k - 1] \in Bases /\ g[k] \in Bases
             /\ Grows(g[k - 1], g[k]) /\ HasAccount(g[k], q[k])
             /\ HasAccount(g[k - 1], q[k]) => g[k] = g[k - 1]
  <2>1. k - 1 \in 0 .. n /\ k \in 0 .. n
    BY <1>1
  <2>2. g[k - 1] \in Bases /\ g[k] \in Bases /\ g[k] = ImportAccount(g[k - 1], q[k]) /\ q[k] \in FileAccounts
    BY <1>1, <1>2, <2>1
  <2> QED
    BY <2>1, <2>2, ImportAccountKeeps
<1> DEFINE Good == {k \in 0 .. n : Grows(d, g[k]) /\ \A i \in 1 .. k : HasAccount(g[k], q[i])}
           Same == {k \in 0 .. n : g[k] = d}
<1>4. \A k \in 0 .. n : k \in Good
  <2>1. 0 \in Good
    BY <1>1, <1>2 DEF Grows
  <2>2. ASSUME NEW k \in 1 .. n, k - 1 \in Good PROVE k \in Good
    <3>1. Grows(d, g[k])
      BY <1>3, <2>2, GrowsOn
    <3>2. \A i \in 1 .. (k - 1) : HasAccount(g[k], q[i])
      <4> SUFFICES ASSUME NEW i \in 1 .. (k - 1) PROVE HasAccount(g[k], q[i])
        OBVIOUS
      <4>1. HasAccount(g[k - 1], q[i])
        BY <2>2
      <4>2. q[i] \in FileAccounts
        BY <1>1
      <4> QED
        BY <1>3, <4>1, <4>2, GrowsKeeps
    <3>3. \A i \in 1 .. k : i = k \/ i \in 1 .. (k - 1)
      BY <1>1
    <3> QED
      BY <1>3, <3>1, <3>2, <3>3
  <2> HIDE DEF Good
  <2> QED
    BY <1>1, <2>1, <2>2, RunInduction
<1>5. ASSUME \A i \in 1 .. n : HasAccount(d, q[i]) PROVE \A k \in 0 .. n : k \in Same
  <2>1. 0 \in Same
    BY <1>1, <1>2
  <2>2. ASSUME NEW k \in 1 .. n, k - 1 \in Same PROVE k \in Same
    BY <1>3, <1>5, <2>2
  <2> HIDE DEF Same
  <2> QED
    BY <1>1, <2>1, <2>2, RunInduction
<1>6. n \in 0 .. n
  BY <1>1
<1>7. g[n] \in Bases /\ Grows(d, g[n]) /\ \A i \in 1 .. n : HasAccount(g[n], q[i])
  BY <1>4, <1>6
<1>8. (\A i \in 1 .. n : HasAccount(d, q[i])) => g[n] = d
  BY <1>5, <1>6
<1> QED
  BY <1>1, <1>2, <1>7, <1>8

LEMMA SubsKeep ==
  ASSUME NEW d \in Bases, NEW q \in Seq(SubRows)
  PROVE  LET e == FoldLeft(ImportSub, d, q)
         IN  /\ e \in Bases /\ Grows(d, e)
             /\ \A i \in DOMAIN q : HasSub(e, q[i])
             /\ (\A i \in DOMAIN q : HasSub(d, q[i])) => e = d
<1> DEFINE n == Len(q)
<1>1. n \in Nat /\ DOMAIN q = 1 .. n /\ \A k \in 1 .. n : q[k] \in SubRows
  OBVIOUS
<1>2. PICK g \in [0 .. n -> Bases] :
        /\ g[0] = d /\ g[n] = FoldLeft(ImportSub, d, q)
        /\ \A k \in 1 .. n : g[k] = ImportSub(g[k - 1], q[k])
  BY SubRun
<1> HIDE DEF n
<1>3. ASSUME NEW k \in 1 .. n
      PROVE  /\ k - 1 \in 0 .. n /\ k \in 0 .. n /\ g[k - 1] \in Bases /\ g[k] \in Bases
             /\ Grows(g[k - 1], g[k]) /\ HasSub(g[k], q[k])
             /\ HasSub(g[k - 1], q[k]) => g[k] = g[k - 1]
  <2>1. k - 1 \in 0 .. n /\ k \in 0 .. n
    BY <1>1
  <2>2. g[k - 1] \in Bases /\ g[k] \in Bases /\ g[k] = ImportSub(g[k - 1], q[k]) /\ q[k] \in SubRows
    BY <1>1, <1>2, <2>1
  <2> QED
    BY <2>1, <2>2, ImportSubKeeps
<1> DEFINE Good == {k \in 0 .. n : Grows(d, g[k]) /\ \A i \in 1 .. k : HasSub(g[k], q[i])}
           Same == {k \in 0 .. n : g[k] = d}
<1>4. \A k \in 0 .. n : k \in Good
  <2>1. 0 \in Good
    BY <1>1, <1>2 DEF Grows
  <2>2. ASSUME NEW k \in 1 .. n, k - 1 \in Good PROVE k \in Good
    <3>1. Grows(d, g[k])
      BY <1>3, <2>2, GrowsOn
    <3>2. \A i \in 1 .. (k - 1) : HasSub(g[k], q[i])
      <4> SUFFICES ASSUME NEW i \in 1 .. (k - 1) PROVE HasSub(g[k], q[i])
        OBVIOUS
      <4>1. HasSub(g[k - 1], q[i])
        BY <2>2
      <4>2. q[i] \in SubRows
        BY <1>1
      <4> QED
        BY <1>3, <4>1, <4>2, GrowsKeeps
    <3>3. \A i \in 1 .. k : i = k \/ i \in 1 .. (k - 1)
      BY <1>1
    <3> QED
      BY <1>3, <3>1, <3>2, <3>3
  <2> HIDE DEF Good
  <2> QED
    BY <1>1, <2>1, <2>2, RunInduction
<1>5. ASSUME \A i \in 1 .. n : HasSub(d, q[i]) PROVE \A k \in 0 .. n : k \in Same
  <2>1. 0 \in Same
    BY <1>1, <1>2
  <2>2. ASSUME NEW k \in 1 .. n, k - 1 \in Same PROVE k \in Same
    BY <1>3, <1>5, <2>2
  <2> HIDE DEF Same
  <2> QED
    BY <1>1, <2>1, <2>2, RunInduction
<1>6. n \in 0 .. n
  BY <1>1
<1>7. g[n] \in Bases /\ Grows(d, g[n]) /\ \A i \in 1 .. n : HasSub(g[n], q[i])
  BY <1>4, <1>6
<1>8. (\A i \in 1 .. n : HasSub(d, q[i])) => g[n] = d
  BY <1>5, <1>6
<1> QED
  BY <1>1, <1>2, <1>7, <1>8

Whole(q) == \A i \in DOMAIN q : IsBound(q[i])

LEMMA RowsKeep ==
  ASSUME NEW acc \in Accs, NEW q \in Seq(FileRows)
  PROVE  LET res == FoldLeft(ImportRow, acc, q)
         IN  /\ res \in Accs /\ Grows(acc.d, res.d)
             /\ ~res.failed => \A i \in DOMAIN q : Settled(res.d, q[i])
             /\ Whole(q) /\ (\A i \in DOMAIN q : Settled(acc.d, q[i])) => res = acc
<1> DEFINE n == Len(q)
<1>1. n \in Nat /\ DOMAIN q = 1 .. n /\ \A k \in 1 .. n : q[k] \in FileRows
  OBVIOUS
<1>2. PICK g \in [0 .. n -> Accs] :
        /\ g[0] = acc /\ g[n] = FoldLeft(ImportRow, acc, q)
        /\ \A k \in 1 .. n : g[k] = ImportRow(g[k - 1], q[k])
  BY RowRun
<1> HIDE DEF n
<1>3. ASSUME NEW k \in 1 .. n
      PROVE  /\ k - 1 \in 0 .. n /\ k \in 0 .. n /\ g[k - 1] \in Accs /\ g[k] \in Accs
             /\ g[k - 1].d \in Bases /\ g[k].d \in Bases
             /\ Grows(g[k - 1].d, g[k].d) /\ (g[k - 1].failed => g[k].failed)
             /\ ~g[k].failed => Settled(g[k].d, q[k])
             /\ IsBound(q[k]) /\ Settled(g[k - 1].d, q[k]) => g[k] = g[k - 1]
  <2>1. k - 1 \in 0 .. n /\ k \in 0 .. n
    BY <1>1
  <2>2. g[k - 1] \in Accs /\ g[k] \in Accs /\ g[k] = ImportRow(g[k - 1], q[k]) /\ q[k] \in FileRows
    BY <1>1, <1>2, <2>1
  <2>3. g[k - 1].d \in Bases /\ g[k].d \in Bases
    BY <2>2 DEF Accs
  <2> QED
    BY <2>1, <2>2, <2>3, ImportRowKeeps
<1> DEFINE Good == {k \in 0 .. n : /\ Grows(acc.d, g[k].d)
                                   /\ ~g[k].failed => \A i \in 1 .. k : Settled(g[k].d, q[i])}
           Same == {k \in 0 .. n : g[k] = acc}
<1>4. \A k \in 0 .. n : k \in Good
  <2>1. 0 \in Good
    BY <1>1, <1>2 DEF Grows
  <2>2. ASSUME NEW k \in 1 .. n, k - 1 \in Good PROVE k \in Good
    <3>1. Grows(acc.d, g[k].d)
      BY <1>3, <2>2, GrowsOn
    <3>2. ASSUME ~g[k].failed, NEW i \in 1 .. (k - 1) PROVE Settled(g[k].d, q[i])
      <4>1. Settled(g[k - 1].d, q[i])
        BY <1>3, <2>2, <3>2
      <4>2. q[i] \in FileRows
        BY <1>1
      <4> QED
        BY <1>3, <4>1, <4>2, GrowsKeeps
    <3>3. \A i \in 1 .. k : i = k \/ i \in 1 .. (k - 1)
      BY <1>1
    <3> QED
      BY <1>3, <3>1, <3>2, <3>3
  <2> HIDE DEF Good
  <2> QED
    BY <1>1, <2>1, <2>2, RunInduction
<1>5. ASSUME Whole(q), \A i \in 1 .. n : Settled(acc.d, q[i]) PROVE \A k \in 0 .. n : k \in Same
  <2>1. 0 \in Same
    BY <1>1, <1>2
  <2>2. ASSUME NEW k \in 1 .. n, k - 1 \in Same PROVE k \in Same
    <3>1. IsBound(q[k])
      BY <1>1, <1>5 DEF Whole
    <3> QED
      BY <1>3, <1>5, <2>2, <3>1
  <2> HIDE DEF Same
  <2> QED
    BY <1>1, <2>1, <2>2, RunInduction
<1>6. n \in 0 .. n
  BY <1>1
<1>7. /\ g[n] \in Accs /\ Grows(acc.d, g[n].d)
      /\ ~g[n].failed => \A i \in 1 .. n : Settled(g[n].d, q[i])
  BY <1>4, <1>6
<1>8. Whole(q) /\ (\A i \in 1 .. n : Settled(acc.d, q[i])) => g[n] = acc
  BY <1>5, <1>6
<1> QED
  BY <1>1, <1>2, <1>7, <1>8

\* An import that is not aborted adds, and what it adds is enough not to add again.
LEMMA MergedKeeps ==
  ASSUME NEW d \in Bases, NEW f \in Files
  PROVE  LET m == Merged(d, f)
         IN  /\ m \in Accs /\ Grows(d, m.d)
             /\ ~m.failed => Done(m.d, f)
             /\ Whole(f.rows) /\ Done(d, f) => m.d = d
<1> DEFINE da == FoldLeft(ImportAccount, d, f.accounts)
           ds == FoldLeft(ImportSub, da, f.subs)
           acc == [d |-> ds, failed |-> FALSE]
           m == FoldLeft(ImportRow, acc, f.rows)
<1>1. f.accounts \in Seq(FileAccounts) /\ f.subs \in Seq(SubRows) /\ f.rows \in Seq(FileRows)
  BY DEF Files
<1>2. /\ da \in Bases /\ Grows(d, da)
      /\ \A i \in DOMAIN f.accounts : HasAccount(da, f.accounts[i])
      /\ (\A i \in DOMAIN f.accounts : HasAccount(d, f.accounts[i])) => da = d
  BY ONLY <1>1, d \in Bases, AccountsKeep
<1>3. /\ ds \in Bases /\ Grows(da, ds)
      /\ \A i \in DOMAIN f.subs : HasSub(ds, f.subs[i])
      /\ (\A i \in DOMAIN f.subs : HasSub(da, f.subs[i])) => ds = da
  <2> HIDE DEF da
  <2> QED
    BY ONLY <1>1, <1>2, SubsKeep
<1> HIDE DEF da, ds
<1>4. acc \in Accs /\ acc.d = ds /\ acc.failed = FALSE
  BY <1>3 DEF Accs
<1> HIDE DEF acc
<1>5. /\ m \in Accs /\ Grows(ds, m.d)
      /\ ~m.failed => \A i \in DOMAIN f.rows : Settled(m.d, f.rows[i])
      /\ Whole(f.rows) /\ (\A i \in DOMAIN f.rows : Settled(ds, f.rows[i])) => m = acc
  BY <1>1, <1>4, RowsKeep
<1>6. Merged(d, f) = m
  BY Zenon DEF Merged, acc, ds, da
<1> HIDE DEF m
<1>7. m.d \in Bases
  BY <1>5 DEF Accs
<1>8. Grows(d, m.d)
  BY <1>2, <1>3, <1>5, GrowsOn
<1>9. ASSUME NEW i \in DOMAIN f.accounts PROVE HasAccount(m.d, f.accounts[i])
  <2>1. HasAccount(da, f.accounts[i]) /\ f.accounts[i] \in FileAccounts
    BY <1>1, <1>2
  <2>2. HasAccount(ds, f.accounts[i])
    BY <1>2, <1>3, <2>1, GrowsKeeps
  <2> QED
    BY <1>3, <1>5, <1>7, <2>1, <2>2, GrowsKeeps
<1>10. ASSUME NEW i \in DOMAIN f.subs PROVE HasSub(m.d, f.subs[i])
  <2>1. HasSub(ds, f.subs[i]) /\ f.subs[i] \in SubRows
    BY <1>1, <1>3
  <2> QED
    BY <1>3, <1>5, <1>7, <2>1, GrowsKeeps
<1>11. ~m.failed => Done(m.d, f)
  BY <1>5, <1>9, <1>10 DEF Done
<1>12. ASSUME Whole(f.rows), Done(d, f) PROVE m.d = d
  <2>1. da = d
    BY <1>2, <1>12 DEF Done
  <2>2. ds = d
    BY <1>3, <1>12, <2>1 DEF Done
  <2>3. m = acc
    BY <1>5, <1>12, <2>2 DEF Done
  <2> QED
    BY <1>4, <2>2, <2>3
<1>13. m \in Accs
  BY <1>5
<1> QED
  BY <1>6, <1>8, <1>11, <1>12, <1>13, Zenon

-----------------------------------------------------------------------------
LEMMA ListsOf ==
  ASSUME NEW S, IsFiniteSet(S), NEW T, S \subseteq T
  PROVE  SetToSeqs(S) \subseteq Seq(T)
<1>1. Cardinality(S) \in Nat
  BY FS_CardinalityType
<1>2. ASSUME NEW q \in [1 .. Cardinality(S) -> S] PROVE q \in Seq(T)
  BY <1>1
<1> QED
  BY <1>2, Zenon DEF SetToSeqs

LEMMA FilesOf ==
  ASSUME NEW d \in Bases,
         NEW accounts \in SetToSeqs({[provider |-> x.provider, mail |-> x.mail] : x \in d.accounts}),
         NEW subs \in SetToSeqs({[platform |-> s.platform, mail |-> s.mail, cost |-> 0] : s \in d.subs}),
         NEW rows \in SetToSeqs({Exported(r) : r \in d.rows})
  PROVE  [accounts |-> accounts, subs |-> subs, rows |-> rows, own |-> TRUE] \in Files
<1> DEFINE A == {[provider |-> x.provider, mail |-> x.mail] : x \in d.accounts}
           B == {[platform |-> s.platform, mail |-> s.mail, cost |-> 0] : s \in d.subs}
           C == {Exported(r) : r \in d.rows}
<1>1. /\ d.accounts \in SUBSET AccountRows /\ d.subs \in SUBSET SubRows
      /\ d.rows \in SUBSET SnapshotRows /\ Owning(d)
      /\ IsFiniteSet(d.accounts) /\ IsFiniteSet(d.subs) /\ IsFiniteSet(d.rows)
  BY DEF Bases, Numbered
<1>2. IsFiniteSet(A) /\ A \subseteq FileAccounts
  <2> DEFINE f == [x \in d.accounts |-> [provider |-> x.provider, mail |-> x.mail]]
  <2>1. A = {f[x] : x \in d.accounts}
    OBVIOUS
  <2>2. A \subseteq FileAccounts
    BY <1>1 DEF AccountRows, FileAccounts
  <2> HIDE DEF f, A
  <2> QED
    BY <1>1, <2>1, <2>2, FiniteImage
<1>3. IsFiniteSet(B) /\ B \subseteq SubRows
  <2> DEFINE f == [s \in d.subs |-> [platform |-> s.platform, mail |-> s.mail, cost |-> 0]]
  <2>1. B = {f[x] : x \in d.subs}
    OBVIOUS
  <2>2. B \subseteq SubRows
    BY <1>1 DEF SubRows
  <2> HIDE DEF f, B
  <2> QED
    BY <1>1, <2>1, <2>2, FiniteImage
<1>4. IsFiniteSet(C) /\ C \subseteq FileRows
  <2> DEFINE f == [r \in d.rows |-> Exported(r)]
  <2>1. C = {f[x] : x \in d.rows}
    OBVIOUS
  <2>2. ASSUME NEW r \in d.rows PROVE Exported(r) \in FileRows
    <3>1. r \in SnapshotRows
      BY <1>1
    <3>2. /\ r.kind \in KindsOfRows /\ r.mail \in MailOrNone /\ r.at \in Nat /\ r.owner \in Nat
      BY <3>1 DEF SnapshotRows
    <3> DEFINE dated == r.kind # "antigravity"
               from == IF r.kind = "codex" THEN r.owner ELSE 0
    <3>3. dated \in BOOLEAN /\ from \in Nat /\ (from # 0 => r.kind = "codex")
      BY <3>2
    <3>4. Exported(r) = [kind |-> r.kind, mail |-> r.mail, at |-> r.at, form |-> "utc",
                          dated |-> dated, from |-> from]
      BY Zenon DEF Exported
    <3> HIDE DEF dated, from
    <3> QED
      BY <3>2, <3>3, <3>4 DEF FileRows, TextForms
  <2> HIDE DEF f
  <2>3. C \subseteq FileRows
    BY <2>2
  <2> HIDE DEF C
  <2> QED
    BY <1>1, <2>1, <2>3, FiniteImage
<1> HIDE DEF A, B, C
<1>5. accounts \in Seq(FileAccounts) /\ subs \in Seq(SubRows) /\ rows \in Seq(FileRows)
  <2>1. accounts \in SetToSeqs(A) /\ subs \in SetToSeqs(B) /\ rows \in SetToSeqs(C)
    BY DEF A, B, C
  <2> QED
    BY <1>2, <1>3, <1>4, <2>1, ListsOf
<1> QED
  BY <1>5 DEF Files

-----------------------------------------------------------------------------
Outcomes == {"merged", "aborted"}
ImportInv ==
  /\ base \in [Machines -> Bases] /\ place \in Machines /\ exported \in Files
  /\ imports \in Seq(Outcomes) /\ Len(imports) <= 2
  /\ imports # <<>> => exported # NoFile
  /\ imports # <<>> /\ imports[Len(imports)] = "merged" => Done(base[place], exported)
  /\ imports = <<"aborted">> => Merged(base[place], exported).failed
  /\ Twice /\ Whole(exported.rows) => base[place] = before

LEMMA ImportInvHolds ==
  ASSUME ImportInv
  PROVE  ImportsHold
<1> DEFINE d == base[place]
<1>1. d \in Bases /\ exported \in Files
  BY DEF ImportInv
<1>2. SecondAddsNothing
  BY DEF ImportInv, SecondAddsNothing, Whole
<1>3. EntriesAreThere
  <2> SUFFICES ASSUME imports # <<>>, imports[Len(imports)] = "merged",
                      NEW i \in DOMAIN exported.rows,
                      exported.rows[i].kind = "antigravity" => exported.rows[i].mail # NoMail,
                      exported.rows[i].dated
               PROVE  Near(base[place], exported.rows[i])
    BY DEF EntriesAreThere, Near
  <2>1. Settled(base[place], exported.rows[i])
    BY DEF ImportInv, Done
  <2> QED
    BY <2>1 DEF Settled
<1>4. RowsHaveTheirOwner
  BY <1>1 DEF RowsHaveTheirOwner, Bases, Owning
<1> QED
  BY <1>2, <1>3, <1>4 DEF ImportsHold

LEMMA ImportInvInit == ImportNew => ImportInv
<1> SUFFICES ASSUME ImportNew PROVE ImportInv
  OBVIOUS
<1>1. EmptyBase \in Bases
  <2>1. IsFiniteSet({})
    BY FS_EmptySet
  <2> QED
    BY <2>1 DEF EmptyBase, Bases, Numbered, Owning
<1>2. NoFile \in Files
  BY DEF NoFile, Files
<1>3. place \in Machines
  BY ImportAssumption DEF ImportNew
<1> QED
  BY <1>1, <1>2, <1>3 DEF ImportNew, ImportInv, Twice

LEMMA CaptureKeeps ==
  ASSUME ImportInv, NEW k \in Kinds, NEW x \in MailOrNone, NEW n \in 0 .. MaxSecond, Capture(k, x, n)
  PROVE  ImportInv'
<1> DEFINE b == base[place]
           d == IF k \in Owned THEN AddAccount(b, k, x) ELSE b
           owner == IF k \in Owned THEN IdOf(d, k, x) ELSE 0
           new == [id |-> Cardinality(d.rows) + 1, kind |-> k, mail |-> x, at |-> 2 * n,
                   owner |-> owner,
                   form |-> IF k = "antigravity" THEN "utc" ELSE "space",
                   from |-> 0]
           e == [d EXCEPT !.rows = @ \cup {new}]
<1>1. /\ base' = [base EXCEPT ![place] = e] /\ UNCHANGED <<exported, imports, before, place>>
      /\ imports = <<>> /\ (k \in {"antigravity", "codex", "cursor"} => x # NoMail)
  BY DEF Capture
<1>2. b \in Bases /\ k \in KindsOfRows
  BY ImportAssumption DEF ImportInv
<1>3. d \in Bases /\ (k \in Owned => AccountsNamed(d, k, x) # {})
  BY <1>2, AddAccountKeeps
<1> HIDE DEF b, d
<1>4. /\ owner \in Nat
      /\ owner # 0 => \E y \in d.accounts : y.id = owner /\ y.provider = k /\ y.mail = x
  BY <1>1, <1>2, <1>3, IdIs DEF Owned
<1> HIDE DEF owner
<1>5. /\ d.accounts \in SUBSET AccountRows /\ d.subs \in SUBSET SubRows
      /\ d.rows \in SUBSET SnapshotRows /\ Numbered(d) /\ Owning(d)
      /\ d = [accounts |-> d.accounts, subs |-> d.subs, rows |-> d.rows]
  BY <1>3 DEF Bases
<1>6. /\ new \in SnapshotRows /\ new.kind = k /\ new.mail = x /\ new.owner = owner /\ new.from = 0
  <2>1. Cardinality(d.rows) \in Nat /\ 2 * n \in Nat
    BY <1>5, FS_CardinalityType, ImportAssumption DEF Numbered
  <2> QED
    BY <1>2, <1>4, <2>1 DEF SnapshotRows, TextForms
<1> HIDE DEF new
<1>7. e = [accounts |-> d.accounts, subs |-> d.subs, rows |-> d.rows \cup {new}]
  BY <1>5
<1> HIDE DEF e
<1>8. e \in Bases
  <2>1. IsFiniteSet(d.rows \cup {new})
    BY <1>5, FS_AddElement DEF Numbered
  <2>2. Numbered(e)
    BY <1>5, <1>7, <2>1 DEF Numbered
  <2>3. Owning(e)
    BY <1>4, <1>5, <1>6, <1>7 DEF Owning
  <2> QED
    BY <1>5, <1>6, <1>7, <2>2, <2>3 DEF Bases
<1> QED
  BY <1>1, <1>8 DEF ImportInv, Twice

LEMMA SubscribeKeeps ==
  ASSUME ImportInv, NEW x \in MailOrNone, Subscribe("platform", x)
  PROVE  ImportInv'
<1> DEFINE d == base[place]
           sub == [platform |-> "platform", mail |-> x, cost |-> 1]
           e == [d EXCEPT !.subs = @ \cup {sub}]
<1>1. d \in Bases /\ sub \in SubRows
  BY DEF ImportInv, SubRows
<1>2. /\ d.accounts \in SUBSET AccountRows /\ d.subs \in SUBSET SubRows
      /\ d.rows \in SUBSET SnapshotRows /\ Numbered(d) /\ Owning(d)
      /\ d = [accounts |-> d.accounts, subs |-> d.subs, rows |-> d.rows]
  BY <1>1 DEF Bases
<1>3. base' = [base EXCEPT ![place] = e] /\ UNCHANGED <<exported, imports, before, place>> /\ imports = <<>>
  BY DEF Subscribe, ImportInv
<1> HIDE DEF d, sub
<1>4. e = [accounts |-> d.accounts, subs |-> d.subs \cup {sub}, rows |-> d.rows]
  BY <1>2
<1> HIDE DEF e
<1>5. IsFiniteSet(d.subs \cup {sub})
  BY <1>2, FS_AddElement DEF Numbered
<1>6. e \in Bases
  BY <1>1, <1>2, <1>4, <1>5 DEF Bases, Numbered, Owning
<1> QED
  BY <1>3, <1>6 DEF ImportInv, Twice

LEMMA ListOfOne ==
  ASSUME NEW T, NEW q \in Seq(T), Len(q) = 1
  PROVE  q[1] \in T /\ q = <<q[1]>>
OBVIOUS

LEMMA ImportKeeps ==
  ASSUME ImportInv, Import
  PROVE  ImportInv'
<1> DEFINE d == base[place]
           m == Merged(d, exported)
<1>1. d \in Bases /\ exported \in Files /\ imports \in Seq(Outcomes) /\ Len(imports) <= 2
      /\ base \in [Machines -> Bases] /\ place \in Machines
  BY DEF ImportInv
<1>2. /\ m \in Accs /\ Grows(d, m.d)
      /\ ~m.failed => Done(m.d, exported)
      /\ Whole(exported.rows) /\ Done(d, exported) => m.d = d
  BY <1>1, MergedKeeps
<1>3. /\ exported # NoFile /\ Len(imports) < 2
      /\ before' = d /\ UNCHANGED <<exported, place>>
      /\ m.failed => imports' = Append(imports, "aborted") /\ base' = base
      /\ ~m.failed => imports' = Append(imports, "merged") /\ base' = [base EXCEPT ![place] = m.d]
  BY DEF Import
<1>4. m.d \in Bases
  BY <1>2 DEF Accs
<1> HIDE DEF m
<1>5. /\ imports' \in Seq(Outcomes) /\ Len(imports') = Len(imports) + 1
      /\ Len(imports) \in Nat /\ imports' # <<>>
      /\ imports'[Len(imports')] = IF m.failed THEN "aborted" ELSE "merged"
  <2>1. PICK o \in Outcomes : imports' = Append(imports, o) /\ o = IF m.failed THEN "aborted" ELSE "merged"
    BY <1>3 DEF Outcomes
  <2> QED
    BY <1>1, <2>1
<1>6. base' \in [Machines -> Bases] /\ base'[place] = IF m.failed THEN d ELSE m.d
  BY <1>1, <1>3, <1>4
<1>7. ~m.failed => Done(base'[place], exported)
  BY <1>2, <1>6
<1>8. imports' = <<"aborted">> => Merged(base'[place], exported).failed
  <2> SUFFICES ASSUME imports' = <<"aborted">> PROVE Merged(base'[place], exported).failed
    OBVIOUS
  <2>1. m.failed
    BY <1>5
  <2>2. base'[place] = d
    BY <1>6, <2>1
  <2> QED
    BY <2>1, <2>2, Zenon DEF m
<1>9. ASSUME Len(imports') = 2, Whole(exported.rows) PROVE base'[place] = d
  <2>1. CASE m.failed
    BY <1>6, <2>1
  <2>2. CASE ~m.failed
    <3>1. Len(imports) = 1 /\ imports[1] \in Outcomes /\ imports = <<imports[1]>>
      <4>1. Len(imports) \in Nat /\ Len(imports') = Len(imports) + 1
        BY <1>5
      <4>2. Len(imports) = 1
        <5>1. PICK i \in Nat : i = Len(imports)
          BY <4>1
        <5>2. i + 1 = 2
          BY <4>1, <5>1, <1>9
        <5> QED
          BY ONLY <5>1, <5>2
      <4> QED
        BY <1>1, <4>2, ListOfOne
    <3>2. imports # <<"aborted">>
      BY <2>2, Zenon DEF ImportInv, m
    <3>3. imports # <<>> /\ imports[Len(imports)] = "merged"
      BY <3>1, <3>2 DEF Outcomes
    <3>4. Done(d, exported)
      BY <3>3 DEF ImportInv
    <3> QED
      BY <1>2, <1>6, <1>9, <2>2, <3>4
  <2> QED
    BY <2>1, <2>2
<1> HIDE DEF d
<1>10. exported' = exported /\ place' = place /\ before' = d /\ exported # NoFile
  BY <1>3
<1>11. imports' # <<>> /\ imports'[Len(imports')] = "merged" => Done(base'[place], exported)
  BY <1>5, <1>7
<1>12. Len(imports') <= 2
  BY <1>3, <1>5
<1> QED
  BY <1>1, <1>5, <1>6, <1>8, <1>9, <1>10, <1>11, <1>12 DEF ImportInv, Twice

LEMMA ImportInvNext == ImportInv /\ [ImportNext]_importVars => ImportInv'
<1> SUFFICES ASSUME ImportInv, [ImportNext]_importVars PROVE ImportInv'
  OBVIOUS
<1>1. ASSUME NEW k \in Kinds, NEW n \in 0 .. MaxSecond, NEW x \in MailOrNone, Capture(k, x, n)
      PROVE  ImportInv'
  BY <1>1, CaptureKeeps
<1>2. ASSUME NEW x \in MailOrNone, Subscribe("platform", x) PROVE ImportInv'
  BY <1>2, SubscribeKeeps
<1>3. ASSUME Export PROVE ImportInv'
  <2> DEFINE d == base[place]
  <2>1. PICK accounts \in SetToSeqs({[provider |-> x.provider, mail |-> x.mail] : x \in d.accounts}),
             subs \in SetToSeqs({[platform |-> s.platform, mail |-> s.mail, cost |-> 0] : s \in d.subs}),
             rows \in SetToSeqs({Exported(r) : r \in d.rows}) :
          exported' = [accounts |-> accounts, subs |-> subs, rows |-> rows, own |-> TRUE]
    BY <1>3, Zenon DEF Export
  <2>2. d \in Bases
    BY DEF ImportInv
  <2>3. exported' \in Files
    BY ONLY <2>1, <2>2, FilesOf
  <2>4. imports = <<>> /\ UNCHANGED <<base, imports, before, place>>
    BY <1>3 DEF Export, ImportInv
  <2> QED
    BY <2>3, <2>4 DEF ImportInv, Twice
<1>4. ASSUME Import PROVE ImportInv'
  BY <1>4, ImportKeeps
<1>5. CASE OtherFile
  <2>1. exported' \in Files
    BY <1>5, ImportAssumption DEF OtherFile
  <2>2. imports = <<>> /\ UNCHANGED <<base, imports, before, place>>
    BY <1>5 DEF OtherFile, ImportInv
  <2> QED
    BY <2>1, <2>2 DEF ImportInv, Twice
<1>6. ASSUME NEW x \in Machines, Carry(x) PROVE ImportInv'
  <2>1. imports = <<>> /\ place' = x /\ UNCHANGED <<base, exported, imports, before>>
    BY <1>6 DEF Carry
  <2> QED
    BY <2>1 DEF ImportInv, Twice
<1>7. CASE UNCHANGED importVars
  BY <1>7, Zenon DEF importVars, ImportInv, Twice
<1> QED
  BY <1>1, <1>2, <1>3, <1>4, <1>5, <1>6, <1>7 DEF ImportNext

\* An import merges, whatever the file and the tables it comes to: what it brings is there
\* afterwards, a file with whole seconds adds nothing the second time, and rows go to the
\* accounts they name (import.go, ImportJSON).
THEOREM ImportsAlwaysHold == ImportSpec => []ImportsHold
<1>1. ImportInv => ImportsHold
  BY ImportInvHolds
<1> QED
  BY <1>1, ImportInvInit, ImportInvNext, PTL DEF ImportSpec

-----------------------------------------------------------------------------
(* The history and the heatmap (ActivityViews)                             *)

(* The newest rows of a table                                              *)

\* Of n elements or fewer, those with less than n above them are all; of more, n.
LEMMA TopCount ==
  ASSUME NEW S, IsFiniteSet(S), NEW key \in [S -> Int], NEW n \in Nat,
         \A x, y \in S : key[x] = key[y] => x = y
  PROVE  Cardinality({x \in S : Cardinality({y \in S : key[y] > key[x]}) < n})
           = IF Cardinality(S) < n THEN Cardinality(S) ELSE n
<1> DEFINE Above(s, x) == {y \in s : key[y] > key[x]}
           Top(s) == {x \in s : Cardinality(Above(s, x)) < n}
           G == {s \in SUBSET S : Cardinality(Top(s)) = IF Cardinality(s) < n THEN Cardinality(s) ELSE n}
<1>0. \A s \in SUBSET S : IsFiniteSet(s) /\ Cardinality(s) \in Nat
  BY FS_Subset, FS_CardinalityType
<1>1. {} \in G
  <2>1. Top({}) = {}
    OBVIOUS
  <2>2. Cardinality({}) = 0
    BY FS_EmptySet
  <2> HIDE DEF Top
  <2> QED
    BY <2>1, <2>2
<1>2. ASSUME NEW s \in SUBSET S, s # {}, \A t \in SUBSET s : t # s => t \in G PROVE s \in G
  <2>1. PICK m \in s : \A x \in s : key[m] <= key[x]
    BY <1>0, <1>2, LeastExists
  <2> DEFINE t == s \ {m}
  <2>2. t \in SUBSET S /\ m \notin t /\ s = t \cup {m} /\ t \in SUBSET s /\ t # s
    BY <2>1
  <2>3. t \in G
    <3> HIDE DEF t, G
    <3> QED
      BY <1>2, <2>2
  <2>4. IsFiniteSet(t) /\ Cardinality(t) \in Nat /\ Cardinality(s) = Cardinality(t) + 1
    BY <1>0, <2>2, FS_AddElement
  <2>5. \A x \in t : Above(s, x) = Above(t, x)
    BY <2>1, <2>2
  <2>6. Above(s, m) = t
    BY <2>1, <2>2
  <2>7. Cardinality(Above(s, m)) = Cardinality(t)
    BY <2>6
  <2>8. Top(t) \subseteq t /\ IsFiniteSet(Top(t)) /\ Cardinality(Top(t)) \in Nat /\ m \notin Top(t)
    <3>1. Top(t) \subseteq t
      OBVIOUS
    <3> HIDE DEF Top, t
    <3> QED
      BY <1>0, <2>2, <3>1
  <2>9. Top(s) = Top(t) \cup (IF Cardinality(t) < n THEN {m} ELSE {})
    <3>1. \A x \in t : x \in Top(s) <=> x \in Top(t)
      <4> SUFFICES ASSUME NEW x \in t PROVE x \in Top(s) <=> x \in Top(t)
        OBVIOUS
      <4>1. Cardinality(Above(s, x)) = Cardinality(Above(t, x))
        BY <2>5
      <4> QED
        BY <2>2, <4>1
    <3>2. m \in Top(s) <=> Cardinality(t) < n
      BY <2>2, <2>7
    <3>3. Top(s) \subseteq t \cup {m}
      BY <2>2
    <3> HIDE DEF Top, t
    <3> QED
      BY <2>2, <2>8, <3>1, <3>2, <3>3
  <2> HIDE DEF Top, t
  <2>10. CASE Cardinality(t) < n
    <3>1. Cardinality(Top(s)) = Cardinality(Top(t)) + 1
      BY <2>8, <2>9, <2>10, FS_AddElement
    <3> QED
      BY <2>3, <2>4, <2>10, <3>1
  <2>11. CASE ~(Cardinality(t) < n)
    <3>1. Top(s) = Top(t)
      BY <2>9, <2>11
    <3> QED
      BY <2>3, <2>4, <2>11, <3>1
  <2> QED
    BY <2>10, <2>11
<1>3. \A s \in SUBSET S : s \in G
  <2> HIDE DEF G
  <2> QED
    BY ONLY <1>1, <1>2, IsFiniteSet(S), SubsetInduction
<1>4. S \in G
  <2> HIDE DEF G
  <2> QED
    BY <1>3
<1> QED
  BY <1>4

-----------------------------------------------------------------------------
(* Texts and times                                                         *)

LEMMA HoursFit == HoursInDay \in Nat \ {0} /\ \A h \in Hours : h \in 0 .. HoursInDay - 1
<1> DEFINE key == [h \in Hours |-> 0 - h]
           m == CHOOSE h \in Hours : \A g \in Hours : g <= h
<1>1. \A h \in Hours : key[h] = 0 - h /\ h \in Nat /\ key[h] \in Int
  BY ActivityAssumption
<1> HIDE DEF key
<1>2. \E h \in Hours : \A g \in Hours : key[h] <= key[g]
  BY <1>1, ActivityAssumption, LeastExists
<1>3. \E h \in Hours : \A g \in Hours : g <= h
  BY <1>1, <1>2
<1>4. m \in Hours /\ \A g \in Hours : g <= m
  BY <1>3
<1>5. HoursInDay = 1 + m
  BY DEF HoursInDay
<1> HIDE DEF m
<1> QED
  BY <1>1, <1>4, <1>5

\* The order of numbers of two digits.
LEMMA Digits ==
  ASSUME NEW H \in Nat \ {0}, NEW a \in Int, NEW b \in Int, NEW h \in 0 .. H - 1, NEW g \in 0 .. H - 1
  PROVE  /\ H * a + h \in Int
         /\ H * a + h = H * b + g <=> a = b /\ h = g
         /\ H * a + h > H * b + g <=> (a > b \/ (a = b /\ h > g))
<1>0. H * a \in Int /\ H * b \in Int
  OBVIOUS
<1>1. ASSUME NEW x \in Int, NEW y \in Int, x > y PROVE H * x >= H * y + H
  <2>1. PICK c \in Nat : x = y + 1 + c
    <3>1. x - y - 1 \in Nat /\ x = y + 1 + (x - y - 1)
      BY <1>1
    <3> QED
      BY <3>1
  <2>2. H * (y + 1 + c) = H * y + H + H * c
    OBVIOUS
  <2>3. H * c >= 0 /\ H * c \in Int /\ H * y \in Int
    OBVIOUS
  <2> QED
    BY <2>1, <2>2, <2>3
<1>2. CASE a > b
  <2>1. H * a >= H * b + H
    BY <1>1, <1>2
  <2> QED
    BY <1>0, <1>2, <2>1
<1>3. CASE b > a
  <2>1. H * b >= H * a + H
    BY <1>1, <1>3
  <2> QED
    BY <1>0, <1>3, <2>1
<1>4. CASE a = b
  BY <1>0, <1>4
<1> QED
  BY <1>2, <1>3, <1>4

Half(r) == 2 * (MaxDay - r.ago) + IF r.form = "program" THEN 1 ELSE 0

LEMMA RowNumbers ==
  ASSUME NEW r \in CapturedRows
  PROVE  /\ r.ago \in 0 .. MaxDay /\ r.hour \in 0 .. HoursInDay - 1 /\ MaxDay - r.ago \in Int
         /\ Half(r) \in Int /\ Time(r) \in Int /\ Text(r) \in Int
         /\ Text(r) = HoursInDay * Half(r) + r.hour
         /\ Time(r) = HoursInDay * (MaxDay - r.ago) + r.hour
<1>1. /\ r.ago \in 0 .. MaxDay /\ r.hour \in Hours /\ r.form \in {"clock", "program"}
  BY DEF CapturedRows, Forms
<1>2. MaxDay \in Nat /\ HoursInDay \in Nat \ {0} /\ r.hour \in 0 .. HoursInDay - 1
  BY <1>1, HoursFit, ActivityAssumption
<1> DEFINE d == MaxDay - r.ago
           p == IF r.form = "program" THEN 1 ELSE 0
<1>3. d \in Int /\ p \in {0, 1} /\ Half(r) = 2 * d + p
  BY <1>1, <1>2 DEF Half
<1>4. Text(r) = 2 * HoursInDay * d + r.hour + HoursInDay * p
  BY <1>1, <1>2, <1>3 DEF Text
<1>5. Time(r) = HoursInDay * d + r.hour
  BY DEF Time
<1> HIDE DEF d, p
<1>6. 2 * HoursInDay * d + r.hour + HoursInDay * p = HoursInDay * (2 * d + p) + r.hour
  BY <1>2, <1>3
<1>7. HoursInDay * (2 * d + p) \in Int /\ HoursInDay * d \in Int
  BY <1>2, <1>3
<1>8. Text(r) = HoursInDay * Half(r) + r.hour /\ Text(r) \in Int /\ Time(r) \in Int
  BY <1>2, <1>3, <1>4, <1>5, <1>6, <1>7
<1> QED
  BY <1>1, <1>2, <1>3, <1>5, <1>8 DEF d

\* Rows of a table have different texts, and those of one form are ordered by time.
LEMMA TextsOfATable ==
  ASSUME NEW r \in CapturedRows, NEW s \in CapturedRows, r.table = s.table
  PROVE  /\ Text(r) = Text(s) => r = s
         /\ r.form = s.form /\ Text(r) > Text(s) => Time(r) >= Time(s)
<1> DEFINE H == HoursInDay
<1>1. /\ H \in Nat \ {0} /\ Half(r) \in Int /\ Half(s) \in Int
      /\ r.hour \in 0 .. H - 1 /\ s.hour \in 0 .. H - 1
      /\ MaxDay - r.ago \in Int /\ MaxDay - s.ago \in Int /\ MaxDay \in Nat
      /\ r.ago \in 0 .. MaxDay /\ s.ago \in 0 .. MaxDay
      /\ r.form \in {"clock", "program"} /\ s.form \in {"clock", "program"}
  BY HoursFit, RowNumbers, ActivityAssumption DEF CapturedRows, Forms
<1>2. /\ Text(r) = H * Half(r) + r.hour /\ Text(s) = H * Half(s) + s.hour
      /\ Time(r) = H * (MaxDay - r.ago) + r.hour /\ Time(s) = H * (MaxDay - s.ago) + s.hour
      /\ Time(r) \in Int /\ Time(s) \in Int
  BY RowNumbers
<1> HIDE DEF H
<1>3. /\ Text(r) = Text(s) => Half(r) = Half(s) /\ r.hour = s.hour
      /\ Text(r) > Text(s) => (Half(r) > Half(s) \/ (Half(r) = Half(s) /\ r.hour > s.hour))
  <2> DEFINE x == Half(r)
             y == Half(s)
             h == r.hour
             g == s.hour
  <2>1. x \in Int /\ y \in Int /\ h \in 0 .. H - 1 /\ g \in 0 .. H - 1 /\ H \in Nat \ {0}
    BY <1>1
  <2>2. Text(r) = H * x + h /\ Text(s) = H * y + g
    BY <1>2
  <2> HIDE DEF x, y, h, g
  <2>3. H * x + h = H * y + g <=> x = y /\ h = g
    BY ONLY <2>1, Digits
  <2>4. H * x + h > H * y + g <=> (x > y \/ (x = y /\ h > g))
    BY ONLY <2>1, Digits
  <2> QED
    BY <2>2, <2>3, <2>4, Zenon DEF x, y, h, g
<1>4. ASSUME Half(r) = Half(s) PROVE r.ago = s.ago /\ r.form = s.form
  <2> DEFINE p(x) == IF x.form = "program" THEN 1 ELSE 0
  <2>1. p(r) \in {0, 1} /\ p(s) \in {0, 1} /\ 2 * (MaxDay - r.ago) + p(r) = 2 * (MaxDay - s.ago) + p(s)
    BY <1>4 DEF Half
  <2>2. p(r) = p(s) /\ r.ago = s.ago
    <3> HIDE DEF p
    <3> QED
      BY <1>1, <2>1
  <2> QED
    BY <1>1, <2>2
<1>5. r.form = s.form /\ Half(r) > Half(s) => MaxDay - r.ago > MaxDay - s.ago
  BY <1>1 DEF Half
<1>6. MaxDay - r.ago > MaxDay - s.ago \/ (MaxDay - r.ago = MaxDay - s.ago /\ r.hour > s.hour)
        => Time(r) > Time(s)
  <2>1. H * (MaxDay - r.ago) + r.hour > H * (MaxDay - s.ago) + s.hour
          <=> (MaxDay - r.ago > MaxDay - s.ago \/ (MaxDay - r.ago = MaxDay - s.ago /\ r.hour > s.hour))
    BY ONLY <1>1, Digits
  <2> QED
    BY <1>2, <2>1, Zenon
<1>7. Text(r) = Text(s) => r = s
  BY <1>3, <1>4 DEF CapturedRows
<1>8. r.form = s.form /\ Text(r) > Text(s) => Time(r) >= Time(s)
  BY <1>2, <1>3, <1>4, <1>5, <1>6
<1> QED
  BY <1>7, <1>8

-----------------------------------------------------------------------------
(* The history                                                             *)

RowsOf(q, t) == {r \in q.rows : r.table = t}

\* A table gives its newest rows, the limit of them or all.
LEMMA NewestOfTable ==
  ASSUME NEW q \in Requests, NEW t \in Tables, NEW n \in Nat
  PROVE  LET N == Newest(RowsOf(q, t), n)
             S == RowsOf(q, t)
         IN  /\ N \subseteq S /\ IsFiniteSet(S) /\ IsFiniteSet(N)
             /\ S # N => Cardinality(N) = n
             /\ \A r \in S \ N : \A x \in N : Text(x) > Text(r)
<1> DEFINE S == RowsOf(q, t)
           N == Newest(S, n)
           key == [x \in S |-> Text(x)]
           Above(x) == {y \in S : Text(y) > Text(x)}
<1>1. IsFiniteSet(S) /\ S \subseteq CapturedRows /\ \A x \in S : x.table = t
  <2>1. S \subseteq q.rows /\ IsFiniteSet(q.rows) /\ q.rows \subseteq CapturedRows
    BY DEF RowsOf, Requests
  <2>2. \A x \in S : x.table = t
    BY DEF RowsOf
  <2> HIDE DEF S
  <2> QED
    BY <2>1, <2>2, FS_Subset
<1>2. \A x \in S : key[x] = Text(x) /\ Text(x) \in Int
  BY <1>1, RowNumbers
<1>3. key \in [S -> Int] /\ \A x, y \in S : key[x] = key[y] => x = y
  <2>1. \A x, y \in S : Text(x) = Text(y) => x = y
    BY <1>1, TextsOfATable
  <2> HIDE DEF S
  <2> QED
    BY <1>2, <2>1
<1>4. N = {x \in S : Cardinality({y \in S : Text(y) > Text(x)}) < n}
  BY DEF Newest
<1> HIDE DEF S
<1>5. {x \in S : Cardinality({y \in S : key[y] > key[x]}) < n}
        = {x \in S : Cardinality(Above(x)) < n}
  <2>1. ASSUME NEW x \in S PROVE {y \in S : key[y] > key[x]} = Above(x)
    BY <1>2
  <2>2. \A x \in S : Cardinality({y \in S : key[y] > key[x]}) = Cardinality(Above(x))
    BY <2>1, Zenon
  <2> QED
    BY <2>2
<1>6. N = {x \in S : Cardinality(Above(x)) < n}
  BY <1>4
<1> HIDE DEF key, N, Above
<1>7. Cardinality(N) = IF Cardinality(S) < n THEN Cardinality(S) ELSE n
  BY <1>1, <1>3, <1>5, <1>6, TopCount
<1>8. N \subseteq S /\ IsFiniteSet(N)
  <2>1. N \subseteq S
    BY <1>6
  <2> QED
    BY <1>1, <2>1, FS_Subset
<1>9. ASSUME S # N PROVE Cardinality(N) = n
  <2>1. Cardinality(N) # Cardinality(S)
    BY <1>1, <1>8, <1>9, FS_Subset
  <2> QED
    BY <1>7, <2>1
<1>10. ASSUME NEW r \in S \ N, NEW x \in N PROVE Text(x) > Text(r)
  <2> SUFFICES ASSUME ~(Text(x) > Text(r)) PROVE FALSE
    OBVIOUS
  <2>1. x \in S /\ Text(x) \in Int /\ Text(r) \in Int
    BY <1>2, <1>8
  <2>2. Above(r) \subseteq Above(x) /\ Above(x) \subseteq S /\ Above(r) \subseteq S
    BY <1>2, <2>1 DEF Above
  <2>3. IsFiniteSet(Above(x)) /\ Cardinality(Above(x)) \in Nat
    BY <1>1, <2>2, FS_Subset, FS_CardinalityType
  <2>4. Cardinality(Above(r)) <= Cardinality(Above(x)) /\ Cardinality(Above(r)) \in Nat
    BY <2>2, <2>3, FS_Subset, FS_CardinalityType
  <2>5. Cardinality(Above(x)) < n /\ ~(Cardinality(Above(r)) < n)
    BY <1>6
  <2> QED
    BY <2>3, <2>4, <2>5
<1> QED
  BY <1>1, <1>8, <1>9, <1>10 DEF N, S

\* A list without doubles as long as a set of its elements is of all of them.
LEMMA ListsAll ==
  ASSUME NEW S, IsFiniteSet(S), NEW s \in SetToSeqs(S)
  PROVE  /\ s \in Seq(S) /\ Len(s) = Cardinality(S) /\ Cardinality(S) \in Nat
         /\ \A i, j \in 1 .. Len(s) : i # j => s[i] # s[j]
         /\ \A x \in S : \E i \in 1 .. Len(s) : s[i] = x
<1> DEFINE n == Cardinality(S)
<1>1. n \in Nat
  BY FS_CardinalityType
<1>2. s \in [1 .. n -> S] /\ \A i, j \in 1 .. n : i # j => s[i] # s[j]
  BY Zenon DEF SetToSeqs
<1> HIDE DEF n
<1>3. s \in Seq(S) /\ Len(s) = n
  BY <1>1, <1>2
<1>4. IsFiniteSet(1 .. n) /\ Cardinality(1 .. n) = n
  BY <1>1, FS_Interval
<1>5. s \in Injection(1 .. n, S)
  BY <1>2 DEF Injection, IsInjective
<1>6. s \in Surjection(1 .. n, S)
  <2>1. Cardinality(1 .. n) = Cardinality(S)
    BY <1>4 DEF n
  <2> QED
    BY <1>5, <2>1, FS_Injection
<1>7. \A x \in S : \E i \in 1 .. n : s[i] = x
  BY <1>6 DEF Surjection
<1> QED
  BY <1>1, <1>2, <1>3, <1>7 DEF n

OneForm(q) == \A r, s \in q.rows : r.table = s.table => r.form = s.form
Asked(q) == {r \in q.rows : r.table \in Chosen(q)}

LEMMA MergedRowsAre ==
  ASSUME NEW q \in Requests
  PROVE  /\ MergedRows(q) \subseteq Asked(q)
         /\ IsFiniteSet(Asked(q)) /\ Asked(q) \subseteq CapturedRows
         /\ \A r \in Asked(q) \ MergedRows(q) :
              \E N \in SUBSET MergedRows(q) :
                /\ IsFiniteSet(N) /\ Cardinality(N) = q.limit
                /\ OneForm(q) => \A x \in N : Time(x) >= Time(r)
<1>1. q.limit \in Nat /\ q.rows \subseteq CapturedRows /\ IsFiniteSet(q.rows)
  BY DEF Requests
<1>2. Chosen(q) \subseteq Tables
  BY DEF Chosen
<1>3. \A t \in Chosen(q) : Newest(RowsOf(q, t), q.limit) \subseteq MergedRows(q)
  BY DEF MergedRows, RowsOf
<1>4. MergedRows(q) \subseteq Asked(q)
  <2> SUFFICES ASSUME NEW t \in Chosen(q), NEW r \in Newest(RowsOf(q, t), q.limit) PROVE r \in Asked(q)
    BY DEF MergedRows, RowsOf
  <2>1. r \in RowsOf(q, t)
    BY <1>1, <1>2, NewestOfTable
  <2> QED
    BY <2>1 DEF RowsOf, Asked
<1>5. IsFiniteSet(Asked(q)) /\ Asked(q) \subseteq CapturedRows
  <2>1. Asked(q) \subseteq q.rows
    BY DEF Asked
  <2> QED
    BY <1>1, <2>1, FS_Subset
<1>6. ASSUME NEW r \in Asked(q) \ MergedRows(q)
      PROVE  \E N \in SUBSET MergedRows(q) :
               /\ IsFiniteSet(N) /\ Cardinality(N) = q.limit
               /\ OneForm(q) => \A x \in N : Time(x) >= Time(r)
  <2> DEFINE t == r.table
             S == RowsOf(q, t)
             N == Newest(S, q.limit)
  <2>1. t \in Chosen(q) /\ t \in Tables /\ r \in S
    BY <1>2 DEF Asked, RowsOf
  <2>2. r \notin N /\ N \in SUBSET MergedRows(q)
    BY <1>3, <2>1
  <2>3. /\ N \subseteq S /\ IsFiniteSet(N) /\ (S # N => Cardinality(N) = q.limit)
        /\ \A y \in S \ N : \A x \in N : Text(x) > Text(y)
    BY <1>1, <2>1, NewestOfTable
  <2>4. \A x \in S : x \in CapturedRows /\ x \in q.rows /\ x.table = t
    BY <1>1 DEF RowsOf
  <2> HIDE DEF t, S, N
  <2>5. Cardinality(N) = q.limit
    BY <2>1, <2>2, <2>3
  <2>6. ASSUME OneForm(q), NEW x \in N PROVE Time(x) >= Time(r)
    <3>1. Text(x) > Text(r) /\ x \in CapturedRows /\ r \in CapturedRows /\ x.table = r.table
      BY <2>1, <2>2, <2>3, <2>4
    <3>2. x.form = r.form
      BY <2>1, <2>3, <2>4, <2>6 DEF OneForm
    <3> QED
      BY <3>1, <3>2, TextsOfATable
  <2> QED
    BY <2>2, <2>3, <2>5, <2>6
<1> QED
  BY <1>4, <1>5, <1>6

LEMMA HistoryIs ==
  ASSUME NEW q \in Requests, OneForm(q), NEW shown \in UnifiedHistory(q)
  PROVE  /\ Len(shown) = IF Cardinality(Asked(q)) < q.limit THEN Cardinality(Asked(q)) ELSE q.limit
         /\ NewestFirst(shown)
         /\ \A r \in Asked(q) \ ToSet(shown) :
              \A i \in DOMAIN shown : Time(shown[i]) >= Time(r)
<1> DEFINE M == MergedRows(q)
           A == Asked(q)
           L == q.limit
<1>1. L \in Nat
  BY DEF Requests
<1>2. /\ M \subseteq A /\ IsFiniteSet(A) /\ A \subseteq CapturedRows
      /\ \A r \in A \ M : \E N \in SUBSET M :
           IsFiniteSet(N) /\ Cardinality(N) = L /\ \A x \in N : Time(x) >= Time(r)
  BY MergedRowsAre
<1>3. PICK s \in SetToSeqs(M) :
        NewestFirst(s) /\ shown = SubSeq(s, 1, IF L < Len(s) THEN L ELSE Len(s))
  BY DEF UnifiedHistory
<1> HIDE DEF M, A, L
<1>4. IsFiniteSet(M) /\ Cardinality(M) \in Nat /\ Cardinality(A) \in Nat /\ Cardinality(M) <= Cardinality(A)
  BY <1>2, FS_Subset, FS_CardinalityType
<1>5. /\ s \in Seq(M) /\ Len(s) = Cardinality(M)
      /\ \A x \in M : \E i \in 1 .. Len(s) : s[i] = x
  BY <1>4, ListsAll
<1> DEFINE n == IF L < Len(s) THEN L ELSE Len(s)
<1>6. /\ n \in 0 .. Len(s) /\ n <= L /\ Len(s) \in Nat /\ (n # L => n = Len(s))
      /\ shown = SubSeq(s, 1, n)
  BY <1>1, <1>3, <1>5
<1> HIDE DEF n
<1>7. Len(shown) = n /\ DOMAIN shown = 1 .. n /\ \A i \in 1 .. n : shown[i] = s[i]
  BY <1>5, <1>6
<1>8. \A i \in 1 .. Len(s) : s[i] \in M /\ Time(s[i]) \in Int
  BY <1>2, <1>5, RowNumbers
<1>9. \A i, j \in 1 .. Len(s) : i < j => Time(s[i]) >= Time(s[j])
  BY <1>3, <1>5 DEF NewestFirst
<1>10. NewestFirst(shown)
  <2> SUFFICES ASSUME NEW i \in 1 .. n, NEW j \in 1 .. n, i < j
               PROVE  Time(shown[i]) >= Time(shown[j])
    BY <1>7 DEF NewestFirst
  <2>1. i \in 1 .. Len(s) /\ j \in 1 .. Len(s)
    BY <1>6
  <2>2. shown[i] = s[i] /\ shown[j] = s[j]
    BY <1>7
  <2> QED
    BY <1>9, <2>1, <2>2
<1>11. Len(shown) = IF Cardinality(A) < L THEN Cardinality(A) ELSE L
  <2>1. CASE M = A
    BY <1>1, <1>4, <1>5, <1>7, <2>1 DEF n
  <2>2. CASE M # A
    <3>1. PICK r \in A : r \notin M
      BY <1>2, <2>2
    <3>2. PICK N \in SUBSET M : Cardinality(N) = L
      BY <1>2, <3>1
    <3>3. L <= Cardinality(M)
      BY <1>4, <3>2, FS_Subset
    <3> QED
      BY <1>1, <1>4, <1>5, <1>7, <3>3 DEF n
  <2> QED
    BY <2>1, <2>2
<1>12. ASSUME NEW r \in A \ ToSet(shown), NEW i \in DOMAIN shown PROVE Time(shown[i]) >= Time(r)
  <2>1. i \in 1 .. n /\ i \in 1 .. Len(s) /\ shown[i] = s[i] /\ Time(s[i]) \in Int /\ Time(r) \in Int
    BY <1>2, <1>6, <1>7, <1>8, RowNumbers
  <2>2. CASE r \in M
    <3>1. PICK j \in 1 .. Len(s) : s[j] = r
      BY <1>5, <2>2
    <3>2. j \notin 1 .. n
      BY <1>7, <3>1 DEF ToSet
    <3>3. i < j
      BY <1>6, <2>1, <3>1, <3>2
    <3> QED
      BY <1>9, <2>1, <3>1, <3>3
  <2>3. CASE r \notin M
    <3> SUFFICES ASSUME Time(s[i]) < Time(r) PROVE FALSE
      BY <2>1
    <3>1. PICK N \in SUBSET M : IsFiniteSet(N) /\ Cardinality(N) = L /\ \A x \in N : Time(x) >= Time(r)
      BY <1>2, <2>3
    <3>2. ASSUME NEW x \in N PROVE \E k \in 1 .. (i - 1) : s[k] = x
      <4>1. PICK k \in 1 .. Len(s) : s[k] = x
        BY <1>5
      <4>2. Time(s[k]) >= Time(r) /\ Time(s[k]) \in Int
        BY <1>8, <3>1, <4>1
      <4>3. k # i
        BY <2>1, <4>2
      <4>4. ~(i < k)
        BY <1>9, <2>1, <4>2
      <4>5. k \in 1 .. (i - 1)
        BY <2>1, <4>1, <4>3, <4>4
      <4> QED
        BY <4>1, <4>5
    <3> DEFINE f == [x \in N |-> CHOOSE k \in 1 .. (i - 1) : s[k] = x]
    <3>3. \A x \in N : f[x] \in 1 .. (i - 1) /\ s[f[x]] = x
      BY <3>2
    <3> HIDE DEF f
    <3>4. f \in Injection(N, 1 .. (i - 1))
      <4>1. f \in [N -> 1 .. (i - 1)]
        BY <3>3 DEF f
      <4>2. \A x, y \in N : f[x] = f[y] => x = y
        BY <3>3
      <4> QED
        BY <4>1, <4>2 DEF Injection, IsInjective
    <3>5. IsFiniteSet(1 .. (i - 1)) /\ Cardinality(1 .. (i - 1)) = i - 1
      <4>1. PICK h \in Nat : h = i - 1
        BY <1>6, <2>1
      <4>2. IsFiniteSet(1 .. h) /\ Cardinality(1 .. h) = h
        <5>1. h \in Int /\ 1 \in Int
          OBVIOUS
        <5>2. IsFiniteSet(1 .. h) /\ Cardinality(1 .. h) = IF 1 > h THEN 0 ELSE h - 1 + 1
          BY ONLY <5>1, FS_Interval
        <5> QED
          BY <5>2
      <4> QED
        BY <4>1, <4>2, Zenon
    <3>6. Cardinality(N) <= i - 1
      BY <3>4, <3>5, FS_Injection
    <3> QED
      BY <1>1, <1>6, <2>1, <3>1, <3>6
  <2> QED
    BY <2>2, <2>3
<1> QED
  BY <1>10, <1>11, <1>12 DEF A, L

-----------------------------------------------------------------------------
(* The streaks                                                             *)

Walks == [run : Nat, longest : Nat, streak : Nat]
DayNumbers == Nat

LEMMA WalkDayKeeps ==
  ASSUME NEW active, NEW w \in Walks, NEW i \in Nat
  PROVE  WalkDay(active, w, i) \in Walks
BY DEF WalkDay, Walks

\* What a walk goes through, day by day.
LEMMA WalkRun ==
  ASSUME NEW active \in SUBSET DayNumbers, NEW w \in Walks, NEW q \in Seq(DayNumbers)
  PROVE  \E g \in [0 .. Len(q) -> Walks] :
           /\ g[0] = w /\ g[Len(q)] = WalkDays(active, w, q)
           /\ \A k \in 1 .. Len(q) : g[k] = WalkDay(active, g[k - 1], q[k])
<1> DEFINE n == Len(q)
           step == [p \in (1 .. n) \X Walks |-> WalkDay(active, p[2], q[p[1]])]
           Rec(F) == F = [s \in SUBSET DOMAIN q |->
                            IF s = {} THEN w ELSE WalkDay(active, F[s \ {Max(s)}], q[Max(s)])]
           it == CHOOSE F : Rec(F)
<1>0. n \in Nat /\ DOMAIN q = 1 .. n /\ \A x \in 1 .. n : q[x] \in Nat
  BY DEF DayNumbers
<1> HIDE DEF n
<1>1. \A x \in 1 .. n, a \in Walks : step[<<x, a>>] = WalkDay(active, a, q[x])
  OBVIOUS
<1> HIDE DEF step
<1>2. \A x \in 1 .. n, a \in Walks : step[<<x, a>>] \in Walks
  <2> SUFFICES ASSUME NEW x \in 1 .. n, NEW a \in Walks PROVE WalkDay(active, a, q[x]) \in Walks
    BY <1>1
  <2>1. q[x] \in Nat
    BY <1>0
  <2> QED
    BY ONLY <2>1, a \in Walks, WalkDayKeeps
<1>3. PICK F \in [SUBSET (1 .. n) -> Walks] :
        FoldsUp(F, n, w, step)
  BY <1>0, <1>2, FoldAlongExists
<1>4. Rec(F)
  <2>1. ASSUME NEW s \in SUBSET (1 .. n), s # {}
        PROVE  step[<<Max(s), F[s \ {Max(s)}]>>] = WalkDay(active, F[s \ {Max(s)}], q[Max(s)])
    <3>1. Max(s) \in 1 .. n /\ F[s \ {Max(s)}] \in Walks
      <4>1. Max(s) \in s
        BY <1>0, <2>1, Largest
      <4> QED
        BY <4>1, Zenon
    <3> QED
      BY <3>1, <1>1, Zenon
  <2>2. \A s \in SUBSET (1 .. n) :
          F[s] = IF s = {} THEN w ELSE WalkDay(active, F[s \ {Max(s)}], q[Max(s)])
    <3>1. \A s \in SUBSET (1 .. n) :
            F[s] = IF s = {} THEN w ELSE step[<<Max(s), F[s \ {Max(s)}]>>]
      BY <1>3, Zenon DEF FoldsUp
    <3> QED
      BY <2>1, <3>1, Zenon
  <2> QED
    BY <1>0, <2>2
<1>5. Rec(it)
  BY <1>4, Zenon
<1>6. WalkDays(active, w, q) = it[1 .. n]
  BY <1>0, Zenon DEF WalkDays, FoldLeft, MapThenFoldSet
<1> HIDE DEF it
<1>7. it[{}] = w
  BY <1>5
<1>8. ASSUME NEW k \in 1 .. n PROVE it[1 .. k] = WalkDay(active, it[1 .. (k - 1)], q[k])
  <2> DEFINE s == 1 .. k
  <2>1. s \in SUBSET DOMAIN q /\ s # {} /\ s \ {k} = 1 .. (k - 1)
    BY <1>0, EachPrefix
  <2>2. Max(s) = k
    BY <1>0, LargestOfPrefix
  <2> HIDE DEF s
  <2>3. it[s] = WalkDay(active, it[s \ {Max(s)}], q[Max(s)])
    BY <1>5, <2>1, Zenon
  <2>4. it[s] = WalkDay(active, it[s \ {k}], q[k])
    BY <2>2, <2>3, Zenon
  <2> QED
    BY <2>1, <2>4, Zenon DEF s
<1>9. \A k \in 1 .. n : it[1 .. (k - 1)] \in Walks => it[1 .. k] = step[<<k, it[1 .. (k - 1)]>>]
  BY <1>1, <1>8, Zenon
<1>10. PICK g \in [0 .. n -> Walks] : RunOf(g, n, w, step, it[1 .. n])
  BY <1>0, <1>2, <1>7, <1>9, FoldRun
<1>11. \A k \in 1 .. n : g[k - 1] \in Walks
  <2>1. \A k \in 1 .. n : k - 1 \in 0 .. n
    BY <1>0
  <2> QED
    BY <2>1
<1>12. \A k \in 1 .. n : g[k] = WalkDay(active, g[k - 1], q[k])
  BY <1>1, <1>10, <1>11, Zenon DEF RunOf
<1> QED
  BY <1>6, <1>10, <1>12, Zenon DEF n, RunOf

\* All of n days from a on, and every n days that end before e but one.
AllFrom(active, a, n) == \A j \in 0 .. n - 1 : a + j \in active
NoneIn(active, start, e, n) == \A a \in Nat : a >= start /\ a + n <= e => \E j \in 0 .. n - 1 : a + j \notin active

\* What is known of a walk from start on, when e is the next day.
WalkIs(active, start, e, w) ==
  /\ w.run <= e - start /\ AllFrom(active, e - w.run, w.run)
  /\ w.run = e - start \/ e - w.run - 1 \notin active
  /\ w.run <= w.longest
  /\ w.longest > 0 => \E a \in start .. e - w.longest : AllFrom(active, a, w.longest)
  /\ NoneIn(active, start, e, w.longest + 1)
  /\ start \in active =>
       \/ w.streak = 0 /\ w.run = e - start
       \/ /\ w.streak > 0 /\ w.streak < e - start
          /\ AllFrom(active, start, w.streak) /\ start + w.streak \notin active

LEMMA WalkStep ==
  ASSUME NEW active, NEW start \in Nat, NEW e \in Nat, e >= start, NEW w \in Walks,
         WalkIs(active, start, e, w)
  PROVE  WalkIs(active, start, e + 1, WalkDay(active, w, e))
<1> DEFINE v == WalkDay(active, w, e)
<1>1. /\ w.run \in Nat /\ w.longest \in Nat /\ w.streak \in Nat
      /\ v \in Walks /\ v.run \in Nat /\ v.longest \in Nat /\ v.streak \in Nat
  BY WalkDayKeeps DEF Walks
<1>2. /\ w.run <= e - start /\ (\A j \in 0 .. w.run - 1 : (e - w.run) + j \in active)
      /\ w.run = e - start \/ e - w.run - 1 \notin active
      /\ w.run <= w.longest
  BY DEF WalkIs, AllFrom
<1>3. /\ w.longest > 0 => \E a \in start .. e - w.longest : AllFrom(active, a, w.longest)
      /\ NoneIn(active, start, e, w.longest + 1)
  BY DEF WalkIs
<1>4. start \in active =>
        \/ w.streak = 0 /\ w.run = e - start
        \/ /\ w.streak > 0 /\ w.streak < e - start
           /\ AllFrom(active, start, w.streak) /\ start + w.streak \notin active
  BY DEF WalkIs
<1>5. CASE e \in active
  <2>1. /\ v.run = w.run + 1 /\ v.streak = w.streak
        /\ v.longest = IF w.run + 1 > w.longest THEN w.run + 1 ELSE w.longest
    BY <1>5 DEF WalkDay
  <2> HIDE DEF v
  <2>2. \A j \in 0 .. v.run - 1 : ((e + 1) - v.run) + j \in active
    <3> SUFFICES ASSUME NEW j \in 0 .. w.run PROVE (e - w.run) + j \in active
      BY <1>1, <2>1
    <3>1. CASE j = w.run
      BY <1>1, <1>5, <3>1
    <3>2. CASE j # w.run
      BY <1>1, <1>2, <3>2
    <3> QED
      BY <3>1, <3>2
  <2>3. v.run <= (e + 1) - start /\ (v.run = (e + 1) - start \/ (e + 1) - v.run - 1 \notin active)
    BY <1>1, <1>2, <2>1
  <2>4. v.run <= v.longest /\ w.longest <= v.longest
    BY <1>1, <1>2, <2>1
  <2>5. ASSUME v.longest > 0 PROVE \E a \in start .. (e + 1) - v.longest : AllFrom(active, a, v.longest)
    <3>1. CASE w.run + 1 > w.longest
      <4>1. v.longest = v.run /\ (e + 1) - v.run \in start .. (e + 1) - v.longest
        BY <1>1, <2>1, <2>3, <3>1
      <4>2. AllFrom(active, (e + 1) - v.run, v.longest)
        BY <2>2, <4>1 DEF AllFrom
      <4> QED
        BY <4>1, <4>2
    <3>2. CASE ~(w.run + 1 > w.longest)
      <4>1. v.longest = w.longest /\ w.longest > 0
        BY <1>1, <2>1, <2>5, <3>2
      <4>2. PICK a \in start .. e - w.longest : AllFrom(active, a, w.longest)
        BY <1>3, <4>1
      <4>3. a \in start .. (e + 1) - v.longest
        BY <1>1, <4>1
      <4> QED
        BY <4>1, <4>2, <4>3
    <3> QED
      BY <3>1, <3>2
  <2>6. NoneIn(active, start, e + 1, v.longest + 1)
    <3> SUFFICES ASSUME NEW a \in Nat, a >= start, a + (v.longest + 1) <= e + 1,
                        \A j \in 0 .. v.longest : a + j \in active
                 PROVE  FALSE
      BY <1>1 DEF NoneIn
    <3>1. CASE a + (v.longest + 1) <= e
      <4>1. a + (w.longest + 1) <= e
        BY <1>1, <2>4, <3>1
      <4>2. PICK j \in 0 .. w.longest : a + j \notin active
        BY <1>1, <1>3, <4>1 DEF NoneIn
      <4>3. j \in 0 .. v.longest
        BY <1>1, <2>4
      <4> QED
        BY <4>2, <4>3
    <3>2. CASE ~(a + (v.longest + 1) <= e)
      <4>1. a = e - v.longest
        BY <1>1, <3>2
      <4>2. w.run # e - start /\ e - w.run - 1 \notin active
        BY <1>1, <1>2, <2>1, <2>4, <4>1
      <4>3. v.longest - w.run - 1 \in 0 .. v.longest /\ a + (v.longest - w.run - 1) = e - w.run - 1
        BY <1>1, <2>1, <2>4, <4>1
      <4>4. a + (v.longest - w.run - 1) \in active
        BY <4>3
      <4> QED
        BY <4>2, <4>3, <4>4
    <3> QED
      BY <3>1, <3>2
  <2>7. start \in active =>
          \/ v.streak = 0 /\ v.run = (e + 1) - start
          \/ /\ v.streak > 0 /\ v.streak < (e + 1) - start
             /\ AllFrom(active, start, v.streak) /\ start + v.streak \notin active
    BY <1>1, <1>4, <2>1
  <2>8. AllFrom(active, (e + 1) - v.run, v.run)
    BY <2>2 DEF AllFrom
  <2>9. WalkIs(active, start, e + 1, v)
    <3>1. v.run <= (e + 1) - start /\ AllFrom(active, (e + 1) - v.run, v.run)
      BY <2>3, <2>4, <2>5, <2>6, <2>7, <2>8, Zenon
    <3>2. v.run = (e + 1) - start \/ (e + 1) - v.run - 1 \notin active
      BY <2>3, <2>4, <2>5, <2>6, <2>7, <2>8, Zenon
    <3>3. v.run <= v.longest
      BY <2>3, <2>4, <2>5, <2>6, <2>7, <2>8, Zenon
    <3>4. v.longest > 0 => \E a \in start .. (e + 1) - v.longest : AllFrom(active, a, v.longest)
      BY <2>3, <2>4, <2>5, <2>6, <2>7, <2>8, Zenon
    <3>5. NoneIn(active, start, e + 1, v.longest + 1)
      BY <2>3, <2>4, <2>5, <2>6, <2>7, <2>8, Zenon
    <3>6. start \in active =>
            \/ v.streak = 0 /\ v.run = (e + 1) - start
            \/ /\ v.streak > 0 /\ v.streak < (e + 1) - start
               /\ AllFrom(active, start, v.streak) /\ start + v.streak \notin active
      BY <2>3, <2>4, <2>5, <2>6, <2>7, <2>8, Zenon
    <3> QED
      BY <3>1, <3>2, <3>3, <3>4, <3>5, <3>6, Zenon DEF WalkIs
  <2> QED
    BY <2>9 DEF v
<1>6. CASE e \notin active
  <2>1. /\ v.run = 0 /\ v.longest = w.longest
        /\ v.streak = IF w.streak = 0 THEN w.run ELSE w.streak
    BY <1>6 DEF WalkDay
  <2> HIDE DEF v
  <2>2. AllFrom(active, (e + 1) - v.run, v.run)
    BY <2>1 DEF AllFrom
  <2>3. v.run <= (e + 1) - start /\ (e + 1) - v.run - 1 \notin active /\ v.run <= v.longest
    <3>1. (e + 1) - v.run - 1 = e
      BY <2>1
    <3> QED
      BY <1>1, <1>6, <2>1, <3>1
  <2>4. ASSUME v.longest > 0 PROVE \E a \in start .. (e + 1) - v.longest : AllFrom(active, a, v.longest)
    <3>1. PICK a \in start .. e - w.longest : AllFrom(active, a, w.longest)
      BY <1>3, <2>1, <2>4
    <3>2. a \in start .. (e + 1) - v.longest
      BY <1>1, <2>1
    <3> QED
      BY <2>1, <3>1, <3>2
  <2>5. NoneIn(active, start, e + 1, v.longest + 1)
    <3> SUFFICES ASSUME NEW a \in Nat, a >= start, a + (w.longest + 1) <= e + 1,
                        \A j \in 0 .. w.longest : a + j \in active
                 PROVE  FALSE
      BY <1>1, <2>1 DEF NoneIn
    <3>1. CASE a + (w.longest + 1) <= e
      <4>1. PICK j \in 0 .. w.longest : a + j \notin active
        BY <1>1, <1>3, <3>1 DEF NoneIn
      <4> QED
        BY <4>1
    <3>2. CASE ~(a + (w.longest + 1) <= e)
      <4>1. a + w.longest = e /\ w.longest \in 0 .. w.longest
        BY <1>1, <3>2
      <4> QED
        BY <1>6, <4>1
    <3> QED
      BY <3>1, <3>2
  <2>6. ASSUME start \in active
        PROVE  /\ v.streak > 0 /\ v.streak < (e + 1) - start
               /\ AllFrom(active, start, v.streak) /\ start + v.streak \notin active
    <3>1. CASE w.streak = 0 /\ w.run = e - start
      <4>1. v.streak = e - start /\ start + v.streak = e /\ start # e
        BY <1>1, <1>6, <2>1, <2>6, <3>1
      <4>2. e - w.run = start /\ \A j \in 0 .. v.streak - 1 : start + j \in active
        BY <1>1, <1>2, <3>1, <4>1
      <4> QED
        BY <1>1, <1>6, <4>1, <4>2 DEF AllFrom
    <3>2. CASE ~(w.streak = 0 /\ w.run = e - start)
      BY <1>1, <1>4, <2>1, <2>6, <3>2
    <3> QED
      BY <3>1, <3>2
  <2>7. WalkIs(active, start, e + 1, v)
    <3>1. v.run <= (e + 1) - start /\ AllFrom(active, (e + 1) - v.run, v.run)
      BY <2>2, <2>3, <2>4, <2>5, <2>6, Zenon
    <3>2. v.run = (e + 1) - start \/ (e + 1) - v.run - 1 \notin active
      BY <2>2, <2>3, <2>4, <2>5, <2>6, Zenon
    <3>3. v.run <= v.longest
      BY <2>2, <2>3, <2>4, <2>5, <2>6, Zenon
    <3>4. v.longest > 0 => \E a \in start .. (e + 1) - v.longest : AllFrom(active, a, v.longest)
      BY <2>2, <2>3, <2>4, <2>5, <2>6, Zenon
    <3>5. NoneIn(active, start, e + 1, v.longest + 1)
      BY <2>2, <2>3, <2>4, <2>5, <2>6, Zenon
    <3>6. start \in active =>
            \/ v.streak = 0 /\ v.run = (e + 1) - start
            \/ /\ v.streak > 0 /\ v.streak < (e + 1) - start
               /\ AllFrom(active, start, v.streak) /\ start + v.streak \notin active
      BY <2>2, <2>3, <2>4, <2>5, <2>6, Zenon
    <3> QED
      BY <3>1, <3>2, <3>3, <3>4, <3>5, <3>6, Zenon DEF WalkIs
  <2> QED
    BY <2>7 DEF v
<1> QED
  BY <1>5, <1>6

LEMMA WalkAlong ==
  ASSUME NEW active \in SUBSET DayNumbers, NEW start \in Nat, NEW n \in Nat
  PROVE  \E w \in Walks :
           /\ w = WalkDays(active, [run |-> 0, longest |-> 0, streak |-> 0],
                        [k \in 1 .. n |-> start + k - 1])
           /\ WalkIs(active, start, start + n, w)
<1> DEFINE w0 == [run |-> 0, longest |-> 0, streak |-> 0]
           q == [k \in 1 .. n |-> start + k - 1]
<1>1. w0 \in Walks /\ q \in Seq(DayNumbers) /\ Len(q) = n /\ \A k \in 1 .. n : q[k] = start + (k - 1)
  <2>1. \A k \in 1 .. n : start + k - 1 \in Nat
    OBVIOUS
  <2>2. q \in [1 .. n -> Nat]
    BY <2>1
  <2>3. q \in Seq(Nat) /\ Len(q) = n
    BY <2>2
  <2> QED
    BY <2>3 DEF Walks, DayNumbers
<1>2. PICK g \in [0 .. Len(q) -> Walks] :
        /\ g[0] = w0 /\ g[Len(q)] = WalkDays(active, w0, q)
        /\ \A k \in 1 .. Len(q) : g[k] = WalkDay(active, g[k - 1], q[k])
  <2> HIDE DEF w0, q
  <2>1. w0 \in Walks /\ q \in Seq(DayNumbers)
    BY <1>1
  <2> QED
    BY <2>1, WalkRun
<1>3. /\ g \in [0 .. n -> Walks] /\ g[0] = w0
      /\ g[n] = WalkDays(active, w0, q)
      /\ \A k \in 1 .. n : g[k] = WalkDay(active, g[k - 1], start + (k - 1))
  <2> HIDE DEF w0, q
  <2>1. g \in [0 .. n -> Walks]
    <3>1. g \in [0 .. Len(q) -> Walks]
      BY <1>2, Zenon
    <3> QED
      BY <1>1, <3>1, Zenon
  <2>2. g[n] = WalkDays(active, w0, q)
    BY <1>1, <1>2, Zenon
  <2>3. ASSUME NEW k \in 1 .. n PROVE g[k] = WalkDay(active, g[k - 1], start + (k - 1))
    <3>1. k \in 1 .. Len(q) /\ q[k] = start + (k - 1)
      BY <1>1, Zenon
    <3>2. g[k] = WalkDay(active, g[k - 1], q[k])
      BY <1>2, <3>1, Zenon
    <3> QED
      BY <3>1, <3>2, Zenon
  <2> QED
    BY <1>2, <2>1, <2>2, <2>3, Zenon
<1> DEFINE Good == {k \in 0 .. n : WalkIs(active, start, start + k, g[k])}
<1>4. 0 \in Good
  <2>1. WalkIs(active, start, start, w0)
    <3>1. AllFrom(active, start - w0.run, w0.run) /\ AllFrom(active, start, 0)
      BY DEF AllFrom
    <3>2. NoneIn(active, start, start, w0.longest + 1)
      BY DEF NoneIn
    <3>3. w0.run = 0 /\ w0.longest = 0 /\ w0.streak = 0 /\ start - start = 0
      OBVIOUS
    <3> HIDE DEF w0
    <3>4. /\ w0.run <= start - start /\ w0.run <= w0.longest /\ ~(w0.longest > 0)
          /\ w0.run = start - start /\ w0.streak = 0
      BY <3>3
    <3> QED
      BY <3>1, <3>2, <3>3, <3>4, Zenon DEF WalkIs
  <2>2. start + 0 = start /\ 0 \in 0 .. n
    OBVIOUS
  <2> QED
    BY <1>3, <2>1, <2>2, Zenon
<1>5. ASSUME NEW k \in 1 .. n, k - 1 \in Good PROVE k \in Good
  <2>1. PICK e \in Nat : e = start + (k - 1)
    OBVIOUS
  <2>2. e >= start /\ e + 1 = start + k /\ k \in 0 .. n /\ k - 1 \in 0 .. n
    BY <2>1
  <2>3. g[k - 1] \in Walks /\ WalkIs(active, start, e, g[k - 1])
    BY <1>3, <1>5, <2>1, <2>2
  <2>4. WalkIs(active, start, e + 1, WalkDay(active, g[k - 1], e))
    BY <2>2, <2>3, WalkStep
  <2>5. g[k] = WalkDay(active, g[k - 1], e)
    BY <1>3, <2>1, Zenon
  <2>6. WalkIs(active, start, start + k, g[k])
    BY <2>2, <2>4, <2>5, Zenon
  <2> QED
    BY <2>2, <2>6
<1>6. n \in Good
  <2> HIDE DEF Good
  <2>1. \A k \in 0 .. n : k \in Good
    BY <1>4, <1>5, RunInduction
  <2> QED
    BY <2>1
<1> HIDE DEF w0, q
<1>7. WalkIs(active, start, start + n, g[n]) /\ g[n] \in Walks
  BY <1>3, <1>6
<1> QED
  BY <1>3, <1>7, Zenon DEF w0, q

\* The three claims of StreaksAreRuns, of the days a request finds rows on.
LEMMA StreaksOfDays ==
  ASSUME NEW active \in SUBSET Nat, NEW M \in Nat, active \subseteq 0 .. M,
         NEW days \in Nat \ {0}
  PROVE  LET walk   == Walk(active, days)
             inside == active \cap 0 .. days - 1
             Run(a, n) == \A i \in 0 .. n - 1 : a + i \in inside
             last   == IF 0 \in active THEN 0 ELSE 1
         IN  /\ last \in inside => Run(last, walk.streak) /\ ~Run(last, walk.streak + 1)
             /\ \E a \in 0 .. M : Run(a, walk.longest)
             /\ \A a \in 0 .. M : ~Run(a, walk.longest + 1)
<1> DEFINE walk   == Walk(active, days)
           inside == active \cap 0 .. days - 1
           Run(a, n) == \A i \in 0 .. n - 1 : a + i \in inside
           last   == IF 0 \in active THEN 0 ELSE 1
<1>1. last \in Nat /\ last <= 1 /\ (last = 1 => 0 \notin active)
  OBVIOUS
<1>2. PICK n \in Nat : n = days - last
  BY <1>1
<1>3. PICK w \in Walks :
        /\ w = WalkDays(active, [run |-> 0, longest |-> 0, streak |-> 0],
                        [k \in 1 .. n |-> last + k - 1])
        /\ WalkIs(active, last, last + n, w)
  <2>1. active \in SUBSET DayNumbers
    BY DEF DayNumbers
  <2> HIDE DEF last
  <2> QED
    BY <1>1, <2>1, WalkAlong
<1>4. walk = [longest |-> w.longest, streak |-> IF w.streak = 0 THEN w.run ELSE w.streak]
  BY <1>2, <1>3, Zenon DEF Walk
<1>5. /\ w.run \in Nat /\ w.longest \in Nat /\ w.streak \in Nat
      /\ walk.longest = w.longest /\ walk.streak = IF w.streak = 0 THEN w.run ELSE w.streak
  BY <1>4 DEF Walks
<1>6. last + n = days
  BY <1>1, <1>2
<1> HIDE DEF walk, last
<1>7. WalkIs(active, last, days, w)
  BY <1>3, <1>6, Zenon
<1>8. /\ w.run <= days - last /\ AllFrom(active, days - w.run, w.run)
      /\ w.longest > 0 => \E a \in last .. days - w.longest : AllFrom(active, a, w.longest)
      /\ NoneIn(active, last, days, w.longest + 1)
      /\ last \in active =>
           \/ w.streak = 0 /\ w.run = days - last
           \/ /\ w.streak > 0 /\ w.streak < days - last
              /\ AllFrom(active, last, w.streak) /\ last + w.streak \notin active
  BY <1>7 DEF WalkIs
<1>9. ASSUME last \in inside PROVE Run(last, walk.streak) /\ ~Run(last, walk.streak + 1)
  <2>1. CASE w.streak = 0 /\ w.run = days - last
    <3>1. walk.streak = days - last /\ days - w.run = last
      BY <1>1, <1>5, <2>1
    <3>2. \A i \in 0 .. w.run - 1 : (days - w.run) + i \in active
      BY <1>8 DEF AllFrom
    <3>3. \A i \in 0 .. walk.streak - 1 : last + i \in inside
      BY <1>1, <1>5, <2>1, <3>1, <3>2
    <3>4. walk.streak \in 0 .. (walk.streak + 1) - 1 /\ last + walk.streak \notin inside
      BY <1>1, <1>5, <3>1
    <3> QED
      BY <3>3, <3>4
  <2>2. CASE w.streak > 0 /\ w.streak < days - last
             /\ AllFrom(active, last, w.streak) /\ last + w.streak \notin active
    <3>1. walk.streak = w.streak
      BY <1>5, <2>2
    <3>2. \A i \in 0 .. w.streak - 1 : last + i \in active
      BY <2>2 DEF AllFrom
    <3>3. \A i \in 0 .. walk.streak - 1 : last + i \in inside
      BY <1>1, <1>5, <2>2, <3>1, <3>2
    <3>4. walk.streak \in 0 .. (walk.streak + 1) - 1 /\ last + walk.streak \notin inside
      BY <1>1, <1>5, <2>2, <3>1
    <3> QED
      BY <3>3, <3>4
  <2> QED
    BY <1>8, <1>9, <2>1, <2>2
<1>10. \E a \in 0 .. M : Run(a, walk.longest)
  <2>1. CASE w.longest = 0
    <3>1. Run(0, walk.longest) /\ 0 \in 0 .. M
      BY <1>5, <2>1
    <3> QED
      BY <3>1
  <2>2. CASE w.longest > 0
    <3>1. PICK a \in last .. days - w.longest : AllFrom(active, a, w.longest)
      BY <1>8, <2>2
    <3>2. \A i \in 0 .. w.longest - 1 : a + i \in active
      BY <3>1 DEF AllFrom
    <3>3. a + 0 \in active
      BY <1>5, <2>2, <3>2
    <3>4. a \in 0 .. M
      BY <1>1, <3>1, <3>3
    <3>5. \A i \in 0 .. walk.longest - 1 : a + i \in inside
      BY <1>1, <1>5, <3>1, <3>2
    <3> QED
      BY <3>4, <3>5
  <2> QED
    BY <1>5, <2>1, <2>2
<1>11. ASSUME NEW a \in 0 .. M, Run(a, walk.longest + 1) PROVE FALSE
  <2>1. \A i \in 0 .. w.longest : a + i \in active /\ a + i < days
    BY <1>5, <1>11
  <2>2. a + 0 \in active /\ a + w.longest < days
    BY <1>5, <2>1
  <2>3. a >= last
    BY <1>1, <2>2
  <2>4. a + (w.longest + 1) <= days
    BY <1>5, <2>2
  <2>5. PICK j \in 0 .. (w.longest + 1) - 1 : a + j \notin active
    BY <1>8, <2>3, <2>4 DEF NoneIn
  <2>6. j \in 0 .. w.longest
    BY <1>5
  <2> QED
    BY <2>1, <2>5, <2>6
<1> QED
  BY <1>9, <1>10, <1>11 DEF walk, last

LEMMA StreaksHold ==
  ASSUME activity \in Requests
  PROVE  StreaksAreRuns
<1>1. activity.days \in Nat \ {0} /\ activity.rows \subseteq CapturedRows
  BY DEF Requests
<1>2. HeatmapDays(activity) \subseteq 0 .. MaxDay /\ HeatmapDays(activity) \in SUBSET Nat
  BY <1>1 DEF HeatmapDays, CapturedRows
<1>3. MaxDay \in Nat
  BY ActivityAssumption
<1> QED
  BY <1>1, <1>2, <1>3, StreaksOfDays, Zenon DEF StreaksAreRuns
-----------------------------------------------------------------------------
(* The requests                                                            *)

LEMMA CapturedRowsFinite == IsFiniteSet(CapturedRows)
<1> DEFINE Days == 0 .. MaxDay
           P == (Tables \X Days) \X (Hours \X Forms)
           f == [p \in P |-> [table |-> p[1][1], ago |-> p[1][2], hour |-> p[2][1], form |-> p[2][2]]]
<1>1. IsFiniteSet(Days)
  BY ActivityAssumption, FS_Interval
<1>2. IsFiniteSet(Forms)
  <2>1. IsFiniteSet({"clock"}) /\ IsFiniteSet({"program"}) /\ Forms = {"clock"} \cup {"program"}
    BY FS_Singleton DEF Forms
  <2> QED
    BY <2>1, FS_Union
<1>3. IsFiniteSet(P)
  <2> HIDE DEF Days
  <2>1. IsFiniteSet(Tables \X Days)
    BY <1>1, FS_Product, ActivityAssumption
  <2>2. IsFiniteSet(Hours \X Forms)
    BY <1>2, FS_Product, ActivityAssumption
  <2> QED
    BY <2>1, <2>2, FS_Product
<1>4. IsFiniteSet({f[p] : p \in P})
  <2> HIDE DEF P, f
  <2> QED
    BY <1>3, FiniteImage
<1>5. ASSUME NEW r \in CapturedRows PROVE r \in {f[p] : p \in P}
  <2> DEFINE p == <<<<r.table, r.ago>>, <<r.hour, r.form>>>>
  <2>1. p \in P
    BY DEF CapturedRows
  <2>2. r = [table |-> r.table, ago |-> r.ago, hour |-> r.hour, form |-> r.form]
    BY DEF CapturedRows
  <2>3. f[p] = [table |-> r.table, ago |-> r.ago, hour |-> r.hour, form |-> r.form]
    BY <2>1
  <2> HIDE DEF f, p, P
  <2> QED
    BY <2>1, <2>2, <2>3
<1>6. CapturedRows \subseteq {f[p] : p \in P}
  BY <1>5
<1> HIDE DEF f, P
<1> QED
  BY <1>4, <1>6, FS_Subset

LEMMA RequestsAtFirst == ActivityInit => activity \in Requests
<1> SUFFICES ASSUME ActivityInit PROVE activity \in Requests
  OBVIOUS
<1>1. ASSUME NEW rs \in SUBSET CapturedRows PROVE IsFiniteSet(rs)
  BY CapturedRowsFinite, FS_Subset
<1>2. ASSUME NEW n \in 0 .. MaxShown,
             NEW rs \in kSubset(n, {r \in CapturedRows : r.ago <= 1}),
             NEW l \in 1 .. MaxShown, NEW f \in Tables \cup {All},
             activity = [rows |-> rs, limit |-> l, filter |-> f, days |-> 1]
      PROVE  activity \in Requests
  <2>1. rs \in SUBSET CapturedRows
    BY DEF kSubset
  <2>2. l \in Nat \ {0}
    BY ActivityAssumption
  <2> QED
    BY <1>1, <1>2, <2>1, <2>2 DEF Requests
<1>3. ASSUME NEW t \in Tables, NEW h \in Hours, NEW f \in Forms, NEW d \in 1 .. MaxDay + 1,
             NEW rs \in SUBSET {r \in CapturedRows : r.table = t /\ r.hour = h /\ r.form = f},
             activity = [rows |-> rs, limit |-> 1, filter |-> All, days |-> d]
      PROVE  activity \in Requests
  <2>1. rs \in SUBSET CapturedRows
    OBVIOUS
  <2>2. d \in Nat \ {0}
    BY ActivityAssumption
  <2> QED
    BY <1>1, <1>3, <2>1, <2>2 DEF Requests
<1> QED
  <2>1. CASE \E n \in 0 .. MaxShown : \E rs \in kSubset(n, {r \in CapturedRows : r.ago <= 1}) :
              \E l \in 1 .. MaxShown, f \in Tables \cup {All} :
                activity = [rows |-> rs, limit |-> l, filter |-> f, days |-> 1]
    BY <1>2, <2>1, Zenon
  <2>2. CASE \E t \in Tables, h \in Hours, f \in Forms, d \in 1 .. MaxDay + 1 :
              \E rs \in SUBSET {r \in CapturedRows : r.table = t /\ r.hour = h /\ r.form = f} :
                activity = [rows |-> rs, limit |-> 1, filter |-> All, days |-> d]
    <3>1. PICK t \in Tables, h \in Hours, f \in Forms, d \in 1 .. MaxDay + 1 :
            \E rs \in SUBSET {r \in CapturedRows : r.table = t /\ r.hour = h /\ r.form = f} :
              activity = [rows |-> rs, limit |-> 1, filter |-> All, days |-> d]
      BY <2>2
    <3>2. PICK rs \in SUBSET {r \in CapturedRows : r.table = t /\ r.hour = h /\ r.form = f} :
            activity = [rows |-> rs, limit |-> 1, filter |-> All, days |-> d]
      BY <3>1
    <3> QED
      BY <1>3, <3>2
  <2> QED
    BY <2>1, <2>2, Zenon DEF ActivityInit

\* Whatever the tables hold and whatever is asked of them, the history shows the newest
\* rows asked for, newest first, while each table is written in one form, and the heatmap's
\* streaks are those of the days with rows (snapshots.go, UnifiedHistory; handlers_data.go,
\* handleHeatmap).  The requests of ActivityInit, a bounded choice of tables, are some of
\* them.
THEOREM ViewsOfActivityHold ==
  /\ activity \in Requests => ViewsOfActivity
  /\ ActivityInit => activity \in Requests
<1>1. ASSUME activity \in Requests PROVE HistoryIsNewest
  <2> SUFFICES ASSUME OneForm(activity), NEW shown \in UnifiedHistory(activity)
               PROVE  /\ Len(shown) = IF Cardinality(Asked(activity)) < activity.limit
                                        THEN Cardinality(Asked(activity)) ELSE activity.limit
                      /\ NewestFirst(shown)
                      /\ \A r \in Asked(activity) \ ToSet(shown) :
                           \A i \in DOMAIN shown : Time(shown[i]) >= Time(r)
    BY Zenon DEF HistoryIsNewest, OneForm, Asked
  <2> QED
    BY <1>1, HistoryIs
<1> QED
  BY <1>1, StreaksHold, RequestsAtFirst DEF ViewsOfActivity

-----------------------------------------------------------------------------
(* Forecasts (Forecasts)                                                   *)

\* A product of inequalities.
LEMMA TimesKeeps ==
  \A a, b \in Int, c \in Nat : a <= b => a * c <= b * c
OBVIOUS

LEMMA TimesCancels ==
  \A a, b \in Int, c \in Nat \ {0} : /\ a * c <= b * c => a <= b
                                     /\ a * c < b * c => a < b
OBVIOUS

LEMMA TimesNat == \A a, b \in Nat : a * b \in Nat /\ (a > 0 /\ b > 0 => a * b > 0)
OBVIOUS

\* The sum that the model writes as a fold.
LEMMA SumOverIs ==
  ASSUME NEW f, NEW S, Naturals(f, S)
  PROVE  SumOver(f, S) = Total(f, S)
<1> DEFINE it == CHOOSE it : it = [s \in SUBSET S |->
                   IF s = {} THEN 0 ELSE f[CHOOSE x \in s : TRUE] + it[s \ {CHOOSE x \in s : TRUE}]]
<1>1. PICK F \in [SUBSET S -> Nat] : SumIs(F, S, f)
  BY SumExists
<1>2. F = [s \in SUBSET S |->
             IF s = {} THEN 0 ELSE f[CHOOSE x \in s : TRUE] + F[s \ {CHOOSE x \in s : TRUE}]]
  BY <1>1 DEF SumIs, Some
<1>3. it = [s \in SUBSET S |->
              IF s = {} THEN 0 ELSE f[CHOOSE x \in s : TRUE] + it[s \ {CHOOSE x \in s : TRUE}]]
  BY <1>2, Zenon
<1> HIDE DEF it
<1>4. SumIs(it, S, f)
  BY <1>3 DEF SumIs, Some
<1>5. SumOver(f, S) = it[S]
  BY Zenon DEF SumOver, MapThenSumSet, MapThenFoldSet, it
<1> QED
  BY <1>4, <1>5, TotalIs

\* A sum is bounded as its terms are.
LEMMA TotalBounds ==
  ASSUME NEW S, NEW f, NEW g, Naturals(f, S), Naturals(g, S), NEW c \in Nat
  PROVE  /\ (\A x \in S : f[x] <= c * g[x]) => Total(f, S) <= c * Total(g, S)
         /\ (\A x \in S : c * g[x] <= f[x]) => c * Total(g, S) <= Total(f, S)
<1> DEFINE Up(s) == Total(f, s) <= c * Total(g, s)
           Down(s) == c * Total(g, s) <= Total(f, s)
           G == {s \in SUBSET S : /\ (\A x \in s : f[x] <= c * g[x]) => Up(s)
                                  /\ (\A x \in s : c * g[x] <= f[x]) => Down(s)}
<1>1. {} \in G
  BY TotalEmpty
<1>2. ASSUME NEW s \in SUBSET S, s # {}, \A t \in SUBSET s : t # s => t \in G PROVE s \in G
  <2>1. PICK x : x \in s
    BY <1>2
  <2>2. s \ {x} \in G
    <3>1. s \ {x} \in SUBSET s /\ s \ {x} # s
      BY <2>1
    <3> HIDE DEF G
    <3> QED
      BY <1>2, <3>1
  <2>3. Naturals(f, s) /\ Naturals(g, s)
    BY FS_Subset DEF Naturals
  <2>4. Total(f, s) = f[x] + Total(f, s \ {x}) /\ Total(f, s \ {x}) \in Nat /\ f[x] \in Nat
    BY ONLY <2>1, <2>3, TotalWithout
  <2>5. Total(g, s) = g[x] + Total(g, s \ {x}) /\ Total(g, s \ {x}) \in Nat /\ g[x] \in Nat
    BY ONLY <2>1, <2>3, TotalWithout
  <2>6. c * Total(g, s) = c * g[x] + c * Total(g, s \ {x})
    <3> DEFINE u == g[x] v == Total(g, s \ {x})
    <3>1. c \in Nat /\ u \in Nat /\ v \in Nat /\ Total(g, s) = u + v
      BY <2>5
    <3> HIDE DEF u, v
    <3>2. c * Total(g, s) = c * u + c * v
      BY ONLY <3>1
    <3> QED
      BY <3>2 DEF u, v
  <2>7. c * g[x] \in Nat /\ c * Total(g, s \ {x}) \in Nat
    BY <2>5, TimesNat
  <2>8. (\A y \in s : f[y] <= c * g[y]) => Up(s)
    <3> SUFFICES ASSUME \A y \in s : f[y] <= c * g[y] PROVE Up(s)
      OBVIOUS
    <3>1. f[x] <= c * g[x] /\ Up(s \ {x})
      BY <2>1, <2>2
    <3> QED
      BY ONLY <2>4, <2>6, <2>7, <3>1
  <2>9. (\A y \in s : c * g[y] <= f[y]) => Down(s)
    <3> SUFFICES ASSUME \A y \in s : c * g[y] <= f[y] PROVE Down(s)
      OBVIOUS
    <3>1. c * g[x] <= f[x] /\ Down(s \ {x})
      BY <2>1, <2>2
    <3> QED
      BY ONLY <2>4, <2>6, <2>7, <3>1
  <2> HIDE DEF Up, Down
  <2> QED
    BY <2>8, <2>9
<1>3. \A s \in SUBSET S : s \in G
  <2> HIDE DEF G
  <2> QED
    BY <1>1, <1>2, SubsetInduction DEF Naturals
<1> QED
  BY <1>3

\* A sum of ones counts.
LEMMA TotalOfOnes ==
  ASSUME NEW S, IsFiniteSet(S), NEW g, \A x \in S : g[x] = 1
  PROVE  Total(g, S) = Cardinality(S)
<1> DEFINE G == {s \in SUBSET S : Total(g, s) = Cardinality(s)}
<1>1. {} \in G
  BY TotalEmpty, FS_EmptySet
<1>2. ASSUME NEW s \in SUBSET S, s # {}, \A t \in SUBSET s : t # s => t \in G PROVE s \in G
  <2>1. PICK x : x \in s
    BY <1>2
  <2>2. s \ {x} \in G
    <3>1. s \ {x} \in SUBSET s /\ s \ {x} # s
      BY <2>1
    <3> HIDE DEF G
    <3> QED
      BY <1>2, <3>1
  <2>3. Naturals(g, s)
    BY FS_Subset DEF Naturals
  <2>4. Total(g, s) = g[x] + Total(g, s \ {x})
    BY ONLY <2>1, <2>3, TotalWithout
  <2>5. Cardinality(s \ {x}) = Cardinality(s) - 1 /\ Cardinality(s) \in Nat
    BY <2>1, FS_Subset, FS_RemoveElement, FS_CardinalityType
  <2> QED
    BY <2>1, <2>2, <2>4, <2>5
<1>3. \A s \in SUBSET S : s \in G
  <2> HIDE DEF G
  <2> QED
    BY <1>1, <1>2, SubsetInduction
<1> QED
  BY <1>3

\* One of finitely many ratios is the least, and one the greatest.
LEMMA RatioBetween ==
  ASSUME NEW a \in Nat, NEW b \in Nat \ {0}, NEW c \in Nat, NEW d \in Nat \ {0},
         NEW e \in Nat, NEW f \in Nat \ {0}
  PROVE  /\ a * d <= c * b /\ c * f <= e * d => a * f <= e * b
         /\ a * d <= c * b /\ c * f < e * d => a * f < e * b
<1>1. a * d <= c * b => (a * d) * f <= (c * b) * f
  BY TimesNat, TimesKeeps
<1>2. c * f <= e * d => (c * f) * b <= (e * d) * b
  BY TimesNat, TimesKeeps
<1>3. c * f < e * d => (c * f) * b < (e * d) * b
  <2> DEFINE u == c * f v == e * d
  <2>1. u \in Nat /\ v \in Nat
    BY TimesNat
  <2> HIDE DEF u, v
  <2>2. u < v => u * b < v * b
    BY <2>1
  <2> QED
    BY <2>2 DEF u, v
<1>4. /\ (a * d) * f = (a * f) * d /\ (c * b) * f = (c * f) * b /\ (e * d) * b = (e * b) * d
      /\ a * f \in Nat /\ e * b \in Nat /\ (a * f) * d \in Nat /\ (c * f) * b \in Nat
      /\ (e * b) * d \in Nat
  BY TimesNat
<1>5. /\ (a * f) * d <= (e * b) * d => a * f <= e * b
      /\ (a * f) * d < (e * b) * d => a * f < e * b
  BY <1>4, TimesCancels
<1> QED
  <2> DEFINE p == (a * f) * d q == (c * f) * b r == (e * b) * d
  <2>1. p \in Nat /\ q \in Nat /\ r \in Nat
    BY <1>4
  <2>2. a * d <= c * b => p <= q
    BY <1>1, <1>4
  <2>3. (c * f <= e * d => q <= r) /\ (c * f < e * d => q < r)
    BY <1>2, <1>3, <1>4
  <2>4. (p <= r => a * f <= e * b) /\ (p < r => a * f < e * b)
    BY <1>5
  <2> HIDE DEF p, q, r
  <2>5. (p <= q /\ q <= r => p <= r) /\ (p <= q /\ q < r => p < r)
    BY <2>1
  <2> QED
    BY <2>2, <2>3, <2>4, <2>5

\* x is a ratio of natural numbers.
IsRatio(x) == x.num \in Nat /\ x.den \in Nat \ {0}

LEMMA AtMostGoesOn ==
  \A x, y, z : IsRatio(x) /\ IsRatio(y) /\ IsRatio(z) /\ AtMost(x, y) =>
    (AtMost(y, z) => AtMost(x, z)) /\ (Less(y, z) => Less(x, z))
  BY RatioBetween DEF IsRatio, AtMost, Less

\* Comparing ratios of natural numbers.
LEMMA RatiosCompare ==
  \A x, y : IsRatio(x) /\ IsRatio(y) =>
    AtMost(x, x) /\ (AtMost(x, y) \/ AtMost(y, x)) /\ (AtMost(x, y) <=> ~Less(y, x))
  BY TimesNat DEF IsRatio, AtMost, Less

LEMMA RatioBounds ==
  ASSUME NEW S, IsFiniteSet(S), S # {}, NEW f, \A x \in S : IsRatio(f[x])
  PROVE  \E l \in S, u \in S : \A x \in S : AtMost(f[l], f[x]) /\ AtMost(f[x], f[u])
<1> DEFINE Bounds(l, u, s) == \A x \in s : AtMost(f[l], f[x]) /\ AtMost(f[x], f[u])
           G == {s \in SUBSET S : s # {} => \E l \in s, u \in s : Bounds(l, u, s)}
<1>1. {} \in G
  OBVIOUS
<1>2. ASSUME NEW s \in SUBSET S, s # {}, \A t \in SUBSET s : t # s => t \in G PROVE s \in G
  <2>1. PICK z : z \in s
    BY <1>2
  <2>2. s \ {z} \in G
    <3>1. s \ {z} \in SUBSET s /\ s \ {z} # s
      BY <2>1
    <3> HIDE DEF G
    <3> QED
      BY <1>2, <3>1
  <2>3. CASE s \ {z} = {}
    <3>1. \A x \in s : x = z
      BY <2>3
    <3>2. Bounds(z, z, s)
      BY <2>1, <3>1, RatiosCompare
    <3> HIDE DEF Bounds
    <3> QED
      BY <2>1, <3>2
  <2>4. CASE s \ {z} # {}
    <3>1. PICK l \in s \ {z}, u \in s \ {z} : Bounds(l, u, s \ {z})
      BY <2>2, <2>4
    <3>2. \E k \in s : AtMost(f[k], f[z]) /\ AtMost(f[k], f[l])
      BY <2>1, RatiosCompare
    <3>3. \E v \in s : AtMost(f[z], f[v]) /\ AtMost(f[u], f[v])
      BY <2>1, RatiosCompare
    <3>4. PICK k \in s : AtMost(f[k], f[z]) /\ AtMost(f[k], f[l])
      BY <3>2
    <3>5. PICK v \in s : AtMost(f[z], f[v]) /\ AtMost(f[u], f[v])
      BY <3>3
    <3>6. Bounds(k, v, s)
      <4> SUFFICES ASSUME NEW x \in s PROVE AtMost(f[k], f[x]) /\ AtMost(f[x], f[v])
        OBVIOUS
      <4>1. CASE x = z
        BY <4>1, <3>4, <3>5
      <4>2. CASE x # z
        <5>1. AtMost(f[l], f[x]) /\ AtMost(f[x], f[u])
          BY <4>2, <3>1
        <5>2. IsRatio(f[x]) /\ IsRatio(f[k]) /\ IsRatio(f[v]) /\ IsRatio(f[l]) /\ IsRatio(f[u])
          OBVIOUS
        <5> QED
          BY ONLY <5>1, <5>2, <3>4, <3>5, AtMostGoesOn
      <4> QED
        BY <4>1, <4>2
    <3> HIDE DEF Bounds
    <3> QED
      BY <3>6
  <2> QED
    BY <2>3, <2>4
<1>3. \A s \in SUBSET S : s \in G
  <2> HIDE DEF G
  <2> QED
    BY <1>1, <1>2, SubsetInduction
<1> QED
  BY <1>3

\* Readings, and the times and quotas that neighbours tell.
LEMMA PairFacts ==
  ASSUME NEW rs \in Seq(Readings), NEW m \in Models
  PROVE  /\ Pairs(rs, m) \subseteq 2 .. Len(rs) /\ IsFiniteSet(Pairs(rs, m))
         /\ Decreases(rs, m) \subseteq Pairs(rs, m) /\ IsFiniteSet(Decreases(rs, m))
         /\ Decreases(rs, m) = Uses(rs, m)
         /\ \A i \in Decreases(rs, m) : PerHour(rs, m, i) \in Nat \ {0}
         /\ \A i \in 1 .. Len(rs) : rs[i].after \in Gaps /\ rs[i].left[m] \in {Absent} \cup 0 .. Full
<1>1. \A i \in 1 .. Len(rs) : rs[i].after \in Gaps /\ rs[i].left[m] \in {Absent} \cup 0 .. Full
  <2> SUFFICES ASSUME NEW i \in 1 .. Len(rs)
               PROVE  rs[i].after \in Gaps /\ rs[i].left[m] \in {Absent} \cup 0 .. Full
    OBVIOUS
  <2>1. rs[i] \in Readings
    OBVIOUS
  <2>2. rs[i].after \in Gaps /\ rs[i].left \in [Models -> {Absent} \cup 0 .. Full]
    BY <2>1 DEF Readings
  <2> QED
    BY <2>2
<1>2. Pairs(rs, m) \subseteq 2 .. Len(rs)
  BY DEF Pairs
<1>3. IsFiniteSet(2 .. Len(rs))
  <2>1. Len(rs) \in Int
    OBVIOUS
  <2> QED
    BY ONLY <2>1, 2 \in Int, FS_Interval
<1>4. Decreases(rs, m) \subseteq Pairs(rs, m) /\ Decreases(rs, m) = Uses(rs, m)
  BY DEF Decreases, Uses
<1>5. IsFiniteSet(Pairs(rs, m))
  BY <1>2, <1>3, FS_Subset
<1>6. IsFiniteSet(Decreases(rs, m))
  BY <1>4, <1>5, FS_Subset
<1>7. ASSUME NEW i \in Decreases(rs, m) PROVE PerHour(rs, m, i) \in Nat \ {0}
  <2>1. i \in Pairs(rs, m) /\ Consumed(rs, m, i) > 0
    BY DEF Decreases
  <2>2. i \in 1 .. Len(rs) /\ i - 1 \in 1 .. Len(rs) /\ rs[i].after > 0
        /\ rs[i].left[m] # Absent /\ rs[i - 1].left[m] # Absent
    BY <2>1 DEF Pairs
  <2>3. rs[i].after \in {1, 2}
    BY <2>2, <1>1 DEF Gaps
  <2>4. 6 \div rs[i].after \in {6, 3}
    BY <2>3
  <2>5. Consumed(rs, m, i) \in Nat \ {0}
    BY <2>1, <2>2, <1>1, ForecastAssumption DEF Consumed, Absent
  <2> QED
    BY <2>4, <2>5 DEF PerHour
<1> QED
  BY <1>1, <1>2, <1>4, <1>5, <1>6, <1>7

\* A rate is known from a decrease on, and lies between the slowest and the fastest.
LEMMA WeightedIs ==
  ASSUME NEW rs \in Seq(Readings), NEW m \in Models, NEW of \in Nat \ {0}
  PROVE  LET rate == Weighted(rs, m, of) IN
         /\ Decreases(rs, m) = {} => rate = NoRate
         /\ Decreases(rs, m) # {} =>
              /\ IsRatio(rate) /\ rate.num > 0 /\ rate # NoRate
              /\ \E i \in Decreases(rs, m) : AtMost(rate, Ratio(PerHour(rs, m, i), 1))
              /\ \E i \in Decreases(rs, m) : AtMost(Ratio(PerHour(rs, m, i), 1), rate)
<1> DEFINE counted == Decreases(rs, m)
           weight  == [i \in counted |-> of + (i - 2)]
           share   == [i \in counted |-> PerHour(rs, m, i) * weight[i]]
           speed   == [i \in counted |-> Ratio(PerHour(rs, m, i), 1)]
           A == Total(share, counted)
           B == Total(weight, counted)
<1>0. counted = {} => Weighted(rs, m, of) = NoRate
  BY DEF Weighted
<1> SUFFICES ASSUME counted # {}
             PROVE  LET rate == Weighted(rs, m, of) IN
                    /\ IsRatio(rate) /\ rate.num > 0 /\ rate # NoRate
                    /\ \E i \in counted : AtMost(rate, Ratio(PerHour(rs, m, i), 1))
                    /\ \E i \in counted : AtMost(Ratio(PerHour(rs, m, i), 1), rate)
  BY <1>0
<1>1. \A i \in counted : weight[i] \in Nat \ {0}
  <2>1. \A i \in counted : i \in 2 .. Len(rs) /\ Len(rs) \in Nat
    BY PairFacts
  <2> QED
    BY <2>1
<1>2. \A i \in counted : PerHour(rs, m, i) \in Nat \ {0} /\ share[i] = PerHour(rs, m, i) * weight[i]
  BY PairFacts
<1>3. IsFiniteSet(counted)
  BY PairFacts
<1>4. Weighted(rs, m, of) = Ratio(SumOver(share, counted), SumOver(weight, counted))
  BY Zenon DEF Weighted
<1> HIDE DEF weight, share, counted
<1>5. \A i \in counted : share[i] \in Nat \ {0}
  BY <1>1, <1>2, TimesNat
<1>6. Naturals(weight, counted) /\ Naturals(share, counted)
  BY <1>1, <1>3, <1>5 DEF Naturals
<1>7. Weighted(rs, m, of) = Ratio(A, B)
  BY <1>4, <1>6, SumOverIs
<1>8. A \in Nat \ {0} /\ B \in Nat \ {0}
  <2>1. PICK x : x \in counted
    OBVIOUS
  <2>2. Total(share, counted) = share[x] + Total(share, counted \ {x}) /\ Total(share, counted \ {x}) \in Nat
    BY <1>6, <2>1, TotalWithout
  <2>3. Total(weight, counted) = weight[x] + Total(weight, counted \ {x}) /\ Total(weight, counted \ {x}) \in Nat
    BY <1>6, <2>1, TotalWithout
  <2> QED
    BY <1>1, <1>5, <2>1, <2>2, <2>3
<1>9. PICK l \in counted, u \in counted :
        \A i \in counted : AtMost(speed[l], speed[i]) /\ AtMost(speed[i], speed[u])
  <2>1. \A i \in counted : IsRatio(speed[i])
    BY <1>2 DEF IsRatio, Ratio
  <2> HIDE DEF speed
  <2> QED
    BY ONLY <1>3, <2>1, counted # {}, RatioBounds
<1>10. \A i \in counted : PerHour(rs, m, l) <= PerHour(rs, m, i) /\ PerHour(rs, m, i) <= PerHour(rs, m, u)
  <2>1. \A p, q \in Nat : AtMost(Ratio(p, 1), Ratio(q, 1)) => p <= q
    BY DEF AtMost, Ratio
  <2>2. \A i \in counted : speed[i] = Ratio(PerHour(rs, m, i), 1) /\ PerHour(rs, m, i) \in Nat
    BY <1>2
  <2> HIDE DEF speed
  <2> QED
    BY <1>9, <2>1, <2>2
<1>11. \A i \in counted : share[i] <= PerHour(rs, m, u) * weight[i] /\ PerHour(rs, m, l) * weight[i] <= share[i]
  <2> SUFFICES ASSUME NEW i \in counted
               PROVE  share[i] <= PerHour(rs, m, u) * weight[i] /\ PerHour(rs, m, l) * weight[i] <= share[i]
    OBVIOUS
  <2>1. /\ PerHour(rs, m, i) \in Nat /\ PerHour(rs, m, u) \in Nat /\ PerHour(rs, m, l) \in Nat
        /\ weight[i] \in Nat
    BY <1>1, <1>2
  <2> QED
    BY <1>2, <1>10, <2>1, TimesKeeps
<1>12. A <= PerHour(rs, m, u) * B /\ PerHour(rs, m, l) * B <= A
  <2>1. PerHour(rs, m, u) \in Nat /\ PerHour(rs, m, l) \in Nat
    BY <1>2
  <2> QED
    BY <1>6, <1>11, <2>1, TotalBounds
<1> HIDE DEF A, B
<1>13. /\ AtMost(Ratio(A, B), Ratio(PerHour(rs, m, u), 1))
       /\ AtMost(Ratio(PerHour(rs, m, l), 1), Ratio(A, B))
  <2>1. PerHour(rs, m, u) \in Nat /\ PerHour(rs, m, l) \in Nat
    BY <1>2
  <2> QED
    BY <1>8, <1>12, <2>1 DEF AtMost, Ratio
<1>14. IsRatio(Ratio(A, B)) /\ Ratio(A, B).num > 0 /\ Ratio(A, B) # NoRate
  BY <1>8 DEF IsRatio, Ratio, NoRate
<1> QED
  BY <1>7, <1>13, <1>14

\* The time that readings span.
LEMMA SpanIs ==
  ASSUME NEW rs \in Seq(Readings)
  PROVE  Span(rs) \in Nat /\ \A i \in 2 .. Len(rs) : rs[i].after > 0 => Span(rs) >= 1
<1> DEFINE w == [j \in 2 .. Len(rs) |-> rs[j].after]
<1>1. IsFiniteSet(2 .. Len(rs))
  <2>1. Len(rs) \in Int
    OBVIOUS
  <2> QED
    BY ONLY <2>1, 2 \in Int, FS_Interval
<1>2. \A j \in 2 .. Len(rs) : w[j] \in Nat /\ w[j] = rs[j].after
  <2> SUFFICES ASSUME NEW j \in 2 .. Len(rs) PROVE rs[j].after \in Nat
    OBVIOUS
  <2>1. rs[j] \in Readings
    OBVIOUS
  <2> QED
    BY <2>1 DEF Readings, Gaps
<1>3. Span(rs) = SumOver(w, 2 .. Len(rs))
  BY DEF Span
<1> HIDE DEF w
<1>4. Naturals(w, 2 .. Len(rs))
  BY <1>1, <1>2 DEF Naturals
<1>5. Span(rs) = Total(w, 2 .. Len(rs))
  BY <1>3, <1>4, SumOverIs
<1>6. Total(w, 2 .. Len(rs)) \in Nat
  <2>1. 2 .. Len(rs) \in SUBSET (2 .. Len(rs))
    OBVIOUS
  <2> QED
    BY <1>4, <2>1, TotalOfPart
<1>7. ASSUME NEW i \in 2 .. Len(rs), rs[i].after > 0 PROVE Span(rs) >= 1
  <2>1. Total(w, 2 .. Len(rs)) = w[i] + Total(w, (2 .. Len(rs)) \ {i}) /\ Total(w, (2 .. Len(rs)) \ {i}) \in Nat
    BY <1>4, TotalWithout
  <2> QED
    BY <1>2, <1>5, <1>7, <2>1
<1> QED
  BY <1>5, <1>6, <1>7

\* What ComputeRates says of a model.
LEMMA ModelRateIs ==
  ASSUME NEW rs \in Seq(Readings), NEW m \in Models
  PROVE  LET rate == ModelRate(rs, m) IN
         /\ rate # NoRate <=> Uses(rs, m) # {} /\ Span(rs) >= 1
         /\ rate # NoRate =>
              /\ IsRatio(rate) /\ rate.num > 0
              /\ \E i \in Uses(rs, m) : AtMost(rate, Ratio(PerHour(rs, m, i), 1))
              /\ \E i \in Uses(rs, m) : AtMost(Ratio(PerHour(rs, m, i), 1), rate)
<1> DEFINE n == Cardinality(Pairs(rs, m))
<1>1. Uses(rs, m) = Decreases(rs, m) /\ Uses(rs, m) \subseteq 2 .. Len(rs)
  BY PairFacts
<1>2. CASE Uses(rs, m) = {}
  <2>1. ModelRate(rs, m) = NoRate
    BY <1>1, <1>2 DEF ModelRate, Weighted
  <2> QED
    BY <1>2, <2>1
<1>3. CASE Uses(rs, m) # {}
  <2>1. PICK i \in Pairs(rs, m) : i \in 2 .. Len(rs) /\ rs[i].after > 0
    BY <1>1, <1>3, PairFacts DEF Pairs
  <2>2. n \in Nat \ {0}
    <3>1. n \in Nat /\ n # 0
      BY <2>1, PairFacts, FS_CardinalityType, FS_EmptySet
    <3> QED
      BY <3>1
  <2>3. Span(rs) >= 1
    BY <2>1, SpanIs
  <2>4. Len(rs) >= 2
    BY <2>1
  <2>5. ~(Span(rs) < 1) /\ ~(Len(rs) < 2)
    <3>1. Span(rs) \in Int
      BY SpanIs
    <3> QED
      BY <2>3, <2>4, <3>1
  <2>6. ModelRate(rs, m) = Weighted(rs, m, n)
    BY <2>5 DEF ModelRate
  <2> HIDE DEF n
  <2> QED
    BY <1>1, <1>3, <2>2, <2>3, <2>6, WeightedIs
<1> QED
  BY <1>2, <1>3

\* The readings of a request.
LEMMA ReadingsOf ==
  ASSUME NEW q \in Usages
  PROVE  /\ Recent(q) \in Seq(Readings) /\ Len(Recent(q)) = q.recent /\ q.recent \in Nat
         /\ FoundReadings(q) \in Seq(Readings)
         /\ q.rows # "program" => Len(FoundReadings(q)) = q.sinceMidnight /\ q.sinceMidnight \in Nat
<1>1. /\ q.readings \in Seq(Readings) /\ q.recent \in Nat /\ q.sinceMidnight \in Nat
      /\ q.recent <= Len(q.readings) /\ q.sinceMidnight <= Len(q.readings)
  BY DEF Usages
<1>2. \A s \in Seq(Readings), n \in Nat : n <= Len(s) =>
        /\ SubSeq(s, Len(s) - n + 1, Len(s)) \in Seq(Readings)
        /\ Len(SubSeq(s, Len(s) - n + 1, Len(s))) = n
  <2> SUFFICES ASSUME NEW s \in Seq(Readings), NEW n \in Nat, n <= Len(s)
               PROVE  /\ SubSeq(s, Len(s) - n + 1, Len(s)) \in Seq(Readings)
                      /\ Len(SubSeq(s, Len(s) - n + 1, Len(s))) = n
    OBVIOUS
  <2> QED
    OBVIOUS
<1>3. Recent(q) \in Seq(Readings) /\ Len(Recent(q)) = q.recent
  BY <1>1, <1>2 DEF Recent
<1>4. FoundReadings(q) \in Seq(Readings) /\ (q.rows # "program" => Len(FoundReadings(q)) = q.sinceMidnight)
  BY <1>1, <1>2 DEF FoundReadings
<1> QED
  BY <1>1, <1>3, <1>4

\* Each part of ForecastsHold in turn.
LEMMA ObservedThen == usage \in Usages => RatesAreObserved
<1> SUFFICES ASSUME usage \in Usages PROVE RatesAreObserved
  OBVIOUS
<1>1. Recent(usage) \in Seq(Readings)
  BY ReadingsOf
<1> QED
  BY <1>1, ModelRateIs DEF RatesAreObserved

LEMMA AgreeThen == usage \in Usages => RatesAgree
<1> DEFINE rs == Recent(usage)
<1> SUFFICES ASSUME usage \in Usages, NEW m \in Models, Len(rs) >= 2,
                    Cardinality(Pairs(rs, m)) = Len(rs) - 1
             PROVE  ModelRate(rs, m) = WindowRate(rs, m)
  BY DEF RatesAgree
<1>1. rs \in Seq(Readings)
  BY ReadingsOf
<1> HIDE DEF rs
<1>2. Pairs(rs, m) # {} /\ Pairs(rs, m) \subseteq 2 .. Len(rs)
  <2>1. Cardinality(Pairs(rs, m)) # 0
    <3> DEFINE c == Cardinality(Pairs(rs, m)) n == Len(rs)
    <3>1. n \in Nat /\ n >= 2 /\ c = n - 1
      BY <1>1
    <3> HIDE DEF c, n
    <3>2. c # 0
      BY <3>1
    <3> QED
      BY <3>2 DEF c
  <2> QED
    BY <1>1, <2>1, PairFacts, FS_EmptySet
<1>3. PICK i \in 2 .. Len(rs) : rs[i].after > 0
  BY <1>2 DEF Pairs
<1>4. ~(Span(rs) < 1) /\ ~(Len(rs) < 2)
  <2>1. Span(rs) >= 1 /\ Span(rs) \in Nat /\ Len(rs) \in Nat
    BY <1>1, <1>3, SpanIs
  <2> QED
    BY <2>1
<1> QED
  BY <1>4 DEF ModelRate, WindowRate

LEMMA MediantStep ==
  ASSUME NEW a \in Nat, NEW b \in Nat, NEW p \in Nat, NEW q \in Nat, NEW n \in Nat, NEW d \in Nat,
         NEW k \in Nat, NEW l \in Nat
  PROVE  /\ a * p <= b * (k * q) /\ a * n <= b * (l * d) =>
              a * (p * d + n * q) <= b * ((k + l) * (q * d))
         /\ b * (k * q) <= a * p /\ b * (l * d) <= a * n =>
              b * ((k + l) * (q * d)) <= a * (p * d + n * q)
<1> DEFINE A == a * p B == b * (k * q) C == a * n D == b * (l * d)
<1>1. A \in Nat /\ B \in Nat /\ C \in Nat /\ D \in Nat
  BY TimesNat
<1>2. a * (p * d + n * q) = A * d + C * q
  OBVIOUS
<1>3. b * ((k + l) * (q * d)) = B * d + D * q
  OBVIOUS
<1> HIDE DEF A, B, C, D
<1>4. A <= B /\ C <= D => A * d + C * q <= B * d + D * q
  <2> SUFFICES ASSUME A <= B, C <= D PROVE A * d + C * q <= B * d + D * q
    OBVIOUS
  <2>1. A * d <= B * d /\ C * q <= D * q
    BY <1>1, TimesKeeps
  <2>2. A * d \in Nat /\ B * d \in Nat /\ C * q \in Nat /\ D * q \in Nat
    BY <1>1, TimesNat
  <2> QED
    BY <2>1, <2>2
<1>5. B <= A /\ D <= C => B * d + D * q <= A * d + C * q
  <2> SUFFICES ASSUME B <= A, D <= C PROVE B * d + D * q <= A * d + C * q
    OBVIOUS
  <2>1. B * d <= A * d /\ D * q <= C * q
    BY <1>1, TimesKeeps
  <2>2. A * d \in Nat /\ B * d \in Nat /\ C * q \in Nat /\ D * q \in Nat
    BY <1>1, TimesNat
  <2> QED
    BY <2>1, <2>2
<1> QED
  BY <1>2, <1>3, <1>4, <1>5 DEF A, B, C, D

Ratios == [num : Nat, den : Nat \ {0}]

\* Ratios and their sums.
LEMMA RatioIs == \A x \in Ratios : x = Ratio(x.num, x.den) /\ x.num \in Nat /\ x.den \in Nat \ {0}
  BY DEF Ratios, Ratio

LEMMA PlusIs ==
  \A x, y : IsRatio(x) /\ IsRatio(y) =>
    /\ PlusRatio(x, y) \in Ratios
    /\ PlusRatio(x, y).num = x.num * y.den + y.num * x.den
    /\ PlusRatio(x, y).den = x.den * y.den
    /\ y.num > 0 => PlusRatio(x, y).num > 0
<1> SUFFICES ASSUME NEW x, NEW y, IsRatio(x), IsRatio(y)
             PROVE  /\ PlusRatio(x, y) \in Ratios
                    /\ PlusRatio(x, y).num = x.num * y.den + y.num * x.den
                    /\ PlusRatio(x, y).den = x.den * y.den
                    /\ y.num > 0 => PlusRatio(x, y).num > 0
  OBVIOUS
<1> DEFINE a == x.num b == x.den c == y.num d == y.den
<1>1. a \in Nat /\ b \in Nat \ {0} /\ c \in Nat /\ d \in Nat \ {0}
  BY DEF IsRatio
<1>2. PlusRatio(x, y) = [num |-> a * d + c * b, den |-> b * d]
  BY DEF PlusRatio, Ratio
<1> HIDE DEF a, b, c, d
<1>3. a * d \in Nat /\ c * b \in Nat /\ b * d \in Nat \ {0} /\ (c > 0 => c * b > 0)
  BY <1>1, TimesNat
<1>4. a * d + c * b \in Nat /\ (c > 0 => a * d + c * b > 0)
  BY <1>3
<1> QED
  BY <1>2, <1>3, <1>4 DEF Ratios, a, b, c, d

\* The sum of rates that the model writes as a fold.
RateSumIs(F, rates, S) ==
  F = [s \in SUBSET S |->
         IF s = {} THEN NoRate ELSE PlusRatio(F[s \ {Some(s)}], rates[Some(s)])]

\* A sum of rates is a fold over a finite set.
LEMMA RateSumExists ==
  ASSUME NEW rates, NEW S, IsFiniteSet(S), \A m \in S : IsRatio(rates[m])
  PROVE  \E F \in [SUBSET S -> Ratios] : RateSumIs(F, rates, S) /\ RateSum(rates, S) = F[S]
<1> DEFINE step == [p \in S \X Ratios |-> PlusRatio(p[2], rates[p[1]])]
           pick == [s \in SUBSET S |-> Some(s)]
           it == CHOOSE it : it = [s \in SUBSET S |->
                   IF s = {} THEN NoRate
                     ELSE PlusRatio(it[s \ {CHOOSE x \in s : TRUE}], rates[CHOOSE x \in s : TRUE])]
<1>1. \A m \in S, r \in Ratios : step[<<m, r>>] = PlusRatio(r, rates[m]) /\ step[<<m, r>>] \in Ratios
  <2>1. \A m \in S, r \in Ratios : PlusRatio(r, rates[m]) \in Ratios
    BY RatioIs, PlusIs DEF IsRatio
  <2> QED
    BY <2>1
<1>2. \A s \in SUBSET S : pick[s] = Some(s) /\ (s # {} => pick[s] \in s)
  BY DEF Some
<1>3. NoRate \in Ratios
  BY DEF NoRate, Ratio, Ratios
<1>4. PICK F \in [SUBSET S -> Ratios] : FoldIs(F, S, NoRate, step, pick)
  <2> HIDE DEF step, pick
  <2> QED
    BY <1>1, <1>2, <1>3, FoldExists
<1>5. \A s \in SUBSET S : F[s] = IF s = {} THEN NoRate ELSE PlusRatio(F[s \ {Some(s)}], rates[Some(s)])
  <2> HIDE DEF step, pick
  <2> SUFFICES ASSUME NEW s \in SUBSET S, s # {} PROVE F[s] = PlusRatio(F[s \ {Some(s)}], rates[Some(s)])
    BY <1>4 DEF FoldIs
  <2>1. F[s] = step[<<pick[s], F[s \ {pick[s]}]>>]
    BY <1>4 DEF FoldIs
  <2>2. pick[s] \in S /\ pick[s] = Some(s) /\ F[s \ {pick[s]}] \in Ratios
    BY <1>2, <1>4
  <2> QED
    BY <1>1, <2>1, <2>2
<1>6. RateSumIs(F, rates, S)
  BY <1>4, <1>5 DEF RateSumIs
<1>7. F = [s \in SUBSET S |->
             IF s = {} THEN NoRate
               ELSE PlusRatio(F[s \ {CHOOSE x \in s : TRUE}], rates[CHOOSE x \in s : TRUE])]
  BY <1>6 DEF RateSumIs, Some
<1>8. it = [s \in SUBSET S |->
              IF s = {} THEN NoRate
                ELSE PlusRatio(it[s \ {CHOOSE x \in s : TRUE}], rates[CHOOSE x \in s : TRUE])]
  BY <1>7, Zenon
<1>9. RateSum(rates, S) = it[S]
  BY Zenon DEF RateSum, FoldSet, MapThenFoldSet, it
<1> HIDE DEF it, step, pick
<1>10. RateSumIs(it, rates, S)
  BY <1>8 DEF RateSumIs, Some
<1> DEFINE E == {s \in SUBSET S : it[s] = F[s]}
<1>11. {} \in E
  BY <1>6, <1>10 DEF RateSumIs
<1>12. ASSUME NEW s \in SUBSET S, s # {}, \A t \in SUBSET s : t # s => t \in E PROVE s \in E
  <2>1. Some(s) \in s
    BY <1>12 DEF Some
  <2>2. s \ {Some(s)} \in E
    <3>1. s \ {Some(s)} \in SUBSET s /\ s \ {Some(s)} # s
      BY <2>1
    <3> HIDE DEF E
    <3> QED
      BY <3>1, <1>12
  <2>3. F[s] = PlusRatio(F[s \ {Some(s)}], rates[Some(s)])
    BY <1>5, <1>12
  <2>4. it[s] = PlusRatio(it[s \ {Some(s)}], rates[Some(s)])
    BY <1>10, <1>12 DEF RateSumIs
  <2> QED
    BY <2>2, <2>3, <2>4
<1>13. S \in E
  <2>1. \A s \in SUBSET S : s \in E
    <3> HIDE DEF E
    <3> QED
      BY <1>11, <1>12, SubsetInduction
  <2> QED
    BY <2>1
<1> QED
  BY <1>4, <1>6, <1>9, <1>13

\* Bounds of a sum of ratios by a sum of numbers, term by term.
LEMMA RateSumBounds ==
  ASSUME NEW rates, NEW S, IsFiniteSet(S), S # {}, \A m \in S : IsRatio(rates[m]) /\ rates[m].num > 0,
         NEW l, Naturals(l, S), NEW a \in Nat, NEW b \in Nat
  PROVE  LET sum == RateSum(rates, S) IN
         /\ IsRatio(sum) /\ sum.num > 0
         /\ (\A m \in S : a * rates[m].num <= b * (l[m] * rates[m].den)) =>
               a * sum.num <= b * (Total(l, S) * sum.den)
         /\ (\A m \in S : b * (l[m] * rates[m].den) <= a * rates[m].num) =>
               b * (Total(l, S) * sum.den) <= a * sum.num
<1> DEFINE Up(p, k) == a * p.num <= b * (k * p.den)
           Down(p, k) == b * (k * p.den) <= a * p.num
<1>1. PICK F \in [SUBSET S -> Ratios] : RateSumIs(F, rates, S) /\ RateSum(rates, S) = F[S]
  BY RateSumExists
<1> DEFINE E == {s \in SUBSET S :
                   /\ s # {} => F[s].num > 0
                   /\ (\A m \in s : Up(rates[m], l[m])) => Up(F[s], Total(l, s))
                   /\ (\A m \in s : Down(rates[m], l[m])) => Down(F[s], Total(l, s))}
<1>2. {} \in E
  <2>1. F[{}].num = 0 /\ F[{}].den = 1 /\ Total(l, {}) = 0
    BY <1>1, TotalEmpty DEF RateSumIs, NoRate, Ratio
  <2> QED
    BY <2>1
<1>3. ASSUME NEW s \in SUBSET S, s # {}, \A t \in SUBSET s : t # s => t \in E PROVE s \in E
  <2> DEFINE x == Some(s)
  <2>1. x \in s
    BY <1>3 DEF Some
  <2>2. F[s] = PlusRatio(F[s \ {x}], rates[x])
    BY <1>1, <1>3 DEF RateSumIs
  <2> HIDE DEF x
  <2>3. s \ {x} \in E
    <3>1. s \ {x} \in SUBSET s /\ s \ {x} # s
      BY <2>1
    <3> HIDE DEF E
    <3> QED
      BY <3>1, <1>3
  <2>4. Total(l, s) = l[x] + Total(l, s \ {x}) /\ Total(l, s \ {x}) \in Nat /\ l[x] \in Nat
    <3>1. Naturals(l, s)
      BY FS_Subset DEF Naturals
    <3> QED
      BY ONLY <2>1, <3>1, TotalWithout
  <2> DEFINE f == F[s \ {x}] r == rates[x] k == Total(l, s \ {x}) j == l[x]
  <2>5. /\ f.num \in Nat /\ f.den \in Nat \ {0} /\ IsRatio(f)
        /\ r.num \in Nat /\ r.den \in Nat \ {0} /\ IsRatio(r) /\ r.num > 0
        /\ k \in Nat /\ j \in Nat /\ Total(l, s) = k + j
    <3>1. f \in Ratios /\ IsRatio(r) /\ r.num > 0
      BY <1>1, <2>1
    <3>2. f.num \in Nat /\ f.den \in Nat \ {0}
      BY <3>1, RatioIs
    <3> QED
      BY <2>4, <3>1, <3>2 DEF IsRatio
  <2> HIDE DEF f, r, k, j
  <2>6. /\ F[s] = PlusRatio(f, r) /\ F[s].num = f.num * r.den + r.num * f.den
        /\ F[s].den = f.den * r.den /\ F[s].num > 0
    <3>1. F[s] = PlusRatio(f, r)
      BY <2>2 DEF f, r
    <3> QED
      BY <3>1, <2>5, PlusIs
  <2>7. Up(f, k) /\ Up(r, j) => Up(F[s], Total(l, s))
    <3>1. a * f.num <= b * (k * f.den) /\ a * r.num <= b * (j * r.den) =>
            a * (f.num * r.den + r.num * f.den) <= b * ((k + j) * (f.den * r.den))
      BY <2>5, MediantStep
    <3> QED
      BY <2>5, <2>6, <3>1
  <2>8. Down(f, k) /\ Down(r, j) => Down(F[s], Total(l, s))
    <3>1. b * (k * f.den) <= a * f.num /\ b * (j * r.den) <= a * r.num =>
            b * ((k + j) * (f.den * r.den)) <= a * (f.num * r.den + r.num * f.den)
      BY <2>5, MediantStep
    <3> QED
      BY <2>5, <2>6, <3>1
  <2> HIDE DEF Up, Down
  <2>9. /\ (\A m \in s : Up(rates[m], l[m])) => Up(f, k) /\ Up(r, j)
        /\ (\A m \in s : Down(rates[m], l[m])) => Down(f, k) /\ Down(r, j)
    BY <2>1, <2>3 DEF f, r, k, j
  <2> QED
    BY <2>6, <2>7, <2>8, <2>9
<1>4. S \in E
  <2>1. \A s \in SUBSET S : s \in E
    <3> HIDE DEF E
    <3> QED
      BY <1>2, <1>3, SubsetInduction
  <2> QED
    BY <2>1
<1>5. IsRatio(F[S])
  BY <1>1, RatioIs DEF IsRatio
<1> QED
  BY <1>1, <1>4, <1>5

\* What is left of the models that the latest reading tells of.
LEMMA LeftIs ==
  ASSUME NEW q \in Usages, q.readings # <<>>
  PROVE  /\ IsFiniteSet(Present(q)) /\ Present(q) \subseteq Models
         /\ \A m \in Present(q) : LeftNow(q, m) \in 0 .. Full
         /\ Present(q) # {} =>
              /\ Cardinality(Present(q)) \in Nat \ {0}
              /\ Naturals([m \in Present(q) |-> LeftNow(q, m)], Present(q))
              /\ Total([m \in Present(q) |-> LeftNow(q, m)], Present(q)) \in Nat
              /\ Remaining(q) = Ratio(Total([m \in Present(q) |-> LeftNow(q, m)], Present(q)),
                                      Cardinality(Present(q)))
<1>1. Present(q) \subseteq Models /\ IsFiniteSet(Present(q))
  <2>1. Present(q) \subseteq Models
    BY DEF Present
  <2> QED
    BY <2>1, ForecastAssumption, FS_Subset
<1>2. ASSUME NEW m \in Present(q) PROVE LeftNow(q, m) \in 0 .. Full
  <2>1. m \in Models /\ Latest(q)[m] # Absent
    BY DEF Present
  <2>2. q.readings \in Seq(Readings) /\ Len(q.readings) \in 1 .. Len(q.readings)
    BY DEF Usages
  <2>3. q.readings[Len(q.readings)].left[m] \in {Absent} \cup 0 .. Full
    BY <2>1, <2>2, PairFacts
  <2> QED
    BY <2>1, <2>3, ForecastAssumption DEF LeftNow, Latest
<1> DEFINE w == [m \in Present(q) |-> LeftNow(q, m)]
<1>3. Naturals(w, Present(q))
  BY <1>1, <1>2 DEF Naturals
<1>4. Present(q) # {} => Remaining(q) = Ratio(SumOver(w, Present(q)), Cardinality(Present(q)))
  BY DEF Remaining
<1>5. Total(w, Present(q)) \in Nat
  <2>1. Present(q) \in SUBSET Present(q)
    OBVIOUS
  <2> HIDE DEF w
  <2> QED
    BY <1>3, <2>1, TotalOfPart
<1>6. SumOver(w, Present(q)) = Total(w, Present(q))
  <2> HIDE DEF w
  <2> QED
    BY <1>3, SumOverIs
<1>7. Present(q) # {} => Cardinality(Present(q)) \in Nat \ {0}
  <2>1. Present(q) # {} => Cardinality(Present(q)) # 0
    BY <1>1, FS_EmptySet
  <2> QED
    BY <1>1, <2>1, FS_CardinalityType
<1> QED
  BY <1>1, <1>2, <1>3, <1>4, <1>5, <1>6, <1>7

\* What a group of rated models is said of, in numbers.
LEMMA BurnIs ==
  ASSUME NEW q \in Usages
  PROVE  LET rates == Rates(q)
             S == Rated(rates)
             sum == RateSum(rates, S)
         IN  /\ S \subseteq Models /\ IsFiniteSet(S)
             /\ \A m \in S : IsRatio(rates[m]) /\ rates[m].num > 0
             /\ S = {} => BurnRate(rates) = NoRate
             /\ S # {} => /\ IsRatio(sum) /\ sum.num > 0 /\ Cardinality(S) \in Nat \ {0}
                          /\ BurnRate(rates) = Ratio(sum.num, sum.den * Cardinality(S))
                          /\ BurnRate(rates) # NoRate
<1> DEFINE rates == Rates(q)
           S == Rated(rates)
           sum == RateSum(rates, S)
<1>1. S \subseteq Models /\ IsFiniteSet(S)
  <2>1. S \subseteq Models
    BY DEF Rated
  <2> QED
    BY <2>1, ForecastAssumption, FS_Subset
<1>2. \A m \in S : IsRatio(rates[m]) /\ rates[m].num > 0
  <2> SUFFICES ASSUME NEW m \in S PROVE IsRatio(rates[m]) /\ rates[m].num > 0
    OBVIOUS
  <2>1. m \in Models /\ rates[m] # NoRate
    BY DEF Rated
  <2>2. rates[m] = ModelRate(Recent(q), m)
    BY <2>1 DEF Rates
  <2>3. Recent(q) \in Seq(Readings)
    BY ReadingsOf
  <2> HIDE DEF rates
  <2> QED
    BY <2>1, <2>2, <2>3, ModelRateIs
<1> HIDE DEF rates
<1>3. S = {} => BurnRate(rates) = NoRate
  BY DEF BurnRate
<1>4. ASSUME S # {}
      PROVE  /\ IsRatio(sum) /\ sum.num > 0 /\ Cardinality(S) \in Nat \ {0}
             /\ BurnRate(rates) = Ratio(sum.num, sum.den * Cardinality(S))
             /\ BurnRate(rates) # NoRate
  <2> DEFINE l == [m \in S |-> 0]
  <2>1. Naturals(l, S)
    BY <1>1 DEF Naturals
  <2> HIDE DEF S, l
  <2>2. IsRatio(RateSum(rates, S)) /\ RateSum(rates, S).num > 0
    <3>1. 0 \in Nat
      OBVIOUS
    <3> QED
      BY ONLY <1>1, <1>2, <1>4, <2>1, <3>1, RateSumBounds
  <2>3. Cardinality(S) \in Nat \ {0}
    BY <1>1, <1>4, FS_CardinalityType, FS_EmptySet
  <2>4. BurnRate(rates) = Ratio(sum.num, sum.den * Cardinality(S))
    BY <1>4 DEF BurnRate, S
  <2>5. Ratio(sum.num, sum.den * Cardinality(S)) # NoRate
    BY <2>2 DEF Ratio, NoRate
  <2> QED
    BY <2>2, <2>3, <2>4, <2>5
<1> QED
  BY <1>1, <1>2, <1>3, <1>4 DEF rates

\* What is told, by fields.
LEMMA SaidIs ==
  /\ Said(usage).group = AccountForecast(usage)
  /\ Said(usage).costed = CostShown(usage, AccountForecast(usage))
  /\ Said(usage).cost = GroupCost(usage, CostShown(usage, AccountForecast(usage)))
  /\ Said(usage).windows = {m \in Models : WindowForecast(FoundReadings(usage), m) # NoForecast}
  BY DEF Said, SaidWith

LEMMA ScaledBound ==
  ASSUME NEW a \in Nat, NEW b \in Nat, NEW s \in Nat, NEW k \in Nat, NEW d \in Nat, NEW n \in Nat
  PROVE  /\ a * s <= b * (k * d) => a * (n * s) <= (k * (d * n)) * b
         /\ b * (k * d) <= a * s => (k * (d * n)) * b <= a * (n * s)
<1> DEFINE u == a * s v == b * (k * d)
<1>1. u \in Nat /\ v \in Nat
  BY TimesNat
<1>2. a * (n * s) = u * n /\ (k * (d * n)) * b = v * n
  OBVIOUS
<1> HIDE DEF u, v
<1>3. (u <= v => u * n <= v * n) /\ (v <= u => v * n <= u * n)
  BY <1>1, TimesKeeps
<1> QED
  BY <1>2, <1>3 DEF u, v

\* The time until a group ends lies between those of its models.
LEMMA GroupHours ==
  ASSUME NEW rates, NEW S, IsFiniteSet(S), S # {}, \A m \in S : IsRatio(rates[m]) /\ rates[m].num > 0,
         NEW w, Naturals(w, S), NEW n \in Nat \ {0}
  PROVE  LET sum == RateSum(rates, S)
             hours == Quotient(Ratio(Total(w, S), n), Ratio(sum.num, sum.den * n))
             Ends(m) == Quotient(Ratio(w[m], 1), rates[m])
         IN  /\ IsRatio(hours) /\ \A m \in S : IsRatio(Ends(m))
             /\ \E m \in S : AtMost(Ends(m), hours)
             /\ \E m \in S : AtMost(hours, Ends(m))
<1> DEFINE sum == RateSum(rates, S)
           k == Total(w, S)
           hours == Quotient(Ratio(k, n), Ratio(sum.num, sum.den * n))
           ends == [m \in S |-> Quotient(Ratio(w[m], 1), rates[m])]
<1>1. IsRatio(sum) /\ sum.num > 0
  <2>1. 0 \in Nat
    OBVIOUS
  <2> QED
    BY ONLY <2>1, IsFiniteSet(S), S # {}, \A m \in S : IsRatio(rates[m]) /\ rates[m].num > 0,
            Naturals(w, S), RateSumBounds
<1>2. k \in Nat
  <2>1. S \in SUBSET S
    OBVIOUS
  <2> QED
    BY <2>1, TotalOfPart
<1> HIDE DEF sum, k
<1>3. /\ hours.num = k * (sum.den * n) /\ hours.den = n * sum.num /\ IsRatio(hours)
  <2>1. sum.num \in Nat \ {0} /\ sum.den \in Nat
    BY <1>1 DEF IsRatio
  <2>2. hours = [num |-> k * (sum.den * n), den |-> n * sum.num]
    BY DEF Quotient, Ratio
  <2> HIDE DEF hours
  <2>3. k * (sum.den * n) \in Nat /\ n * sum.num \in Nat \ {0}
    BY <1>2, <2>1, TimesNat
  <2> QED
    BY <2>2, <2>3 DEF IsRatio
<1>4. ASSUME NEW m \in S
      PROVE  /\ ends[m].num = w[m] * rates[m].den /\ ends[m].den = rates[m].num /\ IsRatio(ends[m])
             /\ w[m] \in Nat /\ rates[m].num \in Nat \ {0} /\ rates[m].den \in Nat
  <2>1. rates[m].num \in Nat \ {0} /\ rates[m].den \in Nat /\ w[m] \in Nat
    BY DEF IsRatio, Naturals
  <2>2. ends[m] = [num |-> w[m] * rates[m].den, den |-> 1 * rates[m].num]
    BY DEF Quotient, Ratio
  <2>3. w[m] * rates[m].den \in Nat /\ 1 * rates[m].num = rates[m].num
    BY <2>1, TimesNat
  <2> HIDE DEF ends
  <2> QED
    BY <2>1, <2>2, <2>3 DEF IsRatio
<1> HIDE DEF hours
<1>5. \A m \in S : ends[m] = Quotient(Ratio(w[m], 1), rates[m])
  OBVIOUS
<1> HIDE DEF ends
<1>6. PICK l \in S, u \in S : \A m \in S : AtMost(ends[l], ends[m]) /\ AtMost(ends[m], ends[u])
  BY <1>4, RatioBounds
<1>7. AtMost(ends[l], hours)
  <2> DEFINE a == ends[l].num b == ends[l].den
  <2>1. a \in Nat /\ b \in Nat
    BY <1>4 DEF IsRatio
  <2> HIDE DEF a, b
  <2>2. \A m \in S : a * rates[m].num <= b * (w[m] * rates[m].den)
    <3> SUFFICES ASSUME NEW m \in S PROVE a * rates[m].num <= b * (w[m] * rates[m].den)
      OBVIOUS
    <3>1. a * rates[m].num <= (w[m] * rates[m].den) * b
      BY <1>4, <1>6 DEF AtMost, a, b
    <3>2. w[m] * rates[m].den \in Nat
      BY <1>4, TimesNat
    <3>3. (w[m] * rates[m].den) * b = b * (w[m] * rates[m].den)
      BY <2>1, <3>2
    <3> QED
      BY <3>1, <3>3
  <2>3. a * sum.num <= b * (k * sum.den)
    BY <2>1, <2>2, RateSumBounds DEF sum, k
  <2>4. a * (n * sum.num) <= (k * (sum.den * n)) * b
    <3>1. sum.num \in Nat /\ sum.den \in Nat
      BY <1>1 DEF IsRatio
    <3> QED
      BY <1>2, <2>1, <2>3, <3>1, ScaledBound
  <2> QED
    BY <1>3, <2>4 DEF AtMost, a, b
<1>8. AtMost(hours, ends[u])
  <2> DEFINE a == ends[u].num b == ends[u].den
  <2>1. a \in Nat /\ b \in Nat
    BY <1>4 DEF IsRatio
  <2> HIDE DEF a, b
  <2>2. \A m \in S : b * (w[m] * rates[m].den) <= a * rates[m].num
    <3> SUFFICES ASSUME NEW m \in S PROVE b * (w[m] * rates[m].den) <= a * rates[m].num
      OBVIOUS
    <3>1. (w[m] * rates[m].den) * b <= a * rates[m].num
      BY <1>4, <1>6 DEF AtMost, a, b
    <3>2. w[m] * rates[m].den \in Nat
      BY <1>4, TimesNat
    <3>3. (w[m] * rates[m].den) * b = b * (w[m] * rates[m].den)
      BY <2>1, <3>2
    <3> QED
      BY <3>1, <3>3
  <2>3. b * (k * sum.den) <= a * sum.num
    BY <2>1, <2>2, RateSumBounds DEF sum, k
  <2>4. (k * (sum.den * n)) * b <= a * (n * sum.num)
    <3>1. sum.num \in Nat /\ sum.den \in Nat
      BY <1>1 DEF IsRatio
    <3> QED
      BY <1>2, <2>1, <2>3, <3>1, ScaledBound
  <2> QED
    BY <1>3, <2>4 DEF AtMost, a, b
<1> QED
  BY <1>3, <1>4, <1>5, <1>7, <1>8 DEF sum, k, hours

LEMMA GroupThen ==
  usage \in Usages /\ usage.readings # <<>> => GroupLastsLikeModels(Said(usage), Rates(usage))
<1> DEFINE q == usage
           rates == Rates(q)
           f == AccountForecast(q)
           S == Present(q)
           Ends(m) == Quotient(Ratio(LeftNow(q, m), 1), rates[m])
<1> SUFFICES ASSUME q \in Usages, q.readings # <<>>, f # NoForecast, Rated(rates) # {}, Rated(rates) = S
             PROVE  /\ \E m \in S : AtMost(Ends(m), f.hours)
                    /\ \E m \in S : AtMost(f.hours, Ends(m))
                    /\ q.reset > 0 =>
                         /\ (\A m \in S : LeftNow(q, m) > 0 /\ Less(Ends(m), Ratio(q.reset, 1)))
                              => f.willExhaust
                         /\ (\A m \in S : ~Less(Ends(m), Ratio(q.reset, 1))) => ~f.willExhaust
  BY SaidIs DEF GroupLastsLikeModels
<1> DEFINE w == [m \in S |-> LeftNow(q, m)]
           n == Cardinality(S)
           sum == RateSum(rates, S)
           left == Ratio(Total(w, S), n)
           burn == Ratio(sum.num, sum.den * n)
           hours == Quotient(left, burn)
<1>1. /\ IsFiniteSet(S) /\ S # {} /\ n \in Nat \ {0} /\ Naturals(w, S)
      /\ Remaining(q) = left /\ Total(w, S) \in Nat
  BY LeftIs
<1>2. /\ \A m \in S : IsRatio(rates[m]) /\ rates[m].num > 0
      /\ IsRatio(sum) /\ sum.num > 0 /\ BurnRate(rates) = burn
  BY BurnIs
<1>3. f = ForecastFrom(burn, left, q.reset)
  <2>1. f = GroupForecast(q, rates)
    BY DEF AccountForecast
  <2>2. f = ForecastFrom(BurnRate(rates), Remaining(q), q.reset)
    BY <2>1 DEF GroupForecast
  <2> QED
    BY <1>1, <1>2, <2>2
<1> HIDE DEF f
<1>4. burn.num = sum.num /\ left.num = Total(w, S)
  BY DEF Ratio
<1>5. f.hours = hours /\ f.willExhaust = (/\ burn.num > 0 /\ left.num > 0 /\ q.reset > 0
                                           /\ Less(hours, Ratio(q.reset, 1)))
  BY <1>2, <1>3, <1>4 DEF ForecastFrom
<1>6. \A m \in S : w[m] = LeftNow(q, m)
  OBVIOUS
<1> HIDE DEF w
<1>7. /\ IsRatio(hours) /\ \A m \in S : IsRatio(Quotient(Ratio(w[m], 1), rates[m]))
      /\ \E m \in S : AtMost(Quotient(Ratio(w[m], 1), rates[m]), hours)
      /\ \E m \in S : AtMost(hours, Quotient(Ratio(w[m], 1), rates[m]))
  <2> HIDE DEF S, rates, n
  <2> QED
    BY ONLY <1>1, <1>2, GroupHours
<1>8. /\ \A m \in S : IsRatio(Ends(m))
      /\ \E m \in S : AtMost(Ends(m), hours)
      /\ \E m \in S : AtMost(hours, Ends(m))
  BY <1>6, <1>7
<1> HIDE DEF hours, left, burn, rates
<1>9. q.reset > 0 => IsRatio(Ratio(q.reset, 1))
  <2>1. q.reset \in Nat \cup {NoTime}
    BY DEF Usages
  <2> QED
    BY <2>1 DEF IsRatio, Ratio, NoTime
<1>10. ASSUME q.reset > 0, \A m \in S : LeftNow(q, m) > 0 /\ Less(Ends(m), Ratio(q.reset, 1))
       PROVE  f.willExhaust
  <2>1. PICK m \in S : AtMost(hours, Ends(m))
    BY <1>8
  <2>2. Less(hours, Ratio(q.reset, 1))
    <3> HIDE DEF Ends
    <3>1. IsRatio(hours) /\ IsRatio(Ends(m)) /\ IsRatio(Ratio(q.reset, 1)) /\ Less(Ends(m), Ratio(q.reset, 1))
      BY <1>7, <1>8, <1>9, <1>10, <2>1
    <3> QED
      BY ONLY <2>1, <3>1, AtMostGoesOn
  <2>3. Total(w, S) = w[m] + Total(w, S \ {m}) /\ Total(w, S \ {m}) \in Nat /\ w[m] \in Nat
    BY ONLY <1>1, m \in S, TotalWithout
  <2>4. Total(w, S) > 0
    BY <1>6, <1>10, <2>3
  <2> QED
    BY <1>2, <1>4, <1>5, <1>10, <2>2, <2>4
<1>11. ASSUME q.reset > 0, \A m \in S : ~Less(Ends(m), Ratio(q.reset, 1))
       PROVE  ~f.willExhaust
  <2>1. PICK m \in S : AtMost(Ends(m), hours)
    BY <1>8
  <2>2. ~Less(hours, Ratio(q.reset, 1))
    <3> HIDE DEF Ends
    <3>1. IsRatio(hours) /\ IsRatio(Ends(m)) /\ IsRatio(Ratio(q.reset, 1)) /\ ~Less(Ends(m), Ratio(q.reset, 1))
      BY <1>7, <1>8, <1>9, <1>11, <2>1
    <3> QED
      BY ONLY <2>1, <3>1, AtMostGoesOn
  <2> QED
    BY <1>5, <2>2
<1> QED
  BY <1>5, <1>8, <1>10, <1>11

\* The average of what is left lies between the least and the most.
LEMMA AverageBetween ==
  ASSUME NEW S, IsFiniteSet(S), S # {}, NEW w, Naturals(w, S)
  PROVE  /\ \E m \in S : w[m] * Cardinality(S) <= Total(w, S)
         /\ \E m \in S : Total(w, S) <= w[m] * Cardinality(S)
<1> DEFINE f == [m \in S |-> Ratio(w[m], 1)]
           g == [m \in S |-> 1]
<1>1. \A m \in S : IsRatio(f[m]) /\ f[m].num = w[m] /\ f[m].den = 1 /\ w[m] \in Nat /\ g[m] = 1
  BY DEF IsRatio, Ratio, Naturals
<1> HIDE DEF f, g
<1>2. PICK l \in S, u \in S : \A m \in S : AtMost(f[l], f[m]) /\ AtMost(f[m], f[u])
  BY <1>1, RatioBounds
<1>3. \A m \in S : w[l] <= w[m] /\ w[m] <= w[u]
  <2> SUFFICES ASSUME NEW m \in S PROVE w[l] <= w[m] /\ w[m] <= w[u]
    OBVIOUS
  <2>1. w[l] * 1 <= w[m] * 1 /\ w[m] * 1 <= w[u] * 1
    BY <1>1, <1>2 DEF AtMost
  <2> QED
    BY <1>1, <2>1
<1>4. Naturals(g, S) /\ Total(g, S) = Cardinality(S)
  BY <1>1, TotalOfOnes DEF Naturals
<1>5. \A m \in S : w[l] * g[m] <= w[m] /\ w[m] <= w[u] * g[m]
  BY <1>1, <1>3
<1>6. w[l] * Total(g, S) <= Total(w, S) /\ Total(w, S) <= w[u] * Total(g, S)
  BY <1>1, <1>4, <1>5, TotalBounds
<1> QED
  BY <1>4, <1>6

LEMMA CostsThen ==
  usage \in Usages /\ usage.readings # <<>> => CostsNeedUse(Said(usage))
<1> DEFINE q == usage
           rs == Recent(q)
           S == Present(q)
           f == AccountForecast(q)
           shown == CostShown(q, f)
           cost == GroupCost(q, shown)
           Used(m) == Ratio(Full - LeftNow(q, m), 1)
<1> SUFFICES ASSUME q \in Usages, q.readings # <<>>, S # {}
             PROVE  /\ shown <=>
                         \/ q.recent < 2
                         \/ /\ q.told = "id" /\ Span(rs) >= 1
                            /\ \E m \in Models : Uses(rs, m) # {}
                    /\ shown => /\ \E m \in S : AtMost(Used(m), cost)
                                /\ \E m \in S : AtMost(cost, Used(m))
  BY SaidIs DEF CostsNeedUse
<1>1. q.recent \in Nat /\ q.told \in {"id", "label"} /\ rs \in Seq(Readings)
  BY ReadingsOf DEF Usages
<1>2. shown = IF q.recent >= 2 THEN f.confident ELSE TRUE
  BY DEF CostShown
<1>3. Rated(Rates(q)) # {} <=> Span(rs) >= 1 /\ \E m \in Models : Uses(rs, m) # {}
  <2>1. \A m \in Models : Rates(q)[m] = ModelRate(rs, m)
    BY DEF Rates
  <2>2. Rated(Rates(q)) # {} <=> \E m \in Models : ModelRate(rs, m) # NoRate
    BY <2>1 DEF Rated
  <2> HIDE DEF rs
  <2> QED
    BY <1>1, <2>2, ModelRateIs
<1>4. q.told = "label" => f.confident = FALSE
  BY DEF AccountForecast, NoForecast
<1>5. q.recent >= 2 /\ q.told = "id" => f.confident = (BurnRate(Rates(q)) # NoRate)
  <2> SUFFICES ASSUME q.recent >= 2, q.told = "id" PROVE f.confident = (BurnRate(Rates(q)) # NoRate)
    OBVIOUS
  <2>1. f = GroupForecast(q, Rates(q))
    BY <1>1 DEF AccountForecast
  <2>2. f = ForecastFrom(BurnRate(Rates(q)), Remaining(q), q.reset)
    BY <2>1 DEF GroupForecast
  <2> HIDE DEF f
  <2>3. ForecastFrom(BurnRate(Rates(q)), Remaining(q), q.reset).confident = (BurnRate(Rates(q)) # NoRate)
    BY DEF ForecastFrom
  <2> QED
    BY <2>2, <2>3
<1>6. (BurnRate(Rates(q)) # NoRate) <=> Rated(Rates(q)) # {}
  BY BurnIs
<1>7. shown <=> \/ q.recent < 2
                \/ q.told = "id" /\ Span(rs) >= 1 /\ \E m \in Models : Uses(rs, m) # {}
  <2> HIDE DEF shown, f, rs, q
  <2>1. CASE q.recent < 2
    <3>1. ~(q.recent >= 2)
      BY <1>1, <2>1
    <3> QED
      BY <1>2, <2>1, <3>1
  <2>2. CASE ~(q.recent < 2)
    <3>1. q.recent >= 2
      BY <1>1, <2>2
    <3>2. q.told = "id" \/ q.told = "label"
      BY <1>1
    <3>3. "id" # "label"
      OBVIOUS
    <3> QED
      BY <1>2, <1>3, <1>4, <1>5, <1>6, <2>2, <3>1, <3>2, <3>3
  <2> QED
    BY <2>1, <2>2
<1>8. ASSUME shown
      PROVE  /\ \E m \in S : AtMost(Used(m), cost)
             /\ \E m \in S : AtMost(cost, Used(m))
  <2> DEFINE w == [m \in S |-> LeftNow(q, m)]
             n == Cardinality(S)
             k == Total(w, S)
  <2>1. /\ IsFiniteSet(S) /\ n \in Nat \ {0} /\ Naturals(w, S) /\ Remaining(q) = Ratio(k, n) /\ k \in Nat
        /\ \A m \in S : LeftNow(q, m) \in 0 .. Full
    BY LeftIs
  <2>2. cost = Ratio(Full * n - k, n)
    BY <1>8, <2>1 DEF GroupCost, Ratio
  <2>3. \A m \in S : w[m] = LeftNow(q, m) /\ w[m] \in Nat
    BY <2>1
  <2> HIDE DEF cost, S, w, n, q
  <2>4. PICK l \in S : w[l] * n <= k
    BY <2>1, AverageBetween DEF n, k
  <2>5. PICK u \in S : k <= w[u] * n
    BY <2>1, AverageBetween DEF n, k
  <2> HIDE DEF k
  <2>6. \A m \in S : (Full - w[m]) * n = Full * n - w[m] * n
    BY <2>1, <2>3, ForecastAssumption
  <2>7. Full * n \in Nat /\ \A m \in S : w[m] * n \in Nat
    BY <2>1, <2>3, ForecastAssumption, TimesNat
  <2>8. (Full - w[u]) * n <= Full * n - k /\ Full * n - k <= (Full - w[l]) * n
    <3> DEFINE t == Full * n x == w[u] * n y == w[l] * n
    <3>1. t \in Nat /\ x \in Nat /\ y \in Nat /\ k \in Nat /\ k <= x /\ y <= k
      BY <2>1, <2>4, <2>5, <2>7
    <3>2. (Full - w[u]) * n = t - x /\ (Full - w[l]) * n = t - y
      BY <2>6
    <3> HIDE DEF t, x, y
    <3>3. t - x <= t - k /\ t - k <= t - y
      BY <3>1
    <3> QED
      BY <3>2, <3>3 DEF t
  <2>9. Full * n - k \in Int
    BY <2>1, <2>7
  <2>10. AtMost(Used(u), cost) /\ AtMost(cost, Used(l))
    <3> DEFINE c == Full * n - k
    <3>1. cost.num = c /\ cost.den = n /\ c * 1 = c
      BY <2>2, <2>9 DEF Ratio
    <3>2. (Full - w[u]) * n <= c /\ c <= (Full - w[l]) * n
      BY <2>8
    <3>3. Used(u).num = Full - w[u] /\ Used(u).den = 1 /\ Used(l).num = Full - w[l] /\ Used(l).den = 1
      BY <2>3 DEF Ratio
    <3> HIDE DEF c, Used
    <3> QED
      BY <3>1, <3>2, <3>3 DEF AtMost
  <2> QED
    BY <2>10
<1> QED
  BY <1>7, <1>8

LEMMA WindowsThen == usage \in Usages => WindowsNeedImports(Said(usage))
<1> DEFINE q == usage
           rs == FoundReadings(q)
<1> SUFFICES ASSUME q \in Usages, q.rows # "program", ~(q.sinceMidnight >= 2),
                    NEW m \in Models, WindowForecast(rs, m) # NoForecast
             PROVE  FALSE
  BY SaidIs DEF WindowsNeedImports
<1>1. Len(rs) = q.sinceMidnight /\ q.sinceMidnight \in Nat
  BY ReadingsOf
<1>2. Len(rs) < 2
  <2> DEFINE k == q.sinceMidnight
  <2>1. Len(rs) = k /\ k \in Nat /\ ~(k >= 2)
    BY <1>1
  <2> HIDE DEF k, rs
  <2>2. k < 2
    BY <2>1
  <2> QED
    BY <2>1, <2>2
<1>3. WindowRate(rs, m) = NoRate
  BY <1>2 DEF WindowRate
<1>4. WindowForecast(rs, m) = NoForecast
  BY <1>3 DEF WindowForecast
<1> QED
  BY <1>4

\* The readings that the runs start from are such.
LEMMA UsagesAtFirst == ForecastInit => usage \in Usages
<1> SUFFICES ASSUME ForecastInit PROVE usage \in Usages
  OBVIOUS
<1>1. PICK n \in 1 .. MaxReadings :
        \E rs \in {s \in [1 .. n -> Readings] : s[1].after = 0} : StartsGroup(n, rs) \/ StartsWindow(n, rs)
  BY DEF ForecastInit
<1>2. PICK rs \in {s \in [1 .. n -> Readings] : s[1].after = 0} : StartsGroup(n, rs) \/ StartsWindow(n, rs)
  BY <1>1
<1>3. rs \in Seq(Readings) /\ Len(rs) = n /\ n \in Nat \ {0}
  BY ForecastAssumption
<1>4. \A k \in 0 .. n, z \in 0 .. n, w \in {"program", "clock"}, reset \in {NoTime, 0, 1},
         told \in {"id", "label"} : Told(rs, k, reset, told, w, z) \in Usages
  BY <1>3 DEF Usages, NoTime, Told
<1>5. n \in 0 .. n /\ 0 \in 0 .. n /\ n - 1 \in 0 .. n
  BY <1>3
<1>6. CASE StartsGroup(n, rs)
  <2>1. PICK k \in {n - 1, n}, reset \in {NoTime, 0, 1}, told \in {"id", "label"} :
          usage = Told(rs, k, reset, told, "program", 0)
    BY <1>6, Zenon DEF StartsGroup
  <2>2. k \in 0 .. n
    BY <1>5, <2>1
  <2> QED
    BY <1>4, <1>5, <2>1, <2>2
<1>7. CASE StartsWindow(n, rs)
  <2>1. PICK k \in 0 .. n, w \in {"program", "clock"} : usage = Told(rs, n, NoTime, "id", w, k)
    BY <1>7 DEF StartsWindow
  <2> QED
    BY <1>4, <1>5, <2>1
<1> QED
  BY <1>2, <1>6, <1>7

\* Forecasts of any readings, of any number of models: rates lie between observed
\* ones, the three places that compute them agree, a group lasts as its models do,
\* cost needs use (forecast.go, compute.go, costtrack.go); those of the runs are such.
THEOREM ForecastsAlwaysHold ==
  (usage \in Usages => ForecastsHold) /\ (ForecastInit => usage \in Usages)
<1>1. usage \in Usages => ForecastsHold
  BY ObservedThen, AgreeThen, GroupThen, CostsThen, WindowsThen DEF ForecastsHold
<1> QED
  BY <1>1, UsagesAtFirst

-----------------------------------------------------------------------------
(* Advice (AccountAdvice)                                                  *)

\* A quotient lies between bounds of what it is of.
LEMMA QuotientBetween ==
  ASSUME NEW n \in Nat \ {0}, NEW x \in Nat, NEW lo \in Nat, NEW hi \in Nat,
         lo * n <= x, x <= hi * n
  PROVE  x \div n \in lo .. hi
<1> DEFINE d == x \div n
<1>1. d \in Nat /\ n * d <= x /\ x < n * d + n
  OBVIOUS
<1> HIDE DEF d
<1>2. ASSUME d < lo PROVE FALSE
  <2>1. (d + 1) * n <= lo * n
    BY <1>1, <1>2, TimesKeeps
  <2>2. (d + 1) * n = n * d + n
    BY <1>1
  <2> DEFINE u == n * d v == lo * n
  <2>3. u \in Nat /\ v \in Nat /\ u + n <= v /\ v <= x /\ x < u + n
    BY <1>1, <2>1, <2>2, TimesNat
  <2> HIDE DEF u, v
  <2> QED
    BY <2>3
<1>3. ASSUME hi < d PROVE FALSE
  <2>1. (hi + 1) * n <= d * n
    BY <1>1, <1>3, TimesKeeps
  <2>2. (hi + 1) * n = hi * n + n /\ d * n = n * d
    BY <1>1
  <2> DEFINE u == n * d v == hi * n
  <2>3. u \in Nat /\ v \in Nat
    BY <1>1, TimesNat
  <2>4. v + n <= u /\ u <= x /\ x <= v
    BY <1>1, <2>1, <2>2
  <2> HIDE DEF u, v
  <2> QED
    BY <2>3, <2>4
<1> QED
  BY <1>1, <1>2, <1>3 DEF d

\* An average lies where what it is of lies.
LEMMA AverageIs ==
  ASSUME NEW S, IsFiniteSet(S), S # {}, NEW w, NEW lo \in Nat, NEW hi \in Nat,
         \A x \in S : w[x] \in lo .. hi
  PROVE  Average(w, S) \in lo .. hi
<1> DEFINE g == [x \in S |-> 1]
<1>1. Naturals(w, S) /\ Naturals(g, S)
  BY DEF Naturals
<1>2. \A x \in S : g[x] = 1
  OBVIOUS
<1> HIDE DEF g
<1>3. Total(g, S) = Cardinality(S) /\ Cardinality(S) \in Nat \ {0}
  BY <1>2, TotalOfOnes, FS_CardinalityType, FS_EmptySet
<1>4. \A x \in S : lo * g[x] <= w[x] /\ w[x] <= hi * g[x]
  BY <1>2
<1>5. lo * Total(g, S) <= Total(w, S) /\ Total(w, S) <= hi * Total(g, S)
  BY <1>1, <1>4, TotalBounds
<1>6. Total(w, S) \in Nat
  <2>1. S \in SUBSET S
    OBVIOUS
  <2> QED
    BY <1>1, <2>1, TotalOfPart
<1>7. Total(w, S) \div Cardinality(S) \in lo .. hi
  BY <1>3, <1>5, <1>6, QuotientBetween
<1> QED
  BY <1>1, <1>7, SumOverIs DEF Average

\* A least number: what Min picks.
LEMMA LeastIn ==
  ASSUME NEW S, IsFiniteSet(S), S # {}, S \subseteq Int
  PROVE  Min(S) \in S /\ \A x \in S : Min(S) <= x
<1> DEFINE key == [x \in S |-> x]
<1>1. \A x \in S : key[x] = x /\ key[x] \in Int
  OBVIOUS
<1> HIDE DEF key
<1>2. \E m \in S : \A x \in S : key[m] <= key[x]
  BY <1>1, LeastExists
<1>3. \E m \in S : \A x \in S : m <= x
  BY <1>1, <1>2
<1> QED
  BY <1>3, Zenon DEF Min

-----------------------------------------------------------------------------
\* The models of a reading.
LEMMA EntriesOf ==
  ASSUME NEW models \in Seq(ModelEntries)
  PROVE  /\ DOMAIN models = 1 .. Len(models) /\ IsFiniteSet(DOMAIN models)
         /\ \A i \in DOMAIN models :
              /\ models[i].name \in ModelNames /\ models[i].left \in 0 .. 100
              /\ models[i].exhausted <=> models[i].left = 0
              /\ models[i] = [name |-> models[i].name, left |-> models[i].left,
                              exhausted |-> models[i].exhausted]
<1>1. DOMAIN models = 1 .. Len(models) /\ Len(models) \in Int
  OBVIOUS
<1>2. IsFiniteSet(DOMAIN models)
  BY ONLY <1>1, 1 \in Int, FS_Interval
<1>3. ASSUME NEW i \in DOMAIN models
      PROVE  /\ models[i].name \in ModelNames /\ models[i].left \in 0 .. 100
             /\ models[i].exhausted <=> models[i].left = 0
             /\ models[i] = [name |-> models[i].name, left |-> models[i].left,
                              exhausted |-> models[i].exhausted]
  <2>1. models[i] \in ModelEntries
    OBVIOUS
  <2> QED
    BY <2>1 DEF ModelEntries
<1> QED
  BY <1>1, <1>2, <1>3

\* The first of some of them is one of these.
LEMMA FirstIs ==
  ASSUME NEW models \in Seq(ModelEntries), NEW S \in SUBSET DOMAIN models, S # {}
  PROVE  \E i \in S : FirstNamed(models, S) = models[i]
<1>1. IsFiniteSet(S) /\ S \subseteq Int
  BY EntriesOf, FS_Subset
<1>2. Min(S) \in S
  BY <1>1, LeastIn
<1> QED
  BY <1>2 DEF FirstNamed

\* The entry of one of today's models: that of a model of the reading, or an empty one.
LEMMA TodayIs ==
  ASSUME NEW models \in Seq(ModelEntries), NEW n \in TodaysModels
  PROVE  LET e == TodayEntry(models, n) IN
         /\ e.name = n /\ e.left \in 0 .. 100 /\ GroupForModel(e) = "gemini"
         /\ InFamily(models, Flash \cup Pro) = {} => e.left = 0
         /\ InFamily(models, Flash \cup Pro) # {} =>
              \E i \in InFamily(models, Flash \cup Pro) :
                /\ e.left = models[i].left /\ (e.exhausted <=> models[i].exhausted)
                /\ InFamily(models, {n}) # {} => i \in InFamily(models, {n})
<1> DEFINE flash == Reference(models, Flash, "m133")
           pro   == Reference(models, Pro, "m16")
           mine  == IF n \in Flash THEN flash ELSE pro
           found == IF InFamily(models, {n}) # {} THEN InFamily(models, {n})
                      ELSE IF mine # {} THEN mine ELSE flash \cup pro
           e     == TodayEntry(models, n)
<1>1. /\ InFamily(models, {n}) \subseteq InFamily(models, Flash \cup Pro)
      /\ flash \subseteq InFamily(models, Flash \cup Pro) /\ pro \subseteq InFamily(models, Flash \cup Pro)
      /\ (flash = {} /\ pro = {} => InFamily(models, Flash \cup Pro) = {})
  BY DEF InFamily, Reference, Flash, Pro, TodaysModels
<1>2. /\ found \subseteq InFamily(models, Flash \cup Pro)
      /\ found = {} => InFamily(models, Flash \cup Pro) = {}
      /\ InFamily(models, {n}) # {} => found = InFamily(models, {n})
  <2> HIDE DEF flash, pro
  <2> QED
    BY <1>1
<1>3. e = IF found = {} THEN [name |-> n, left |-> 0, exhausted |-> FALSE]
                    ELSE [FirstNamed(models, found) EXCEPT !.name = n]
  BY DEF TodayEntry
<1> HIDE DEF found, e
<1>4. e.name = n => GroupForModel(e) = "gemini"
  BY DEF GroupForModel, GeminiModels, Flash, Pro, TodaysModels
<1>5. CASE found = {}
  <2>1. e = [name |-> n, left |-> 0, exhausted |-> FALSE]
    BY <1>3, <1>5
  <2>2. e.name = n /\ e.left = 0
    BY <2>1
  <2>3. InFamily(models, Flash \cup Pro) = {}
    BY <1>2, <1>5
  <2>4. e.left \in 0 .. 100 /\ GroupForModel(e) = "gemini"
    BY <1>4, <2>2
  <2> QED
    BY <2>2, <2>3, <2>4 DEF e
<1>6. CASE found # {}
  <2>1. found \subseteq DOMAIN models
    BY <1>2 DEF InFamily
  <2>2. PICK i \in found : FirstNamed(models, found) = models[i]
    BY <1>6, <2>1, FirstIs
  <2>3. /\ models[i].left \in 0 .. 100
        /\ models[i] = [name |-> models[i].name, left |-> models[i].left,
                         exhausted |-> models[i].exhausted]
    BY <2>1, EntriesOf
  <2>4. e = [models[i] EXCEPT !.name = n]
    BY <1>3, <1>6, <2>2
  <2>5. e = [name |-> n, left |-> models[i].left, exhausted |-> models[i].exhausted]
    BY <2>3, <2>4
  <2>6. e.name = n /\ e.left = models[i].left /\ e.exhausted = models[i].exhausted
    BY <2>5, Zenon
  <2> QED
    BY <1>2, <1>4, <2>2, <2>3, <2>6 DEF e
<1> QED
  BY <1>5, <1>6

\* What is shown of the models of an account.
LEMMA UpgradedIs ==
  ASSUME NEW models \in Seq(ModelEntries)
  PROVE  /\ IsFiniteSet(Upgraded(models))
         /\ models # <<>> <=> Upgraded(models) # {}
         /\ \A p \in Upgraded(models) : p[2].left \in 0 .. 100 /\ p = <<p[1], p[2]>>
<1> DEFINE rest  == DOMAIN models \ InFamily(models, GeminiModels)
           today == IF InFamily(models, GeminiModels) = {} THEN {} ELSE TodaysModels
           f == [i \in rest |-> <<i, models[i]>>]
           g == [n \in today |-> <<0, TodayEntry(models, n)>>]
<1>1. Upgraded(models) = {f[i] : i \in rest} \cup {g[n] : n \in today}
  BY Zenon DEF Upgraded
<1>2. IsFiniteSet(rest) /\ rest \subseteq DOMAIN models
  BY EntriesOf, FS_Subset
<1>3. IsFiniteSet(today) /\ today \subseteq TodaysModels
  <2>1. IsFiniteSet(TodaysModels)
    <3>1. IsFiniteSet({"m133"})
      BY FS_Singleton
    <3>2. IsFiniteSet({"m133"} \cup {"m20"})
      BY ONLY <3>1, FS_AddElement
    <3>3. IsFiniteSet(({"m133"} \cup {"m20"}) \cup {"m16"})
      BY ONLY <3>2, FS_AddElement
    <3>4. IsFiniteSet((({"m133"} \cup {"m20"}) \cup {"m16"}) \cup {"m36"})
      BY ONLY <3>3, FS_AddElement
    <3>5. TodaysModels = (({"m133"} \cup {"m20"}) \cup {"m16"}) \cup {"m36"}
      BY DEF TodaysModels
    <3> QED
      BY ONLY <3>4, <3>5
  <2> QED
    BY <2>1, FS_EmptySet
<1>4. \A i \in rest : f[i] = <<i, models[i]>> /\ models[i].left \in 0 .. 100
  BY <1>2, EntriesOf
<1>5. \A n \in today : g[n] = <<0, TodayEntry(models, n)>> /\ TodayEntry(models, n).left \in 0 .. 100
  BY <1>3, TodayIs
<1>6. models # <<>> <=> rest # {} \/ today # {}
  <2>1. models # <<>> <=> DOMAIN models # {}
    BY EntriesOf
  <2>2. InFamily(models, GeminiModels) \subseteq DOMAIN models
    BY DEF InFamily
  <2>3. TodaysModels # {}
    BY DEF TodaysModels
  <2> QED
    BY <2>1, <2>2, <2>3
<1> HIDE DEF rest, today, f, g
<1>7. IsFiniteSet({f[i] : i \in rest}) /\ IsFiniteSet({g[n] : n \in today})
  BY <1>2, <1>3, FiniteImage
<1>8. IsFiniteSet(Upgraded(models))
  BY <1>1, <1>7, FS_Union
<1>9. ASSUME NEW p \in Upgraded(models) PROVE p[2].left \in 0 .. 100 /\ p = <<p[1], p[2]>>
  <2>1. CASE \E i \in rest : p = f[i]
    <3>1. PICK i \in rest : p = <<i, models[i]>> /\ models[i].left \in 0 .. 100
      BY <1>4, <2>1
    <3> QED
      BY ONLY <3>1
  <2>2. CASE \E n \in today : p = g[n]
    <3>1. PICK n \in today : p = <<0, TodayEntry(models, n)>> /\ TodayEntry(models, n).left \in 0 .. 100
      BY <1>5, <2>2
    <3> QED
      BY ONLY <3>1
  <2> QED
    BY <1>1, <2>1, <2>2
<1> QED
  BY <1>1, <1>6, <1>8, <1>9

\* The same after resets are inferred.
LEMMA CorrectedIs ==
  ASSUME NEW acct \in SeenAccounts
  PROVE  /\ IsFiniteSet(Corrected(acct)) /\ acct.models \in Seq(ModelEntries)
         /\ acct.models # <<>> <=> Corrected(acct) # {}
         /\ \A p \in Corrected(acct) : p[2].left \in 0 .. 100
         /\ \A q \in Corrected(acct) :
              \E p \in Upgraded(acct.models) : q[2] = Inferred(acct, p[2])
         /\ \A p \in Upgraded(acct.models) :
              \E q \in Corrected(acct) : q[2] = Inferred(acct, p[2])
<1> DEFINE ups == Upgraded(acct.models)
           f == [p \in ups |-> <<p[1], Inferred(acct, p[2])>>]
<1>1. acct.models \in Seq(ModelEntries)
  BY DEF SeenAccounts
<1>2. Corrected(acct) = {f[p] : p \in ups}
  BY Zenon DEF Corrected
<1>3. \A p \in ups : f[p] = <<p[1], Inferred(acct, p[2])>>
  OBVIOUS
<1>4. IsFiniteSet(ups) /\ (acct.models # <<>> <=> ups # {}) /\ \A p \in ups : p[2].left \in 0 .. 100
  BY <1>1, UpgradedIs
<1> HIDE DEF f, ups
<1>5. IsFiniteSet(Corrected(acct))
  BY <1>2, <1>4, FiniteImage
<1>6. \A p \in ups : f[p][2] = Inferred(acct, p[2]) /\ Inferred(acct, p[2]).left \in 0 .. 100
  <2> SUFFICES ASSUME NEW p \in ups
               PROVE  f[p][2] = Inferred(acct, p[2]) /\ Inferred(acct, p[2]).left \in 0 .. 100
    OBVIOUS
  <2>1. f[p][2] = Inferred(acct, p[2])
    BY <1>3
  <2>2. Entry(p[2].name, 100).left = 100
    BY DEF Entry
  <2>3. Inferred(acct, p[2]) = Entry(p[2].name, 100) \/ Inferred(acct, p[2]) = p[2]
    BY DEF Inferred
  <2>4. p[2].left \in 0 .. 100 /\ 100 \in 0 .. 100
    BY <1>4
  <2>5. Inferred(acct, p[2]).left \in 0 .. 100
    BY ONLY <2>2, <2>3, <2>4
  <2> QED
    BY <2>1, <2>5
<1>7. acct.models # <<>> <=> Corrected(acct) # {}
  BY ONLY <1>2, <1>4
<1>8. \A q \in Corrected(acct) :
        \E p \in ups : q[2] = Inferred(acct, p[2]) /\ q[2].left \in 0 .. 100
  BY ONLY <1>2, <1>6
<1>9. \A p \in ups : \E q \in Corrected(acct) : q[2] = Inferred(acct, p[2])
  BY ONLY <1>2, <1>6
<1>10. \A q \in Corrected(acct) : q[2].left \in 0 .. 100
  BY ONLY <1>8
<1> QED
  BY <1>1, <1>5, <1>7, <1>8, <1>9, <1>10 DEF ups

\* The fields of an account that was seen.
LEMMA ModelsOf ==
  ASSUME NEW acct \in SeenAccounts
  PROVE  /\ acct.models \in Seq(ModelEntries) /\ acct.stale \in BOOLEAN /\ acct.cycle \in Nat
         /\ acct.reset \in Nat \cup {NoReset, TodayReset, OldReset}
         /\ \A i, j \in DOMAIN acct.models :
              acct.models[i].name = acct.models[j].name /\ acct.models[i].name \in TodaysModels => i = j
  BY DEF SeenAccounts

\* Placed entries with so much left.
Lists(C) == IsFiniteSet(C) /\ \A p \in C : p[2].left \in 0 .. 100

\* What is said of their groups.
LEMMA GroupsAre ==
  ASSUME NEW C, Lists(C)
  PROVE  /\ IsFiniteSet(GroupModels(C)) /\ (GroupModels(C) # {} <=> C # {})
         /\ \A lo \in Nat, g \in GroupModels(C) :
              (\A p \in C : GroupForModel(p[2]) = g.group => lo <= p[2].left) => g.left \in lo .. 100
         /\ \A g \in GroupModels(C) : g.exhausted <=>
              \E p \in C : GroupForModel(p[2]) = g.group /\ (p[2].exhausted \/ p[2].left <= 0)
         /\ \A p \in C : \E g \in GroupModels(C) : g.group = GroupForModel(p[2])
         /\ \A g \in GroupModels(C), h \in GroupModels(C) : g.group = h.group => g = h
         /\ \A g \in GroupModels(C) : \E p \in C : GroupForModel(p[2]) = g.group
<1> DEFINE kinds == {GroupForModel(p[2]) : p \in C}
           kindOf == [p \in C |-> GroupForModel(p[2])]
           group == [g \in kinds |-> GroupOf(C, g)]
<1>1. kinds = {kindOf[p] : p \in C} /\ GroupModels(C) = {group[g] : g \in kinds}
  BY Zenon DEF GroupModels
<1>2. \A p \in C : kindOf[p] = GroupForModel(p[2])
  OBVIOUS
<1>3. \A g \in kinds : group[g] = GroupOf(C, g)
  OBVIOUS
<1>4. IsFiniteSet(C) /\ \A p \in C : p[2].left \in 0 .. 100
  BY DEF Lists
<1>5. \A g \in kinds : \E p \in C : GroupForModel(p[2]) = g
  OBVIOUS
<1>6. \A p \in C : GroupForModel(p[2]) \in kinds
  OBVIOUS
<1> HIDE DEF kinds, kindOf, group
<1>7. IsFiniteSet(GroupModels(C))
  <2>1. IsFiniteSet(kinds)
    BY <1>1, <1>4, FiniteImage
  <2> QED
    BY <1>1, <2>1, FiniteImage
<1>8. GroupModels(C) # {} <=> C # {}
  BY <1>1, <1>5, <1>6
<1>9. ASSUME NEW g \in kinds, NEW lo \in Nat, \A p \in OfGroup(C, g) : lo <= p[2].left
      PROVE  GroupOf(C, g).left \in lo .. 100
  <2> DEFINE S == OfGroup(C, g)
             w == [p \in S |-> p[2].left]
  <2>1. S \subseteq C /\ S # {}
    BY <1>5 DEF OfGroup
  <2>2. IsFiniteSet(S)
    BY <1>4, <2>1, FS_Subset
  <2>3. \A p \in S : w[p] \in lo .. 100
    BY <1>4, <1>9, <2>1
  <2>4. GroupOf(C, g).left = Average(w, S)
    BY DEF GroupOf
  <2> HIDE DEF S, w
  <2>5. 100 \in Nat
    OBVIOUS
  <2> QED
    BY <2>1, <2>2, <2>3, <2>4, <2>5, AverageIs
<1>10. \A g \in kinds : GroupOf(C, g).group = g
  BY DEF GroupOf
<1>11. \A g \in kinds : GroupOf(C, g).exhausted <=>
              \E p \in C : GroupForModel(p[2]) = g /\ (p[2].exhausted \/ p[2].left <= 0)
  <2> TAKE g \in kinds
  <2>1. GroupOf(C, g).exhausted = \E p \in OfGroup(C, g) : p[2].exhausted \/ p[2].left <= 0
    BY Zenon DEF GroupOf
  <2> QED
    BY <2>1 DEF OfGroup
<1>12. ASSUME NEW lo \in Nat, NEW g \in GroupModels(C),
              \A p \in C : GroupForModel(p[2]) = g.group => lo <= p[2].left
       PROVE  g.left \in lo .. 100
  <2>1. PICK k \in kinds : g = GroupOf(C, k) /\ g.group = k
    BY <1>1, <1>3, <1>10
  <2>2. \A p \in OfGroup(C, k) : lo <= p[2].left
    BY <1>12, <2>1 DEF OfGroup
  <2>3. GroupOf(C, k).left \in lo .. 100
    BY <1>9, <2>2
  <2> QED
    BY <2>1, <2>3
<1>13. \A g \in GroupModels(C) : g.exhausted <=>
              \E p \in C : GroupForModel(p[2]) = g.group /\ (p[2].exhausted \/ p[2].left <= 0)
  BY <1>1, <1>3, <1>10, <1>11
<1>14. \A p \in C : \E g \in GroupModels(C) : g.group = GroupForModel(p[2])
  BY <1>1, <1>3, <1>6, <1>10
<1>15. ASSUME NEW g \in GroupModels(C), NEW h \in GroupModels(C), g.group = h.group PROVE g = h
  <2>1. PICK k \in kinds : g = GroupOf(C, k) /\ g.group = k
    BY <1>1, <1>3, <1>10
  <2>2. PICK l \in kinds : h = GroupOf(C, l) /\ h.group = l
    BY <1>1, <1>3, <1>10
  <2> QED
    BY <1>15, <2>1, <2>2
<1>16. \A g \in GroupModels(C) : \E p \in C : GroupForModel(p[2]) = g.group
  BY <1>1, <1>3, <1>5, <1>10
<1> QED
  BY <1>7, <1>8, <1>12, <1>13, <1>14, <1>15, <1>16

\* Ready: something is left of each of them, and there are some.
LEMMA ReadyIs ==
  ASSUME NEW C, Lists(C)
  PROVE  Ready(GroupModels(C)) <=> C # {} /\ \A p \in C : ~p[2].exhausted /\ p[2].left > 0
<1>1. ASSUME C # {}, \A p \in C : ~p[2].exhausted /\ p[2].left > 0, NEW g \in GroupModels(C)
      PROVE  ~g.exhausted /\ g.left > 0
  <2>1. ~g.exhausted
    <3>1. \A p \in C : ~(p[2].left <= 0)
      BY <1>1 DEF Lists
    <3> QED
      BY <1>1, <3>1, GroupsAre
  <2>2. g.left \in 1 .. 100
    <3>1. \A p \in C : 1 <= p[2].left
      BY <1>1 DEF Lists
    <3> QED
      BY <3>1, GroupsAre
  <2> QED
    BY <2>1, <2>2
<1>2. ASSUME \A g \in GroupModels(C) : ~g.exhausted /\ g.left > 0, NEW p \in C
      PROVE  ~p[2].exhausted /\ p[2].left > 0
  <2>1. PICK g \in GroupModels(C) : g.group = GroupForModel(p[2])
    BY GroupsAre
  <2>2. ~p[2].exhausted /\ ~(p[2].left <= 0)
    BY <1>2, <2>1, GroupsAre
  <2> QED
    BY <2>2 DEF Lists
<1> QED
  BY <1>1, <1>2, GroupsAre DEF Ready

\* The entries that the program corrects are those of the reading, and empty ones of
\* an account whose models it does not know.
LEMMA ShownFrom ==
  ASSUME NEW acct \in SeenAccounts, NEW p \in Upgraded(acct.models)
  PROVE  \/ \E i \in DOMAIN acct.models : p[2] = acct.models[i] /\ GroupForModel(p[2]) # "gemini"
         \/ \E n \in TodaysModels : p[2] = TodayEntry(acct.models, n) /\ InFamily(acct.models, GeminiModels) # {}
<1>1. \/ p \in {<<i, acct.models[i]>> : i \in DOMAIN acct.models \ InFamily(acct.models, GeminiModels)}
      \/ p \in {<<0, TodayEntry(acct.models, n)>> :
            n \in IF InFamily(acct.models, GeminiModels) = {} THEN {} ELSE TodaysModels}
  BY Zenon DEF Upgraded
<1>2. CASE p \in {<<i, acct.models[i]>> : i \in DOMAIN acct.models \ InFamily(acct.models, GeminiModels)}
  <2>1. PICK i \in DOMAIN acct.models \ InFamily(acct.models, GeminiModels) : p = <<i, acct.models[i]>>
    BY <1>2
  <2>2. acct.models[i].name \notin GeminiModels
    BY <2>1 DEF InFamily
  <2>3. p[2] = acct.models[i]
    BY ONLY <2>1
  <2>4. GroupForModel(p[2]) # "gemini"
    BY <2>2, <2>3 DEF GroupForModel
  <2> QED
    BY <2>1, <2>3, <2>4
<1>3. CASE p \in {<<0, TodayEntry(acct.models, n)>> :
            n \in IF InFamily(acct.models, GeminiModels) = {} THEN {} ELSE TodaysModels}
  <2>1. PICK n \in IF InFamily(acct.models, GeminiModels) = {} THEN {} ELSE TodaysModels :
          p = <<0, TodayEntry(acct.models, n)>>
    BY <1>3
  <2>2. n \in TodaysModels /\ InFamily(acct.models, GeminiModels) # {}
    BY <2>1
  <2>3. p[2] = TodayEntry(acct.models, n)
    BY ONLY <2>1
  <2> QED
    BY <2>2, <2>3
<1> QED
  BY <1>1, <1>2, <1>3

\* Each model of today, and each of another kind, is among them.
LEMMA ShownOf ==
  ASSUME NEW acct \in SeenAccounts, NEW i \in DOMAIN acct.models
  PROVE  /\ acct.models[i].name \notin GeminiModels =>
              \E p \in Upgraded(acct.models) : p[2] = acct.models[i]
         /\ acct.models[i].name \in GeminiModels => \A n \in TodaysModels :
              \E p \in Upgraded(acct.models) : p[2] = TodayEntry(acct.models, n)
<1>1. ASSUME acct.models[i].name \notin GeminiModels
      PROVE  \E p \in Upgraded(acct.models) : p[2] = acct.models[i]
  <2>1. i \in DOMAIN acct.models \ InFamily(acct.models, GeminiModels)
    BY <1>1 DEF InFamily
  <2>2. <<i, acct.models[i]>> \in Upgraded(acct.models)
    BY <2>1, Zenon DEF Upgraded
  <2>3. <<i, acct.models[i]>>[2] = acct.models[i]
    OBVIOUS
  <2> QED
    BY ONLY <2>2, <2>3
<1>2. ASSUME acct.models[i].name \in GeminiModels, NEW n \in TodaysModels
      PROVE  \E p \in Upgraded(acct.models) : p[2] = TodayEntry(acct.models, n)
  <2>1. InFamily(acct.models, GeminiModels) # {}
    BY <1>2 DEF InFamily
  <2>2. n \in IF InFamily(acct.models, GeminiModels) = {} THEN {} ELSE TodaysModels
    BY <2>1
  <2>3. <<0, TodayEntry(acct.models, n)>> \in Upgraded(acct.models)
    BY <2>2, Zenon DEF Upgraded
  <2>4. <<0, TodayEntry(acct.models, n)>>[2] = TodayEntry(acct.models, n)
    OBVIOUS
  <2> QED
    BY ONLY <2>3, <2>4
<1> QED
  BY <1>1, <1>2

\* A model of the reading stands behind each entry, unless the account is lost.
LEMMA ModelBehind ==
  ASSUME NEW acct \in SeenAccounts, ~Lost(acct.models), NEW p \in Upgraded(acct.models)
  PROVE  /\ \E i \in DOMAIN acct.models : p[2].left = acct.models[i].left /\ (p[2].exhausted <=> acct.models[i].exhausted)
         /\ GroupForModel(p[2]) = "gemini" => InFamily(acct.models, Flash \cup Pro) # {}
<1>0. acct.models \in Seq(ModelEntries)
  BY ModelsOf
<1>1. CASE \E i \in DOMAIN acct.models : p[2] = acct.models[i] /\ GroupForModel(p[2]) # "gemini"
  BY <1>1
<1>2. CASE \E n \in TodaysModels : p[2] = TodayEntry(acct.models, n) /\ InFamily(acct.models, GeminiModels) # {}
  <2>1. InFamily(acct.models, Flash \cup Pro) # {}
    BY <1>2 DEF Lost
  <2>2. \A i \in InFamily(acct.models, Flash \cup Pro) : i \in DOMAIN acct.models
    BY DEF InFamily
  <2>3. PICK n \in TodaysModels : p[2] = TodayEntry(acct.models, n)
    BY <1>2
  <2>4. PICK i \in InFamily(acct.models, Flash \cup Pro) :
          /\ TodayEntry(acct.models, n).left = acct.models[i].left
          /\ TodayEntry(acct.models, n).exhausted <=> acct.models[i].exhausted
    BY <1>0, <2>1, TodayIs
  <2>5. i \in DOMAIN acct.models
    BY <2>2
  <2>6. p[2].left = acct.models[i].left /\ (p[2].exhausted <=> acct.models[i].exhausted)
    BY ONLY <2>3, <2>4
  <2> QED
    BY <2>1, <2>5, <2>6
<1> QED
  BY <1>1, <1>2, ShownFrom

\* A full entry.
LEMMA EntryIs ==
  \A n : Entry(n, 100).left = 100 /\ ~Entry(n, 100).exhausted /\ Entry(n, 100).name = n
<1> TAKE n
<1>1. (100 = 0) = FALSE
  OBVIOUS
<1>2. Entry(n, 100) = [name |-> n, left |-> 100, exhausted |-> FALSE]
  BY <1>1 DEF Entry
<1>3. /\ [name |-> n, left |-> 100, exhausted |-> FALSE].left = 100
      /\ ~[name |-> n, left |-> 100, exhausted |-> FALSE].exhausted
      /\ [name |-> n, left |-> 100, exhausted |-> FALSE].name = n
  BY ONLY TRUE, Zenon
<1> QED
  BY ONLY <1>2, <1>3, Zenon

\* A ready account: what is shown of each of its models is usable.
LEMMA ReadyOf ==
  ASSUME NEW acct \in SeenAccounts
  PROVE  IsReady(acct) <=>
           /\ acct.models # <<>>
           /\ \A p \in Upgraded(acct.models) :
                ~Inferred(acct, p[2]).exhausted /\ Inferred(acct, p[2]).left > 0
<1>1. Lists(Corrected(acct))
  BY CorrectedIs DEF Lists
<1>2. IsReady(acct) <=> /\ Corrected(acct) # {}
                        /\ \A q \in Corrected(acct) : ~q[2].exhausted /\ q[2].left > 0
  BY <1>1, ReadyIs DEF IsReady
<1>3. (\A q \in Corrected(acct) : ~q[2].exhausted /\ q[2].left > 0) <=>
        \A p \in Upgraded(acct.models) :
          ~Inferred(acct, p[2]).exhausted /\ Inferred(acct, p[2]).left > 0
  BY CorrectedIs
<1> QED
  BY <1>2, <1>3, CorrectedIs

\* What stays as it was read, and what is inferred to be full.
LEMMA InferredIs ==
  ASSUME NEW acct, NEW e
  PROVE  /\ acct.reset # TodayReset => Inferred(acct, e) = e
         /\ GroupForModel(e) = "gemini" /\ InFamily(acct.models, Flash \cup Pro) = {} =>
              Inferred(acct, e) = e
         /\ /\ acct.reset = TodayReset
            /\ GroupForModel(e) = "gemini" => InFamily(acct.models, Flash \cup Pro) # {}
            => Inferred(acct, e).left = 100 /\ ~Inferred(acct, e).exhausted
  BY EntryIs DEF Inferred

\* Inferring a reset does not move a model to another group.
LEMMA GroupKept ==
  ASSUME NEW acct, NEW e
  PROVE  GroupForModel(Inferred(acct, e)) = GroupForModel(e)
  BY EntryIs DEF Inferred, GroupForModel

\* Ready accounts are usable, the others are not.
LEMMA UsableThen ==
  ASSUME NEW acct \in SeenAccounts
  PROVE  IF IsReady(acct)
          THEN /\ acct.models # <<>> /\ ~Lost(acct.models)
               /\ \/ acct.reset = TodayReset
                  \/ {j \in InFamily(acct.models, TodaysModels \cup {"claude", "other"}) :
                        acct.models[j].left = 0} = {}
          ELSE \/ acct.models = <<>> \/ Lost(acct.models)
               \/ /\ acct.reset # TodayReset
                  /\ {j \in InFamily(acct.models, ModelNames) : acct.models[j].left = 0} # {}
<1>0. acct.models \in Seq(ModelEntries)
  BY ModelsOf
<1>1. ASSUME IsReady(acct), Lost(acct.models) PROVE FALSE
  <2>1. PICK i \in DOMAIN acct.models : acct.models[i].name \in GeminiModels
    BY <1>1 DEF Lost, InFamily
  <2>2. "m133" \in TodaysModels
    BY DEF TodaysModels
  <2>3. PICK p \in Upgraded(acct.models) : p[2] = TodayEntry(acct.models, "m133")
    BY <2>1, <2>2, ShownOf
  <2>4. InFamily(acct.models, Flash \cup Pro) = {}
    BY <1>1 DEF Lost
  <2>5. p[2].left = 0 /\ GroupForModel(p[2]) = "gemini"
    <3>1. /\ TodayEntry(acct.models, "m133").left = 0
          /\ GroupForModel(TodayEntry(acct.models, "m133")) = "gemini"
      BY <1>0, <2>2, <2>4, TodayIs
    <3> QED
      BY ONLY <2>3, <3>1
  <2>6. Inferred(acct, p[2]) = p[2]
    BY <2>4, <2>5, InferredIs
  <2>7. Inferred(acct, p[2]).left > 0
    BY <1>1, ReadyOf
  <2> QED
    BY <2>5, <2>6, <2>7
<1>2. ASSUME IsReady(acct), acct.reset # TodayReset,
             NEW j \in InFamily(acct.models, TodaysModels \cup {"claude", "other"}), acct.models[j].left = 0
      PROVE  FALSE
  <2>1. j \in DOMAIN acct.models /\ acct.models[j].name \in TodaysModels \cup {"claude", "other"}
    BY DEF InFamily
  <2>2. \A p \in Upgraded(acct.models) : p[2].left > 0
    BY <1>2, ReadyOf, InferredIs
  <2>3. CASE acct.models[j].name \in TodaysModels
    <3>1. acct.models[j].name \in GeminiModels
      BY <2>3 DEF TodaysModels, GeminiModels, Flash, Pro
    <3>2. PICK p \in Upgraded(acct.models) : p[2] = TodayEntry(acct.models, acct.models[j].name)
      BY <2>1, <2>3, <3>1, ShownOf
    <3>3. /\ j \in InFamily(acct.models, {acct.models[j].name})
          /\ j \in InFamily(acct.models, Flash \cup Pro)
      BY <2>1, <2>3 DEF InFamily, TodaysModels, Flash, Pro
    <3>4. PICK i \in InFamily(acct.models, Flash \cup Pro) :
            /\ TodayEntry(acct.models, acct.models[j].name).left = acct.models[i].left
            /\ i \in InFamily(acct.models, {acct.models[j].name})
      BY <1>0, <2>3, <3>3, TodayIs
    <3>5. i \in DOMAIN acct.models /\ acct.models[i].name = acct.models[j].name
      BY <3>4 DEF InFamily
    <3>6. i = j
      BY <2>1, <2>3, <3>5, ModelsOf
    <3>7. p[2].left = 0
      BY <1>2, <3>2, <3>4, <3>6
    <3> QED
      BY <2>2, <3>7
  <2>4. CASE acct.models[j].name \in {"claude", "other"}
    <3>1. acct.models[j].name \notin GeminiModels
      BY <2>4 DEF GeminiModels, Flash, Pro
    <3>2. PICK p \in Upgraded(acct.models) : p[2] = acct.models[j]
      BY <2>1, <3>1, ShownOf
    <3>3. p[2].left = 0
      BY <1>2, <3>2
    <3> QED
      BY <2>2, <3>3
  <2> QED
    BY <2>1, <2>3, <2>4
<1>3. ASSUME ~IsReady(acct), acct.models # <<>>, ~Lost(acct.models)
      PROVE  /\ acct.reset # TodayReset
             /\ {j \in InFamily(acct.models, ModelNames) : acct.models[j].left = 0} # {}
  <2>1. PICK p \in Upgraded(acct.models) :
          Inferred(acct, p[2]).exhausted \/ ~(Inferred(acct, p[2]).left > 0)
    BY <1>3, ReadyOf
  <2>2. PICK i \in DOMAIN acct.models : /\ p[2].left = acct.models[i].left
                                        /\ p[2].exhausted <=> acct.models[i].exhausted
    BY <1>3, ModelBehind
  <2>3. GroupForModel(p[2]) = "gemini" => InFamily(acct.models, Flash \cup Pro) # {}
    BY <1>3, ModelBehind
  <2>4. acct.reset # TodayReset
    <3>1. SUFFICES ASSUME acct.reset = TodayReset PROVE FALSE
      OBVIOUS
    <3>2. Inferred(acct, p[2]).left = 100 /\ ~Inferred(acct, p[2]).exhausted
      BY <2>3, <3>1, InferredIs
    <3> QED
      BY <2>1, <3>2
  <2>5. Inferred(acct, p[2]) = p[2]
    BY <2>4, InferredIs
  <2>6. acct.models[i].exhausted \/ ~(acct.models[i].left > 0)
    BY <2>1, <2>2, <2>5
  <2>7. /\ acct.models[i].name \in ModelNames /\ acct.models[i].left \in 0 .. 100
        /\ acct.models[i].exhausted <=> acct.models[i].left = 0
    BY <1>0, EntriesOf
  <2>8. acct.models[i].left = 0
    BY <2>6, <2>7
  <2>9. i \in InFamily(acct.models, ModelNames)
    BY <2>7 DEF InFamily
  <2> QED
    BY <2>4, <2>8, <2>9
<1> QED
  <2>1. IsReady(acct) => acct.models # <<>>
    BY ReadyOf
  <2> QED
    BY <1>1, <1>2, <1>3, <2>1

\* The average of what is left of the groups.
LEMMA RemainingIs ==
  ASSUME NEW C, Lists(C)
  PROVE  /\ RemainingPct(GroupModels(C)) \in 0 .. 100
         /\ C # {} /\ (\A p \in C : p[2].left = 100) => RemainingPct(GroupModels(C)) = 100
<1> DEFINE groups == GroupModels(C)
           left == [g \in groups |-> g.left]
<1>1. IsFiniteSet(groups)
  BY GroupsAre
<1>2. ASSUME NEW lo \in Nat, \A p \in C : lo <= p[2].left, groups # {}
      PROVE  RemainingPct(groups) \in lo .. 100
  <2>1. \A g \in groups : left[g] \in lo .. 100
    BY <1>2, GroupsAre
  <2>2. Average(left, groups) \in lo .. 100
    <3>1. 100 \in Nat
      OBVIOUS
    <3> HIDE DEF left, groups
    <3> QED
      BY <1>1, <1>2, <2>1, <3>1, AverageIs
  <2> QED
    BY <1>2, <2>2 DEF RemainingPct
<1>3. \A p \in C : 0 <= p[2].left
  BY DEF Lists
<1>4. groups = {} => RemainingPct(groups) = 0
  BY DEF RemainingPct
<1>5. groups # {} <=> C # {}
  BY GroupsAre
<1> HIDE DEF groups
<1>6. RemainingPct(groups) \in 0 .. 100
  <2>1. 0 \in Nat /\ 0 \in 0 .. 100
    OBVIOUS
  <2>2. CASE groups # {}
    BY ONLY <1>2, <1>3, <2>1, <2>2
  <2> QED
    BY ONLY <1>4, <2>1, <2>2
<1>7. ASSUME C # {}, \A p \in C : p[2].left = 100 PROVE RemainingPct(groups) = 100
  <2>1. \A p \in C : 100 <= p[2].left
    BY <1>7
  <2>2. RemainingPct(groups) \in 100 .. 100
    BY <1>2, <1>5, <1>7, <2>1
  <2> QED
    BY <2>2
<1> QED
  BY <1>6, <1>7 DEF groups

\* At least half, when everything is left of all groups but one.
LEMMA HalfIs ==
  ASSUME NEW C, Lists(C), \E p \in C : GroupForModel(p[2]) # "gemini",
         \A p \in C : GroupForModel(p[2]) # "gemini" => p[2].left = 100
  PROVE  RemainingPct(GroupModels(C)) \in 50 .. 100
<1> DEFINE groups == GroupModels(C)
           rest == {g \in groups : g.group # "gemini"}
           left == [g \in groups |-> g.left]
           one == [g \in groups |-> 1]
<1>1. IsFiniteSet(groups) /\ groups # {}
  BY GroupsAre
<1>2. rest \subseteq groups /\ IsFiniteSet(rest) /\ rest # {}
  <2>1. \E g \in groups : g.group # "gemini"
    BY GroupsAre
  <2> QED
    BY <1>1, <2>1, FS_Subset
<1>3. \A g \in groups : g.left \in 0 .. 100
  <2>1. \A p \in C : 0 <= p[2].left
    BY DEF Lists
  <2>2. 0 \in Nat
    OBVIOUS
  <2> QED
    BY <2>1, <2>2, GroupsAre
<1>4. \A g \in rest : 100 <= g.left
  <2> TAKE g \in rest
  <2>1. \A p \in C : GroupForModel(p[2]) = g.group => 100 <= p[2].left
    OBVIOUS
  <2>2. g.left \in 100 .. 100
    BY <2>1, GroupsAre
  <2> QED
    BY <2>2
<1>5. \A g \in groups, h \in groups : g \notin rest /\ h \notin rest => g = h
  <2>1. \A g \in groups : g \notin rest => g.group = "gemini"
    OBVIOUS
  <2> QED
    BY <2>1, GroupsAre
<1>6. \A g \in groups : left[g] = g.left /\ one[g] = 1
  OBVIOUS
<1> HIDE DEF groups, rest, left, one
<1>7. /\ Naturals(left, groups) /\ Naturals(one, groups) /\ Naturals(left, rest)
      /\ Naturals(one, rest)
  BY <1>1, <1>2, <1>3, <1>6 DEF Naturals
<1>8. /\ Total(one, groups) = Cardinality(groups) /\ Cardinality(groups) \in Nat \ {0}
      /\ Total(one, rest) = Cardinality(rest) /\ Cardinality(rest) \in Nat \ {0}
  BY <1>1, <1>2, <1>6, TotalOfOnes, FS_CardinalityType, FS_EmptySet
<1>9. Cardinality(groups) <= Cardinality(rest) + 1
  <2>1. CASE groups = rest
    BY <1>8, <2>1
  <2>2. CASE groups # rest
    <3>1. PICK g \in groups : g \notin rest
      BY <1>2, <2>2
    <3>2. rest = groups \ {g}
      BY <1>2, <1>5, <3>1
    <3>3. Cardinality(rest) = Cardinality(groups) - 1
      BY <1>1, <3>2, FS_RemoveElement
    <3> QED
      BY <1>8, <3>3
  <2> QED
    BY <2>1, <2>2
<1>10. /\ Total(left, rest) \in Nat /\ Total(left, groups) \in Nat
       /\ Total(left, rest) <= Total(left, groups)
  BY <1>2, <1>7, TotalOfPart
<1>11. 100 * Total(one, rest) <= Total(left, rest)
  <2>1. \A g \in rest : 100 * one[g] <= left[g]
    BY <1>2, <1>3, <1>4, <1>6
  <2> QED
    BY <1>7, <2>1, TotalBounds
<1>12. Total(left, groups) <= 100 * Total(one, groups)
  <2>1. \A g \in groups : left[g] <= 100 * one[g]
    BY <1>3, <1>6
  <2> QED
    BY <1>7, <2>1, TotalBounds
<1>13. Total(left, groups) \div Cardinality(groups) \in 50 .. 100
  <2>1. 50 * Cardinality(groups) <= Total(left, groups)
    BY <1>8, <1>9, <1>10, <1>11
  <2> DEFINE n == Cardinality(groups) x == Total(left, groups)
  <2>2. n \in Nat \ {0} /\ x \in Nat /\ 50 * n <= x /\ x <= 100 * n /\ 50 \in Nat /\ 100 \in Nat
    BY <1>8, <1>10, <1>12, <2>1
  <2> HIDE DEF n, x
  <2>3. x \div n \in 50 .. 100
    BY ONLY <2>2, QuotientBetween
  <2> QED
    BY <2>3 DEF n, x
<1>14. RemainingPct(groups) = Average(left, groups)
  BY <1>1 DEF RemainingPct, left
<1> QED
  BY <1>7, <1>13, <1>14, SumOverIs DEF Average, groups

\* What a score is made of.
Weighs(s, k, b, r) == s.score = k * ((6 * s.remaining + 2 * b) + 2 * r)
Scored(s) ==
  /\ s.remaining \in 0 .. 100 /\ s.minutes \in Nat /\ s.stale \in BOOLEAN
  /\ \E b, r \in 0 .. 100 :
       /\ s.remaining >= 20 => r = 50
       /\ s.stale => Weighs(s, 3, b, r)
       /\ ~s.stale => Weighs(s, 10, b, r)

\* What is added to a score.
LEMMA BonusesAre ==
  ASSUME NEW acct \in SeenAccounts, NEW remaining \in 0 .. 100
  PROVE  /\ BurnRateBonus(acct) \in 0 .. 100 /\ MinutesToReset(acct) \in Nat
         /\ ResetBonus(remaining, MinutesToReset(acct)) \in 0 .. 100
         /\ remaining >= 20 => ResetBonus(remaining, MinutesToReset(acct)) = 50
<1>1. BurnRateBonus(acct) \in 0 .. 100
  <2>1. CASE acct.cycle > 0
    <3>1. acct.cycle \in Nat \ {0}
      BY <2>1, ModelsOf
    <3>2. CurrentRate(acct) \in Nat
      BY <3>1 DEF CurrentRate
    <3> QED
      BY <3>2 DEF BurnRateBonus
  <2>2. CASE ~(acct.cycle > 0)
    BY <2>2 DEF BurnRateBonus, HasIntelligence
  <2> QED
    BY <2>1, <2>2
<1>2. MinutesToReset(acct) \in Nat
  <2>1. acct.reset \in Nat \cup {-1, -2, -3}
    BY ModelsOf DEF NoReset, TodayReset, OldReset
  <2> QED
    BY <2>1 DEF MinutesToReset
<1>3. ASSUME NEW m \in Nat
      PROVE  ResetBonus(remaining, m) \in 0 .. 100 /\ (remaining >= 20 => ResetBonus(remaining, m) = 50)
  BY DEF ResetBonus
<1> QED
  BY <1>1, <1>2, <1>3

\* The score of an account.
LEMMA ScoreIs ==
  ASSUME NEW acct \in SeenAccounts
  PROVE  /\ Scored(ScoreAccount(acct)) /\ ScoreAccount(acct).minutes = MinutesToReset(acct)
         /\ /\ acct.models # <<>>
            /\ \A p \in Upgraded(acct.models) : Inferred(acct, p[2]).left = 100
            => ScoreAccount(acct).remaining = 100
         /\ /\ \E p \in Upgraded(acct.models) : GroupForModel(p[2]) # "gemini"
            /\ \A p \in Upgraded(acct.models) :
                 GroupForModel(p[2]) # "gemini" => Inferred(acct, p[2]).left = 100
            => ScoreAccount(acct).remaining >= 50
<1> DEFINE C == Corrected(acct)
           rem == RemainingPct(GroupModels(C))
           min == MinutesToReset(acct)
           b == BurnRateBonus(acct)
           r == ResetBonus(rem, min)
           w == 6 * rem + 2 * b + 2 * r
           s == ScoreAccount(acct)
<1>1. Lists(C)
  BY CorrectedIs DEF Lists
<1>2. s = [score |-> Score(w, acct.stale), remaining |-> rem, minutes |-> min,
           ready |-> Ready(GroupModels(C)), stale |-> acct.stale]
  BY Zenon DEF ScoreAccount
<1>3. rem \in 0 .. 100
  BY <1>1, RemainingIs
<1>4. b \in 0 .. 100 /\ min \in Nat /\ r \in 0 .. 100 /\ (rem >= 20 => r = 50)
  BY <1>3, BonusesAre
<1>5. s.score = Score(w, acct.stale) /\ s.remaining = rem /\ s.minutes = min
  <2> HIDE DEF w, rem, min, C, s
  <2> QED
    BY <1>2, Zenon
<1>6. s.stale = acct.stale
  <2> HIDE DEF w, rem, min, C, s
  <2> QED
    BY <1>2, Zenon
<1>7. w = (6 * rem + 2 * b) + 2 * r
  OBVIOUS
<1>8. acct.stale \in BOOLEAN
  BY ModelsOf
<1>9. Scored(s)
  <2>1. s.remaining \in 0 .. 100 /\ s.minutes \in Nat /\ (s.remaining >= 20 => r = 50)
    <3> HIDE DEF w, rem, min, C, s, b, r
    <3> QED
      BY <1>3, <1>4, <1>5
  <2>2. s.stale \in BOOLEAN
    BY ONLY <1>6, <1>8
  <2>3. s.stale => Weighs(s, 3, b, r)
    <3> HIDE DEF s
    <3>1. SUFFICES ASSUME s.stale PROVE s.score = 3 * w
      BY <1>5, <1>7 DEF Weighs
    <3>2. acct.stale
      BY ONLY <1>6, <3>1
    <3> QED
      BY <1>5, <3>2 DEF Score
  <2>4. ~s.stale => Weighs(s, 10, b, r)
    <3> HIDE DEF s
    <3>1. SUFFICES ASSUME ~s.stale PROVE s.score = 10 * w
      BY <1>5, <1>7 DEF Weighs
    <3>2. ~acct.stale
      BY ONLY <1>6, <3>1
    <3> QED
      BY <1>5, <3>2 DEF Score
  <2> HIDE DEF b, r, s
  <2> QED
    BY <1>4, <2>1, <2>2, <2>3, <2>4, Zenon DEF Scored
<1>10. ASSUME acct.models # <<>>,
              \A p \in Upgraded(acct.models) : Inferred(acct, p[2]).left = 100
       PROVE  s.remaining = 100
  <2>1. C # {} /\ \A q \in C : q[2].left = 100
    BY <1>10, CorrectedIs
  <2>2. rem = 100
    BY <1>1, <2>1, RemainingIs
  <2> QED
    BY <1>5, <2>2
<1>11. ASSUME \E p \in Upgraded(acct.models) : GroupForModel(p[2]) # "gemini",
              \A p \in Upgraded(acct.models) :
                GroupForModel(p[2]) # "gemini" => Inferred(acct, p[2]).left = 100
       PROVE  s.remaining >= 50
  <2>1. \A q \in C : GroupForModel(q[2]) # "gemini" => q[2].left = 100
    <3> TAKE q \in C
    <3>1. PICK p \in Upgraded(acct.models) : q[2] = Inferred(acct, p[2])
      BY CorrectedIs
    <3> QED
      BY <1>11, <3>1, GroupKept
  <2>2. \E q \in C : GroupForModel(q[2]) # "gemini"
    <3>1. PICK p \in Upgraded(acct.models) : GroupForModel(p[2]) # "gemini"
      BY <1>11
    <3>2. PICK q \in C : q[2] = Inferred(acct, p[2])
      BY CorrectedIs
    <3> QED
      BY <3>1, <3>2, GroupKept
  <2>3. rem \in 50 .. 100
    BY <1>1, <2>1, <2>2, HalfIs
  <2> QED
    BY <1>5, <2>3
<1> QED
  BY <1>5, <1>9, <1>10, <1>11

\* Scores that were computed.
Ranked(scores) == \A i \in DOMAIN scores : Scored(scores[i])

\* Scores of old readings, of empty accounts and of those with something left.
LEMMA ScoredBounds ==
  ASSUME NEW s, Scored(s)
  PROVE  /\ s.score \in Int /\ s.remaining \in 0 .. 100
         /\ s.stale => s.score <= 2700
         /\ s.remaining = 0 => s.score <= 4000
         /\ ~s.stale => /\ s.remaining >= 30 => s.score >= 2800
                        /\ s.remaining >= 51 => s.score >= 4060
                        /\ s.remaining >= 26 => s.score >= 2560
<1>1. PICK b \in 0 .. 100, r \in 0 .. 100 :
        /\ s.remaining >= 20 => r = 50
        /\ s.stale => Weighs(s, 3, b, r)
        /\ ~s.stale => Weighs(s, 10, b, r)
  BY Zenon DEF Scored
<1>2. s.remaining \in 0 .. 100
  BY Zenon DEF Scored
<1>3. CASE s.stale
  <2>1. s.score = 3 * ((6 * s.remaining + 2 * b) + 2 * r)
    BY <1>1, <1>3 DEF Weighs
  <2>2. s.score \in Int /\ s.score <= 2700 /\ s.score <= 4000
    BY <1>1, <1>2, <2>1
  <2> QED
    BY <1>2, <1>3, <2>2
<1>4. CASE ~s.stale
  <2>1. s.score = 10 * ((6 * s.remaining + 2 * b) + 2 * r)
    BY <1>1, <1>4 DEF Weighs
  <2>2. /\ s.score \in Int
        /\ s.remaining = 0 => s.score <= 4000
        /\ s.remaining >= 30 => s.score >= 2800
        /\ s.remaining >= 51 => s.score >= 4060
        /\ s.remaining >= 26 => s.score >= 2560
    BY <1>1, <1>2, <2>1
  <2> QED
    BY <1>2, <1>4, <2>2
<1> QED
  BY <1>3, <1>4

\* No account has a better score than the best.
LEMMA BestIs ==
  ASSUME NEW scores, Ranked(scores), NEW b \in Best(scores)
  PROVE  b \in DOMAIN scores /\ \A j \in DOMAIN scores : scores[j].score <= scores[b].score
<1>1. b \in DOMAIN scores /\ \A j \in DOMAIN scores :
        scores[j].score < scores[b].score \/ scores[j].score = scores[b].score
  BY DEF Best
<1>2. \A j \in DOMAIN scores : scores[j].score \in Int
  BY ScoredBounds DEF Ranked
<1> QED
  BY <1>1, <1>2

\* The best is of use.
LEMMA UsefulThen ==
  ASSUME NEW scores, Ranked(scores)
  PROVE  BestIsUseful(scores)
<1> SUFFICES ASSUME NEW b \in Best(scores), NEW i \in DOMAIN scores, ~scores[i].stale
             PROVE  /\ scores[i].remaining >= 30 => ~scores[b].stale
                    /\ scores[i].remaining >= 51 => scores[b].remaining > 0
  BY DEF BestIsUseful
<1>1. Scored(scores[i]) /\ Scored(scores[b]) /\ scores[i].score <= scores[b].score
  BY BestIs DEF Ranked
<1>2. /\ scores[i].score \in Int /\ scores[b].score \in Int
      /\ scores[i].remaining \in 0 .. 100 /\ scores[b].remaining \in 0 .. 100
  BY <1>1, ScoredBounds
<1>3. ASSUME scores[i].remaining >= 30, scores[b].stale PROVE FALSE
  <2>1. scores[i].score >= 2800 /\ scores[b].score <= 2700
    BY <1>1, <1>3, ScoredBounds
  <2> QED
    BY <1>1, <1>2, <2>1
<1>4. ASSUME scores[i].remaining >= 51, scores[b].remaining = 0 PROVE FALSE
  <2>1. scores[i].score >= 4060 /\ scores[b].score <= 4000
    BY <1>1, <1>4, ScoredBounds
  <2> QED
    BY <1>1, <1>2, <2>1
<1>5. scores[b].remaining # 0 => scores[b].remaining > 0
  BY <1>2
<1> QED
  BY <1>3, <1>4, <1>5

\* So is switching to it.
LEMMA SwitchThen ==
  ASSUME NEW scores, Ranked(scores)
  PROVE  SwitchingHelps(scores)
<1> SUFFICES ASSUME NEW c \in DOMAIN scores, NEW b \in Best(scores),
                    Action(scores, c, b) = "switch"
             PROVE  /\ scores[b].remaining = 0 => scores[c].stale \/ scores[c].remaining <= 25
                    /\ \A n \in Best(scores) : Action(scores, b, n) # "switch"
  BY DEF SwitchingHelps
<1>1. ASSUME NEW x \in DOMAIN scores, NEW y, Action(scores, x, y) = "switch"
      PROVE  scores[y].score - scores[x].score >= 1500
  BY <1>1 DEF Action
<1>2. /\ b \in DOMAIN scores /\ Scored(scores[b]) /\ Scored(scores[c])
      /\ \A n \in Best(scores) : n \in DOMAIN scores /\ scores[n].score <= scores[b].score
  BY BestIs DEF Ranked
<1>3. \A n \in DOMAIN scores : scores[n].score \in Int /\ scores[n].remaining \in 0 .. 100
  BY ScoredBounds DEF Ranked
<1>4. ASSUME scores[b].remaining = 0, ~scores[c].stale, ~(scores[c].remaining <= 25) PROVE FALSE
  <2>1. scores[c].remaining >= 26
    BY <1>3, <1>4
  <2>2. scores[b].score <= 4000 /\ scores[c].score >= 2560
    BY <1>2, <1>4, <2>1, ScoredBounds
  <2>3. scores[b].score - scores[c].score >= 1500
    BY <1>1
  <2> QED
    BY <1>2, <1>3, <2>2, <2>3
<1>5. ASSUME NEW n \in Best(scores), Action(scores, b, n) = "switch" PROVE FALSE
  <2>1. scores[n].score - scores[b].score >= 1500
    BY <1>1, <1>2, <1>5
  <2>2. scores[n].score \in Int /\ scores[b].score \in Int /\ scores[n].score <= scores[b].score
    BY <1>2, <1>3
  <2> QED
    BY ONLY <2>1, <2>2
<1> QED
  BY <1>4, <1>5

\* Once its reset has passed, everything is left of an account whose models are known,
\* and half of it of another with models of other groups.
LEMMA ResetFills ==
  ASSUME NEW acct \in SeenAccounts, acct.reset = TodayReset,
         InFamily(acct.models, ModelNames \ {"gemini"}) # {}
  PROVE  IF Lost(acct.models) THEN ScoreAccount(acct).remaining >= 50
                              ELSE ScoreAccount(acct).remaining = 100
<1>1. ASSUME ~Lost(acct.models), NEW p \in Upgraded(acct.models) PROVE Inferred(acct, p[2]).left = 100
  <2>1. GroupForModel(p[2]) = "gemini" => InFamily(acct.models, Flash \cup Pro) # {}
    BY <1>1, ModelBehind
  <2>2. acct.reset = TodayReset
    OBVIOUS
  <2> QED
    BY ONLY <2>1, <2>2, InferredIs
<1>2. PICK i \in DOMAIN acct.models : acct.models[i].name \in ModelNames \ {"gemini"}
  BY DEF InFamily
<1>3. CASE ~Lost(acct.models)
  <2>1. acct.models # <<>>
    BY <1>2
  <2> QED
    BY <1>1, <1>3, <2>1, ScoreIs
<1>4. CASE Lost(acct.models)
  <2>1. acct.models[i].name \notin GeminiModels
    BY <1>2, <1>4 DEF Lost, InFamily, GeminiModels
  <2>2. PICK p \in Upgraded(acct.models) : p[2] = acct.models[i]
    BY <2>1, ShownOf
  <2>3. GroupForModel(p[2]) # "gemini"
    BY <2>1, <2>2 DEF GroupForModel
  <2>4. ASSUME NEW q \in Upgraded(acct.models), GroupForModel(q[2]) # "gemini"
        PROVE  Inferred(acct, q[2]).left = 100
    <3>1. acct.reset = TodayReset
      OBVIOUS
    <3> QED
      BY ONLY <2>4, <3>1, InferredIs
  <2>5. ScoreAccount(acct).remaining >= 50
    BY <2>3, <2>4, ScoreIs
  <2> QED
    BY <1>4, <2>5
<1> QED
  BY <1>3, <1>4

\* An account whose reset moved is an account like others.
LEMMA LaterIs ==
  ASSUME NEW acct \in SeenAccounts, NEW r \in Nat \cup {NoReset, TodayReset, OldReset}
  PROVE  LET next == [acct EXCEPT !.reset = r] IN
         next \in SeenAccounts /\ next.reset = r /\ next.models = acct.models
<1> DEFINE next == [acct EXCEPT !.reset = r]
<1>1. acct \in [models : Seq(ModelEntries), reset : Nat \cup {NoReset, TodayReset, OldReset},
                stale : BOOLEAN, cycle : Nat]
  BY DEF SeenAccounts
<1>2. /\ next \in [models : Seq(ModelEntries), reset : Nat \cup {NoReset, TodayReset, OldReset},
                stale : BOOLEAN, cycle : Nat]
      /\ next.reset = r /\ next.models = acct.models
  BY <1>1
<1>3. \A i, j \in DOMAIN acct.models :
        acct.models[i].name = acct.models[j].name /\ acct.models[i].name \in TodaysModels => i = j
  BY ModelsOf
<1> HIDE DEF next
<1>4. next \in SeenAccounts
  BY <1>2, <1>3, Zenon DEF SeenAccounts
<1> QED
  BY <1>2, <1>4 DEF next

\* Waiting until the soonest reset helps.
LEMMA WaitThen ==
  ASSUME fleet.accounts \in Seq(SeenAccounts)
  PROVE  WaitingHelps(Scores(fleet.accounts))
<1> DEFINE accts == fleet.accounts
           scores == Scores(accts)
           soonest == SoonestReset(scores)
           later == Scores(Later(accts, soonest))
           known == {scores[i].minutes : i \in DOMAIN scores} \ {0}
<1>1. /\ DOMAIN scores = DOMAIN accts /\ DOMAIN later = DOMAIN accts
      /\ \A i \in DOMAIN accts :
           /\ accts[i] \in SeenAccounts /\ scores[i] = ScoreAccount(accts[i])
           /\ later[i] = ScoreAccount([accts[i] EXCEPT !.reset = Passed(accts[i].reset, soonest)])
  <2>1. /\ DOMAIN Later(accts, soonest) = DOMAIN accts
        /\ \A i \in DOMAIN accts : Later(accts, soonest)[i] =
             [accts[i] EXCEPT !.reset = Passed(accts[i].reset, soonest)]
    BY Zenon DEF Later
  <2>2. DOMAIN scores = DOMAIN accts /\ \A i \in DOMAIN accts : scores[i] = ScoreAccount(accts[i])
    BY Zenon DEF Scores
  <2>3. /\ DOMAIN later = DOMAIN accts
        /\ \A i \in DOMAIN accts : later[i] = ScoreAccount(Later(accts, soonest)[i])
    BY <2>1, Zenon DEF Scores
  <2>4. \A i \in DOMAIN accts : accts[i] \in SeenAccounts
    OBVIOUS
  <2> HIDE DEF accts, scores, soonest, later
  <2> QED
    BY <2>1, <2>2, <2>3, <2>4
<1> SUFFICES ASSUME Waits(scores)
             PROVE  /\ \A i \in DOMAIN scores : scores[i].minutes = soonest =>
                         IF Lost(accts[i].models) THEN later[i].remaining >= 50
                                                  ELSE later[i].remaining = 100
                    /\ ~Waits(later)
  BY Zenon DEF WaitingHelps
<1>2. soonest \in 1 .. 30
  <2> HIDE DEF accts, scores, soonest, later
  <2> QED
    BY DEF Waits, Action, soonest
<1>3. IsFiniteSet(known) /\ known \subseteq Int
  <2> DEFINE minutes == [i \in DOMAIN scores |-> scores[i].minutes]
  <2>1. DOMAIN scores = 1 .. Len(accts) /\ Len(accts) \in Int
    BY <1>1
  <2>2. IsFiniteSet(DOMAIN scores)
    BY ONLY <2>1, 1 \in Int, FS_Interval
  <2>3. \A i \in DOMAIN scores : scores[i].minutes \in Nat
    <3> HIDE DEF scores
    <3> TAKE i \in DOMAIN scores
    <3>1. accts[i] \in SeenAccounts /\ scores[i] = ScoreAccount(accts[i])
      BY <1>1
    <3>2. Scored(scores[i])
      BY ONLY <3>1, ScoreIs
    <3> QED
      BY ONLY <3>2, Zenon DEF Scored
  <2> HIDE DEF scores
  <2>4. {scores[i].minutes : i \in DOMAIN scores} = {minutes[i] : i \in DOMAIN scores}
    OBVIOUS
  <2> HIDE DEF minutes
  <2>5. IsFiniteSet({scores[i].minutes : i \in DOMAIN scores})
    BY <2>2, <2>4, FiniteImage
  <2> QED
    BY <2>3, <2>5, FS_Subset
<1> HIDE DEF accts, scores, soonest, later
<1>4. \E i \in DOMAIN scores : scores[i].minutes = soonest
  <2>1. soonest = IF known = {} THEN 0 ELSE Min(known)
    BY Zenon DEF soonest, SoonestReset
  <2>2. known # {}
    <3> HIDE DEF known
    <3> QED
      BY <1>2, <2>1
  <2>3. Min(known) \in known
    <3> HIDE DEF known
    <3> QED
      BY <1>3, <2>2, LeastIn
  <2> QED
    BY <2>1, <2>2, <2>3
<1>5. ASSUME NEW i \in DOMAIN scores, scores[i].minutes = soonest
      PROVE  IF Lost(accts[i].models) THEN later[i].remaining >= 50
                                      ELSE later[i].remaining = 100
  <2>1. i \in DOMAIN accts /\ accts[i] \in SeenAccounts
    BY <1>1
  <2>2. MinutesToReset(accts[i]) = soonest
    BY <1>1, <1>5, <2>1, ScoreIs
  <2>3. accts[i].reset = soonest /\ InFamily(accts[i].models, ModelNames \ {"gemini"}) # {}
    <3>1. soonest # 0
      BY <1>2
    <3> QED
      BY ONLY <2>2, <3>1, Zenon DEF MinutesToReset
  <2>4. Passed(accts[i].reset, soonest) = TodayReset
    BY <1>2, <2>3 DEF Passed
  <2>5. later[i] = ScoreAccount([accts[i] EXCEPT !.reset = TodayReset])
    BY <1>1, <2>1, <2>4
  <2> DEFINE next == [accts[i] EXCEPT !.reset = TodayReset]
  <2>6. next \in SeenAccounts /\ next.reset = TodayReset /\ next.models = accts[i].models
    BY <2>1, LaterIs
  <2> HIDE DEF next
  <2>7. IF Lost(next.models) THEN ScoreAccount(next).remaining >= 50
                             ELSE ScoreAccount(next).remaining = 100
    BY <2>3, <2>6, ResetFills
  <2> QED
    BY <2>5, <2>6, <2>7 DEF next
<1>6. \A i \in DOMAIN later : later[i].remaining \in 0 .. 100
  <2> TAKE i \in DOMAIN later
  <2>1. i \in DOMAIN accts /\ accts[i] \in SeenAccounts
    BY <1>1
  <2> DEFINE next == [accts[i] EXCEPT !.reset = Passed(accts[i].reset, soonest)]
  <2>2. next \in SeenAccounts
    <3>1. accts[i].reset \in Nat \cup {NoReset, TodayReset, OldReset}
      BY <2>1, ModelsOf
    <3> DEFINE r == accts[i].reset
    <3>2. Passed(r, soonest) \in Nat \cup {NoReset, TodayReset, OldReset}
      <4>1. r \in Nat \/ r = -1 \/ r = -2 \/ r = -3
        BY <3>1 DEF NoReset, TodayReset, OldReset
      <4> HIDE DEF r
      <4>2. \/ Passed(r, soonest) = r /\ r < 0
            \/ Passed(r, soonest) = TodayReset
            \/ Passed(r, soonest) = r - soonest /\ r - soonest \in Nat
        BY <1>2, <4>1 DEF Passed
      <4> QED
        BY <4>1, <4>2 DEF NoReset, TodayReset, OldReset
    <3> QED
      BY <2>1, <3>2, LaterIs
  <2> HIDE DEF next
  <2>3. Scored(ScoreAccount(next))
    BY <2>2, ScoreIs
  <2>4. later[i] = ScoreAccount(next)
    BY <1>1, <2>1 DEF next
  <2>5. Scored(later[i])
    BY <2>3, <2>4
  <2> QED
    BY ONLY <2>5, Zenon DEF Scored
<1>7. ~Waits(later)
  <2>1. PICK i \in DOMAIN later : later[i].remaining >= 50 \/ later[i].remaining = 100
    BY <1>1, <1>4, <1>5
  <2>2. ASSUME NEW c, NEW b PROVE Action(later, c, b) # "wait"
    <3>1. later[i].remaining \in 0 .. 100
      BY <1>6
    <3>2. ~(later[i].remaining < 10)
      BY ONLY <2>1, <3>1
    <3> QED
      BY <3>2 DEF Action
  <2> QED
    BY <2>2 DEF Waits
<1> QED
  BY <1>5, <1>7

\* Use is hidden only when a reset has passed.
LEMMA EstimateThen ==
  ASSUME fleet \in Fleets
  PROVE  EstimatesFollowResets
<1> DEFINE w == fleet.window
<1>1. /\ w.kind \in {"none", "five", "seven", "cursor", "copilot"}
      /\ w.reset \in Nat /\ w.used \in Nat /\ w.now \in Nat
  BY DEF Fleets
<1>2. Status.used = ShownUsed(w)
  BY Zenon DEF Status
<1> DEFINE late == IF w.kind = "copilot" THEN 168 ELSE IF w.kind = "cursor" THEN 48 ELSE 24
           months == IF w.kind = "copilot" THEN 0 .. w.now \div 720 ELSE {0}
<1>3. late = Trusted(w.kind)
  BY <1>1 DEF Trusted
<1> SUFFICES ASSUME Status.used # w.used
             PROVE  \E r \in {w.reset + 720 * n : n \in months} : r <= w.now /\ w.now - r < late
  BY Zenon DEF EstimatesFollowResets
<1>4. SinceReset(w) \in 0 .. late - 1
  BY <1>2, <1>3 DEF ShownUsed
<1>5. \E n \in months : w.reset + 720 * n <= w.now /\ w.now - (w.reset + 720 * n) < late
  <2>1. CASE w.kind = "copilot"
    <3>1. CASE w.now >= w.reset
      <4> DEFINE since == w.now - w.reset n == since \div 720
      <4>1. since \in Nat /\ since <= w.now
        BY <1>1, <3>1
      <4>2. /\ n \in Nat /\ since = 720 * n + (since % 720) /\ n <= w.now \div 720
        <5> HIDE DEF since
        <5> QED
          BY <1>1, <4>1
      <4>3. SinceReset(w) = since % 720
        BY <2>1, <3>1 DEF SinceReset
      <4>4. n \in months
        BY <1>1, <2>1, <4>2
      <4> HIDE DEF n, months
      <4>5. w.reset + 720 * n <= w.now /\ w.now - (w.reset + 720 * n) < late
        BY <1>1, <1>4, <4>2, <4>3
      <4> QED
        BY <4>4, <4>5
    <3>2. CASE ~(w.now >= w.reset)
      BY <1>1, <1>4, <2>1, <3>2 DEF SinceReset
    <3> QED
      BY <3>1, <3>2
  <2>2. CASE w.kind # "copilot"
    <3>1. 0 \in months
      BY <2>2
    <3>2. SinceReset(w) = w.now - w.reset
      BY <2>2 DEF SinceReset
    <3>3. w.reset + 720 * 0 <= w.now /\ w.now - (w.reset + 720 * 0) < late
      BY <1>1, <1>4, <3>2
    <3> QED
      BY <3>1, <3>3
  <2> QED
    BY <2>1, <2>2
<1> QED
  BY <1>5

-----------------------------------------------------------------------------
\* The accounts and windows that the runs start from are such as any others.
LEMMA EntryTyped ==
  ASSUME NEW n \in ModelNames, NEW l \in 0 .. 100
  PROVE  Entry(n, l) \in ModelEntries /\ Entry(n, l).name = n
<1>1. ASSUME NEW b \in BOOLEAN, NEW e, e = [name |-> n, left |-> l, exhausted |-> b], b <=> l = 0
      PROVE  e \in ModelEntries /\ e.name = n
  <2>1. e \in [name : ModelNames, left : 0 .. 100, exhausted : BOOLEAN]
    BY <1>1, Zenon
  <2>2. e.name = n /\ e.left = l /\ e.exhausted = b
    BY <1>1, Zenon
  <2>3. e.exhausted <=> e.left = 0
    BY <1>1, <2>2, Zenon
  <2> QED
    BY <2>1, <2>2, <2>3, Zenon DEF ModelEntries
<1>2. CASE l = 0
  <2>1. Entry(n, l) = [name |-> n, left |-> l, exhausted |-> TRUE]
    BY <1>2 DEF Entry
  <2> QED
    BY <1>1, <1>2, <2>1, Zenon
<1>3. CASE l # 0
  <2>1. Entry(n, l) = [name |-> n, left |-> l, exhausted |-> FALSE]
    BY <1>3 DEF Entry
  <2> QED
    BY <1>1, <1>3, <2>1, Zenon
<1> QED
  BY <1>2, <1>3

\* A reading of models with different names.
LEMMA SeenTyped ==
  ASSUME NEW ms \in Seq(ModelEntries), NEW r \in Nat \cup {NoReset, TodayReset, OldReset},
         NEW s \in BOOLEAN, NEW c \in Nat,
         \A i, j \in DOMAIN ms : ms[i].name = ms[j].name => i = j
  PROVE  Seen(ms, r, s, c) \in SeenAccounts
<1> DEFINE acct == Seen(ms, r, s, c)
<1>1. acct = [models |-> ms, reset |-> r, stale |-> s, cycle |-> c]
  BY DEF Seen
<1> HIDE DEF acct
<1>2. /\ acct \in [models : Seq(ModelEntries), reset : Nat \cup {NoReset, TodayReset, OldReset},
                   stale : BOOLEAN, cycle : Nat]
      /\ acct.models = ms
  BY <1>1, Zenon
<1>3. acct \in SeenAccounts
  BY <1>2, Zenon DEF SeenAccounts
<1> QED
  BY <1>3 DEF acct

LEMMA ShapeIs ==
  ASSUME NEW ms \in Shapes
  PROVE  ms \in Seq(ModelEntries) /\ \A i, j \in DOMAIN ms : ms[i].name = ms[j].name => i = j
<1>1. {"claude", "m133"} \subseteq ModelNames
  BY DEF ModelNames, GeminiModels, Flash
<1>2. CASE \E l \in {0, 8, 50, 100} : ms = <<Entry("claude", l)>>
  <2>1. PICK l \in {0, 8, 50, 100} : ms = <<Entry("claude", l)>>
    BY <1>2
  <2>2. Entry("claude", l) \in ModelEntries
    BY <1>1, EntryTyped
  <2> QED
    BY <2>1, <2>2
<1>3. ASSUME NEW k \in 0 .. 100, NEW l \in 0 .. 100, ms = <<Entry("claude", k), Entry("m133", l)>>
      PROVE  ms \in Seq(ModelEntries) /\ \A i, j \in DOMAIN ms : ms[i].name = ms[j].name => i = j
  <2>1. /\ Entry("claude", k) \in ModelEntries /\ Entry("m133", l) \in ModelEntries
        /\ Entry("claude", k).name = "claude" /\ Entry("m133", l).name = "m133"
    BY <1>1, EntryTyped
  <2>2. /\ ms \in Seq(ModelEntries) /\ DOMAIN ms = {1, 2}
        /\ ms[1].name = "claude" /\ ms[2].name = "m133"
    BY <1>3, <2>1
  <2> QED
    BY <2>2
<1>4. CASE ms \in {<<Entry("claude", 0), Entry("m133", 100)>>, <<Entry("claude", 50), Entry("m133", 8)>>}
  <2>1. 0 \in 0 .. 100 /\ 8 \in 0 .. 100 /\ 50 \in 0 .. 100 /\ 100 \in 0 .. 100
    OBVIOUS
  <2>2. \/ ms = <<Entry("claude", 0), Entry("m133", 100)>>
        \/ ms = <<Entry("claude", 50), Entry("m133", 8)>>
    BY <1>4
  <2> QED
    BY ONLY <1>3, <2>1, <2>2
<1>5. \/ \E l \in {0, 8, 50, 100} : ms = <<Entry("claude", l)>>
      \/ ms \in {<<Entry("claude", 0), Entry("m133", 100)>>, <<Entry("claude", 50), Entry("m133", 8)>>}
  BY DEF Shapes
<1> QED
  BY <1>2, <1>4, <1>5

LEMMA FleetTyped ==
  /\ \A accts \in Seq(SeenAccounts) : [NoFleet EXCEPT !.accounts = accts] \in Fleets
  /\ \A w \in [kind : {"none", "five", "seven", "cursor", "copilot"}, reset : Nat, used : Nat,
               now : Nat] : [NoFleet EXCEPT !.window = w] \in Fleets
<1>1. NoFleet = [accounts |-> <<>>, window |-> NoWindow] /\ NoWindow \in
        [kind : {"none", "five", "seven", "cursor", "copilot"}, reset : Nat, used : Nat, now : Nat]
  BY DEF NoFleet, NoWindow
<1>2. <<>> \in Seq(SeenAccounts)
  OBVIOUS
<1> QED
  BY <1>1, <1>2 DEF Fleets

LEMMA FirstFleets ==
  ASSUME AdviceInit
  PROVE  fleet \in Fleets
<1>1. CASE \E n \in 0 .. MaxModels : \E ms \in [1 .. n -> ModelNames], ls \in [1 .. n -> {0, 100}],
             r \in {NoReset, TodayReset, OldReset} :
         /\ \A i, j \in 1 .. n : i # j => ms[i] # ms[j]
         /\ fleet = [NoFleet EXCEPT !.accounts =
              <<Seen([i \in 1 .. n |-> Entry(ms[i], ls[i])], r, r = OldReset, 0)>>]
  <2>1. PICK n \in 0 .. MaxModels : \E ms \in [1 .. n -> ModelNames], ls \in [1 .. n -> {0, 100}],
             r \in {NoReset, TodayReset, OldReset} :
         /\ \A i, j \in 1 .. n : i # j => ms[i] # ms[j]
         /\ fleet = [NoFleet EXCEPT !.accounts =
              <<Seen([i \in 1 .. n |-> Entry(ms[i], ls[i])], r, r = OldReset, 0)>>]
    BY <1>1
  <2>2. PICK ms \in [1 .. n -> ModelNames], ls \in [1 .. n -> {0, 100}],
             r \in {NoReset, TodayReset, OldReset} :
         /\ \A i, j \in 1 .. n : i # j => ms[i] # ms[j]
         /\ fleet = [NoFleet EXCEPT !.accounts =
              <<Seen([i \in 1 .. n |-> Entry(ms[i], ls[i])], r, r = OldReset, 0)>>]
    BY <2>1
  <2> DEFINE models == [i \in 1 .. n |-> Entry(ms[i], ls[i])]
  <2>3. \A i \in 1 .. n : Entry(ms[i], ls[i]) \in ModelEntries /\ Entry(ms[i], ls[i]).name = ms[i]
    <3> TAKE i \in 1 .. n
    <3>1. ms[i] \in ModelNames /\ ls[i] \in {0, 100}
      OBVIOUS
    <3>2. ls[i] \in 0 .. 100
      BY <3>1
    <3> QED
      BY ONLY <3>1, <3>2, EntryTyped
  <2>4. n \in Nat
    OBVIOUS
  <2>5. models \in Seq(ModelEntries) /\ DOMAIN models = 1 .. n
    BY <2>3, <2>4
  <2>6. \A i \in 1 .. n : models[i].name = ms[i]
    BY <2>3
  <2> HIDE DEF models
  <2>7. (r = OldReset) \in BOOLEAN /\ 0 \in Nat /\ r \in Nat \cup {NoReset, TodayReset, OldReset}
    BY <2>2
  <2>8. Seen(models, r, r = OldReset, 0) \in SeenAccounts
    <3>1. \A i, j \in DOMAIN models : models[i].name = models[j].name => i = j
      BY <2>2, <2>5, <2>6
    <3> QED
      BY <2>5, <2>7, <3>1, SeenTyped
  <2>9. fleet = [NoFleet EXCEPT !.accounts = <<Seen(models, r, r = OldReset, 0)>>]
    BY <2>2 DEF models
  <2>10. <<Seen(models, r, r = OldReset, 0)>> \in Seq(SeenAccounts)
    BY <2>8
  <2> QED
    BY <2>9, <2>10, FleetTyped
<1>2. CASE \E ms, ns \in Shapes, r, q \in Resets, s, t \in BOOLEAN, c, d \in {0, 1, 2} :
         /\ (r = OldReset => s) /\ (q = OldReset => t)
         /\ fleet = [NoFleet EXCEPT !.accounts = <<Seen(ms, r, s, c), Seen(ns, q, t, d)>>]
  <2>1. PICK ms, ns \in Shapes, r, q \in Resets, s, t \in BOOLEAN, c, d \in {0, 1, 2} :
         /\ (r = OldReset => s) /\ (q = OldReset => t)
         /\ fleet = [NoFleet EXCEPT !.accounts = <<Seen(ms, r, s, c), Seen(ns, q, t, d)>>]
    BY <1>2
  <2>2. Resets \subseteq Nat \cup {NoReset, TodayReset, OldReset} /\ {0, 1, 2} \subseteq Nat
    BY DEF Resets
  <2>3. Seen(ms, r, s, c) \in SeenAccounts /\ Seen(ns, q, t, d) \in SeenAccounts
    BY <2>1, <2>2, ShapeIs, SeenTyped
  <2>4. <<Seen(ms, r, s, c), Seen(ns, q, t, d)>> \in Seq(SeenAccounts)
    BY <2>3
  <2> QED
    BY <2>1, <2>4, FleetTyped
<1>3. CASE \E k \in {"five", "seven", "cursor", "copilot"}, r \in {5, 24, 168, 700}, u \in {0, 100},
            now \in 0 .. 900 : fleet = [NoFleet EXCEPT !.window =
                                     [kind |-> k, reset |-> r, used |-> u, now |-> now]]
  <2>1. PICK k \in {"five", "seven", "cursor", "copilot"}, r \in {5, 24, 168, 700}, u \in {0, 100},
            now \in 0 .. 900 : fleet = [NoFleet EXCEPT !.window =
                                     [kind |-> k, reset |-> r, used |-> u, now |-> now]]
    BY <1>3
  <2> DEFINE w == [kind |-> k, reset |-> r, used |-> u, now |-> now]
  <2>2. w \in
          [kind : {"none", "five", "seven", "cursor", "copilot"}, reset : Nat, used : Nat, now : Nat]
    BY <2>1
  <2>3. fleet = [NoFleet EXCEPT !.window = w]
    BY <2>1
  <2> HIDE DEF w
  <2> QED
    BY <2>2, <2>3, FleetTyped
<1> QED
  BY <1>1, <1>2, <1>3, Zenon DEF AdviceInit

\* What the program says of any accounts, and of any window of another provider, is of
\* use to who follows it; those of the runs are such.
THEOREM AdviceAlwaysHolds == (fleet \in Fleets => AdviceHolds) /\ (AdviceInit => fleet \in Fleets)
<1>1. ASSUME fleet \in Fleets PROVE AdviceHolds
  <2> DEFINE scores == Scores(fleet.accounts)
  <2>1. fleet.accounts \in Seq(SeenAccounts)
    BY <1>1 DEF Fleets
  <2>2. ReadyMeansUsable
    <3>1. DOMAIN Status.ready = DOMAIN fleet.accounts /\
            \A i \in DOMAIN fleet.accounts : Status.ready[i] = IsReady(fleet.accounts[i])
      BY Zenon DEF Status
    <3>2. \A i \in DOMAIN fleet.accounts : fleet.accounts[i] \in SeenAccounts
      BY <2>1
    <3> QED
      BY <3>1, <3>2, UsableThen, Zenon DEF ReadyMeansUsable
  <2>3. EstimatesFollowResets
    BY <1>1, EstimateThen
  <2>4. Ranked(scores)
    <3>1. DOMAIN scores = DOMAIN fleet.accounts /\
            \A i \in DOMAIN fleet.accounts : scores[i] = ScoreAccount(fleet.accounts[i])
      BY Zenon DEF Scores
    <3> HIDE DEF scores
    <3> QED
      BY <2>1, <3>1, ScoreIs DEF Ranked
  <2>5. BestIsUseful(scores) /\ SwitchingHelps(scores)
    BY <2>4, UsefulThen, SwitchThen
  <2>6. WaitingHelps(scores)
    BY <2>1, WaitThen
  <2> QED
    BY <2>2, <2>3, <2>5, <2>6, Zenon DEF AdviceHolds
<1> QED
  BY <1>1, FirstFleets

\* What is predicted from any stored readings holds; in particular from those that
\* the runs start from.
THEOREM PredictionsAlwaysHold ==
  /\ usage \in Usages /\ fleet \in Fleets => PredictionsHold
  /\ PredictionsInit => usage \in Usages /\ fleet \in Fleets /\ PredictionsHold
<1>1. usage \in Usages /\ fleet \in Fleets => PredictionsHold
  BY ForecastsAlwaysHold, AdviceAlwaysHolds DEF PredictionsHold
<1>2. NoFleet \in Fleets
  <2>1. NoFleet = [accounts |-> <<>>, window |-> NoWindow] /\ NoWindow \in
          [kind : {"none", "five", "seven", "cursor", "copilot"}, reset : Nat, used : Nat, now : Nat]
    BY DEF NoFleet, NoWindow
  <2>2. <<>> \in Seq(SeenAccounts)
    OBVIOUS
  <2> QED
    BY <2>1, <2>2 DEF Fleets
<1>3. NoUsage \in Usages
  <2> DEFINE none == <<>>
  <2>2. none \in Seq(Readings) /\ Len(none) = 0
    OBVIOUS
  <2>3. NoUsage = [readings |-> none, recent |-> 0, reset |-> NoTime, told |-> "id",
                   rows |-> "program", sinceMidnight |-> 0]
    BY DEF NoUsage, Told
  <2> HIDE DEF none
  <2>4. /\ NoUsage \in [readings : Seq(Readings), recent : Nat, reset : Nat \cup {NoTime},
                       told : {"id", "label"}, rows : {"program", "clock"}, sinceMidnight : Nat]
        /\ NoUsage.recent <= Len(NoUsage.readings) /\ NoUsage.sinceMidnight <= Len(NoUsage.readings)
    BY <2>2, <2>3
  <2> QED
    BY <2>4, Zenon DEF Usages
<1> QED
  BY <1>1, <1>2, <1>3, ForecastsAlwaysHold, AdviceAlwaysHolds DEF PredictionsInit
=============================================================================
