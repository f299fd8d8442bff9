----------------------------------- MODULE Sums -----------------------------------
(***************************************************************************)
(* The sum of a function to the integers, as the ledgers of GameFlow and   *)
(* Reaction compute it, and what a change of one of its values does to it. *)
(* The fold of the community modules is a recursive function; the proofs   *)
(* go by least counterexamples, over the sizes of the sets it recurs on.   *)
(***************************************************************************)
EXTENDS Integers, FiniteSets, Functions, FiniteSetTheorems, WellFoundedInduction, TLAPS

Sum(F) == FoldFunction(+, 0, F)

\* The element a fold takes next.
Picked(s) == CHOOSE x \in s : TRUE

\* f computes the sums of F over the sets in D.
SumsOver(f, F, D) ==
  f = [s \in D |-> IF s = {} THEN 0 ELSE F[Picked(s)] + f[s \ {Picked(s)}]]

\* The subsets of S with at most n elements.
Small(S, n) == {s \in SUBSET S : Cardinality(s) <= n}

\* A non-empty set of natural numbers has a least element.
LEMMA Least ==
  ASSUME NEW B \in SUBSET Nat, B # {}
  PROVE  \E n \in B : \A k \in B : n <= k
<1> DEFINE T == {0 .. k : k \in B}
<1>1. T \subseteq FiniteSubsetsOf(Nat) /\ T # {}
  <2>1. \A k \in B : IsFiniteSet(0 .. k) /\ 0 .. k \subseteq Nat
    BY FS_Interval
  <2> QED
    BY <2>1 DEF FiniteSubsetsOf
<1>2. PICK s \in T : \A t \in T : ~ (<<t, s>> \in StrictSubsetOrdering(Nat))
  BY <1>1, FS_StrictSubsetOrderingWellFounded, WFMin
<1>3. PICK n \in B : s = 0 .. n
  BY <1>2
<1>4. ASSUME NEW k \in B, k < n
      PROVE  FALSE
  <2>1. 0 .. k \in SUBSET Nat /\ 0 .. n \in SUBSET Nat /\ 0 .. k \in T
    BY <1>4
  <2>2. 0 .. k \subseteq 0 .. n /\ 0 .. k # 0 .. n
    BY <1>4
  <2>3. <<0 .. k, 0 .. n>> \in StrictSubsetOrdering(Nat)
    BY <2>1, <2>2 DEF StrictSubsetOrdering
  <2> QED
    BY <1>2, <1>3, <2>1, <2>3
<1> QED
  BY <1>4

\* What holds of 0 and of the successor of each number it holds of holds of them all.
LEMMA Induction ==
  ASSUME NEW A, 0 \in A, \A n \in Nat : n \in A => n + 1 \in A
  PROVE  Nat \subseteq A
<1> SUFFICES ASSUME NEW b \in Nat, b \notin A
             PROVE  FALSE
  OBVIOUS
<1>1. PICK n \in Nat \ A : \A k \in Nat \ A : n <= k
  BY Least
<1>2. n # 0 /\ n - 1 \in Nat
  BY <1>1
<1>3. n - 1 \in A
  BY <1>1, <1>2
<1> QED
  BY <1>1, <1>2, <1>3

\* The set a fold recurs on is smaller.
LEMMA Smaller ==
  ASSUME NEW S, IsFiniteSet(S), NEW s \in SUBSET S, s # {}
  PROVE  /\ Picked(s) \in s /\ s \ {Picked(s)} \in SUBSET S
         /\ IsFiniteSet(s) /\ Cardinality(s) \in Nat \ {0}
         /\ Cardinality(s \ {Picked(s)}) = Cardinality(s) - 1
<1>1. Picked(s) \in s
  BY DEF Picked
<1>2. IsFiniteSet(s)
  BY FS_Subset
<1>3. Cardinality(s) \in Nat /\ Cardinality(s) # 0
  BY <1>2, FS_CardinalityType, FS_EmptySet
<1>4. Cardinality(s \ {Picked(s)}) = Cardinality(s) - 1
  BY <1>1, <1>2, FS_RemoveElement
<1> QED
  BY <1>1, <1>2, <1>3, <1>4

\* A fold's induction: from the set without the element taken next to the set.
LEMMA SubsetInduction ==
  ASSUME NEW S, IsFiniteSet(S), NEW P, {} \in P,
         \A s \in SUBSET S : s # {} /\ s \ {Picked(s)} \in P => s \in P
  PROVE  \A s \in SUBSET S : s \in P
<1> DEFINE A == {n \in Nat : \A s \in Small(S, n) : s \in P}
<1>1. 0 \in A
  <2>1. ASSUME NEW s \in Small(S, 0), s # {}
        PROVE  FALSE
    <3>1. Cardinality(s) \in Nat \ {0} /\ Cardinality(s) <= 0
      BY <2>1, Smaller DEF Small
    <3> QED
      BY <3>1
  <2>2. \A s \in Small(S, 0) : s \in P
    BY <2>1
  <2> QED
    BY <2>2
<1>2. ASSUME NEW n \in Nat, n \in A
      PROVE  n + 1 \in A
  <2>1. ASSUME NEW s \in Small(S, n + 1), s # {}
        PROVE  s \in P
    <3>1. s \in SUBSET S /\ s \ {Picked(s)} \in Small(S, n)
      BY <2>1, Smaller DEF Small
    <3> QED
      BY <1>2, <2>1, <3>1
  <2>2. \A s \in Small(S, n + 1) : s \in P
    BY <2>1
  <2> QED
    BY <2>2
<1>3. ASSUME NEW s \in SUBSET S
      PROVE  s \in P
  <2>1. IsFiniteSet(s) /\ Cardinality(s) \in Nat
    BY FS_Subset, FS_CardinalityType
  <2>2. Cardinality(s) \in A
    <3> HIDE DEF A
    <3> QED
      BY <1>1, <1>2, <2>1, Induction
  <2>3. s \in Small(S, Cardinality(s))
    BY <2>1 DEF Small
  <2> QED
    BY <2>2, <2>3
<1> QED
  BY <1>3

\* The recursion defines a function.
LEMMA SumsExist ==
  ASSUME NEW S, IsFiniteSet(S), NEW F
  PROVE  \E f : SumsOver(f, F, SUBSET S)
<1> DEFINE A == {n \in Nat : \E f : SumsOver(f, F, Small(S, n))}
<1>1. 0 \in A
  <2>1. ASSUME NEW s \in Small(S, 0), s # {}
        PROVE  FALSE
    <3>1. Cardinality(s) \in Nat \ {0} /\ Cardinality(s) <= 0
      BY <2>1, Smaller DEF Small
    <3> QED
      BY <3>1
  <2>2. SumsOver([s \in Small(S, 0) |-> 0], F, Small(S, 0))
    BY <2>1 DEF SumsOver
  <2> QED
    BY <2>2
<1>2. ASSUME NEW n \in Nat, n \in A
      PROVE  n + 1 \in A
  <2>1. PICK f : SumsOver(f, F, Small(S, n))
    BY <1>2
  <2> DEFINE g == [s \in Small(S, n + 1) |->
                     IF s = {} THEN 0 ELSE F[Picked(s)] + f[s \ {Picked(s)}]]
  <2>2. ASSUME NEW s \in Small(S, n + 1), s # {}
        PROVE  g[s \ {Picked(s)}] = f[s \ {Picked(s)}]
    <3> DEFINE r == s \ {Picked(s)}
    <3>1. r \in Small(S, n)
      BY <2>2, Smaller DEF Small
    <3>2. r \in Small(S, n + 1)
      <4>1. IsFiniteSet(r)
        BY <3>1, FS_Subset DEF Small
      <4>2. Cardinality(r) \in Nat
        BY <4>1, FS_CardinalityType
      <4> QED
        BY <3>1, <4>2 DEF Small
    <3>3. f[r] = IF r = {} THEN 0 ELSE F[Picked(r)] + f[r \ {Picked(r)}]
      BY <2>1, <3>1 DEF SumsOver
    <3>4. g[r] = IF r = {} THEN 0 ELSE F[Picked(r)] + f[r \ {Picked(r)}]
      BY <3>2
    <3> QED
      BY <3>3, <3>4
  <2>3. SumsOver(g, F, Small(S, n + 1))
    BY <2>2 DEF SumsOver
  <2> QED
    BY <2>3
<1>3. Cardinality(S) \in A
  <2>1. Cardinality(S) \in Nat
    BY FS_CardinalityType
  <2> HIDE DEF A
  <2> QED
    BY <1>1, <1>2, <2>1, Induction
<1>4. Small(S, Cardinality(S)) = SUBSET S
  BY FS_Subset DEF Small
<1> QED
  BY <1>3, <1>4

\* A sum is computed element by element.
LEMMA SumIsComputed ==
  ASSUME NEW F, IsFiniteSet(DOMAIN F)
  PROVE  \E f : SumsOver(f, F, SUBSET DOMAIN F) /\ Sum(F) = f[DOMAIN F]
<1> DEFINE g == CHOOSE f : SumsOver(f, F, SUBSET DOMAIN F)
<1>1. SumsOver(g, F, SUBSET DOMAIN F)
  BY SumsExist
<1>2. Sum(F) = g[DOMAIN F]
  BY DEF Sum, FoldFunction, FoldFunctionOnSet, MapThenFoldSet, SumsOver, Picked
<1> QED
  BY <1>1, <1>2

\* Sums of natural numbers are natural numbers.
LEMMA SumType ==
  ASSUME NEW S, IsFiniteSet(S), NEW F \in [S -> Nat]
  PROVE  Sum(F) \in Nat
<1>1. PICK f : SumsOver(f, F, SUBSET S) /\ Sum(F) = f[S]
  BY SumIsComputed
<1> DEFINE P == {s \in SUBSET S : f[s] \in Nat}
<1>2. {} \in P
  BY <1>1 DEF SumsOver
<1>3. ASSUME NEW s \in SUBSET S, s # {}, s \ {Picked(s)} \in P
      PROVE  s \in P
  <2>1. f[s] = F[Picked(s)] + f[s \ {Picked(s)}] /\ Picked(s) \in S
    BY <1>1, <1>3, Smaller DEF SumsOver
  <2> QED
    BY <1>3, <2>1
<1>4. S \in P
  <2> HIDE DEF P
  <2> QED
    BY <1>2, <1>3, SubsetInduction
<1> QED
  BY <1>1, <1>4

\* A ledger without entries sums to nothing.
LEMMA SumOfZeros ==
  ASSUME NEW S, IsFiniteSet(S), NEW F \in [S -> {0}]
  PROVE  Sum(F) = 0
<1>1. PICK f : SumsOver(f, F, SUBSET S) /\ Sum(F) = f[S]
  BY SumIsComputed
<1> DEFINE P == {s \in SUBSET S : f[s] = 0}
<1>2. {} \in P
  BY <1>1 DEF SumsOver
<1>3. ASSUME NEW s \in SUBSET S, s # {}, s \ {Picked(s)} \in P
      PROVE  s \in P
  <2>1. f[s] = F[Picked(s)] + f[s \ {Picked(s)}] /\ Picked(s) \in S
    BY <1>1, <1>3, Smaller DEF SumsOver
  <2>2. F[Picked(s)] = 0
    BY <2>1
  <2> QED
    BY <1>3, <2>1, <2>2
<1>4. S \in P
  <2> HIDE DEF P
  <2> QED
    BY <1>2, <1>3, SubsetInduction
<1> QED
  BY <1>1, <1>4

\* A changed entry changes the sum by as much.
LEMMA SumOfOneChange ==
  ASSUME NEW S, IsFiniteSet(S), NEW F \in [S -> Nat], NEW G \in [S -> Nat],
         NEW c \in S, \A x \in S \ {c} : G[x] = F[x]
  PROVE  Sum(G) = Sum(F) + G[c] - F[c]
<1>1. PICK f : SumsOver(f, F, SUBSET S) /\ Sum(F) = f[S]
  BY SumIsComputed
<1>2. PICK g : SumsOver(g, G, SUBSET S) /\ Sum(G) = g[S]
  BY SumIsComputed
<1> DEFINE P == {s \in SUBSET S :
                   /\ f[s] \in Int /\ g[s] \in Int
                   /\ g[s] = f[s] + (IF c \in s THEN G[c] - F[c] ELSE 0)}
<1>3. {} \in P
  BY <1>1, <1>2 DEF SumsOver
<1>4. ASSUME NEW s \in SUBSET S, s # {}, s \ {Picked(s)} \in P
      PROVE  s \in P
  <2> DEFINE x == Picked(s)
             r == s \ {x}
  <2>1. x \in S /\ x \in s
    BY <1>4, Smaller
  <2>2. f[s] = F[x] + f[r] /\ g[s] = G[x] + g[r]
    BY <1>1, <1>2, <1>4 DEF SumsOver
  <2>3. /\ f[r] \in Int /\ g[r] \in Int
        /\ g[r] = f[r] + (IF c \in r THEN G[c] - F[c] ELSE 0)
    BY <1>4
  <2>4. F[x] \in Nat /\ G[x] \in Nat /\ F[c] \in Nat /\ G[c] \in Nat
    BY <2>1
  <2> HIDE DEF x
  <2>5. CASE x = c
    <3>1. c \notin r /\ c \in s
      BY <2>1, <2>5
    <3> QED
      BY <2>2, <2>3, <2>4, <2>5, <3>1
  <2>6. CASE x # c
    <3>1. c \in r <=> c \in s
      BY <2>6
    <3>2. G[x] = F[x]
      BY <2>1, <2>6
    <3> QED
      BY <2>2, <2>3, <2>4, <3>1, <3>2
  <2> QED
    BY <2>5, <2>6
<1>5. S \in P
  <2> HIDE DEF P
  <2> QED
    BY <1>3, <1>4, SubsetInduction
<1> QED
  BY <1>1, <1>2, <1>5

================================================================================
