----------------------------- MODULE FoldLemmas -----------------------------
(***************************************************************************)
(* What the proofs need to know of sums: of a weight over the elements of  *)
(* a finite set (FoldSet) and over the items of a sequence (FoldLeft).     *)
(* The two folds are recursive functions given by CHOOSE, so each fact     *)
(* takes a proof that the function exists and is unique, by induction over *)
(* the subsets of a finite set; that induction comes from the least-number *)
(* principle.                                                              *)
(***************************************************************************)
EXTENDS Integers, Sequences, FiniteSets, SequencesExt, FiniteSetTheorems, TLAPS

\* A set of numbers that is not empty has a least one.
LEMMA LeastNumber ==
    ASSUME NEW T \in SUBSET Nat, T # {}
    PROVE  \E n \in T : \A k \in T : n <= k
<1>1. PICK n \in T : \A k \in T : <<k, n>> \notin OpToRel(<, Nat)
  BY NatLessThanWellFounded, WFMin
<1>2. \A k \in T : k < n => <<k, n>> \in OpToRel(<, Nat)
  BY DEF OpToRel
<1>3. \A k \in T : ~(k < n)
  BY <1>1, <1>2
<1> QED BY <1>3

\* Induction over the numbers, for a set of them.
LEMMA NumberInduction ==
    ASSUME NEW G, 0 \in G, \A n \in Nat : n \in G => n + 1 \in G
    PROVE  Nat \subseteq G
<1> SUFFICES ASSUME Nat \ G # {} PROVE FALSE
  OBVIOUS
<1>1. PICK n \in Nat \ G : \A k \in Nat \ G : n <= k
  BY LeastNumber
<1>2. n # 0 /\ n - 1 \in Nat
  BY <1>1
<1>3. n - 1 \in G
  BY <1>1, <1>2
<1> QED BY <1>1, <1>2, <1>3

\* Induction over the subsets of a finite set: what holds of a set whenever it
\* holds of the set less any one element, holds of all.
LEMMA SubsetInduction ==
    ASSUME NEW S, IsFiniteSet(S), NEW G,
           \A T \in SUBSET S : (\A x \in T : T \ {x} \in G) => T \in G
    PROVE  SUBSET S \subseteq G
<1> DEFINE Small == {n \in Nat : \A T \in SUBSET S : Cardinality(T) = n => T \in G}
<1>1. \A T \in SUBSET S : IsFiniteSet(T) /\ Cardinality(T) \in Nat
  BY FS_Subset, FS_CardinalityType
<1>2. 0 \in Small
  BY <1>1, FS_EmptySet
<1>3. ASSUME NEW n \in Nat, n \in Small PROVE n + 1 \in Small
  <2> SUFFICES ASSUME NEW T \in SUBSET S, Cardinality(T) = n + 1 PROVE T \in G
    OBVIOUS
  <2>1. ASSUME NEW x \in T PROVE T \ {x} \in G
    <3>1. Cardinality(T \ {x}) = n
      BY <1>1, FS_RemoveElement
    <3> QED BY <1>3, <3>1
  <2> QED BY <2>1
<1>4. Nat \subseteq Small
  <2> HIDE DEF Small
  <2> QED BY <1>2, <1>3, NumberInduction
<1> QED BY <1>1, <1>4

\* pick chooses an element of every subset of S that has one.
Picks(pick, S) == \A T \in SUBSET S : T # {} => pick[T] \in T

\* f folds the subsets of S with step, in the order of pick.
IsFold(f, S, V, pick, base, step) ==
    /\ f \in [SUBSET S -> V]
    /\ \A T \in SUBSET S :
          f[T] = IF T = {} THEN base ELSE step[pick[T]][f[T \ {pick[T]}]]

\* A fold exists: the function that takes one picked element off a set at a time.
LEMMA FoldExists ==
    ASSUME NEW S, IsFiniteSet(S), NEW V, NEW base \in V,
           NEW pick, Picks(pick, S), NEW step \in [S -> [V -> V]]
    PROVE  \E f : IsFold(f, S, V, pick, base, step)
<1> DEFINE Dom(n) == {T \in SUBSET S : Cardinality(T) <= n}
           Folds(f, n) == \A T \in Dom(n) :
              f[T] = IF T = {} THEN base ELSE step[pick[T]][f[T \ {pick[T]}]]
           Good == {n \in Nat : \E f \in [Dom(n) -> V] : Folds(f, n)}
<1>1. \A T \in SUBSET S : IsFiniteSet(T) /\ Cardinality(T) \in Nat
  BY FS_Subset, FS_CardinalityType
<1>2. 0 \in Good
  <2> DEFINE g == [T \in Dom(0) |-> base]
  <2>1. \A T \in Dom(0) : T = {}
    BY <1>1, FS_EmptySet
  <2>2. g \in [Dom(0) -> V] /\ Folds(g, 0)
    BY <2>1
  <2> QED BY <2>2
<1>3. ASSUME NEW n \in Nat, n \in Good PROVE n + 1 \in Good
  <2>1. PICK f \in [Dom(n) -> V] : Folds(f, n)
    BY <1>3
  <2> DEFINE g == [T \in Dom(n + 1) |->
                     IF T = {} THEN base ELSE step[pick[T]][f[T \ {pick[T]}]]]
  <2>2. ASSUME NEW T \in Dom(n + 1), T # {}
        PROVE  pick[T] \in T /\ T \ {pick[T]} \in Dom(n)
    <3>1. T \in SUBSET S /\ IsFiniteSet(T) /\ Cardinality(T) \in Nat
      BY <1>1
    <3>2. pick[T] \in T
      BY <2>2, <3>1 DEF Picks
    <3>3. Cardinality(T \ {pick[T]}) = Cardinality(T) - 1
      BY <3>1, <3>2, FS_RemoveElement
    <3> QED BY <3>1, <3>2, <3>3
  <2>3. \A T \in Dom(n) : T \in Dom(n + 1)
    BY <1>1
  <2>4. \A T \in Dom(n + 1) : T \in SUBSET S
    OBVIOUS
  <2> HIDE DEF Dom
  <2>5. g \in [Dom(n + 1) -> V]
    <3> SUFFICES ASSUME NEW T \in Dom(n + 1), T # {}
                 PROVE  step[pick[T]][f[T \ {pick[T]}]] \in V
      OBVIOUS
    <3>1. f[T \ {pick[T]}] \in V
      BY <2>2
    <3>2. pick[T] \in S
      BY <2>2, <2>4
    <3> QED BY <3>1, <3>2
  <2>6. \A T \in Dom(n) : g[T] = f[T]
    BY <2>1, <2>3
  <2>7. Folds(g, n + 1)
    <3> SUFFICES ASSUME NEW T \in Dom(n + 1), T # {}
                 PROVE  g[T] = step[pick[T]][g[T \ {pick[T]}]]
      OBVIOUS
    <3>1. g[T] = step[pick[T]][f[T \ {pick[T]}]]
      OBVIOUS
    <3>2. g[T \ {pick[T]}] = f[T \ {pick[T]}]
      BY <2>2, <2>6
    <3> QED BY <3>1, <3>2
  <2>8. \E h \in [Dom(n + 1) -> V] : Folds(h, n + 1)
    BY <2>5, <2>7
  <2> HIDE DEF Folds
  <2> QED BY <2>8
<1>4. Nat \subseteq Good
  <2> HIDE DEF Good
  <2> QED BY <1>2, <1>3, NumberInduction
<1>5. Cardinality(S) \in Good /\ Dom(Cardinality(S)) = SUBSET S
  BY <1>1, <1>4, FS_Subset, FS_CardinalityType
<1> QED BY <1>5 DEF IsFold

-----------------------------------------------------------------------------
\* The element the folds take first.
Some(T) == CHOOSE x \in T : TRUE

\* The sum of w over S.
Total(w, S) == FoldSet(LAMBDA x, sum : sum + w[x], 0, S)

\* f[T] is the sum of w over T, for the subsets T of S.
IsTotal(f, S, w) ==
    /\ f \in [SUBSET S -> Nat]
    /\ \A T \in SUBSET S :
          f[T] = IF T = {} THEN 0 ELSE f[T \ {Some(T)}] + w[Some(T)]

\* There is a function that sums w over every subset of S.
LEMMA TotalExists ==
    ASSUME NEW S, IsFiniteSet(S), NEW w, \A x \in S : w[x] \in Nat
    PROVE  \E f : IsTotal(f, S, w)
<1> DEFINE pick == [T \in SUBSET S |-> Some(T)]
           step == [x \in S |-> [v \in Nat |-> v + w[x]]]
<1>1. \A T \in SUBSET S : T # {} => Some(T) \in T
  BY DEF Some
<1>2. Picks(pick, S)
  BY <1>1 DEF Picks
<1>3. step \in [S -> [Nat -> Nat]]
  OBVIOUS
<1>4. PICK f : IsFold(f, S, Nat, pick, 0, step)
  <2> HIDE DEF pick, step
  <2> QED BY <1>2, <1>3, FoldExists
<1>5. ASSUME NEW T \in SUBSET S, T # {}
      PROVE  f[T] = f[T \ {Some(T)}] + w[Some(T)]
  <2>1. pick[T] = Some(T) /\ Some(T) \in S
    BY <1>1, <1>5
  <2>2. f[T \ {Some(T)}] \in Nat
    BY <1>4 DEF IsFold
  <2>3. step[Some(T)][f[T \ {Some(T)}]] = f[T \ {Some(T)}] + w[Some(T)]
    BY <2>1, <2>2
  <2> QED BY <1>4, <1>5, <2>1, <2>3 DEF IsFold
<1>6. f[{}] = 0 /\ f \in [SUBSET S -> Nat]
  BY <1>4 DEF IsFold
<1> QED BY <1>5, <1>6 DEF IsTotal

\* FoldSet is that function.
LEMMA TotalIsFold ==
    ASSUME NEW S, IsFiniteSet(S), NEW w, \A x \in S : w[x] \in Nat
    PROVE  \E f : IsTotal(f, S, w) /\ f[S] = Total(w, S)
<1> DEFINE Eq(f) == f = [T \in SUBSET S |->
              IF T = {} THEN 0
              ELSE f[T \ {CHOOSE x \in T : TRUE}] + w[CHOOSE x \in T : TRUE]]
           g == CHOOSE f : Eq(f)
<1>1. PICK f : IsTotal(f, S, w)
  BY TotalExists
<1>2. Eq(f)
  BY <1>1 DEF IsTotal, Some
<1>3. Eq(g)
  <2> HIDE DEF Eq
  <2> QED BY <1>2
<1>4. Total(w, S) = g[S]
  BY DEF Total, FoldSet, MapThenFoldSet
<1>5. f = g
  <2> DEFINE Same == {T \in SUBSET S : f[T] = g[T]}
  <2> HIDE DEF g
  <2>1. ASSUME NEW T \in SUBSET S, \A x \in T : T \ {x} \in Same PROVE T \in Same
    <3>1. CASE T = {}
      BY <1>2, <1>3, <3>1
    <3>2. CASE T # {}
      <4>1. (CHOOSE x \in T : TRUE) \in T
        BY <3>2
      <4> HIDE DEF Eq
      <4>2. f[T \ {CHOOSE x \in T : TRUE}] = g[T \ {CHOOSE x \in T : TRUE}]
        BY <2>1, <4>1
      <4>3. /\ f[T] = f[T \ {CHOOSE x \in T : TRUE}] + w[CHOOSE x \in T : TRUE]
            /\ g[T] = g[T \ {CHOOSE x \in T : TRUE}] + w[CHOOSE x \in T : TRUE]
        BY <1>2, <1>3, <3>2 DEF Eq
      <4> QED BY <4>2, <4>3
    <3> QED BY <3>1, <3>2
  <2>2. SUBSET S \subseteq Same
    <3> HIDE DEF Same
    <3> QED BY <2>1, SubsetInduction
  <2>3. f \in [SUBSET S -> Nat] /\ g = [T \in SUBSET S |-> g[T]]
    BY <1>1, <1>3 DEF IsTotal
  <2> QED BY <2>2, <2>3
<1> QED BY <1>1, <1>4, <1>5

\* The sum is the same whichever element is taken off.
LEMMA AnyElement ==
    ASSUME NEW S, IsFiniteSet(S), NEW w, \A x \in S : w[x] \in Nat,
           NEW f, IsTotal(f, S, w), NEW A \in SUBSET S, NEW a \in A
    PROVE  f[A] = f[A \ {a}] + w[a]
<1> DEFINE Free == {T \in SUBSET S : \A x \in T : f[T] = f[T \ {x}] + w[x]}
<1>1. \A T \in SUBSET S : T # {} =>
         Some(T) \in T /\ f[T] = f[T \ {Some(T)}] + w[Some(T)]
  BY DEF IsTotal, Some
<1>2. \A T \in SUBSET S : f[T] \in Nat
  BY DEF IsTotal
<1>3. ASSUME NEW T \in SUBSET S, \A x \in T : T \ {x} \in Free PROVE T \in Free
  <2> SUFFICES ASSUME NEW x \in T PROVE f[T] = f[T \ {x}] + w[x]
    OBVIOUS
  <2> DEFINE z == Some(T)
  <2>1. z \in T /\ f[T] = f[T \ {z}] + w[z]
    BY <1>1
  <2> HIDE DEF z
  <2>2. CASE x = z
    BY <2>1, <2>2
  <2>3. CASE x # z
    <3>1. x \in T \ {z} /\ z \in T \ {x} /\ (T \ {z}) \ {x} = (T \ {x}) \ {z}
      BY <2>1, <2>3
    <3> DEFINE both == (T \ {x}) \ {z}
    <3>2. f[T \ {z}] = f[both] + w[x]
      <4>1. f[T \ {z}] = f[(T \ {z}) \ {x}] + w[x]
        BY <1>3, <2>1, <3>1
      <4> QED BY <3>1, <4>1
    <3>3. f[T \ {x}] = f[both] + w[z]
      BY <1>3, <3>1
    <3>4. w[x] \in Nat /\ w[z] \in Nat /\ f[both] \in Nat
      BY <1>2, <2>1
    <3> HIDE DEF both
    <3> QED BY <2>1, <3>2, <3>3, <3>4
  <2> QED BY <2>2, <2>3
<1>4. SUBSET S \subseteq Free
  <2> HIDE DEF Free
  <2> QED BY <1>3, SubsetInduction
<1> QED BY <1>4

\* One function gives the totals of all the subsets.
LEMMA TotalFunction ==
    ASSUME NEW S, IsFiniteSet(S), NEW w, \A x \in S : w[x] \in Nat
    PROVE  \E f : IsTotal(f, S, w) /\ \A T \in SUBSET S : f[T] = Total(w, T)
<1>1. PICK f : IsTotal(f, S, w)
  BY TotalExists
<1>2. ASSUME NEW R \in SUBSET S PROVE f[R] = Total(w, R)
  <2>1. IsFiniteSet(R)
    BY FS_Subset
  <2>2. PICK g : IsTotal(g, R, w) /\ g[R] = Total(w, R)
    BY <2>1, TotalIsFold
  <2> DEFINE Same == {T \in SUBSET R : f[T] = g[T]}
  <2>3. ASSUME NEW T \in SUBSET R, \A x \in T : T \ {x} \in Same PROVE T \in Same
    <3>1. T # {} => Some(T) \in T
      BY DEF Some
    <3>2. f[T] = IF T = {} THEN 0 ELSE f[T \ {Some(T)}] + w[Some(T)]
      BY <1>1 DEF IsTotal
    <3>3. g[T] = IF T = {} THEN 0 ELSE g[T \ {Some(T)}] + w[Some(T)]
      BY <2>2 DEF IsTotal
    <3> QED BY <2>3, <3>1, <3>2, <3>3
  <2>4. SUBSET R \subseteq Same
    <3> HIDE DEF Same
    <3> QED BY <2>1, <2>3, SubsetInduction
  <2> QED BY <2>2, <2>4
<1> QED BY <1>1, <1>2

\* The total of nothing, its type, and how one element counts.
LEMMA TotalFacts ==
    ASSUME NEW S, IsFiniteSet(S), NEW w, \A x \in S : w[x] \in Nat
    PROVE  /\ Total(w, {}) = 0
           /\ \A T \in SUBSET S : Total(w, T) \in Nat
           /\ \A T \in SUBSET S : \A x \in T : Total(w, T) = Total(w, T \ {x}) + w[x]
<1>1. PICK f : IsTotal(f, S, w) /\ \A T \in SUBSET S : f[T] = Total(w, T)
  BY TotalFunction
<1>2. f[{}] = 0 /\ \A T \in SUBSET S : f[T] \in Nat
  BY <1>1 DEF IsTotal
<1>3. ASSUME NEW T \in SUBSET S, NEW x \in T PROVE f[T] = f[T \ {x}] + w[x]
  <2>1. IsTotal(f, S, w)
    BY <1>1
  <2> QED BY <2>1, AnyElement
<1> QED BY <1>1, <1>2, <1>3

\* Totals of sets that share nothing add up.
LEMMA TotalUnion ==
    ASSUME NEW S, IsFiniteSet(S), NEW w, \A x \in S : w[x] \in Nat,
           NEW A \in SUBSET S, NEW B \in SUBSET S, A \cap B = {}
    PROVE  Total(w, A \cup B) = Total(w, A) + Total(w, B)
<1> DEFINE Adds == {T \in SUBSET S : A \cap T = {} =>
                      Total(w, A \cup T) = Total(w, A) + Total(w, T)}
<1>1. ASSUME NEW T \in SUBSET S, \A x \in T : T \ {x} \in Adds PROVE T \in Adds
  <2> SUFFICES ASSUME A \cap T = {}
               PROVE  Total(w, A \cup T) = Total(w, A) + Total(w, T)
    OBVIOUS
  <2>1. CASE T = {}
    <3>1. A \cup T = A /\ Total(w, T) = 0 /\ Total(w, A) \in Nat
      BY <2>1, TotalFacts
    <3> QED BY <3>1
  <2>2. CASE T # {}
    <3>1. PICK x : x \in T
      BY <2>2
    <3>2. (A \cup T) \ {x} = A \cup (T \ {x}) /\ A \cap (T \ {x}) = {}
      BY <3>1
    <3>3. Total(w, A \cup (T \ {x})) = Total(w, A) + Total(w, T \ {x})
      BY <1>1, <3>1, <3>2
    <3>4. /\ Total(w, A \cup T) = Total(w, (A \cup T) \ {x}) + w[x]
          /\ Total(w, T) = Total(w, T \ {x}) + w[x]
          /\ Total(w, A) \in Nat /\ Total(w, T \ {x}) \in Nat /\ w[x] \in Nat
      <4>1. A \cup T \in SUBSET S /\ x \in A \cup T /\ T \ {x} \in SUBSET S
        BY <3>1
      <4> QED BY <3>1, <4>1, TotalFacts
    <3> QED BY <3>2, <3>3, <3>4
  <2> QED BY <2>1, <2>2
<1>2. SUBSET S \subseteq Adds
  <2> HIDE DEF Adds
  <2> QED BY <1>1, SubsetInduction
<1> QED BY <1>2

\* A part weighs no more than the whole.
LEMMA TotalSubset ==
    ASSUME NEW S, IsFiniteSet(S), NEW w, \A x \in S : w[x] \in Nat,
           NEW A \in SUBSET S, NEW B \in SUBSET A
    PROVE  Total(w, B) <= Total(w, A)
<1>1. A = B \cup (A \ B) /\ B \cap (A \ B) = {}
  OBVIOUS
<1>2. Total(w, A) = Total(w, B) + Total(w, A \ B)
  BY <1>1, TotalUnion
<1>3. Total(w, B) \in Nat /\ Total(w, A \ B) \in Nat
  BY TotalFacts
<1> QED BY <1>2, <1>3

-----------------------------------------------------------------------------
\* Max is the greatest element of a set of positions.
LEMMA MaxIsLast ==
    ASSUME NEW n \in Nat, NEW T \in SUBSET (1 .. n), T # {}
    PROVE  Max(T) \in T /\ \A k \in T : Max(T) >= k
<1> DEFINE FromEnd == {k \in Nat : n - k \in T}
<1>1. PICK m : m \in T
  OBVIOUS
<1>2. n - m \in FromEnd /\ FromEnd \in SUBSET Nat
  <2>1. m \in 1 .. n /\ n - (n - m) = m /\ n - m \in Nat
    BY <1>1
  <2> QED BY <1>1, <2>1
<1>3. PICK j \in FromEnd : \A k \in FromEnd : j <= k
  <2> HIDE DEF FromEnd
  <2> QED BY <1>2, LeastNumber
<1>4. ASSUME NEW k \in T PROVE n - j >= k
  <2>1. k \in 1 .. n /\ n - k \in Nat /\ n - (n - k) = k
    OBVIOUS
  <2>2. n - k \in FromEnd
    BY <2>1
  <2> QED BY <1>3, <2>1, <2>2
<1>5. n - j \in T
  BY <1>3
<1>6. \E x \in T : \A y \in T : x >= y
  BY <1>4, <1>5
<1> QED BY <1>6 DEF Max

\* Of the first k positions the greatest is k.
LEMMA MaxOfPrefix ==
    ASSUME NEW k \in Nat \ {0}
    PROVE  Max(1 .. k) = k /\ (1 .. k) \ {k} = 1 .. (k - 1)
<1>1. 1 .. k # {} /\ 1 .. k \in SUBSET (1 .. k) /\ k \in 1 .. k
  OBVIOUS
<1>2. Max(1 .. k) \in 1 .. k /\ Max(1 .. k) >= k
  BY <1>1, MaxIsLast
<1> QED BY <1>2

\* f folds the sets of positions up to n with step, the greatest position last.
IsRun(f, n, V, base, step) ==
    /\ f \in [SUBSET (1 .. n) -> V]
    /\ \A T \in SUBSET (1 .. n) :
          f[T] = IF T = {} THEN base ELSE step[Max(T)][f[T \ {Max(T)}]]

\* A fold along the positions of a sequence exists, from the last to the first.
LEMMA RunExists ==
    ASSUME NEW n \in Nat, NEW V, NEW base \in V, NEW step \in [1 .. n -> [V -> V]]
    PROVE  \E f : IsRun(f, n, V, base, step)
<1> DEFINE pick == [T \in SUBSET (1 .. n) |-> Max(T)]
<1>1. Picks(pick, 1 .. n)
  BY MaxIsLast DEF Picks
<1>2. IsFiniteSet(1 .. n)
  BY FS_Interval
<1>3. PICK f : IsFold(f, 1 .. n, V, pick, base, step)
  <2> HIDE DEF pick
  <2> QED BY <1>1, <1>2, FoldExists
<1> QED BY <1>3 DEF IsFold, IsRun

\* It goes through the prefixes of the sequence, one position at a time.
LEMMA RunPrefix ==
    ASSUME NEW n \in Nat, NEW V, NEW base, NEW step, NEW f, IsRun(f, n, V, base, step)
    PROVE  /\ f[1 .. 0] = base
           /\ \A k \in 1 .. n : f[1 .. k] = step[k][f[1 .. (k - 1)]]
           /\ \A k \in 0 .. n : f[1 .. k] \in V
<1>1. ASSUME NEW k \in 1 .. n PROVE f[1 .. k] = step[k][f[1 .. (k - 1)]]
  <2>1. 1 .. k # {} /\ 1 .. k \in SUBSET (1 .. n)
    OBVIOUS
  <2>2. Max(1 .. k) = k /\ (1 .. k) \ {k} = 1 .. (k - 1)
    BY MaxOfPrefix
  <2> QED BY <2>1, <2>2 DEF IsRun
<1>2. 1 .. 0 = {} /\ {} \in SUBSET (1 .. n)
  OBVIOUS
<1>3. f[1 .. 0] = base
  BY <1>2 DEF IsRun
<1>4. ASSUME NEW k \in 0 .. n PROVE f[1 .. k] \in V
  <2>1. 1 .. k \in SUBSET (1 .. n)
    OBVIOUS
  <2> QED BY <2>1 DEF IsRun
<1> QED BY <1>1, <1>3, <1>4

\* Two functions that agree on the positions up to n if they agree on those
\* before the greatest one.
LEMMA RunsAgree ==
    ASSUME NEW n \in Nat, NEW f, NEW g,
           \A T \in SUBSET (1 .. n) :
              T = {} \/ f[T \ {Max(T)}] = g[T \ {Max(T)}] => f[T] = g[T]
    PROVE  f[1 .. n] = g[1 .. n]
<1> DEFINE R == 1 .. n
           Same == {U \in SUBSET R : f[U] = g[U]}
<1>1. ASSUME NEW U \in SUBSET R, \A x \in U : U \ {x} \in Same PROVE U \in Same
  <2>1. U # {} => Max(U) \in U
    BY MaxIsLast
  <2> QED BY <1>1, <2>1
<1>2. IsFiniteSet(R)
  BY FS_Interval
<1>3. SUBSET R \subseteq Same
  <2> HIDE DEF Same, R
  <2> QED BY <1>1, <1>2, SubsetInduction
<1> QED BY <1>3

\* The sum of w over the items of a sequence.
SeqTotal(w, seq) == FoldLeft(LAMBDA sum, e : sum + w[e], 0, seq)

\* f[k] is the sum of w over the first k items.
Sums(f, w, seq) ==
    /\ f \in [0 .. Len(seq) -> Nat]
    /\ f[0] = 0 /\ f[Len(seq)] = SeqTotal(w, seq)
    /\ \A k \in 1 .. Len(seq) : f[k] = f[k - 1] + w[seq[k]]

\* FoldLeft is the last of the running sums of a sequence.
LEMMA SeqTotalSums ==
    ASSUME NEW E, NEW w, \A e \in E : w[e] \in Nat, NEW seq \in Seq(E)
    PROVE  \E f : Sums(f, w, seq)
<1> DEFINE n == Len(seq)
           step == [i \in 1 .. n |-> [v \in Nat |-> v + w[seq[i]]]]
           Eq(f) == f = [T \in SUBSET DOMAIN seq |->
              IF T = {} THEN 0 ELSE f[T \ {Max(T)}] + w[seq[Max(T)]]]
           g == CHOOSE f : Eq(f)
<1>1. n \in Nat /\ DOMAIN seq = 1 .. n /\ \A i \in 1 .. n : w[seq[i]] \in Nat
  OBVIOUS
<1>2. step \in [1 .. n -> [Nat -> Nat]] /\ 0 \in Nat
  BY <1>1
<1>3. PICK f : IsRun(f, n, Nat, 0, step)
  <2> HIDE DEF n, step
  <2> QED BY <1>1, <1>2, RunExists
<1>4. \A T \in SUBSET (1 .. n) : T # {} => Max(T) \in T
  BY <1>1, MaxIsLast
<1>5. ASSUME NEW T \in SUBSET (1 .. n), T # {}
      PROVE  f[T] = f[T \ {Max(T)}] + w[seq[Max(T)]]
  <2>1. Max(T) \in 1 .. n /\ f[T \ {Max(T)}] \in Nat
    BY <1>3, <1>4, <1>5 DEF IsRun
  <2>2. step[Max(T)][f[T \ {Max(T)}]] = f[T \ {Max(T)}] + w[seq[Max(T)]]
    BY <2>1
  <2> QED BY <1>3, <1>5, <2>2 DEF IsRun
<1>6. Eq(f)
  <2>1. f = [T \in SUBSET (1 .. n) |-> f[T]] /\ f[{}] = 0
    BY <1>3 DEF IsRun
  <2> HIDE DEF n
  <2> QED BY <1>1, <1>5, <2>1
<1>7. Eq(g)
  <2> HIDE DEF Eq
  <2> QED BY <1>6
<1>8. SeqTotal(w, seq) = g[1 .. n]
  BY <1>1 DEF SeqTotal, FoldLeft, MapThenFoldSet
<1>9. f[1 .. n] = g[1 .. n]
  <2>1. ASSUME NEW U \in SUBSET (1 .. n), U = {} \/ f[U \ {Max(U)}] = g[U \ {Max(U)}]
        PROVE  f[U] = g[U]
    <3> HIDE DEF g, n
    <3>1. /\ f[U] = IF U = {} THEN 0 ELSE f[U \ {Max(U)}] + w[seq[Max(U)]]
          /\ g[U] = IF U = {} THEN 0 ELSE g[U \ {Max(U)}] + w[seq[Max(U)]]
      BY <1>1, <1>6, <1>7
    <3> QED BY <2>1, <3>1
  <2> HIDE DEF g, n
  <2> QED BY <1>1, <2>1, RunsAgree
<1> DEFINE h == [k \in 0 .. n |-> f[1 .. k]]
<1> HIDE DEF n, g, step, Eq
<1>10. \A k \in 0 .. n : f[1 .. k] \in Nat
  BY <1>1, <1>3, RunPrefix
<1>11. f[1 .. 0] = 0
  BY <1>1, <1>3, RunPrefix
<1>12. ASSUME NEW k \in 1 .. n PROVE f[1 .. k] = f[1 .. (k - 1)] + w[seq[k]]
  <2>1. n \in Nat /\ k \in 1 .. n
    BY <1>1
  <2>2. 1 .. k \in SUBSET (1 .. n) /\ 1 .. k # {}
    BY <2>1
  <2>3. Max(1 .. k) = k /\ (1 .. k) \ {k} = 1 .. (k - 1)
    BY <2>1, MaxOfPrefix
  <2> QED BY <1>5, <2>2, <2>3
<1>13. f[1 .. n] = SeqTotal(w, seq)
  BY <1>8, <1>9
<1>14. /\ h \in [0 .. n -> Nat] /\ h[0] = 0 /\ h[n] = SeqTotal(w, seq)
       /\ \A k \in 1 .. n : h[k] = h[k - 1] + w[seq[k]]
  BY <1>1, <1>10, <1>11, <1>12, <1>13
<1> QED BY <1>14 DEF n, Sums

\* The total of no items, its type, and how one more item counts.
LEMMA SeqTotalFacts ==
    ASSUME NEW E, NEW w, \A e \in E : w[e] \in Nat
    PROVE  /\ SeqTotal(w, <<>>) = 0
           /\ \A seq \in Seq(E) : SeqTotal(w, seq) \in Nat
           /\ \A seq \in Seq(E), e \in E :
                 SeqTotal(w, Append(seq, e)) = SeqTotal(w, seq) + w[e]
<1>1. ASSUME NEW seq \in Seq(E)
      PROVE  SeqTotal(w, seq) \in Nat /\ (Len(seq) = 0 => SeqTotal(w, seq) = 0)
  <2>1. PICK f : Sums(f, w, seq)
    BY SeqTotalSums
  <2> QED BY <2>1 DEF Sums
<1>2. SeqTotal(w, <<>>) = 0
  <2>1. <<>> \in Seq(E) /\ Len(<<>>) = 0
    OBVIOUS
  <2> QED BY <1>1, <2>1
<1>3. ASSUME NEW seq \in Seq(E), NEW e \in E
      PROVE  SeqTotal(w, Append(seq, e)) = SeqTotal(w, seq) + w[e]
  <2> DEFINE more == Append(seq, e)
             n == Len(seq)
  <2>1. /\ more \in Seq(E) /\ Len(more) = n + 1 /\ more[n + 1] = e /\ n \in Nat
        /\ \A k \in 1 .. n : more[k] = seq[k]
    OBVIOUS
  <2>2. PICK f : Sums(f, w, seq)
    BY SeqTotalSums
  <2>3. PICK g : Sums(g, w, more)
    BY <2>1, SeqTotalSums
  <2> HIDE DEF more, n
  <2> DEFINE Same == {k \in Nat : k <= n => f[k] = g[k]}
  <2>4. 0 \in Same
    BY <2>2, <2>3 DEF Sums
  <2>5. ASSUME NEW k \in Nat, k \in Same PROVE k + 1 \in Same
    <3> SUFFICES ASSUME k + 1 <= n PROVE f[k + 1] = g[k + 1]
      OBVIOUS
    <3>1. k + 1 \in 1 .. n /\ k + 1 \in 1 .. n + 1 /\ (k + 1) - 1 = k
      BY <2>1
    <3>2. f[k] = g[k]
      BY <2>1, <2>5
    <3>3. f[k + 1] = f[k] + w[seq[k + 1]]
      BY <2>2, <3>1 DEF Sums, n
    <3>4. g[k + 1] = g[k] + w[more[k + 1]]
      BY <2>1, <2>3, <3>1 DEF Sums
    <3> QED BY <2>1, <3>1, <3>2, <3>3, <3>4
  <2>6. Nat \subseteq Same
    <3> HIDE DEF Same
    <3> QED BY <2>4, <2>5, NumberInduction
  <2>7. g[n] = SeqTotal(w, seq)
    BY <2>1, <2>2, <2>6 DEF Sums, n
  <2>8. n + 1 \in 1 .. n + 1 /\ (n + 1) - 1 = n
    BY <2>1
  <2>9. g[n + 1] = g[n] + w[more[n + 1]] /\ g[n + 1] = SeqTotal(w, more)
    BY <2>1, <2>3, <2>8 DEF Sums
  <2> QED BY <2>1, <2>7, <2>9 DEF more
<1> QED BY <1>1, <1>2, <1>3
=============================================================================
