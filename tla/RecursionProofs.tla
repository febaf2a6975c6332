-------------------------- MODULE RecursionProofs --------------------------
(***************************************************************************)
(* Induction over data, as the proofs of the components need it: what the  *)
(* recursive definitions compute that they rest on.  These are recursions  *)
(* over the naturals, the sum and the product of the values of a function  *)
(* (FoldFunction), for every finite function of naturals, and the values   *)
(* that Inference gives to the tensors of a model.  Each induction is a    *)
(* search for a least counterexample.                                      *)
(***************************************************************************)
EXTENDS Integers, SequencesExt, FiniteSetTheorems, WellFoundedInduction, TLAPS

-----------------------------------------------------------------------------
(* Induction *)

\* Every nonempty set of naturals has a least element: of the sets 0..x, one
\* has no smaller one.
LEMMA LeastNatural ==
    ASSUME NEW T \in SUBSET Nat, T # {}
    PROVE  \E x \in T : \A y \in T : x <= y
<1> DEFINE Below == {0..x : x \in T}
<1>1. Below \subseteq FiniteSubsetsOf(Nat) /\ Below # {}
  <2>1. \A x \in T : IsFiniteSet(0..x) /\ 0..x \in SUBSET Nat
    <3>1. ASSUME NEW x \in T PROVE IsFiniteSet(0..x)
      <4>1. x \in Int
        OBVIOUS
      <4>. QED
        BY <4>1, FS_Interval
    <3>. QED
      BY <3>1
  <2>2. \A x \in T : 0..x \in FiniteSubsetsOf(Nat)
    BY <2>1 DEF FiniteSubsetsOf
  <2>. QED
    BY <2>2
<1>2. PICK L \in Below : \A M \in Below : <<M, L>> \notin StrictSubsetOrdering(Nat)
  BY <1>1, FS_StrictSubsetOrderingWellFounded, WFMin
<1>3. PICK x \in T : L = 0..x
  BY <1>2
<1>4. ASSUME NEW y \in T, y < x PROVE FALSE
  <2>1. 0..y \subseteq 0..x /\ 0..y # 0..x
    <3>1. x \in 0..x /\ x \notin 0..y
      BY <1>4
    <3>. QED
      BY <1>4, <3>1
  <2>2. <<0..y, 0..x>> \in StrictSubsetOrdering(Nat)
    BY <2>1 DEF StrictSubsetOrdering
  <2>. QED
    BY <1>2, <1>3, <2>2
<1>. QED
  BY <1>4

\* A set that has 0 and with every number its successor has all of 0..n.
LEMMA NaturalInduction ==
    ASSUME NEW n \in Nat, NEW S,
           0 \in S,
           \A k \in 0..n-1 : k \in S => k + 1 \in S
    PROVE  \A k \in 0..n : k \in S
<1> DEFINE T == {k \in 0..n : k \notin S}
<1>1. ASSUME T # {} PROVE FALSE
  <2>1. T \in SUBSET Nat
    OBVIOUS
  <2>2. PICK x \in T : \A y \in T : x <= y
    BY <1>1, <2>1, LeastNatural
  <2>3. x # 0 /\ x - 1 \in 0..n-1
    BY <2>2
  <2>4. x - 1 \notin T
    BY <2>2, <2>3
  <2>. QED
    BY <2>2, <2>3, <2>4
<1>. QED
  BY <1>1

\* The same downwards.
LEMMA DownwardInduction ==
    ASSUME NEW m \in Nat, NEW n \in Nat, NEW S,
           n \in S,
           \A i \in m..n-1 : i + 1 \in S => i \in S
    PROVE  \A i \in m..n : i \in S
<1> DEFINE T == {j \in 0..n : n - j < m \/ n - j \in S}
<1>1. 0 \in T
  OBVIOUS
<1>2. ASSUME NEW j \in 0..n-1, j \in T PROVE j + 1 \in T
  <2>1. j + 1 \in 0..n /\ (n - (j + 1)) + 1 = n - j /\ n - (j + 1) \in 0..n-1
    OBVIOUS
  <2>2. CASE n - (j + 1) < m
    BY <2>1, <2>2
  <2>3. CASE ~(n - (j + 1) < m)
    <3>1. n - (j + 1) \in m..n-1 /\ ~(n - j < m)
      BY <2>1, <2>3
    <3>2. n - j \in S
      BY <1>2, <3>1
    <3>3. n - (j + 1) \in S
      BY <2>1, <3>1, <3>2
    <3>. QED
      BY <2>1, <3>3
  <2>. QED
    BY <2>2, <2>3
<1>3. \A j \in 0..n : j \in T
  <2> HIDE DEF T
  <2>. QED
    BY <1>1, <1>2, NaturalInduction
<1>. QED
  <2> TAKE i \in m..n
  <2>1. n - i \in 0..n /\ n - (n - i) = i /\ ~(i < m)
    OBVIOUS
  <2>2. n - i \in T
    BY <2>1, <1>3
  <2>. QED
    BY <2>1, <2>2

LEMMA LargestIn ==
    ASSUME NEW n \in Nat, NEW s \in SUBSET (1..n), s # {}
    PROVE  Max(s) \in s /\ \A y \in s : y <= Max(s)
<1> DEFINE T == {n - x : x \in s}
<1>1. \A x \in s : x \in 1..n /\ n - x \in Nat
  OBVIOUS
<1>2. T \in SUBSET Nat
  BY <1>1
<1>3. T # {}
  OBVIOUS
<1>4. PICK t \in T : \A y \in T : t <= y
  <2> HIDE DEF T
  <2>. QED
    BY <1>2, <1>3, LeastNatural
<1>5. PICK x \in s : t = n - x
  BY <1>4
<1>6. \A y \in s : x >= y
  <2> TAKE y \in s
  <2>1. n - y \in T
    OBVIOUS
  <2>2. n - x <= n - y
    BY <2>1, <1>4, <1>5
  <2>. QED
    BY <2>2, <1>1
<1>7. Max(s) \in s /\ \A y \in s : Max(s) >= y
  BY <1>5, <1>6 DEF Max
<1>. QED
  BY <1>1, <1>7

\* A set of subsets of a finite set D that has {} and, with s \ {x} for an
\* element x of s, also s, has every subset.
LEMMA SubsetInduction ==
    ASSUME NEW D, IsFiniteSet(D), NEW S,
           {} \in S,
           \A s \in SUBSET D : (\A u \in SUBSET s : u # s => u \in S) => s \in S
    PROVE  \A s \in SUBSET D : s \in S
<1> DEFINE T == {s \in SUBSET D : s \notin S}
<1>1. ASSUME T # {} PROVE FALSE
  <2>1. T \subseteq FiniteSubsetsOf(D)
    BY FS_FiniteSubsetsOfFinite
  <2> HIDE DEF T
  <2>2. PICK s \in T : \A u \in T : <<u, s>> \notin StrictSubsetOrdering(D)
    BY <1>1, <2>1, FS_StrictSubsetOrderingWellFounded, WFMin
  <2>3. \A u \in SUBSET s : u # s => u \notin T
    BY <2>2 DEF StrictSubsetOrdering, T
  <2>4. \A u \in SUBSET s : u # s => u \in S
    BY <2>3 DEF T
  <2>. QED
    BY <2>4 DEF T
<1>. QED
  BY <1>1

Recursion(V, first, step, n) == first \in V /\ step \in [V -> V] /\ n \in Nat

\* g goes through n steps of the recursion.
Iterates(g, V, first, step, n) ==
    g \in [0..n -> V] /\ g[0] = first /\ \A k \in 1..n : g[k] = step[g[k-1]]

\* A recursion over the naturals defines a function.
LEMMA RecursionExists ==
    ASSUME NEW V, NEW first, NEW step, NEW n, Recursion(V, first, step, n)
    PROVE  \E g : Iterates(g, V, first, step, n)
<1> USE DEF Recursion, Iterates
<1> DEFINE Solves(g, m) == /\ g \in [0..m -> V]
                           /\ g[0] = first
                           /\ \A k \in 1..m : g[k] = step[g[k-1]]
           S == {m \in Nat : \E g : Solves(g, m)}
<1>1. 0 \in S
  <2>1. Solves([k \in 0..0 |-> first], 0)
    BY SMT
  <2>. QED
    BY <2>1
<1>2. ASSUME NEW m \in 0..n-1, m \in S PROVE m + 1 \in S
  <2>1. PICK g : Solves(g, m)
    BY <1>2
  <2> DEFINE h == [k \in 0..m+1 |-> IF k <= m THEN g[k] ELSE step[g[m]]]
  <2>2. h \in [0..m+1 -> V]
    BY <2>1
  <2>3. h[0] = first
    BY <2>1
  <2>4. ASSUME NEW k \in 1..m+1 PROVE h[k] = step[h[k-1]]
    BY <2>1
  <2>5. Solves(h, m + 1)
    BY <2>2, <2>3, <2>4
  <2>6. m + 1 \in Nat
    OBVIOUS
  <2> HIDE DEF h, Solves
  <2>. QED
    BY <2>5, <2>6
<1>3. \A m \in 0..n : m \in S
  <2> HIDE DEF S
  <2>. QED
    BY <1>1, <1>2, NaturalInduction
<1>4. n \in 0..n
  OBVIOUS
<1>. QED
  BY <1>3, <1>4

\* Two ways through the same recursion agree as far as both go.
LEMMA IteratesAgree ==
    ASSUME NEW V, NEW first, NEW step, NEW m \in Nat, NEW n \in Nat, m <= n,
           NEW g, NEW h, Iterates(g, V, first, step, m), Iterates(h, V, first, step, n)
    PROVE  g[m] = h[m]
<1> DEFINE S == {k \in 0..m : g[k] = h[k]}
<1>1. 0 \in S
  BY DEF Iterates
<1>2. ASSUME NEW k \in 0..m-1, k \in S PROVE k + 1 \in S
  <2>1. k + 1 \in 1..m /\ k + 1 \in 1..n /\ (k + 1) - 1 = k
    OBVIOUS
  <2>2. g[k+1] = step[g[k]] /\ h[k+1] = step[h[k]]
    BY <2>1 DEF Iterates
  <2>. QED
    BY <1>2, <2>1, <2>2
<1>3. \A k \in 0..m : k \in S
  <2> HIDE DEF S
  <2>. QED
    BY <1>1, <1>2, NaturalInduction
<1>. QED
  BY <1>3

\* A recursion over all naturals defines a function, too.
LEMMA RecursionOnNaturals ==
    ASSUME NEW V, NEW first \in V, NEW step \in [V -> V]
    PROVE  \E g \in [Nat -> V] : g[0] = first /\ \A k \in Nat : g[k+1] = step[g[k]]
<1> DEFINE way(n) == CHOOSE g : Iterates(g, V, first, step, n)
           g == [k \in Nat |-> way(k)[k]]
<1>1. ASSUME NEW n \in Nat PROVE Iterates(way(n), V, first, step, n)
  BY RecursionExists DEF Recursion
<1> HIDE DEF way
<1>2. \A k \in Nat : way(k)[k] \in V
  BY <1>1 DEF Iterates
<1>3. g \in [Nat -> V] /\ \A k \in Nat : g[k] = way(k)[k]
  BY <1>2
<1>4. g[0] = first
  BY <1>1, <1>3 DEF Iterates
<1>5. ASSUME NEW k \in Nat PROVE g[k+1] = step[g[k]]
  <2>1. k + 1 \in Nat /\ k <= k + 1 /\ k + 1 \in 1..k+1 /\ (k + 1) - 1 = k
    OBVIOUS
  <2>2. way(k+1)[k+1] = step[way(k+1)[k]]
    BY <2>1, <1>1 DEF Iterates
  <2>3. way(k)[k] = way(k+1)[k]
    BY <2>1, <1>1, IteratesAgree
  <2>. QED
    BY <2>1, <2>2, <2>3, <1>3
<1> HIDE DEF g
<1>. QED
  BY <1>3, <1>4, <1>5

-----------------------------------------------------------------------------
(* Folds *)

Pick(s) == CHOOSE x \in s : TRUE

LEMMA PickIn == \A s : s # {} => Pick(s) \in s
BY DEF Pick

Naturals(f) == IsFiniteSet(DOMAIN f) /\ \A x \in DOMAIN f : f[x] \in Nat

\* The recursion of FoldFunction over the subsets of the domain of f, with the
\* operation given as a function op.
FoldStep(op, base, f, v) ==
    [s \in SUBSET DOMAIN f |->
        IF s = {} THEN base ELSE op[<<f[Pick(s)], v[s \ {Pick(s)}]>>]]

Folds(Q, op, base, f) ==
    /\ Q \in [SUBSET DOMAIN f -> Nat]
    /\ Q[{}] = base
    /\ \A s \in SUBSET DOMAIN f :
          s # {} => Q[s] = op[<<f[Pick(s)], Q[s \ {Pick(s)}]>>]

Operation(op) == op \in [Nat \X Nat -> Nat]

LEMMA FoldStepTyped ==
    ASSUME NEW op, Operation(op), NEW base \in Nat, NEW f, Naturals(f),
           NEW v \in [SUBSET DOMAIN f -> Nat]
    PROVE  FoldStep(op, base, f, v) \in [SUBSET DOMAIN f -> Nat]
<1>1. ASSUME NEW s \in SUBSET DOMAIN f, s # {}
      PROVE  op[<<f[Pick(s)], v[s \ {Pick(s)}]>>] \in Nat
  <2>1. f[Pick(s)] \in Nat
    BY <1>1, PickIn DEF Naturals
  <2>2. v[s \ {Pick(s)}] \in Nat
    OBVIOUS
  <2>. QED
    BY <2>1, <2>2 DEF Operation
<1>. QED
  BY <1>1 DEF FoldStep

\* Iterated as often as a set has elements, the recursion reaches the value of
\* the set: it has a solution.
LEMMA FoldExists ==
    ASSUME NEW op, Operation(op), NEW base \in Nat, NEW f, Naturals(f)
    PROVE  \E Q : Folds(Q, op, base, f)
<1> DEFINE D == DOMAIN f
           V == [SUBSET D -> Nat]
           first == [s \in SUBSET D |-> base]
           step == [v \in V |-> FoldStep(op, base, f, v)]
           n == Cardinality(D)
<1>1. step \in [V -> V] /\ first \in V
  BY FoldStepTyped
<1>2. IsFiniteSet(D)
  BY DEF Naturals
<1>3. n \in Nat /\ \A s \in SUBSET D : IsFiniteSet(s) /\ Cardinality(s) \in 0..n
  <2>1. n \in Nat
    BY <1>2, FS_CardinalityType
  <2>2. ASSUME NEW s \in SUBSET D PROVE IsFiniteSet(s) /\ Cardinality(s) \in 0..n
    <3>1. IsFiniteSet(s) /\ Cardinality(s) <= n
      BY <1>2, FS_Subset
    <3>2. Cardinality(s) \in Nat
      BY <3>1, FS_CardinalityType
    <3> HIDE DEF n
    <3>. QED
      BY <2>1, <3>1, <3>2
  <2>. QED
    BY <2>1, <2>2
<1>4. PICK g : Iterates(g, V, first, step, n)
  <2>1. Recursion(V, first, step, n)
    BY <1>1, <1>3 DEF Recursion
  <2> HIDE DEF V, first, step, n
  <2>. QED
    BY <2>1, RecursionExists
<1> USE DEF Iterates
<1>5. \A k \in 1..n : g[k] = FoldStep(op, base, f, g[k-1])
  <2> TAKE k \in 1..n
  <2>1. g[k-1] \in V
    <3> HIDE DEF V, n
    <3>. QED
      BY <1>3, <1>4
  <2>. QED
    BY <2>1, <1>4
<1> DEFINE it == [s \in SUBSET D |-> g[Cardinality(s)][s]]
<1>6. it \in V
  <2>1. ASSUME NEW s \in SUBSET D PROVE g[Cardinality(s)][s] \in Nat
    <3>1. g[Cardinality(s)] \in V
      BY <1>3, <1>4
    <3>. QED
      BY <3>1
  <2>. QED
    BY <2>1
<1>7. it[{}] = base
  <2>1. Cardinality({}) = 0
    BY FS_EmptySet
  <2>2. it[{}] = g[0][{}]
    BY <2>1
  <2>. QED
    BY <2>2, <1>4
<1>8. ASSUME NEW s \in SUBSET D, s # {}
      PROVE  it[s] = op[<<f[Pick(s)], it[s \ {Pick(s)}]>>]
  <2> DEFINE c == Cardinality(s)
             r == s \ {Pick(s)}
  <2>1. Pick(s) \in s
    BY <1>8, PickIn
  <2>2. Cardinality(r) = c - 1
    BY <2>1, <1>3, FS_RemoveElement
  <2>3. c \in 1..n
    <3>1. c \in 0..n /\ c # 0
      BY <1>3, <1>8, FS_EmptySet
    <3> HIDE DEF c, n
    <3>. QED
      BY <3>1, <1>3
  <2>4. it[s] = FoldStep(op, base, f, g[c-1])[s]
    BY <2>3, <1>5
  <2>5. FoldStep(op, base, f, g[c-1])[s] = op[<<f[Pick(s)], g[c-1][r]>>]
    BY <1>8 DEF FoldStep
  <2>6. it[r] = g[c-1][r]
    BY <2>2
  <2>. QED
    BY <2>4, <2>5, <2>6
<1>. QED
  <2> HIDE DEF it
  <2>. QED
    BY <1>6, <1>7, <1>8 DEF Folds

\* Where the operation lets two elements change places, the value of a set
\* comes from any of its elements and the value of the others.
LEMMA AnyElement ==
    ASSUME NEW op, Operation(op), NEW base, NEW f, Naturals(f), NEW Q, Folds(Q, op, base, f),
           \A a, b, c \in Nat : op[<<a, op[<<b, c>>]>>] = op[<<b, op[<<a, c>>]>>]
    PROVE  \A s \in SUBSET DOMAIN f : \A x \in s : Q[s] = op[<<f[x], Q[s \ {x}]>>]
<1> DEFINE D == DOMAIN f
           S == {s \in SUBSET D : \A x \in s : Q[s] = op[<<f[x], Q[s \ {x}]>>]}
<1>1. {} \in S
  OBVIOUS
<1>2. ASSUME NEW s \in SUBSET D, \A u \in SUBSET s : u # s => u \in S
      PROVE  s \in S
  <2>1. ASSUME NEW x \in s PROVE Q[s] = op[<<f[x], Q[s \ {x}]>>]
    <3> DEFINE y == Pick(s)
               r == s \ {x, y}
    <3>1. y \in s /\ Q[s] = op[<<f[y], Q[s \ {y}]>>]
      BY PickIn DEF Folds
    <3>2. CASE x = y
      BY <3>1, <3>2
    <3>3. CASE x # y
      <4>1. \A z \in s \ {x} : Q[s \ {x}] = op[<<f[z], Q[(s \ {x}) \ {z}]>>]
        <5>1. s \ {x} \in S
          BY <1>2
        <5>. QED
          BY <5>1
      <4>2. \A z \in s \ {y} : Q[s \ {y}] = op[<<f[z], Q[(s \ {y}) \ {z}]>>]
        <5>1. s \ {y} \in S
          BY <1>2, <3>1
        <5>. QED
          BY <5>1
      <4>3. (s \ {y}) \ {x} = r /\ (s \ {x}) \ {y} = r
        OBVIOUS
      <4> HIDE DEF y, r, S
      <4>4. Q[s \ {y}] = op[<<f[x], Q[r]>>]
        BY <4>2, <4>3, <3>3
      <4>5. Q[s \ {x}] = op[<<f[y], Q[r]>>]
        BY <4>1, <4>3, <3>1, <3>3
      <4>6. f[x] \in Nat /\ f[y] \in Nat /\ Q[r] \in Nat
        BY <3>1 DEF Naturals, Folds, r
      <4>7. op[<<f[y], op[<<f[x], Q[r]>>]>>] = op[<<f[x], op[<<f[y], Q[r]>>]>>]
        BY <4>6
      <4>. QED
        BY <3>1, <4>4, <4>5, <4>7
    <3>. QED
      BY <3>2, <3>3
  <2>. QED
    BY <2>1
<1>3. \A s \in SUBSET D : s \in S
  <2> HIDE DEF S, D
  <2>1. IsFiniteSet(D)
    BY DEF Naturals, D
  <2>. QED
    BY <1>1, <1>2, <2>1, SubsetInduction
<1>. QED
  BY <1>3

-----------------------------------------------------------------------------
(* Folds over a sequence *)

\* The recursion of FoldLeft over the places 1..n: next goes from the value of
\* the places before and a place to the value.
DescentStep(w, base, next, n) ==
    [s \in SUBSET (1..n) |->
        IF s = {} THEN base ELSE next[<<w[s \ {Max(s)}], Max(s)>>]]

Descent(A, base, next, n) == base \in A /\ n \in Nat /\ next \in [A \X (1..n) -> A]

Descends(w, A, base, next, n) ==
    w \in [SUBSET (1..n) -> A] /\ w = DescentStep(w, base, next, n)

\* As much of it as a recursion shows that is not known to stay in A.
DescendsWithin(w, A, base, next, n) ==
    /\ w[{}] = base
    /\ \A s \in SUBSET (1..n) :
          s # {} /\ w[s \ {Max(s)}] \in A => w[s] = next[<<w[s \ {Max(s)}], Max(s)>>]

LEMMA DescentExists ==
    ASSUME NEW A, NEW base, NEW next, NEW n, Descent(A, base, next, n)
    PROVE  \E w : Descends(w, A, base, next, n)
<1> DEFINE D == 1..n
           V == [SUBSET D -> A]
           first == [s \in SUBSET D |-> base]
           step == [v \in V |-> DescentStep(v, base, next, n)]
<1>0. base \in A /\ n \in Nat /\ next \in [A \X (1..n) -> A]
  BY DEF Descent
<1>1. \A s \in SUBSET D : s # {} => Max(s) \in s /\ Max(s) \in D
  BY <1>0, LargestIn
<1>2. step \in [V -> V] /\ first \in V
  <2>1. ASSUME NEW v \in V, NEW s \in SUBSET D, s # {}
        PROVE  next[<<v[s \ {Max(s)}], Max(s)>>] \in A
    <3>1. v[s \ {Max(s)}] \in A /\ Max(s) \in 1..n
      BY <1>1, <2>1
    <3>. QED
      BY <1>0, <3>1
  <2>2. \A v \in V : DescentStep(v, base, next, n) \in V
    BY <1>0, <2>1 DEF DescentStep
  <2>. QED
    BY <1>0, <2>2
<1>3. IsFiniteSet(D) /\ Cardinality(D) = n
  BY <1>0, FS_Interval
<1>4. \A s \in SUBSET D : IsFiniteSet(s) /\ Cardinality(s) \in 0..n
  <2> TAKE s \in SUBSET D
  <2>1. IsFiniteSet(s) /\ Cardinality(s) <= n
    BY <1>3, FS_Subset
  <2>2. Cardinality(s) \in Nat
    BY <2>1, FS_CardinalityType
  <2>. QED
    BY <1>0, <2>1, <2>2
<1>5. PICK g : Iterates(g, V, first, step, n)
  <2>1. Recursion(V, first, step, n)
    BY <1>0, <1>2 DEF Recursion
  <2> HIDE DEF V, first, step
  <2>. QED
    BY <2>1, RecursionExists
<1>6. \A k \in 0..n : g[k] \in V
  BY <1>5 DEF Iterates
<1>7. \A k \in 1..n : g[k] = DescentStep(g[k-1], base, next, n)
  <2> TAKE k \in 1..n
  <2>1. k - 1 \in 0..n
    BY <1>0
  <2>2. g[k-1] \in V
    BY <1>6, <2>1
  <2>3. g[k] = step[g[k-1]]
    BY <1>5 DEF Iterates
  <2>. QED
    BY <2>2, <2>3
<1> DEFINE it == [s \in SUBSET D |-> g[Cardinality(s)][s]]
<1>8. it \in V
  <2>1. ASSUME NEW s \in SUBSET D PROVE g[Cardinality(s)][s] \in A
    <3>1. g[Cardinality(s)] \in V
      BY <1>4, <1>6
    <3>. QED
      BY <3>1
  <2>. QED
    BY <2>1
<1>9. it[{}] = base
  <2>1. Cardinality({}) = 0
    BY FS_EmptySet
  <2>2. it[{}] = g[0][{}]
    BY <2>1
  <2>. QED
    BY <2>2, <1>5 DEF Iterates
<1>10. ASSUME NEW s \in SUBSET D, s # {}
       PROVE  it[s] = next[<<it[s \ {Max(s)}], Max(s)>>]
  <2> DEFINE c == Cardinality(s)
             r == s \ {Max(s)}
  <2>1. Max(s) \in s
    BY <1>1, <1>10
  <2>2. Cardinality(r) = c - 1
    BY <2>1, <1>4, FS_RemoveElement
  <2>3. c \in 1..n
    <3>1. c \in 0..n /\ c # 0
      BY <1>4, <1>10, FS_EmptySet
    <3> HIDE DEF c
    <3>. QED
      BY <3>1, <1>0
  <2>4. it[s] = DescentStep(g[c-1], base, next, n)[s]
    BY <2>3, <1>7
  <2>5. DescentStep(g[c-1], base, next, n)[s] = next[<<g[c-1][r], Max(s)>>]
    BY <1>10 DEF DescentStep
  <2>6. it[r] = g[c-1][r]
    BY <2>2
  <2>. QED
    BY <2>4, <2>5, <2>6
<1>11. \A s \in SUBSET D : it[s] = IF s = {} THEN base ELSE next[<<it[s \ {Max(s)}], Max(s)>>]
  BY <1>9, <1>10
<1>12. it = DescentStep(it, base, next, n)
  <2>1. it = [s \in SUBSET D |-> it[s]]
    OBVIOUS
  <2> HIDE DEF it
  <2>. QED
    BY <1>11, <2>1 DEF DescentStep
<1>. QED
  <2>1. Descends(it, A, base, next, n)
    BY <1>8, <1>12 DEF Descends
  <2> HIDE DEF it
  <2>. QED
    BY <2>1

\* Every solution of the recursion stays in the set of the values.
LEMMA DescentTyped ==
    ASSUME NEW A, NEW base, NEW next, NEW n, Descent(A, base, next, n),
           NEW Q, DescendsWithin(Q, A, base, next, n)
    PROVE  Q[1..n] \in A
<1> DEFINE D == 1..n
           S == {s \in SUBSET D : Q[s] \in A}
<1>0. /\ base \in A /\ n \in Nat /\ next \in [A \X (1..n) -> A]
      /\ Q[{}] = base
      /\ \A s \in SUBSET D :
            s # {} /\ Q[s \ {Max(s)}] \in A => Q[s] = next[<<Q[s \ {Max(s)}], Max(s)>>]
  BY DEF Descent, DescendsWithin
<1>1. {} \in S
  BY <1>0
<1>2. ASSUME NEW s \in SUBSET D, \A u \in SUBSET s : u # s => u \in S
      PROVE  s \in S
  <2>1. CASE s = {}
    BY <2>1, <1>1
  <2>2. CASE s # {}
    <3>1. Max(s) \in s
      BY <1>0, <2>2, LargestIn
    <3>2. Q[s \ {Max(s)}] \in A
      BY <1>2, <3>1
    <3>3. Q[s] = next[<<Q[s \ {Max(s)}], Max(s)>>]
      BY <1>0, <2>2, <3>2
    <3>4. Q[s] \in A
      BY <1>0, <3>1, <3>2, <3>3
    <3>. QED
      BY <3>4
  <2>. QED
    BY <2>1, <2>2
<1>3. IsFiniteSet(D)
  BY <1>0, FS_Interval
<1>4. \A s \in SUBSET D : s \in S
  <2> HIDE DEF S, D
  <2>. QED
    BY <1>1, <1>2, <1>3, SubsetInduction
<1>. QED
  BY <1>4

-----------------------------------------------------------------------------
(* Products and sums *)

Product(f) == FoldFunction(LAMBDA d, acc : d * acc, 1, f)
Total(f) == FoldFunction(LAMBDA n, sum : n + sum, 0, f)

Times == [p \in Nat \X Nat |-> p[1] * p[2]]
Plus == [p \in Nat \X Nat |-> p[1] + p[2]]

\* What FoldFunction computes for the subsets of the domain of f.
Products(f) ==
    CHOOSE iter : iter = [s \in SUBSET DOMAIN f |->
                            IF s = {} THEN 1 ELSE f[Pick(s)] * iter[s \ {Pick(s)}]]
SumsFrom(base, f) ==
    CHOOSE iter : iter = [s \in SUBSET DOMAIN f |->
                            IF s = {} THEN base ELSE f[Pick(s)] + iter[s \ {Pick(s)}]]
Sums(f) == SumsFrom(0, f)

LEMMA ProductIsLast == \A f : Product(f) = Products(f)[DOMAIN f]
BY DEF Product, Products, Pick, FoldFunction, FoldFunctionOnSet, MapThenFoldSet

LEMMA SumIsLast == \A f : Total(f) = Sums(f)[DOMAIN f]
BY DEF Total, Sums, SumsFrom, Pick, FoldFunction, FoldFunctionOnSet, MapThenFoldSet

LEMMA SumFromIsLast == \A b, f : FoldFunction(+, b, f) = SumsFrom(b, f)[DOMAIN f]
BY DEF SumsFrom, Pick, FoldFunction, FoldFunctionOnSet, MapThenFoldSet

LEMMA OperationFacts ==
    /\ Operation(Times) /\ Operation(Plus)
    /\ \A a, b \in Nat : Times[<<a, b>>] = a * b /\ Plus[<<a, b>>] = a + b
BY DEF Operation, Times, Plus

\* A solution of the recursion has a natural for each set.
LEMMA ProductsFold ==
    ASSUME NEW f, Naturals(f)
    PROVE  Folds(Products(f), Times, 1, f)
<1> DEFINE D == DOMAIN f
           Step(v) == [s \in SUBSET D |-> IF s = {} THEN 1 ELSE f[Pick(s)] * v[s \ {Pick(s)}]]
           P == Products(f)
<1>1. \A s \in SUBSET D : s # {} => Pick(s) \in s /\ f[Pick(s)] \in Nat
  BY PickIn DEF Naturals
<1>2. PICK Q : Folds(Q, Times, 1, f)
  BY FoldExists, OperationFacts
<1>3. Q = Step(Q)
  <2>1. ASSUME NEW s \in SUBSET D
        PROVE  Q[s] = IF s = {} THEN 1 ELSE f[Pick(s)] * Q[s \ {Pick(s)}]
    <3>1. CASE s = {}
      BY <3>1, <1>2 DEF Folds
    <3>2. CASE s # {}
      <4>1. Q[s] = Times[<<f[Pick(s)], Q[s \ {Pick(s)}]>>]
        BY <3>2, <1>2 DEF Folds
      <4>2. f[Pick(s)] \in Nat /\ Q[s \ {Pick(s)}] \in Nat
        BY <3>2, <1>1, <1>2 DEF Folds
      <4>3. Q[s] = f[Pick(s)] * Q[s \ {Pick(s)}]
        BY <4>1, <4>2, OperationFacts
      <4>. QED
        BY <4>3, <3>2
    <3>. QED
      BY <3>1, <3>2
  <2>2. Q = [s \in SUBSET D |-> Q[s]]
    BY <1>2 DEF Folds
  <2>. QED
    BY <2>1, <2>2
<1>4. P = Step(P)
  BY <1>3 DEF Products
<1>5. P = [s \in SUBSET D |-> P[s]]
  BY <1>4
<1>6. \A s \in SUBSET D : P[s] = IF s = {} THEN 1 ELSE f[Pick(s)] * P[s \ {Pick(s)}]
  <2>1. \A s \in SUBSET D : Step(P)[s] = IF s = {} THEN 1 ELSE f[Pick(s)] * P[s \ {Pick(s)}]
    OBVIOUS
  <2> HIDE DEF P, Step
  <2>. QED
    BY <1>4, <2>1
<1> HIDE DEF P, Step
<1>7. \A s \in SUBSET D : P[s] \in Nat
  <2> DEFINE S == {s \in SUBSET D : P[s] \in Nat}
  <2>e. {} \in SUBSET D
    OBVIOUS
  <2>0. P[{}] = 1
    BY <1>6, <2>e
  <2>1. {} \in S
    BY <2>e, <2>0
  <2>2. ASSUME NEW s \in SUBSET D, \A u \in SUBSET s : u # s => u \in S
        PROVE  s \in S
    <3>1. CASE s = {}
      BY <3>1, <2>1
    <3>2. CASE s # {}
      <4>1. Pick(s) \in s /\ f[Pick(s)] \in Nat
        BY <3>2, <1>1
      <4>2. P[s \ {Pick(s)}] \in Nat
        BY <4>1, <2>2
      <4>3. P[s] = f[Pick(s)] * P[s \ {Pick(s)}]
        BY <3>2, <1>6
      <4>. QED
        BY <4>1, <4>2, <4>3
    <3>. QED
      BY <3>1, <3>2
  <2>3. IsFiniteSet(D)
    BY DEF Naturals
  <2> HIDE DEF S, D
  <2>4. \A s \in SUBSET D : s \in S
    BY <2>1, <2>2, <2>3, SubsetInduction
  <2>. QED
    BY <2>4 DEF S
<1>8. P \in [SUBSET D -> Nat]
  BY <1>5, <1>7
<1>9. ASSUME NEW s \in SUBSET D, s # {}
      PROVE  P[s] = Times[<<f[Pick(s)], P[s \ {Pick(s)}]>>]
  <2>1. f[Pick(s)] \in Nat /\ P[s \ {Pick(s)}] \in Nat
    BY <1>1, <1>7, <1>9
  <2>. QED
    BY <2>1, <1>6, <1>9, OperationFacts
<1>. QED
  BY <1>6, <1>8, <1>9 DEF Folds, P

\* The same for sums.
LEMMA SumsFromFold ==
    ASSUME NEW f, Naturals(f), NEW b \in Nat
    PROVE  Folds(SumsFrom(b, f), Plus, b, f)
<1> DEFINE D == DOMAIN f
           Step(v) == [s \in SUBSET D |-> IF s = {} THEN b ELSE f[Pick(s)] + v[s \ {Pick(s)}]]
           P == SumsFrom(b, f)
<1>1. \A s \in SUBSET D : s # {} => Pick(s) \in s /\ f[Pick(s)] \in Nat
  BY PickIn DEF Naturals
<1>2. PICK Q : Folds(Q, Plus, b, f)
  BY FoldExists, OperationFacts
<1>3. Q = Step(Q)
  <2>1. ASSUME NEW s \in SUBSET D
        PROVE  Q[s] = IF s = {} THEN b ELSE f[Pick(s)] + Q[s \ {Pick(s)}]
    <3>1. CASE s = {}
      BY <3>1, <1>2 DEF Folds
    <3>2. CASE s # {}
      <4>1. Q[s] = Plus[<<f[Pick(s)], Q[s \ {Pick(s)}]>>]
        BY <3>2, <1>2 DEF Folds
      <4>2. f[Pick(s)] \in Nat /\ Q[s \ {Pick(s)}] \in Nat
        BY <3>2, <1>1, <1>2 DEF Folds
      <4>3. Q[s] = f[Pick(s)] + Q[s \ {Pick(s)}]
        BY <4>1, <4>2, OperationFacts
      <4>. QED
        BY <4>3, <3>2
    <3>. QED
      BY <3>1, <3>2
  <2>2. Q = [s \in SUBSET D |-> Q[s]]
    BY <1>2 DEF Folds
  <2>. QED
    BY <2>1, <2>2
<1>4. P = Step(P)
  BY <1>3 DEF SumsFrom
<1>5. P = [s \in SUBSET D |-> P[s]]
  BY <1>4
<1>6. \A s \in SUBSET D : P[s] = IF s = {} THEN b ELSE f[Pick(s)] + P[s \ {Pick(s)}]
  <2>1. \A s \in SUBSET D : Step(P)[s] = IF s = {} THEN b ELSE f[Pick(s)] + P[s \ {Pick(s)}]
    OBVIOUS
  <2> HIDE DEF P, Step
  <2>. QED
    BY <1>4, <2>1
<1> HIDE DEF P, Step
<1>7. \A s \in SUBSET D : P[s] \in Nat
  <2> DEFINE S == {s \in SUBSET D : P[s] \in Nat}
  <2>e. {} \in SUBSET D
    OBVIOUS
  <2>0. P[{}] = b
    BY <1>6, <2>e
  <2>1. {} \in S
    BY <2>e, <2>0
  <2>2. ASSUME NEW s \in SUBSET D, \A u \in SUBSET s : u # s => u \in S
        PROVE  s \in S
    <3>1. CASE s = {}
      BY <3>1, <2>1
    <3>2. CASE s # {}
      <4>1. Pick(s) \in s /\ f[Pick(s)] \in Nat
        BY <3>2, <1>1
      <4>2. P[s \ {Pick(s)}] \in Nat
        BY <4>1, <2>2
      <4>3. P[s] = f[Pick(s)] + P[s \ {Pick(s)}]
        BY <3>2, <1>6
      <4>. QED
        BY <4>1, <4>2, <4>3
    <3>. QED
      BY <3>1, <3>2
  <2>3. IsFiniteSet(D)
    BY DEF Naturals
  <2> HIDE DEF S, D
  <2>4. \A s \in SUBSET D : s \in S
    BY <2>1, <2>2, <2>3, SubsetInduction
  <2>. QED
    BY <2>4 DEF S
<1>8. P \in [SUBSET D -> Nat]
  BY <1>5, <1>7
<1>9. ASSUME NEW s \in SUBSET D, s # {}
      PROVE  P[s] = Plus[<<f[Pick(s)], P[s \ {Pick(s)}]>>]
  <2>1. f[Pick(s)] \in Nat /\ P[s \ {Pick(s)}] \in Nat
    BY <1>1, <1>7, <1>9
  <2>. QED
    BY <2>1, <1>6, <1>9, OperationFacts
<1>. QED
  BY <1>6, <1>8, <1>9 DEF Folds, P

LEMMA SumsFold ==
    ASSUME NEW f, Naturals(f)
    PROVE  Folds(Sums(f), Plus, 0, f)
BY SumsFromFold DEF Sums

\* The product of the values of a function is a natural, and each value is a
\* factor of it.
LEMMA ProductFacts ==
    ASSUME NEW f, Naturals(f)
    PROVE  /\ Product(f) \in Nat
           /\ Products(f)[{}] = 1
           /\ \A s \in SUBSET DOMAIN f :
                 /\ Products(f)[s] \in Nat
                 /\ \A x \in s : Products(f)[s] = f[x] * Products(f)[s \ {x}]
<1> DEFINE P == Products(f)
<1>1. Folds(P, Times, 1, f)
  BY ProductsFold
<1>2. \A a, b, c \in Nat : Times[<<a, Times[<<b, c>>]>>] = Times[<<b, Times[<<a, c>>]>>]
  <2> TAKE a, b, c \in Nat
  <2>1. b * c \in Nat /\ a * c \in Nat
    BY OperationFacts DEF Operation
  <2>2. a * (b * c) = b * (a * c)
    BY SMT
  <2>. QED
    BY <2>1, <2>2, OperationFacts
<1> HIDE DEF P
<1>3. \A s \in SUBSET DOMAIN f : \A x \in s : P[s] = Times[<<f[x], P[s \ {x}]>>]
  BY <1>1, <1>2, AnyElement, OperationFacts
<1>4. \A s \in SUBSET DOMAIN f : P[s] \in Nat
  BY <1>1 DEF Folds
<1>5. \A s \in SUBSET DOMAIN f : \A x \in s : P[s] = f[x] * P[s \ {x}]
  <2> TAKE s \in SUBSET DOMAIN f
  <2> TAKE x \in s
  <2>1. f[x] \in Nat /\ P[s \ {x}] \in Nat
    BY <1>4 DEF Naturals
  <2>2. Times[<<f[x], P[s \ {x}]>>] = f[x] * P[s \ {x}]
    BY <2>1, OperationFacts, Zenon
  <2>3. P[s] = Times[<<f[x], P[s \ {x}]>>]
    BY <1>3
  <2>. QED
    BY <2>2, <2>3, Zenon
<1>. QED
  BY <1>1, <1>4, <1>5, ProductIsLast DEF Folds, P

LEMMA SumFacts ==
    ASSUME NEW f, Naturals(f)
    PROVE  /\ Total(f) \in Nat
           /\ Sums(f)[{}] = 0
           /\ \A s \in SUBSET DOMAIN f :
                 /\ Sums(f)[s] \in Nat
                 /\ \A x \in s : Sums(f)[s] = f[x] + Sums(f)[s \ {x}]
<1> DEFINE P == Sums(f)
<1>1. Folds(P, Plus, 0, f)
  BY SumsFold
<1>2. \A a, b, c \in Nat : Plus[<<a, Plus[<<b, c>>]>>] = Plus[<<b, Plus[<<a, c>>]>>]
  <2> TAKE a, b, c \in Nat
  <2>1. b + c \in Nat /\ a + c \in Nat
    BY SMT
  <2>2. a + (b + c) = b + (a + c)
    BY SMT
  <2>. QED
    BY <2>1, <2>2, OperationFacts
<1> HIDE DEF P
<1>3. \A s \in SUBSET DOMAIN f : \A x \in s : P[s] = Plus[<<f[x], P[s \ {x}]>>]
  BY <1>1, <1>2, AnyElement, OperationFacts
<1>4. \A s \in SUBSET DOMAIN f : P[s] \in Nat
  BY <1>1 DEF Folds
<1>5. \A s \in SUBSET DOMAIN f : \A x \in s : P[s] = f[x] + P[s \ {x}]
  <2> TAKE s \in SUBSET DOMAIN f
  <2> TAKE x \in s
  <2>1. f[x] \in Nat /\ P[s \ {x}] \in Nat
    BY <1>4 DEF Naturals
  <2>2. Plus[<<f[x], P[s \ {x}]>>] = f[x] + P[s \ {x}]
    BY <2>1, OperationFacts, Zenon
  <2>3. P[s] = Plus[<<f[x], P[s \ {x}]>>]
    BY <1>3
  <2>. QED
    BY <2>2, <2>3, Zenon
<1>. QED
  BY <1>1, <1>4, <1>5, SumIsLast DEF Folds, P

\* A function of one value is that value, one of none is 1.
LEMMA SmallProducts ==
    /\ Product(<<>>) = 1
    /\ \A n \in Nat : Product(<<n>>) = n
<1>1. Product(<<>>) = 1
  <2>1. DOMAIN <<>> = {}
    OBVIOUS
  <2>2. Naturals(<<>>)
    BY <2>1, FS_EmptySet DEF Naturals
  <2>. QED
    BY <2>1, <2>2, ProductFacts, ProductIsLast
<1>2. ASSUME NEW n \in Nat PROVE Product(<<n>>) = n
  <2> DEFINE f == <<n>>
  <2>1. DOMAIN f = {1} /\ f[1] = n
    OBVIOUS
  <2> HIDE DEF f
  <2>2. Naturals(f)
    BY <2>1, FS_Singleton DEF Naturals
  <2>3. {1} \ {1} = {}
    OBVIOUS
  <2>4. Products(f)[{1}] = f[1] * Products(f)[{}]
    <3>1. {1} \in SUBSET DOMAIN f /\ 1 \in {1}
      BY <2>1
    <3>2. Products(f)[{1}] = f[1] * Products(f)[{1} \ {1}]
      BY <3>1, <2>2, ProductFacts
    <3>. QED
      BY <3>2, <2>3
  <2>5. Product(f) = n * 1
    BY <2>1, <2>2, <2>4, ProductFacts, ProductIsLast
  <2>. QED
    BY <2>5 DEF f
<1>. QED
  BY <1>1, <1>2

Image(p, s) == {p[i] : i \in s}

\* Values may be taken at other places: h has the values of f at those that p
\* says.
LEMMA ProductsMapped ==
    ASSUME NEW f, Naturals(f), NEW h, IsFiniteSet(DOMAIN h),
           NEW p \in [DOMAIN h -> DOMAIN f],
           IsInjective(p),
           \A i \in DOMAIN h : h[i] = f[p[i]]
    PROVE  /\ Naturals(h)
           /\ \A s \in SUBSET DOMAIN h : Products(h)[s] = Products(f)[Image(p, s)]
<1> DEFINE D == DOMAIN h
           To(s) == {p[i] : i \in s}
           S == {s \in SUBSET D : Products(h)[s] = Products(f)[To(s)]}
<1>1. Naturals(h)
  BY DEF Naturals
<1>2. {} \in S
  <2>1. To({}) = {}
    OBVIOUS
  <2>. QED
    BY <2>1, <1>1, ProductFacts
<1>3. ASSUME NEW s \in SUBSET D, \A u \in SUBSET s : u # s => u \in S
      PROVE  s \in S
  <2>1. CASE s = {}
    BY <2>1, <1>2
  <2>2. CASE s # {}
    <3>1. PICK x \in s : TRUE
      BY <2>2
    <3> DEFINE r == s \ {x}
    <3>2. Products(h)[r] = Products(f)[To(r)]
      <4>1. r \in S
        BY <1>3
      <4>. QED
        BY <4>1
    <3>3. To(r) = To(s) \ {p[x]}
      BY DEF IsInjective
    <3>4. To(s) \in SUBSET DOMAIN f /\ p[x] \in To(s)
      OBVIOUS
    <3> HIDE DEF To, r
    <3>5. Products(f)[To(s)] = f[p[x]] * Products(f)[To(r)]
      BY <3>3, <3>4, ProductFacts
    <3>6. Products(h)[s] = h[x] * Products(h)[r]
      BY <1>1, ProductFacts DEF r
    <3>. QED
      BY <3>2, <3>5, <3>6
  <2>. QED
    BY <2>1, <2>2
<1>4. \A s \in SUBSET D : s \in S
  <2>1. IsFiniteSet(D)
    OBVIOUS
  <2> HIDE DEF S, D
  <2>. QED
    BY <1>2, <1>3, <2>1, SubsetInduction
<1>. QED
  BY <1>1, <1>4 DEF Image

LEMMA SumsMapped ==
    ASSUME NEW f, Naturals(f), NEW h, IsFiniteSet(DOMAIN h),
           NEW p \in [DOMAIN h -> DOMAIN f],
           IsInjective(p),
           \A i \in DOMAIN h : h[i] = f[p[i]]
    PROVE  /\ Naturals(h)
           /\ \A s \in SUBSET DOMAIN h : Sums(h)[s] = Sums(f)[Image(p, s)]
<1> DEFINE D == DOMAIN h
           To(s) == {p[i] : i \in s}
           S == {s \in SUBSET D : Sums(h)[s] = Sums(f)[To(s)]}
<1>1. Naturals(h)
  BY DEF Naturals
<1>2. {} \in S
  <2>1. To({}) = {}
    OBVIOUS
  <2>. QED
    BY <2>1, <1>1, SumFacts
<1>3. ASSUME NEW s \in SUBSET D, \A u \in SUBSET s : u # s => u \in S
      PROVE  s \in S
  <2>1. CASE s = {}
    BY <2>1, <1>2
  <2>2. CASE s # {}
    <3>1. PICK x \in s : TRUE
      BY <2>2
    <3> DEFINE r == s \ {x}
    <3>2. Sums(h)[r] = Sums(f)[To(r)]
      <4>1. r \in S
        BY <1>3
      <4>. QED
        BY <4>1
    <3>3. To(r) = To(s) \ {p[x]}
      BY DEF IsInjective
    <3>4. To(s) \in SUBSET DOMAIN f /\ p[x] \in To(s)
      OBVIOUS
    <3> HIDE DEF To, r
    <3>5. Sums(f)[To(s)] = f[p[x]] + Sums(f)[To(r)]
      BY <3>3, <3>4, SumFacts
    <3>6. Sums(h)[s] = h[x] + Sums(h)[r]
      BY <1>1, SumFacts DEF r
    <3>. QED
      BY <3>2, <3>5, <3>6
  <2>. QED
    BY <2>1, <2>2
<1>4. \A s \in SUBSET D : s \in S
  <2>1. IsFiniteSet(D)
    OBVIOUS
  <2> HIDE DEF S, D
  <2>. QED
    BY <1>2, <1>3, <2>1, SubsetInduction
<1>. QED
  BY <1>1, <1>4 DEF Image

LEMMA ProductPermuted ==
    ASSUME NEW f, Naturals(f), NEW h, IsFiniteSet(DOMAIN h),
           NEW p \in [DOMAIN h -> DOMAIN f],
           IsInjective(p),
           \A j \in DOMAIN f : \E i \in DOMAIN h : p[i] = j,
           \A i \in DOMAIN h : h[i] = f[p[i]]
    PROVE  Product(h) = Product(f)
<1>1. Image(p, DOMAIN h) = DOMAIN f
  BY DEF Image
<1>2. Products(h)[DOMAIN h] = Products(f)[Image(p, DOMAIN h)]
  BY ProductsMapped
<1>. QED
  BY <1>1, <1>2, ProductIsLast

\* So a sequence read backwards has the same product.
LEMMA ProductReversed ==
    ASSUME NEW s \in Seq(Nat)
    PROVE  Reverse(s) \in Seq(Nat) /\ Product(Reverse(s)) = Product(s)
<1> DEFINE n == Len(s)
           r == Reverse(s)
           p == [i \in 1..n |-> (n - i) + 1]
<1>1. n \in Nat /\ DOMAIN s = 1..n /\ \A i \in 1..n : s[i] \in Nat
  OBVIOUS
<1>2. r = [i \in 1..n |-> s[(n - i) + 1]]
  BY DEF Reverse
<1>3. \A i \in 1..n : (n - i) + 1 \in 1..n
  BY <1>1
<1>4. r \in Seq(Nat) /\ DOMAIN r = 1..n
  <2> HIDE DEF n, r
  <2>1. r \in [1..n -> Nat]
    BY <1>1, <1>2, <1>3
  <2>. QED
    BY <2>1, <1>1
<1>5. IsFiniteSet(1..n)
  BY <1>1, FS_Interval
<1>6. Naturals(s)
  BY <1>1, <1>5 DEF Naturals
<1>7. p \in [1..n -> 1..n] /\ IsInjective(p)
  BY <1>1, <1>3 DEF IsInjective
<1>8. \A j \in 1..n : \E i \in 1..n : p[i] = j
  <2> TAKE j \in 1..n
  <2> HIDE DEF n
  <2>1. (n - j) + 1 \in 1..n /\ p[(n - j) + 1] = j
    BY <1>1
  <2>. QED
    BY <2>1
<1>9. \A i \in 1..n : r[i] = s[p[i]]
  BY <1>2, <1>3
<1>. QED
  <2> HIDE DEF n, r, p
  <2>1. Product(r) = Product(s)
    BY <1>1, <1>4, <1>5, <1>6, <1>7, <1>8, <1>9, ProductPermuted
  <2>. QED
    BY <1>4, <2>1 DEF r

\* Larger values over more places have a larger sum.
LEMMA SumsMonotone ==
    ASSUME NEW f, Naturals(f), NEW h, Naturals(h), NEW D, D \subseteq DOMAIN f \cap DOMAIN h,
           \A i \in D : f[i] <= h[i]
    PROVE  Sums(f)[D] <= Sums(h)[DOMAIN h]
<1> DEFINE E == DOMAIN h
           S == {s \in SUBSET E : Sums(f)[s \cap D] <= Sums(h)[s]}
<1>1. {} \in S
  <2>1. {} \cap D = {} /\ {} \in SUBSET E
    OBVIOUS
  <2>2. Sums(f)[{}] = 0 /\ Sums(h)[{}] = 0
    BY SumFacts
  <2>. QED
    BY <2>1, <2>2
<1>2. ASSUME NEW s \in SUBSET E, \A u \in SUBSET s : u # s => u \in S
      PROVE  s \in S
  <2>1. CASE s = {}
    BY <2>1, <1>1
  <2>2. CASE s # {}
    <3>1. PICK x \in s : TRUE
      BY <2>2
    <3> DEFINE r == s \ {x}
    <3>2. Sums(f)[r \cap D] <= Sums(h)[r]
      <4>1. r \in S
        BY <1>2
      <4>. QED
        BY <4>1
    <3>3. /\ Sums(h)[s] = h[x] + Sums(h)[r] /\ Sums(h)[r] \in Nat
          /\ h[x] \in Nat
      <4>1. r \in SUBSET DOMAIN h /\ s \in SUBSET DOMAIN h /\ x \in s
        OBVIOUS
      <4>2. Sums(h)[s] = h[x] + Sums(h)[r] /\ Sums(h)[r] \in Nat
        BY <4>1, SumFacts
      <4>3. h[x] \in Nat
        BY <4>1 DEF Naturals
      <4>. QED
        BY <4>2, <4>3
    <3>4. s \cap D \in SUBSET DOMAIN f /\ r \cap D \in SUBSET DOMAIN f
      OBVIOUS
    <3>5. CASE x \in D
      <4>1. r \cap D = (s \cap D) \ {x} /\ x \in s \cap D
        BY <3>5
      <4>2. f[x] \in Nat /\ f[x] <= h[x]
        BY <3>5 DEF Naturals
      <4> HIDE DEF r
      <4>3. /\ Sums(f)[s \cap D] = f[x] + Sums(f)[r \cap D]
            /\ Sums(f)[r \cap D] \in Nat
        BY <3>4, <4>1, SumFacts
      <4>4. Sums(f)[s \cap D] <= Sums(h)[s]
        BY <3>2, <3>3, <4>2, <4>3
      <4>. QED
        BY <4>4
    <3>6. CASE x \notin D
      <4>1. r \cap D = s \cap D
        BY <3>6
      <4> HIDE DEF r
      <4>2. Sums(f)[r \cap D] \in Nat
        BY <3>4, SumFacts
      <4>3. Sums(f)[s \cap D] <= Sums(h)[s]
        BY <3>2, <3>3, <4>1, <4>2
      <4>. QED
        BY <4>3
    <3>. QED
      BY <3>5, <3>6
  <2>. QED
    BY <2>1, <2>2
<1>3. E \in S
  <2>1. IsFiniteSet(E) /\ E \in SUBSET E
    BY DEF Naturals
  <2> HIDE DEF S, E
  <2>. QED
    BY <1>1, <1>2, <2>1, SubsetInduction
<1>4. E \cap D = D
  OBVIOUS
<1>. QED
  BY <1>3, <1>4

\* A sum may begin with any number.
LEMMA SumFromFacts ==
    ASSUME NEW f, Naturals(f), NEW b \in Nat
    PROVE  FoldFunction(+, b, f) = b + Sums(f)[DOMAIN f]
<1> DEFINE D == DOMAIN f
           S == {s \in SUBSET D : SumsFrom(b, f)[s] = b + Sums(f)[s]}
<1>1. /\ Folds(SumsFrom(b, f), Plus, b, f) /\ Folds(Sums(f), Plus, 0, f)
      /\ \A s \in SUBSET D : Sums(f)[s] \in Nat
  BY SumsFromFold, SumsFold DEF Folds
<1>2. {} \in S
  BY <1>1 DEF Folds
<1>3. ASSUME NEW s \in SUBSET D, \A u \in SUBSET s : u # s => u \in S
      PROVE  s \in S
  <2>1. CASE s = {}
    BY <2>1, <1>2
  <2>2. CASE s # {}
    <3> DEFINE x == Pick(s)
               r == s \ {x}
    <3>1. x \in s /\ f[x] \in Nat /\ r \in SUBSET D
      BY <2>2, PickIn DEF Naturals
    <3>2. SumsFrom(b, f)[r] = b + Sums(f)[r]
      <4>1. r \in S
        BY <1>3, <3>1
      <4>. QED
        BY <4>1
    <3>3. /\ SumsFrom(b, f)[s] = Plus[<<f[x], SumsFrom(b, f)[r]>>]
          /\ Sums(f)[s] = Plus[<<f[x], Sums(f)[r]>>]
      BY <1>1, <2>2 DEF Folds
    <3>4. Sums(f)[r] \in Nat /\ b + Sums(f)[r] \in Nat
      BY <1>1, <3>1
    <3> HIDE DEF x, r
    <3>5. /\ SumsFrom(b, f)[s] = f[x] + (b + Sums(f)[r])
          /\ Sums(f)[s] = f[x] + Sums(f)[r]
      BY <3>1, <3>2, <3>3, <3>4, OperationFacts
    <3>. QED
      BY <3>1, <3>4, <3>5
  <2>. QED
    BY <2>1, <2>2
<1>4. D \in S
  <2>1. IsFiniteSet(D) /\ D \in SUBSET D
    BY DEF Naturals
  <2> HIDE DEF S, D
  <2>. QED
    BY <1>2, <1>3, <2>1, SubsetInduction
<1>. QED
  BY <1>4, SumFromIsLast

\* Functions that agree on a set have the same sum over it.
LEMMA SumsAgree ==
    ASSUME NEW f, Naturals(f), NEW h, Naturals(h), NEW D, D \subseteq DOMAIN f \cap DOMAIN h,
           \A i \in D : f[i] = h[i]
    PROVE  Sums(f)[D] = Sums(h)[D]
<1> DEFINE S == {s \in SUBSET D : Sums(f)[s] = Sums(h)[s]}
<1>1. {} \in S
  BY SumFacts
<1>2. ASSUME NEW s \in SUBSET D, \A u \in SUBSET s : u # s => u \in S
      PROVE  s \in S
  <2>1. CASE s = {}
    BY <2>1, <1>1
  <2>2. CASE s # {}
    <3>1. PICK x \in s : TRUE
      BY <2>2
    <3> DEFINE r == s \ {x}
    <3>2. Sums(f)[r] = Sums(h)[r]
      <4>1. r \in S
        BY <1>2
      <4>. QED
        BY <4>1
    <3>3. Sums(f)[s] = f[x] + Sums(f)[r] /\ Sums(h)[s] = h[x] + Sums(h)[r]
      BY SumFacts
    <3>. QED
      BY <3>2, <3>3
  <2>. QED
    BY <2>1, <2>2
<1>3. D \in S
  <2>1. IsFiniteSet(D) /\ D \in SUBSET D
    BY FS_Subset DEF Naturals
  <2> HIDE DEF S
  <2>. QED
    BY <1>1, <1>2, <2>1, SubsetInduction
<1>. QED
  BY <1>3

\* Counting one more at k adds one to the sum.
LEMMA SumIncremented ==
    ASSUME NEW f, Naturals(f), NEW k, NEW n \in Nat
    PROVE  LET h == [i \in DOMAIN f \cup {k} |->
                       (IF i \in DOMAIN f THEN f[i] ELSE 0) + (IF i = k THEN n ELSE 0)]
           IN  Naturals(h) /\ Total(h) = Total(f) + n
<1> DEFINE h == [i \in DOMAIN f \cup {k} |->
                   (IF i \in DOMAIN f THEN f[i] ELSE 0) + (IF i = k THEN n ELSE 0)]
           D == DOMAIN f \ {k}
<1>1. DOMAIN h = DOMAIN f \cup {k}
  OBVIOUS
<1>2. \A i \in DOMAIN h : h[i] = (IF i \in DOMAIN f THEN f[i] ELSE 0) + (IF i = k THEN n ELSE 0)
  OBVIOUS
<1> HIDE DEF h
<1>3. Naturals(h)
  <2>1. IsFiniteSet(DOMAIN h)
    BY <1>1, FS_AddElement DEF Naturals
  <2>2. ASSUME NEW i \in DOMAIN h PROVE h[i] \in Nat
    BY <1>2 DEF Naturals
  <2>. QED
    BY <2>1, <2>2 DEF Naturals
<1>4. \A i \in D : f[i] = h[i]
  <2> TAKE i \in D
  <2>1. f[i] \in Nat /\ i \in DOMAIN h
    BY <1>1 DEF Naturals
  <2>. QED
    BY <2>1, <1>2
<1>5. Sums(f)[D] = Sums(h)[D]
  <2>1. D \subseteq DOMAIN f \cap DOMAIN h
    BY <1>1
  <2> HIDE DEF D
  <2>. QED
    BY <2>1, <1>3, <1>4, SumsAgree
<1>6. Total(h) = h[k] + Sums(h)[D]
  <2>1. DOMAIN h \ {k} = D /\ k \in DOMAIN h
    BY <1>1
  <2>2. DOMAIN h \in SUBSET DOMAIN h
    OBVIOUS
  <2> HIDE DEF D
  <2>3. \A s \in SUBSET DOMAIN h : \A x \in s : Sums(h)[s] = h[x] + Sums(h)[s \ {x}]
    BY <1>3, SumFacts
  <2>4. Sums(h)[DOMAIN h] = h[k] + Sums(h)[DOMAIN h \ {k}]
    BY <2>1, <2>2, <2>3
  <2>. QED
    BY <2>1, <2>4, SumIsLast
<1>7. Sums(f)[D] \in Nat
  BY SumFacts
<1>8. CASE k \in DOMAIN f
  <2>1. Total(f) = f[k] + Sums(f)[D]
    BY <1>8, SumFacts, SumIsLast
  <2>2. f[k] \in Nat /\ h[k] = f[k] + n
    BY <1>1, <1>2, <1>8 DEF Naturals
  <2>. QED
    BY <2>1, <2>2, <1>3, <1>5, <1>6, <1>7 DEF h
<1>9. CASE k \notin DOMAIN f
  <2>1. D = DOMAIN f
    BY <1>9
  <2>2. Total(f) = Sums(f)[D]
    BY <2>1, SumIsLast
  <2>3. h[k] = n
    BY <1>1, <1>2, <1>9
  <2>. QED
    BY <2>2, <2>3, <1>3, <1>5, <1>6, <1>7 DEF h
<1>. QED
  BY <1>8, <1>9

-----------------------------------------------------------------------------
(* The values that Inference gives to the tensors of a model *)

Infer == INSTANCE Inference
           WITH Requests <- {}, model <- <<>>, request <- <<>>, outcome <- <<>>

\* The iteration of Values for node k.
ValuesStep(m, known, k) ==
    LET n == m.nodes[k]
    IN  IF Range(n.inputs) \subseteq DOMAIN known
        THEN [t \in DOMAIN known \cup {n.outputs[1]} |->
                IF t = n.outputs[1]
                THEN Infer!Apply(n, [i \in DOMAIN n.inputs |-> known[n.inputs[i]]])
                ELSE known[t]]
        ELSE known

Stages(v, n) == v = [k \in 0..n |-> v[k]]

\* v[k] has the values after the first k nodes.
Evaluates(v, m, r, n) ==
    /\ Stages(v, n)
    /\ v[0] = Infer!Given(m, r)
    /\ \A k \in 1..n : v[k] = ValuesStep(m, v[k-1], k)

LEMMA EvaluationExists ==
    ASSUME NEW m, NEW r, NEW n \in Nat
    PROVE  \E v : Evaluates(v, m, r, n)
<1> DEFINE S == {j \in Nat : \E v : Evaluates(v, m, r, j)}
<1>1. 0 \in S
  <2>1. Evaluates([k \in 0..0 |-> Infer!Given(m, r)], m, r, 0)
    BY SMT DEF Evaluates, Stages
  <2>. QED
    BY <2>1
<1>2. ASSUME NEW j \in 0..n-1, j \in S PROVE j + 1 \in S
  <2>1. PICK v : Evaluates(v, m, r, j)
    BY <1>2
  <2> DEFINE h == [k \in 0..j+1 |-> IF k <= j THEN v[k] ELSE ValuesStep(m, v[j], j + 1)]
  <2>2. h[0] = Infer!Given(m, r)
    BY <2>1 DEF Evaluates
  <2>3. ASSUME NEW k \in 1..j+1 PROVE h[k] = ValuesStep(m, h[k-1], k)
    <3> HIDE DEF ValuesStep
    <3>1. h[k-1] = v[k-1]
      OBVIOUS
    <3>2. CASE k <= j
      BY <3>1, <3>2, <2>1 DEF Evaluates
    <3>3. CASE k = j + 1
      BY <3>1, <3>3
    <3>. QED
      BY <3>2, <3>3
  <2>4. Evaluates(h, m, r, j + 1)
    <3>1. Stages(h, j + 1)
      BY DEF Stages
    <3> HIDE DEF h
    <3>. QED
      BY <2>2, <2>3, <3>1 DEF Evaluates
  <2>. QED
    BY <2>4
<1>3. \A j \in 0..n : j \in S
  <2> HIDE DEF S
  <2>. QED
    BY <1>1, <1>2, NaturalInduction
<1>. QED
  BY <1>3

Stage(v, m, r, n) ==
    [k \in 0..n |-> IF k = 0 THEN Infer!Given(m, r)
                    ELSE ValuesStep(m, v[k-1], k)]

LEMMA SolutionEvaluates ==
    ASSUME NEW m, NEW r, NEW n \in Nat, NEW v
    PROVE  v = Stage(v, m, r, n) <=> Evaluates(v, m, r, n)
<1> DEFINE stage == Stage(v, m, r, n)
<1>0. /\ stage = [k \in 0..n |-> stage[k]]
      /\ stage[0] = Infer!Given(m, r)
      /\ \A k \in 1..n : stage[k] = ValuesStep(m, v[k-1], k)
  BY DEF Stage
<1>1. ASSUME v = stage PROVE Evaluates(v, m, r, n)
  <2> HIDE DEF stage
  <2>. QED
    BY <1>0, <1>1 DEF Evaluates, Stages
<1>2. ASSUME Evaluates(v, m, r, n) PROVE v = stage
  <2>1. v = [k \in 0..n |-> v[k]]
    BY <1>2 DEF Evaluates, Stages
  <2>2. v[0] = stage[0] /\ \A k \in 1..n : v[k] = stage[k]
    <3> HIDE DEF stage
    <3>. QED
      BY <1>0, <1>2 DEF Evaluates
  <2>3. \A k \in 0..n : v[k] = stage[k]
    <3> HIDE DEF stage
    <3>. QED
      BY <2>2
  <2> HIDE DEF stage
  <2>. QED
    BY <1>0, <2>1, <2>3
<1>. QED
  BY <1>1, <1>2

LEMMA ValuesEvaluate ==
    ASSUME NEW m, NEW r, Len(m.nodes) \in Nat
    PROVE  \E v : /\ Evaluates(v, m, r, Len(m.nodes))
                  /\ Infer!Values(m, r) = v[Len(m.nodes)]
<1> DEFINE n == Len(m.nodes)
           w == CHOOSE v : v = Stage(v, m, r, n)
<1>1. Infer!Values(m, r) = w[n]
  <2>1. Infer!Values(m, r) =
          (CHOOSE v : v = [k \in 0..Len(m.nodes) |->
             IF k = 0 THEN Infer!Given(m, r)
             ELSE IF Range(m.nodes[k].inputs) \subseteq DOMAIN v[k-1]
                   THEN [t \in DOMAIN v[k-1] \cup {m.nodes[k].outputs[1]} |->
                           IF t = m.nodes[k].outputs[1]
                           THEN Infer!Apply(m.nodes[k],
                                  [i \in DOMAIN m.nodes[k].inputs |->
                                               v[k-1][m.nodes[k].inputs[i]]])
                           ELSE v[k-1][t]]
                   ELSE v[k-1]])[Len(m.nodes)]
    BY DEF Infer!Values, Range, Infer!Range
  <2>. QED
    BY <2>1 DEF ValuesStep, Stage
<1>2. PICK v : Evaluates(v, m, r, n)
  BY EvaluationExists
<1>3. v = Stage(v, m, r, n)
  BY <1>2, SolutionEvaluates
<1>4. w = Stage(w, m, r, n)
  BY <1>3
<1>5. Evaluates(w, m, r, n)
  <2> HIDE DEF w
  <2>. QED
    BY <1>4, SolutionEvaluates
<1>. QED
  BY <1>1, <1>5
=============================================================================
