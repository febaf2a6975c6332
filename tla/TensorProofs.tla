---------------------------- MODULE TensorProofs ----------------------------
(***************************************************************************)
(* Proofs about TensorViews and Operators, for tensors of every shape and  *)
(* every sequence of views, copies and writes.                             *)
(***************************************************************************)
EXTENDS Operators, RecursionProofs, SequenceTheorems

-----------------------------------------------------------------------------
(* Quotients and remainders *)

LEMMA Division ==
    ASSUME NEW a \in Nat, NEW d \in Nat \ {0}
    PROVE  /\ a \div d \in Nat /\ (a % d) \in 0..d - 1
           /\ a = d * (a \div d) + (a % d)
BY SMTT(20)

LEMMA DivisionUnique ==
    ASSUME NEW a \in Nat, NEW d \in Nat \ {0}, NEW q \in Nat, NEW r \in 0..d - 1,
           a = d * q + r
    PROVE  a \div d = q /\ a % d = r
BY SMTT(20)

LEMMA NextDigit ==
    ASSUME NEW a \in Nat, NEW d \in Nat \ {0}
    PROVE  /\ (a % d) + 1 < d => (a + 1) \div d = a \div d /\ (a + 1) % d = (a % d) + 1
           /\ ~((a % d) + 1 < d) => (a + 1) \div d = a \div d + 1 /\ (a + 1) % d = 0
<1> DEFINE q == a \div d
           r == a % d
<1>1. q \in Nat /\ r \in 0..d - 1 /\ a = d * q + r
  BY Division
<1> HIDE DEF q, r
<1>2. CASE r + 1 < d
  <2>1. a + 1 = d * q + (r + 1) /\ r + 1 \in 0..d - 1 /\ a + 1 \in Nat
    BY <1>1, <1>2
  <2>. QED
    BY <1>1, <1>2, <2>1, DivisionUnique DEF q, r
<1>3. CASE ~(r + 1 < d)
  <2>1. r = d - 1
    BY <1>1, <1>3
  <2>2. d * (q + 1) = d * q + d
    BY <1>1
  <2>3. a + 1 = d * (q + 1) + 0 /\ 0 \in 0..d - 1 /\ a + 1 \in Nat /\ q + 1 \in Nat
    BY <1>1, <2>1, <2>2
  <2>. QED
    BY <1>1, <1>3, <2>3, DivisionUnique DEF q, r
<1>. QED
  BY <1>2, <1>3 DEF q, r

-----------------------------------------------------------------------------
(* Element counts *)

Positive(shape) == \A i \in DOMAIN shape : shape[i] > 0

\* The elements behind one step of axis i.
Behind(shape, i) == Products(shape)[i+1 .. Len(shape)]

LEMMA ShapeFacts ==
    ASSUME NEW shape \in Seq(Nat)
    PROVE  /\ Len(shape) \in Nat /\ DOMAIN shape = 1..Len(shape)
           /\ \A i \in 1..Len(shape) : shape[i] \in Nat
           /\ Naturals(shape)
<1>1. Len(shape) \in Nat /\ DOMAIN shape = 1..Len(shape)
  OBVIOUS
<1>2. \A i \in 1..Len(shape) : shape[i] \in Nat
  OBVIOUS
<1>3. IsFiniteSet(1..Len(shape))
  BY <1>1, FS_Interval
<1>. QED
  BY <1>1, <1>2, <1>3 DEF Naturals

LEMMA BehindFacts ==
    ASSUME NEW shape \in Seq(Nat)
    PROVE  /\ Behind(shape, Len(shape)) = 1
           /\ Behind(shape, 0) = Numel(shape)
           /\ \A i \in 0..Len(shape) : Behind(shape, i) \in Nat
           /\ \A i \in 1..Len(shape) : Behind(shape, i - 1) = shape[i] * Behind(shape, i)
<1> DEFINE n == Len(shape)
<1>1. n \in Nat /\ DOMAIN shape = 1..n /\ Naturals(shape)
  BY ShapeFacts
<1>2. n + 1 .. n = {} /\ 0 + 1 .. n = 1..n
  BY <1>1
<1>3. Behind(shape, n) = 1
  BY <1>1, <1>2, ProductFacts DEF Behind
<1>4. Behind(shape, 0) = Numel(shape)
  BY <1>1, <1>2, ProductIsLast DEF Behind, Numel, Product
<1>5. ASSUME NEW i \in 0..n PROVE Behind(shape, i) \in Nat
  <2>1. i + 1 .. n \in SUBSET DOMAIN shape
    BY <1>1
  <2>. QED
    BY <1>1, <2>1, ProductFacts DEF Behind
<1>6. ASSUME NEW i \in 1..n PROVE Behind(shape, i - 1) = shape[i] * Behind(shape, i)
  <2> DEFINE D == i..n
  <2>1. (i - 1) + 1 = i
    BY <1>1
  <2>2. D \in SUBSET DOMAIN shape /\ i \in D /\ D \ {i} = i + 1 .. n
    BY <1>1
  <2> HIDE DEF D
  <2>3. Products(shape)[D] = shape[i] * Products(shape)[D \ {i}]
    <3>1. \A s \in SUBSET DOMAIN shape : \A x \in s :
             Products(shape)[s] = shape[x] * Products(shape)[s \ {x}]
      BY <1>1, ProductFacts
    <3>. QED
      BY <2>2, <3>1
  <2>4. Behind(shape, i - 1) = Products(shape)[D]
    BY <2>1 DEF Behind, D
  <2>. QED
    BY <2>2, <2>3, <2>4 DEF Behind
<1>. QED
  BY <1>3, <1>4, <1>5, <1>6

LEMMA ProductAtPlaces ==
    ASSUME NEW f, Naturals(f), NEW h, NEW m \in Nat, NEW n \in Nat,
           DOMAIN h = 1..m, DOMAIN f = 1..n,
           NEW p \in [1..m -> 1..n], IsInjective(p),
           \A i \in 1..m : h[i] = f[p[i]]
    PROVE  Products(h)[DOMAIN h] = Products(f)[Image(p, DOMAIN h)]
<1>1. IsFiniteSet(DOMAIN h) /\ p \in [DOMAIN h -> DOMAIN f]
  BY FS_Interval
<1>2. \A i \in DOMAIN h : h[i] = f[p[i]]
  OBVIOUS
<1>3. \A s \in SUBSET DOMAIN h : Products(h)[s] = Products(f)[Image(p, s)]
  BY <1>1, <1>2, ProductsMapped
<1>4. DOMAIN h \in SUBSET DOMAIN h
  OBVIOUS
<1>. QED
  BY <1>3, <1>4

LEMMA SubSeqOfNats ==
    ASSUME NEW s, NEW m \in Int, NEW n \in Int, \A j \in m .. n : s[j] \in Nat
    PROVE  /\ SubSeq(s, m, n) \in Seq(Nat)
           /\ Len(SubSeq(s, m, n)) = IF m <= n THEN n - m + 1 ELSE 0
           /\ \A j \in 1 .. n - m + 1 : SubSeq(s, m, n)[j] = s[m + j - 1]
<1> DEFINE T == Nat
<1>1. \A j \in m .. n : s[j] \in T
  OBVIOUS
<1> HIDE DEF T
<1>2. /\ SubSeq(s, m, n) \in Seq(T)
      /\ Len(SubSeq(s, m, n)) = IF m <= n THEN n - m + 1 ELSE 0
      /\ \A j \in 1 .. n - m + 1 : SubSeq(s, m, n)[j] = s[m + j - 1]
  BY <1>1, SubSeqProperties, SMTT(30)
<1>. QED
  BY <1>2, Zenon DEF T

LEMMA StridesAreBehind ==
    ASSUME NEW shape \in Seq(Nat)
    PROVE  /\ ContiguousStrides(shape) \in Seq(Nat)
           /\ Len(ContiguousStrides(shape)) = Len(shape)
           /\ \A i \in 1..Len(shape) : ContiguousStrides(shape)[i] = Behind(shape, i)
<1> DEFINE n == Len(shape)
<1>1. n \in Nat /\ DOMAIN shape = 1..n /\ Naturals(shape)
  BY ShapeFacts
<1>2. ASSUME NEW i \in 1..n
      PROVE  Numel(SubSeq(shape, i + 1, n)) = Behind(shape, i)
  <2> DEFINE h == SubSeq(shape, i + 1, n)
             p == [j \in 1..n-i |-> j + i]
  <2>1. DOMAIN h = 1..n-i /\ \A j \in 1..n-i : h[j] = shape[p[j]]
    <3>1. i + 1 \in Int /\ n \in Int /\ \A j \in i + 1 .. n : shape[j] \in Nat
      BY <1>1
    <3>2. /\ h \in Seq(Nat) /\ Len(h) = IF i + 1 <= n THEN n - (i + 1) + 1 ELSE 0
          /\ \A j \in 1 .. n - (i + 1) + 1 : h[j] = shape[(i + 1) + j - 1]
      <4> DEFINE m == i + 1
      <4>1. m \in Int /\ n \in Int /\ \A j \in m .. n : shape[j] \in Nat
        BY <3>1
      <4> HIDE DEF m, n
      <4>2. /\ SubSeq(shape, m, n) \in Seq(Nat)
            /\ Len(SubSeq(shape, m, n)) = IF m <= n THEN n - m + 1 ELSE 0
            /\ \A j \in 1 .. n - m + 1 : SubSeq(shape, m, n)[j] = shape[m + j - 1]
        BY <4>1, SubSeqOfNats, Zenon
      <4>. QED
        BY <4>2, Zenon DEF m
    <3>3. n - (i + 1) + 1 = n - i /\ (~(i + 1 <= n) => n - i = 0) /\ n - i \in Nat
      <4> HIDE DEF n
      <4>1. n \in Nat /\ i \in Nat /\ i <= n
        BY <1>1
      <4>. QED
        BY <4>1
    <3>4. Len(h) = n - i
      BY <3>2, <3>3, Zenon
    <3>5. \A j \in 1..n-i : (i + 1) + j - 1 = j + i
      BY <1>1
    <3> HIDE DEF h, n
    <3>. QED
      BY <3>2, <3>3, <3>4, <3>5
  <2>2. p \in [1..n-i -> 1..n] /\ IsInjective(p)
    BY <1>1 DEF IsInjective
  <2>3. Image(p, 1..n-i) = i + 1 .. n
    <3>1. ASSUME NEW x \in i + 1 .. n PROVE \E j \in 1..n-i : p[j] = x
      <4>1. x - i \in 1..n-i /\ p[x - i] = x
        BY <1>1
      <4>. QED
        BY <4>1
    <3>2. \A j \in 1..n-i : p[j] \in i + 1 .. n
      BY <1>1
    <3> HIDE DEF p
    <3>. QED
      BY <3>1, <3>2 DEF Image
  <2> HIDE DEF h, p
  <2>5. Products(h)[DOMAIN h] = Products(shape)[Image(p, DOMAIN h)]
    <3> DEFINE m == n - i
    <3>1. m \in Nat /\ n \in Nat
      BY <1>1
    <3>2. DOMAIN h = 1..m /\ DOMAIN shape = 1..n /\ p \in [1..m -> 1..n]
      BY <1>1, <2>1, <2>2
    <3>3. \A j \in 1..m : h[j] = shape[p[j]]
      BY <2>1
    <3> HIDE DEF m, n
    <3>4. Naturals(shape) /\ IsInjective(p)
      BY <1>1, <2>2
    <3>. QED
      BY <3>1, <3>2, <3>3, <3>4, ProductAtPlaces
  <2>6. Numel(h) = Products(h)[DOMAIN h]
    BY ProductIsLast DEF Numel, Product
  <2>. QED
    BY <2>1, <2>3, <2>5, <2>6 DEF Behind, h
<1>3. \A i \in 1..n : Behind(shape, i) \in Nat
  BY <1>1, BehindFacts
<1>4. \A i \in 1..n : ContiguousStrides(shape)[i] = Behind(shape, i)
  BY <1>1, <1>2 DEF ContiguousStrides
<1>5. DOMAIN ContiguousStrides(shape) = 1..n
  BY <1>1 DEF ContiguousStrides
<1>6. ContiguousStrides(shape) \in [1..n -> Nat]
  BY <1>1, <1>3, <1>4, <1>5 DEF ContiguousStrides
<1>. QED
  BY <1>1, <1>4, <1>6

LEMMA PositiveCount ==
    ASSUME NEW shape \in Seq(Nat)
    PROVE  Positive(shape) <=> Numel(shape) > 0
<1> DEFINE n == Len(shape)
           S == {i \in 0..n : Behind(shape, i) > 0}
<1>1. n \in Nat /\ DOMAIN shape = 1..n /\ Naturals(shape)
  BY ShapeFacts
<1>2. ASSUME Positive(shape)
      PROVE  Numel(shape) > 0
  <2>1. n \in S
    BY <1>1, BehindFacts
  <2>2. ASSUME NEW i \in 0..n-1, i + 1 \in S
        PROVE  i \in S
    <3>1. i + 1 \in 1..n /\ (i + 1) - 1 = i /\ i \in 0..n /\ i + 1 \in 0..n
      BY <1>1
    <3>2. Behind(shape, i) = shape[i + 1] * Behind(shape, i + 1)
      BY <3>1, BehindFacts
    <3>3. shape[i + 1] \in Nat /\ shape[i + 1] > 0
      BY <1>1, <1>2, <3>1, ShapeFacts DEF Positive
    <3>4. Behind(shape, i + 1) \in Nat /\ Behind(shape, i + 1) > 0
      BY <2>2, <3>1, BehindFacts
    <3> DEFINE a == shape[i + 1]
               b == Behind(shape, i + 1)
    <3>5. a * b > 0
      <4>1. a \in Nat /\ a > 0 /\ b \in Nat /\ b > 0
        BY <3>3, <3>4
      <4> HIDE DEF a, b
      <4>. QED
        BY <4>1
    <3>. QED
      BY <3>1, <3>2, <3>5
  <2>3. 0 \in S
    <3> HIDE DEF S, n
    <3>1. \A i \in 0..n : i \in S
      BY <1>1, <2>1, <2>2, DownwardInduction
    <3>. QED
      BY <1>1, <3>1
  <2>. QED
    BY <2>3, BehindFacts
<1>3. ASSUME NEW i \in DOMAIN shape, ~(shape[i] > 0)
      PROVE  ~(Numel(shape) > 0)
  <2> DEFINE r == Products(shape)[DOMAIN shape \ {i}]
  <2>1. \A s \in SUBSET DOMAIN shape :
            /\ Products(shape)[s] \in Nat
            /\ \A x \in s : Products(shape)[s] = shape[x] * Products(shape)[s \ {x}]
    BY <1>1, ProductFacts
  <2>2. Products(shape)[DOMAIN shape] = shape[i] * r /\ r \in Nat
    BY <2>1
  <2>3. shape[i] = 0
    BY <1>3
  <2>4. Numel(shape) = Products(shape)[DOMAIN shape]
    BY ProductIsLast DEF Numel, Product
  <2> HIDE DEF r
  <2>. QED
    BY <2>2, <2>3, <2>4
<1>. QED
  BY <1>2, <1>3 DEF Positive

-----------------------------------------------------------------------------
(* How far a view reaches *)

\* How far its last element is along each axis.
Reach(shape, strides) ==
    [i \in DOMAIN shape |-> IF shape[i] = 0 THEN 0 ELSE (shape[i] - 1) * strides[i]]

Extent(shape, strides) == Sums(Reach(shape, strides))[DOMAIN shape]

RowMajor(shape, strides) ==
    \A i \in DOMAIN shape : shape[i] > 1 => strides[i] = ContiguousStrides(shape)[i]

LEMMA ReachFacts ==
    ASSUME NEW shape \in Seq(Nat), NEW strides \in Seq(Nat), Len(strides) = Len(shape)
    PROVE  /\ DOMAIN Reach(shape, strides) = DOMAIN shape
           /\ Naturals(Reach(shape, strides))
           /\ Extent(shape, strides) \in Nat
<1> DEFINE n == Len(shape)
           f == Reach(shape, strides)
<1>1. n \in Nat /\ DOMAIN shape = 1..n /\ Naturals(shape)
  BY ShapeFacts
<1>2. DOMAIN f = DOMAIN shape
  BY DEF Reach
<1>3. ASSUME NEW i \in DOMAIN shape PROVE f[i] \in Nat
  <2>1. shape[i] \in Nat /\ strides[i] \in Nat
    BY <1>1, ShapeFacts
  <2>2. CASE shape[i] = 0
    BY <2>2 DEF Reach
  <2>3. CASE shape[i] # 0
    <3>1. f[i] = (shape[i] - 1) * strides[i]
      BY <2>3 DEF Reach
    <3>. QED
      BY <2>1, <2>3, <3>1
  <2>. QED
    BY <2>2, <2>3
<1> HIDE DEF f
<1>4. Naturals(f)
  BY <1>1, <1>2, <1>3 DEF Naturals
<1>5. Sums(f)[DOMAIN shape] \in Nat
  BY <1>2, <1>4, SumFacts
<1>. QED
  BY <1>2, <1>4, <1>5 DEF Extent, f

\* A contiguous tensor reaches over its own elements.
LEMMA ContiguousExtent ==
    ASSUME NEW shape \in Seq(Nat), NEW strides \in Seq(Nat), Len(strides) = Len(shape),
           Positive(shape), RowMajor(shape, strides)
    PROVE  Extent(shape, strides) = Numel(shape) - 1
<1> DEFINE n == Len(shape)
           f == Reach(shape, strides)
           S == {i \in 0..n : Sums(f)[i+1 .. n] = Behind(shape, i) - 1}
<1>1. n \in Nat /\ DOMAIN shape = 1..n /\ Naturals(f) /\ DOMAIN f = 1..n
  BY ShapeFacts, ReachFacts
<1>2. n \in S
  <2>1. n + 1 .. n = {}
    BY <1>1
  <2>2. Sums(f)[{}] = 0
    BY <1>1, SumFacts
  <2>3. Behind(shape, n) = 1
    BY BehindFacts
  <2>4. n \in 0..n
    BY <1>1
  <2>. QED
    BY <2>1, <2>2, <2>3, <2>4
<1>3. ASSUME NEW i \in 0..n-1, i + 1 \in S
      PROVE  i \in S
  <2> DEFINE D == i + 1 .. n
             a == shape[i + 1]
             b == Behind(shape, i + 1)
  <2>1. i + 1 \in 1..n /\ (i + 1) - 1 = i /\ i \in 0..n /\ i + 1 \in 0..n
    BY <1>1
  <2>2. Behind(shape, i) = a * b /\ b \in Nat
    BY <2>1, BehindFacts
  <2>3. a \in Nat /\ a > 0
    BY <1>1, <2>1, ShapeFacts DEF Positive
  <2>4. f[i + 1] = (a - 1) * b
    <3>1. f[i + 1] = (a - 1) * strides[i + 1]
      BY <1>1, <2>1, <2>3 DEF Reach
    <3>2. CASE a > 1
      BY <1>1, <2>1, <3>1, <3>2, StridesAreBehind DEF RowMajor
    <3>3. CASE ~(a > 1)
      <4>1. a - 1 = 0
        BY <2>3, <3>3
      <4>2. strides[i + 1] \in Nat
        <5>1. i + 1 \in 1..Len(strides)
          BY <1>1, <2>1
        <5>. QED
          BY <5>1
      <4> HIDE DEF a, b, f
      <4>. QED
        BY <2>2, <3>1, <4>1, <4>2
    <3>. QED
      BY <3>2, <3>3
  <2>5. Sums(f)[(i + 1) + 1 .. n] = b - 1
    BY <1>3
  <2>6. D \in SUBSET DOMAIN f /\ i + 1 \in D /\ D \ {i + 1} = (i + 1) + 1 .. n
    <3>1. DOMAIN f = 1..n /\ n \in Nat /\ i \in 0..n /\ i + 1 \in 1..n
      BY <1>1, <2>1
    <3> HIDE DEF f, n
    <3>. QED
      BY <3>1
  <2> HIDE DEF D, f
  <2>7. Sums(f)[D] = f[i + 1] + Sums(f)[D \ {i + 1}]
    <3>1. \A s \in SUBSET DOMAIN f : \A x \in s : Sums(f)[s] = f[x] + Sums(f)[s \ {x}]
      BY <1>1, SumFacts
    <3>. QED
      BY <2>6, <3>1
  <2> HIDE DEF a, b
  <2>8. (a - 1) * b + (b - 1) = a * b - 1
    <3>1. (a - 1) * b = a * b - b
      BY <2>2, <2>3
    <3>2. a * b \in Int
      BY <2>2, <2>3
    <3>. QED
      BY <2>2, <3>1, <3>2
  <2>9. Sums(f)[D] = Behind(shape, i) - 1
    BY <2>2, <2>4, <2>5, <2>6, <2>7, <2>8
  <2>. QED
    BY <2>1, <2>9 DEF D
<1>4. 0 \in S
  <2> HIDE DEF S, n
  <2>1. \A i \in 0..n : i \in S
    BY <1>1, <1>2, <1>3, DownwardInduction
  <2>. QED
    BY <1>1, <2>1
<1>5. 0 + 1 .. n = DOMAIN shape
  BY <1>1
<1>. QED
  BY <1>4, <1>5, BehindFacts DEF Extent

-----------------------------------------------------------------------------
(* The two enumerations *)

\* The recursion of LogicalOffset.
Rests(shape, linear) ==
    CHOOSE rest : rest = [i \in 1..Len(shape) |->
                            IF i = Len(shape) THEN linear ELSE rest[i+1] \div shape[i+1]]

Digits(shape, linear) == [i \in DOMAIN shape |-> Rests(shape, linear)[i] % shape[i]]

LEMMA NestedDivision ==
    ASSUME NEW a \in Nat, NEW d \in Nat \ {0}, NEW e \in Nat \ {0}
    PROVE  (a \div d) \div e = a \div (e * d)
<1> DEFINE q == a \div d
           r == a % d
           u == q \div e
           v == q % e
<1>1. q \in Nat /\ r \in 0..d - 1 /\ a = d * q + r
  BY Division
<1>2. u \in Nat /\ v \in 0..e - 1 /\ q = e * u + v
  <2> HIDE DEF q
  <2>. QED
    BY <1>1, Division
<1> HIDE DEF q, r, u, v
<1>3. d * q = (e * d) * u + d * v
  <2>1. d * (e * u + v) = d * (e * u) + d * v
    BY <1>2
  <2>2. d * (e * u) = (e * d) * u
    BY <1>2
  <2>. QED
    BY <1>2, <2>1, <2>2
<1>4. d * v <= d * (e - 1)
  BY <1>2
<1>5. d * (e - 1) = e * d - d
  OBVIOUS
<1>6. e * d \in Nat \ {0} /\ d * v \in Nat
  BY <1>2
<1>7. a = (e * d) * u + (d * v + r) /\ d * v + r \in 0..(e * d) - 1
  <2> DEFINE x == d * v
             y == e * d
             z == (e * d) * u
  <2>1. x \in Nat /\ y \in Nat /\ z \in Nat /\ d * q = z + x /\ x <= y - d
    BY <1>2, <1>3, <1>4, <1>5, <1>6
  <2> HIDE DEF x, y, z
  <2>2. a = z + (x + r) /\ x + r \in 0..y - 1
    BY <1>1, <2>1
  <2>. QED
    BY <2>2 DEF x, y, z
<1> DEFINE w == e * d
           t == d * v + r
<1>8. w \in Nat \ {0} /\ t \in 0..w - 1 /\ a = w * u + t
  BY <1>6, <1>7
<1> HIDE DEF w, t
<1>9. a \div w = u
  BY <1>2, <1>8, DivisionUnique
<1>. QED
  BY <1>9 DEF w, u, q

LEMMA RestFacts ==
    ASSUME NEW shape \in Seq(Nat), Positive(shape), NEW linear \in Nat
    PROVE  /\ Rests(shape, linear) =
                 [i \in 1..Len(shape) |->
                    IF i = Len(shape) THEN linear
                    ELSE Rests(shape, linear)[i+1] \div shape[i+1]]
           /\ Len(shape) > 0 => Rests(shape, linear)[Len(shape)] = linear
           /\ \A i \in 1..Len(shape)-1 :
                 Rests(shape, linear)[i] = Rests(shape, linear)[i+1] \div shape[i+1]
           /\ \A i \in 1..Len(shape) : Rests(shape, linear)[i] \in Nat
<1> DEFINE n == Len(shape)
           Step(rest) == [i \in 1..n |-> IF i = n THEN linear ELSE rest[i+1] \div shape[i+1]]
           R == Rests(shape, linear)
           g == [i \in 1..n |-> linear \div Behind(shape, i)]
<1>1. n \in Nat /\ DOMAIN shape = 1..n /\ \A i \in 1..n : shape[i] \in Nat \ {0}
  BY ShapeFacts DEF Positive
<1>2. \A i \in 0..n : Behind(shape, i) \in Nat \ {0}
  <2> DEFINE S == {i \in 0..n : Behind(shape, i) # 0}
  <2>1. n \in S
    BY <1>1, BehindFacts
  <2>2. ASSUME NEW i \in 0..n-1, i + 1 \in S
        PROVE  i \in S
    <3>1. i + 1 \in 1..n /\ (i + 1) - 1 = i /\ i \in 0..n /\ i + 1 \in 0..n
      BY <1>1
    <3>2. Behind(shape, i) = shape[i + 1] * Behind(shape, i + 1)
      BY <3>1, BehindFacts
    <3>3. shape[i + 1] \in Nat \ {0}
      BY <1>1, <3>1
    <3>4. Behind(shape, i + 1) \in Nat \ {0}
      BY <2>2, <3>1, BehindFacts
    <3>5. \A x, y \in Nat \ {0} : x * y # 0
      OBVIOUS
    <3>. QED
      BY <3>1, <3>2, <3>3, <3>4, <3>5
  <2> HIDE DEF S, n
  <2>3. \A i \in 0..n : i \in S
    BY <1>1, <2>1, <2>2, DownwardInduction
  <2>. QED
    BY <2>3, BehindFacts DEF S, n
<1>3. g = Step(g)
  <2>1. ASSUME NEW i \in 1..n
        PROVE  g[i] = IF i = n THEN linear ELSE g[i+1] \div shape[i+1]
    <3>1. CASE i = n
      <4>1. Behind(shape, n) = 1
        BY BehindFacts
      <4>2. linear \div 1 = linear
        BY DivisionUnique
      <4>. QED
        BY <3>1, <4>1, <4>2
    <3>2. CASE i # n
      <4>1. i + 1 \in 1..n /\ (i + 1) - 1 = i
        <5>1. n \in Nat /\ i \in 1..n /\ i # n
          BY <1>1, <3>2, Zenon
        <5> HIDE DEF n
        <5>. QED
          BY <5>1
      <4>2. Behind(shape, i) = shape[i + 1] * Behind(shape, i + 1)
        BY <4>1, BehindFacts
      <4>3. (linear \div Behind(shape, i + 1)) \div shape[i + 1]
              = linear \div (shape[i + 1] * Behind(shape, i + 1))
        <5> DEFINE d == Behind(shape, i + 1)
                   e == shape[i + 1]
        <5>1. d \in Nat \ {0} /\ e \in Nat \ {0}
          BY <1>1, <1>2, <4>1
        <5> HIDE DEF d, e
        <5>2. (linear \div d) \div e = linear \div (e * d)
          BY <5>1, NestedDivision
        <5>. QED
          BY <5>2 DEF d, e
      <4>4. g[i] = linear \div Behind(shape, i) /\ g[i+1] = linear \div Behind(shape, i + 1)
        <5> HIDE DEF n
        <5>. QED
          BY <4>1, Zenon
      <4> HIDE DEF g
      <4>. QED
        BY <3>2, <4>2, <4>3, <4>4
    <3>. QED
      BY <3>1, <3>2
  <2>. QED
    BY <2>1
<1>4. R = Step(R)
  <2> HIDE DEF g
  <2>. QED
    BY <1>3 DEF Rests
<1> HIDE DEF R
<1>5. \A i \in 1..n : R[i] = IF i = n THEN linear ELSE R[i+1] \div shape[i+1]
  <2>1. \A i \in 1..n : Step(R)[i] = IF i = n THEN linear ELSE R[i+1] \div shape[i+1]
    OBVIOUS
  <2> HIDE DEF Step
  <2>. QED
    BY <1>4, <2>1
<1>6. \A i \in 1..n-1 : R[i] = R[i+1] \div shape[i+1]
  <2> TAKE i \in 1..n-1
  <2>1. n \in Nat
    BY <1>1
  <2> HIDE DEF n
  <2>2. i \in 1..n /\ i # n
    BY <2>1
  <2>. QED
    BY <2>2, <1>5
<1>7. n > 0 => R[n] = linear
  <2>1. n \in Nat
    BY <1>1
  <2> HIDE DEF n
  <2>2. n > 0 => n \in 1..n
    BY <2>1
  <2>. QED
    BY <2>2, <1>5
<1>8. \A i \in 1..n : R[i] \in Nat
  <2> DEFINE S == {i \in 1..n : R[i] \in Nat}
  <2>1. CASE n = 0
    BY <2>1
  <2>2. CASE n > 0
    <3>1. n \in S
      BY <1>1, <1>7, <2>2
    <3>2. ASSUME NEW i \in 1..n-1, i + 1 \in S
          PROVE  i \in S
      <4>1. i + 1 \in 1..n /\ i \in 1..n
        BY <1>1
      <4>2. R[i+1] \in Nat /\ shape[i+1] \in Nat \ {0} /\ R[i] = R[i+1] \div shape[i+1]
        BY <1>1, <1>6, <3>2, <4>1
      <4>3. R[i] \in Nat
        <5> DEFINE a == R[i+1]
                   d == shape[i+1]
        <5>1. a \in Nat /\ d \in Nat \ {0} /\ R[i] = a \div d
          BY <4>2
        <5> HIDE DEF a, d
        <5>. QED
          BY <5>1, Division
      <4>. QED
        BY <4>1, <4>3
    <3> HIDE DEF S, n
    <3>3. \A i \in 1..n : i \in S
      BY <1>1, <3>1, <3>2, DownwardInduction
    <3>. QED
      BY <3>3 DEF S
  <2>. QED
    BY <1>1, <2>1, <2>2
<1> HIDE DEF n
<1>. QED
  BY <1>4, <1>6, <1>7, <1>8 DEF R, n

\* One step of the odometer is one more of the linear index.
LEMMA IncrementedDigits ==
    ASSUME shape_ \in Seq(Nat), Positive(shape_), NEW linear \in Nat
    PROVE  Increment(Digits(shape_, linear)) = Digits(shape_, linear + 1)
<1> DEFINE n == Len(shape_)
           r == Rests(shape_, linear)
           s == Rests(shape_, linear + 1)
           d == Digits(shape_, linear)
           free == {i \in DOMAIN d : d[i] + 1 < shape_[i]}
           axis == IF free = {} THEN 0 ELSE Max(free)
<1>1. n \in Nat /\ DOMAIN shape_ = 1..n /\ \A i \in 1..n : shape_[i] \in Nat \ {0}
  BY ShapeFacts DEF Positive
<1>2. /\ n > 0 => r[n] = linear
      /\ \A i \in 1..n-1 : r[i] = r[i+1] \div shape_[i+1]
      /\ \A i \in 1..n : r[i] \in Nat
  BY RestFacts
<1>3. /\ n > 0 => s[n] = linear + 1
      /\ \A i \in 1..n-1 : s[i] = s[i+1] \div shape_[i+1]
      /\ \A i \in 1..n : s[i] \in Nat
  <2>1. linear + 1 \in Nat
    OBVIOUS
  <2>. QED
    BY <2>1, RestFacts
<1>4. DOMAIN d = 1..n /\ \A i \in 1..n : d[i] = r[i] % shape_[i]
  BY <1>1 DEF Digits
<1> HIDE DEF n, r, s, d
<1>5. free \in SUBSET (1..n) /\ \A i \in 1..n : i \in free <=> (r[i] % shape_[i]) + 1 < shape_[i]
  BY <1>4
<1>6. /\ axis \in 0..n
      /\ axis > 0 => axis \in free
      /\ \A i \in 1..n : i > axis => i \notin free
  <2> HIDE DEF free
  <2>1. CASE free = {}
    BY <1>1, <2>1
  <2>2. CASE free # {}
    <3>1. Max(free) \in free /\ \A y \in free : y <= Max(free)
      BY <1>1, <1>5, <2>2, LargestIn
    <3>2. axis = Max(free)
      BY <2>2
    <3>3. axis \in 1..n
      BY <1>5, <3>1, <3>2
    <3> HIDE DEF axis
    <3>4. ASSUME NEW i \in 1..n, i > axis
          PROVE  i \notin free
      BY <3>1, <3>2, <3>3, <3>4
    <3>. QED
      BY <1>1, <3>1, <3>2, <3>3, <3>4
  <2>. QED
    BY <2>1, <2>2
<1>7. Increment(d) = [i \in 1..n |-> IF i < axis THEN d[i]
                                     ELSE IF i = axis THEN d[i] + 1 ELSE 0]
  BY <1>4 DEF Increment
<1> HIDE DEF free, axis
<1>8. \A i \in 1..n :
        /\ i \in free => /\ (r[i] + 1) \div shape_[i] = r[i] \div shape_[i]
                         /\ (r[i] + 1) % shape_[i] = (r[i] % shape_[i]) + 1
        /\ i \notin free => /\ (r[i] + 1) \div shape_[i] = (r[i] \div shape_[i]) + 1
                            /\ (r[i] + 1) % shape_[i] = 0
  BY <1>1, <1>2, <1>5, NextDigit
<1>9. \A i \in 1..n : i >= axis => s[i] = r[i] + 1
  <2> DEFINE S == {i \in 1..n : i >= axis => s[i] = r[i] + 1}
  <2>1. n > 0 => n \in S
    BY <1>1, <1>2, <1>3
  <2>2. ASSUME NEW i \in 1..n-1, i + 1 \in S
        PROVE  i \in S
    <3>1. i \in 1..n /\ i + 1 \in 1..n
      BY <1>1
    <3>2. CASE i >= axis
      <4>1. i + 1 > axis /\ i + 1 >= axis
        BY <1>6, <3>1, <3>2
      <4>2. s[i+1] = r[i+1] + 1 /\ i + 1 \notin free
        BY <1>6, <2>2, <3>1, <4>1
      <4>3. s[i] = (r[i+1] \div shape_[i+1]) + 1
        BY <1>3, <1>8, <3>1, <4>2
      <4>. QED
        BY <1>2, <3>1, <4>3
    <3>3. CASE ~(i >= axis)
      BY <3>1, <3>3
    <3>. QED
      BY <3>2, <3>3
  <2>3. \A i \in 1..n : i \in S
    <3> HIDE DEF S
    <3>1. CASE n = 0
      BY <3>1
    <3>2. CASE n > 0
      BY <1>1, <2>1, <2>2, <3>2, DownwardInduction
    <3>. QED
      BY <1>1, <3>1, <3>2
  <2>. QED
    BY <2>3
<1>10. \A i \in 1..n : i < axis => s[i] = r[i]
  <2> DEFINE S == {i \in 1..n : i < axis => s[i] = r[i]}
  <2>1. n > 0 => n \in S
    BY <1>1, <1>6
  <2>2. ASSUME NEW i \in 1..n-1, i + 1 \in S
        PROVE  i \in S
    <3>1. i \in 1..n /\ i + 1 \in 1..n
      BY <1>1
    <3>2. r[i] = r[i+1] \div shape_[i+1] /\ s[i] = s[i+1] \div shape_[i+1]
      BY <1>2, <1>3
    <3>3. CASE i + 1 < axis
      <4>1. s[i+1] = r[i+1]
        BY <2>2, <3>3
      <4>. QED
        BY <3>1, <3>2, <4>1
    <3>4. CASE i + 1 = axis
      <4>1. i + 1 \in free /\ s[i+1] = r[i+1] + 1
        BY <1>6, <1>9, <3>1, <3>4
      <4>2. s[i] = r[i]
        BY <1>8, <3>1, <3>2, <4>1
      <4>. QED
        BY <3>1, <4>2
    <3>5. CASE i + 1 > axis
      BY <1>6, <3>1, <3>5
    <3>. QED
      BY <1>6, <3>1, <3>3, <3>4, <3>5
  <2>3. \A i \in 1..n : i \in S
    <3> HIDE DEF S
    <3>1. CASE n = 0
      BY <3>1
    <3>2. CASE n > 0
      BY <1>1, <2>1, <2>2, <3>2, DownwardInduction
    <3>. QED
      BY <1>1, <3>1, <3>2
  <2>. QED
    BY <2>3
<1>11. ASSUME NEW i \in 1..n
       PROVE  (IF i < axis THEN d[i] ELSE IF i = axis THEN d[i] + 1 ELSE 0) = s[i] % shape_[i]
  <2>1. CASE i < axis
    BY <1>4, <1>10, <2>1
  <2>2. CASE i = axis
    <3>1. i \in free /\ s[i] = r[i] + 1 /\ ~(i < axis)
      BY <1>6, <1>9, <2>2
    <3>. QED
      BY <1>4, <1>8, <2>2, <3>1
  <2>3. CASE i > axis
    <3>1. i \notin free /\ s[i] = r[i] + 1 /\ ~(i < axis) /\ i # axis
      BY <1>6, <1>9, <2>3
    <3>. QED
      BY <1>8, <3>1
  <2>. QED
    BY <1>6, <2>1, <2>2, <2>3
<1>12. Digits(shape_, linear + 1) = [i \in 1..n |-> s[i] % shape_[i]]
  BY <1>1 DEF Digits, s
<1>. QED
  BY <1>7, <1>11, <1>12 DEF d

\* The recursion of Positions.
Odometer ==
    CHOOSE index : index = [k \in 1..Numel(shape_) |->
                              IF k = 1 THEN [i \in DOMAIN shape_ |-> 0]
                                       ELSE Increment(index[k-1])]

LEMMA FirstDigits ==
    ASSUME shape_ \in Seq(Nat), Positive(shape_)
    PROVE  Digits(shape_, 0) = [i \in DOMAIN shape_ |-> 0]
<1> DEFINE n == Len(shape_)
           r == Rests(shape_, 0)
           S == {i \in 1..n : r[i] = 0}
<1>1. n \in Nat /\ DOMAIN shape_ = 1..n /\ \A i \in 1..n : shape_[i] \in Nat \ {0}
  BY ShapeFacts DEF Positive
<1>2. /\ n > 0 => r[n] = 0
      /\ \A i \in 1..n-1 : r[i] = r[i+1] \div shape_[i+1]
  BY RestFacts
<1>3. \A m \in Nat \ {0} : 0 \div m = 0 /\ 0 % m = 0
  <2> TAKE m \in Nat \ {0}
  <2>1. 0 = m * 0 + 0 /\ 0 \in 0..m - 1
    OBVIOUS
  <2>. QED
    BY <2>1, DivisionUnique
<1>4. \A i \in 1..n : i \in S
  <2> HIDE DEF n, r
  <2>1. CASE n = 0
    BY <2>1
  <2>2. CASE n > 0
    <3>1. n \in S
      BY <1>1, <1>2, <2>2
    <3>2. ASSUME NEW i \in 1..n-1, i + 1 \in S
          PROVE  i \in S
      <4>1. i \in 1..n /\ i + 1 \in 1..n
        BY <1>1
      <4>. QED
        BY <1>1, <1>2, <1>3, <3>2, <4>1
    <3> HIDE DEF S
    <3>. QED
      BY <1>1, <2>2, <3>1, <3>2, DownwardInduction
  <2>. QED
    BY <1>1, <2>1, <2>2
<1>5. \A i \in DOMAIN shape_ : r[i] % shape_[i] = 0
  BY <1>1, <1>3, <1>4
<1>. QED
  BY <1>5 DEF Digits

\* It visits the coordinates that division and remainder compute.
LEMMA OdometerFacts ==
    ASSUME shape_ \in Seq(Nat)
    PROVE  \A k \in 1..Numel(shape_) : Odometer[k] = Digits(shape_, k - 1)
<1> DEFINE N == Numel(shape_)
           zeros == [i \in DOMAIN shape_ |-> 0]
           Step(index) == [k \in 1..N |-> IF k = 1 THEN zeros ELSE Increment(index[k-1])]
           g == [k \in 1..N |-> Digits(shape_, k - 1)]
           R == Odometer
<1>1. N \in Nat
  BY BehindFacts, ShapeFacts
<1> HIDE DEF N
<1> SUFFICES ASSUME N > 0
             PROVE  \A k \in 1..N : R[k] = Digits(shape_, k - 1)
  BY <1>1 DEF N
<1>2. Positive(shape_)
  BY PositiveCount DEF N
<1>3. Digits(shape_, 0) = zeros
  BY <1>2, FirstDigits
<1>4. \A k \in Nat : Increment(Digits(shape_, k)) = Digits(shape_, k + 1)
  BY <1>2, IncrementedDigits
<1> HIDE DEF zeros
<1>5. g = Step(g)
  <2>1. ASSUME NEW k \in 1..N
        PROVE  g[k] = IF k = 1 THEN zeros ELSE Increment(g[k-1])
    <3>1. CASE k = 1
      BY <1>3, <3>1
    <3>2. CASE k # 1
      <4>1. k - 1 \in 1..N /\ (k - 1) - 1 \in Nat /\ ((k - 1) - 1) + 1 = k - 1
        BY <1>1, <3>2
      <4>. QED
        BY <1>4, <3>2, <4>1
    <3>. QED
      BY <3>1, <3>2
  <2>. QED
    BY <2>1
<1>6. R = Step(R)
  <2> HIDE DEF g
  <2>. QED
    BY <1>5 DEF Odometer, N, zeros
<1> HIDE DEF R
<1>7. \A k \in 1..N : R[k] = IF k = 1 THEN zeros ELSE Increment(R[k-1])
  <2>1. \A k \in 1..N : Step(R)[k] = IF k = 1 THEN zeros ELSE Increment(R[k-1])
    OBVIOUS
  <2> HIDE DEF Step
  <2>. QED
    BY <1>6, <2>1
<1> DEFINE S == {k \in Nat : k < N => R[k + 1] = Digits(shape_, k)}
<1>8. 0 \in S
  BY <1>1, <1>3, <1>7
<1>9. ASSUME NEW k \in 0..N-1, k \in S
      PROVE  k + 1 \in S
  <2>1. CASE ~(k + 1 < N)
    BY <2>1
  <2>2. CASE k + 1 < N
    <3>1. (k + 1) + 1 \in 1..N /\ (k + 1) + 1 # 1 /\ ((k + 1) + 1) - 1 = k + 1 /\ k \in Nat /\ k < N
      BY <1>1, <2>2
    <3>2. R[(k + 1) + 1] = Increment(R[k + 1])
      BY <1>7, <3>1
    <3>3. R[k + 1] = Digits(shape_, k)
      BY <1>9, <3>1
    <3>4. R[(k + 1) + 1] = Digits(shape_, k + 1)
      BY <1>4, <3>1, <3>2, <3>3
    <3>. QED
      BY <3>1, <3>4
  <2>. QED
    BY <2>1, <2>2
<1>10. \A k \in 0..N : k \in S
  <2> HIDE DEF S
  <2>. QED
    BY <1>1, <1>8, <1>9, NaturalInduction
<1>. QED
  <2> TAKE k \in 1..N
  <2>1. k - 1 \in 0..N /\ k - 1 < N /\ (k - 1) + 1 = k
    BY <1>1
  <2>2. k - 1 \in S
    BY <1>10, <2>1
  <2>. QED
    BY <2>1, <2>2

LEMMA PositionsFacts ==
    ASSUME shape_ \in Seq(Nat)
    PROVE  /\ DOMAIN Positions = 1..Numel(shape_)
           /\ \A k \in 1..Numel(shape_) :
                 /\ Positions[k] = Offset(Digits(shape_, k - 1))
                 /\ Positions[k] = LogicalOffset(k - 1)
<1>1. Positions = [k \in 1..Numel(shape_) |-> Offset(Odometer[k])]
  BY DEF Positions, Odometer
<1>2. \A k : LogicalOffset(k) = Offset(Digits(shape_, k))
  BY DEF LogicalOffset, Digits, Rests
<1>3. \A k \in 1..Numel(shape_) : Positions[k] = Offset(Digits(shape_, k - 1))
  BY <1>1, OdometerFacts
<1>. QED
  BY <1>1, <1>2, <1>3

-----------------------------------------------------------------------------
(* Positions stay in the storage *)

\* The view that these three make lies in a storage of this size.
Fits(shape, strides, offset, size) ==
    Positive(shape) => offset + Extent(shape, strides) < size

Typed ==
    /\ shape_ \in Seq(Nat) /\ strides_ \in Seq(Nat) /\ Len(strides_) = Len(shape_)
    /\ byte_offset_ \in Nat
    /\ memory \in Seq(Seq(Nat)) /\ storage_ \in DOMAIN memory

VInv == Typed /\ Fits(shape_, strides_, byte_offset_, Len(memory[storage_]))

\* An element inside the shape is not behind the last one.
LEMMA OffsetWithin ==
    ASSUME Typed, NEW index, DOMAIN index = DOMAIN shape_,
           \A i \in DOMAIN shape_ : index[i] \in 0..shape_[i] - 1
    PROVE  Offset(index) \in byte_offset_ .. byte_offset_ + Extent(shape_, strides_)
<1> DEFINE f == [i \in DOMAIN index |-> index[i] * strides_[i]]
           h == Reach(shape_, strides_)
<1>1. /\ Naturals(h) /\ DOMAIN h = DOMAIN shape_ /\ IsFiniteSet(DOMAIN shape_)
      /\ byte_offset_ \in Nat
      /\ \A i \in DOMAIN shape_ : shape_[i] \in Nat /\ strides_[i] \in Nat
  BY ReachFacts, ShapeFacts DEF Typed, Naturals
<1>2. \A i \in DOMAIN shape_ : f[i] \in Nat /\ f[i] <= h[i]
  <2> TAKE i \in DOMAIN shape_
  <2> DEFINE a == index[i]
             b == strides_[i]
             c == shape_[i] - 1
  <2>1. a \in Nat /\ b \in Nat /\ c \in Nat /\ a <= c /\ shape_[i] # 0
    BY <1>1
  <2>2. f[i] = a * b /\ h[i] = c * b
    BY <2>1 DEF Reach
  <2> HIDE DEF a, b, c, f, h
  <2>3. a * b \in Nat /\ a * b <= c * b
    BY <2>1
  <2>. QED
    BY <2>2, <2>3
<1>3. DOMAIN f = DOMAIN shape_
  OBVIOUS
<1>4. Offset(index) = FoldFunction(+, byte_offset_, f)
  BY DEF Offset
<1> HIDE DEF f, h
<1>5. Naturals(f)
  BY <1>1, <1>2, <1>3 DEF Naturals
<1>6. FoldFunction(+, byte_offset_, f) = byte_offset_ + Sums(f)[DOMAIN f]
  BY <1>1, <1>5, SumFromFacts
<1>7. Sums(f)[DOMAIN f] <= Sums(h)[DOMAIN h]
  BY <1>1, <1>2, <1>3, <1>5, SumsMonotone
<1>8. Sums(f)[DOMAIN f] \in Nat /\ Sums(h)[DOMAIN h] \in Nat
  BY <1>1, <1>5, SumFacts
<1>9. Extent(shape_, strides_) = Sums(h)[DOMAIN h]
  BY <1>1 DEF Extent, h
<1> DEFINE x == Sums(f)[DOMAIN f]
           y == Sums(h)[DOMAIN h]
<1> HIDE DEF x, y
<1>10. byte_offset_ + x \in byte_offset_ .. byte_offset_ + y
  BY <1>1, <1>7, <1>8 DEF x, y
<1>. QED
  BY <1>4, <1>6, <1>9, <1>10 DEF x, y

LEMMA PositionsInStorage ==
    ASSUME VInv
    PROVE  \A k \in 1..Numel(shape_) :
              Positions[k] \in Nat /\ Positions[k] + 1 \in DOMAIN memory[storage_]
<1> TAKE k \in 1..Numel(shape_)
<1>1. /\ shape_ \in Seq(Nat) /\ memory[storage_] \in Seq(Nat) /\ byte_offset_ \in Nat
      /\ strides_ \in Seq(Nat) /\ Len(strides_) = Len(shape_)
  BY DEF VInv, Typed
<1>2. Positive(shape_) /\ k - 1 \in Nat
  <2>1. Numel(shape_) \in Nat
    BY <1>1, BehindFacts, ShapeFacts
  <2>. QED
    BY <1>1, <2>1, PositiveCount
<1>3. \A i \in DOMAIN shape_ : Digits(shape_, k - 1)[i] \in 0..shape_[i] - 1
  <2> TAKE i \in DOMAIN shape_
  <2>1. Rests(shape_, k - 1)[i] \in Nat /\ shape_[i] \in Nat \ {0}
    <3>1. shape_ \in Seq(Nat) /\ i \in 1..Len(shape_) /\ shape_[i] \in Nat
      BY <1>1, ShapeFacts
    <3>2. shape_[i] > 0
      BY <1>2 DEF Positive
    <3>3. Rests(shape_, k - 1)[i] \in Nat
      BY <1>2, <3>1, RestFacts
    <3>. QED
      BY <3>1, <3>2, <3>3
  <2>2. Rests(shape_, k - 1)[i] % shape_[i] \in 0..shape_[i] - 1
    BY <2>1, Division
  <2>. QED
    BY <2>2 DEF Digits
<1>4. DOMAIN Digits(shape_, k - 1) = DOMAIN shape_
  BY DEF Digits
<1>5. Positions[k] \in byte_offset_ .. byte_offset_ + Extent(shape_, strides_)
  <2>1. Offset(Digits(shape_, k - 1)) \in byte_offset_ .. byte_offset_ + Extent(shape_, strides_)
    BY <1>3, <1>4, OffsetWithin DEF VInv
  <2>. QED
    BY <1>1, <2>1, PositionsFacts
<1>6. byte_offset_ + Extent(shape_, strides_) < Len(memory[storage_])
  BY <1>2 DEF VInv, Fits
<1>7. Extent(shape_, strides_) \in Nat /\ DOMAIN memory[storage_] = 1..Len(memory[storage_])
      /\ Len(memory[storage_]) \in Nat
  BY <1>1, ReachFacts
<1> DEFINE x == Extent(shape_, strides_)
           y == Len(memory[storage_])
<1> HIDE DEF x, y
<1>8. Positions[k] \in Nat /\ Positions[k] + 1 \in 1..y
  BY <1>1, <1>5, <1>6, <1>7 DEF x, y
<1>. QED
  BY <1>7, <1>8 DEF y

\* A view that memcpy copies lies in one piece.
LEMMA ContiguousInStorage ==
    ASSUME VInv, IsContiguous, Positive(shape_)
    PROVE  byte_offset_ + Numel(shape_) - 1 < Len(memory[storage_])
<1>1. shape_ \in Seq(Nat) /\ strides_ \in Seq(Nat) /\ Len(strides_) = Len(shape_)
      /\ byte_offset_ \in Nat
  BY DEF VInv, Typed
<1>2. RowMajor(shape_, strides_)
  BY DEF RowMajor, IsContiguous
<1>3. Extent(shape_, strides_) = Numel(shape_) - 1
  BY <1>1, <1>2, ContiguousExtent
<1>4. Numel(shape_) \in Nat
  BY <1>1, BehindFacts, ShapeFacts
<1>. QED
  BY <1>1, <1>3, <1>4 DEF VInv, Fits

\* A new tensor fits its own storage.
LEMMA NewFits ==
    ASSUME NEW shape \in Seq(Nat), NEW offset \in Nat, NEW size \in Nat,
           Positive(shape) => offset + Numel(shape) - 1 < size
    PROVE  Fits(shape, ContiguousStrides(shape), offset, size)
<1>1. SUFFICES ASSUME Positive(shape)
               PROVE  offset + Extent(shape, ContiguousStrides(shape)) < size
  BY DEF Fits
<1>2. RowMajor(shape, ContiguousStrides(shape))
  BY DEF RowMajor
<1>3. Extent(shape, ContiguousStrides(shape)) = Numel(shape) - 1
  BY <1>1, <1>2, StridesAreBehind, ContiguousExtent
<1>4. Numel(shape) \in Nat
  BY BehindFacts, ShapeFacts
<1>. QED
  BY <1>1, <1>3, <1>4

LEMMA SumRenamed ==
    ASSUME NEW f, Naturals(f), NEW h, Naturals(h), NEW D, IsFiniteSet(D),
           DOMAIN f = D, DOMAIN h = D,
           NEW p \in [D -> D], IsInjective(p), \A i \in D : h[i] = f[p[i]]
    PROVE  Sums(h)[D] <= Sums(f)[D]
<1> DEFINE E == Image(p, D)
<1>1. \A s \in SUBSET DOMAIN h : Sums(h)[s] = Sums(f)[Image(p, s)]
  <2>1. IsFiniteSet(DOMAIN h) /\ p \in [DOMAIN h -> DOMAIN f]
        /\ \A i \in DOMAIN h : h[i] = f[p[i]]
    OBVIOUS
  <2>. QED
    BY <2>1, SumsMapped
<1>2. Sums(h)[D] = Sums(f)[E]
  BY <1>1
<1>3. E \subseteq DOMAIN f \cap DOMAIN f
  BY DEF Image
<1>4. \A i \in E : f[i] <= f[i]
  BY <1>3 DEF Naturals
<1> HIDE DEF E
<1>5. Sums(f)[E] <= Sums(f)[DOMAIN f]
  BY <1>3, <1>4, SumsMonotone
<1>. QED
  BY <1>2, <1>5

LEMMA TransposeFits ==
    ASSUME NEW shape \in Seq(Nat), NEW strides \in Seq(Nat), Len(strides) = Len(shape),
           NEW offset \in Nat, NEW size \in Nat, Fits(shape, strides, offset, size),
           NEW perm \in [DOMAIN shape -> DOMAIN shape], IsInjective(perm),
           NEW shape2 \in Seq(Nat), shape2 = [i \in DOMAIN perm |-> shape[perm[i]]],
           NEW strides2 \in Seq(Nat), strides2 = [i \in DOMAIN perm |-> strides[perm[i]]],
           Len(strides2) = Len(shape2)
    PROVE  Fits(shape2, strides2, offset, size)
<1> DEFINE D == DOMAIN shape
           f == Reach(shape, strides)
           h == Reach(shape2, strides2)
<1>1. DOMAIN shape2 = D /\ DOMAIN perm = D /\ IsFiniteSet(D)
  BY ShapeFacts DEF Naturals
<1>2. /\ Naturals(f) /\ DOMAIN f = D /\ Extent(shape, strides) \in Nat
      /\ Naturals(h) /\ DOMAIN h = D /\ Extent(shape2, strides2) \in Nat
  BY <1>1, ReachFacts
<1>3. \A i \in D : h[i] = f[perm[i]]
  BY <1>1 DEF Reach
<1>4. Positive(shape2) => Positive(shape)
  <2>1. perm \in Injection(D, D)
    BY DEF Injection, IsInjective
  <2> HIDE DEF D
  <2>2. perm \in Surjection(D, D)
    BY <1>1, <2>1, FS_Injection
  <2>3. \A j \in D : \E i \in D : perm[i] = j
    BY <2>2 DEF Surjection
  <2>. QED
    BY <1>1, <2>3 DEF Positive, D
<1> HIDE DEF f, h
<1>5. Sums(h)[D] <= Sums(f)[D]
  BY <1>1, <1>2, <1>3, SumRenamed
<1>7. Extent(shape2, strides2) <= Extent(shape, strides)
  BY <1>1, <1>5 DEF Extent, f, h
<1>. QED
  BY <1>2, <1>4, <1>7 DEF Fits

LEMMA SliceBounds ==
    ASSUME NEW dim \in Nat, NEW first \in 0..dim, NEW last \in 0..dim, NEW step \in Nat \ {0}
    PROVE  /\ Length(first, last, step) \in Nat
           /\ Length(first, last, step) > 0 =>
                 dim > 0 /\ first + (Length(first, last, step) - 1) * step <= dim - 1
<1> DEFINE a == last - first + step - 1
           q == a \div step
<1>1. CASE ~(last > first)
  BY <1>1 DEF Length
<1>2. CASE last > first
  <2>1. a \in Nat /\ a = last - first + step - 1 /\ dim > 0
    BY <1>2
  <2>2. q \in Nat /\ step * q <= a
    <3> HIDE DEF a
    <3>1. q \in Nat /\ (a % step) \in 0..step - 1 /\ a = step * q + (a % step)
      BY <2>1, Division
    <3>2. step * q \in Nat
      BY <3>1
    <3>. QED
      BY <3>1, <3>2
  <2>3. Length(first, last, step) = q
    BY <1>2 DEF Length
  <2> HIDE DEF q, a
  <2>4. (q - 1) * step = step * q - step /\ step * q \in Nat
    BY <2>2
  <2>. QED
    BY <1>2, <2>1, <2>2, <2>3, <2>4
<1>. QED
  BY <1>1, <1>2

LEMMA Scaled ==
    ASSUME NEW x \in Nat, NEW z \in Nat, NEW s \in Nat, x <= z
    PROVE  x * s <= z * s
<1>1. PICK d \in Nat : z = x + d
  <2>1. z - x \in Nat /\ z = x + (z - x)
    OBVIOUS
  <2>. QED
    BY <2>1
<1>2. z * s = x * s + d * s /\ d * s \in Nat /\ x * s \in Nat
  BY <1>1
<1>. QED
  BY <1>2

LEMMA SliceReach ==
    ASSUME NEW first \in Nat, NEW n \in Nat, NEW step \in Nat, NEW dim \in Nat,
           NEW st \in Nat, n > 0, dim > 0, first + (n - 1) * step <= dim - 1
    PROVE  /\ first * st + (n - 1) * (st * step) <= (dim - 1) * st
           /\ first * st \in Nat /\ (n - 1) * (st * step) \in Nat /\ (dim - 1) * st \in Nat
<1> DEFINE m == n - 1
           z == dim - 1
           y == m * step
           x == first + y
<1>1. m \in Nat /\ z \in Nat
  OBVIOUS
<1>2. x <= z
  OBVIOUS
<1> HIDE DEF m, z
<1>3. y \in Nat
  BY <1>1
<1>4. m * (st * step) = y * st
  BY <1>1
<1> HIDE DEF y
<1>5. x \in Nat /\ x * st = first * st + y * st /\ first * st \in Nat /\ y * st \in Nat
  BY <1>3
<1> HIDE DEF x
<1>6. x * st <= z * st
  BY <1>1, <1>2, <1>5, Scaled
<1>7. z * st \in Nat
  BY <1>1
<1>. QED
  BY <1>4, <1>5, <1>6, <1>7 DEF m, z

LEMMA SumsBut ==
    ASSUME NEW f, Naturals(f), NEW h, Naturals(h), NEW D, DOMAIN f = D, DOMAIN h = D,
           NEW x \in D, \A i \in D \ {x} : h[i] = f[i]
    PROVE  \E e \in Nat : Sums(h)[D] = h[x] + e /\ Sums(f)[D] = f[x] + e
<1> DEFINE R == D \ {x}
<1>1. R \subseteq DOMAIN h \cap DOMAIN f /\ \A i \in R : h[i] = f[i]
  OBVIOUS
<1>2. D \in SUBSET DOMAIN f /\ D \in SUBSET DOMAIN h /\ R \in SUBSET DOMAIN f
  OBVIOUS
<1>3. Sums(f)[R] \in Nat /\ Sums(f)[D] = f[x] + Sums(f)[R]
  BY <1>2, SumFacts
<1>4. Sums(h)[D] = h[x] + Sums(h)[R]
  BY <1>2, SumFacts
<1> HIDE DEF R
<1>5. Sums(h)[R] = Sums(f)[R]
  BY <1>1, SumsAgree
<1>. QED
  BY <1>3, <1>4, <1>5

LEMMA NotZero == \A x \in Nat : x > 0 => x # 0
OBVIOUS

LEMMA Shifted ==
    ASSUME NEW f, Naturals(f), NEW h, Naturals(h), NEW D, DOMAIN f = D, DOMAIN h = D,
           NEW x \in D, \A i \in D \ {x} : h[i] = f[i],
           NEW a \in Nat, a + h[x] <= f[x],
           NEW offset \in Nat, NEW size \in Nat, offset + Sums(f)[D] < size
    PROVE  (offset + a) + Sums(h)[D] < size
<1>1. PICK e \in Nat : Sums(h)[D] = h[x] + e /\ Sums(f)[D] = f[x] + e
  BY SumsBut
<1>2. h[x] \in Nat /\ f[x] \in Nat
  BY DEF Naturals
<1> DEFINE u == h[x]
           v == f[x]
           y == Sums(h)[D]
           z == Sums(f)[D]
<1>3. u \in Nat /\ v \in Nat /\ y = u + e /\ z = v + e /\ a + u <= v /\ offset + z < size
  BY <1>1, <1>2
<1> HIDE DEF u, v, y, z
<1>4. (offset + a) + y < size
  BY <1>3
<1>. QED
  BY <1>4 DEF y

\* One axis is cut to n elements, from first on in steps.
LEMMA CutFits ==
    ASSUME NEW shape \in Seq(Nat), NEW strides \in Seq(Nat), Len(strides) = Len(shape),
           NEW shape2 \in Seq(Nat), NEW strides2 \in Seq(Nat), Len(strides2) = Len(shape2),
           NEW D, DOMAIN shape = D, DOMAIN shape2 = D,
           NEW axis \in D, \A i \in D \ {axis} : shape2[i] = shape[i] /\ strides2[i] = strides[i],
           NEW first \in Nat, NEW step \in Nat, NEW n \in Nat, NEW dim \in Nat, NEW st \in Nat,
           shape[axis] = dim, strides[axis] = st, shape2[axis] = n, strides2[axis] = st * step,
           n > 0 => dim > 0 /\ first + (n - 1) * step <= dim - 1,
           NEW offset \in Nat, NEW size \in Nat, Fits(shape, strides, offset, size)
    PROVE  Fits(shape2, strides2, offset + first * st, size)
<1> SUFFICES ASSUME Positive(shape2)
             PROVE  (offset + first * st) + Extent(shape2, strides2) < size
  BY DEF Fits
<1> DEFINE f == Reach(shape, strides)
           h == Reach(shape2, strides2)
<1>1. Naturals(f) /\ DOMAIN f = D /\ Naturals(h) /\ DOMAIN h = D
  BY ReachFacts
<1>2. n > 0 /\ dim > 0 /\ first + (n - 1) * step <= dim - 1
  BY DEF Positive
<1>3. Positive(shape)
  BY <1>2 DEF Positive
<1>4. \A i \in D \ {axis} : h[i] = f[i]
  BY DEF Reach
<1>5. h[axis] = (n - 1) * (st * step) /\ f[axis] = (dim - 1) * st
  <2>1. n # 0 /\ dim # 0
    BY <1>2, NotZero, Zenon
  <2>2. /\ h[axis] = IF shape2[axis] = 0 THEN 0 ELSE (shape2[axis] - 1) * strides2[axis]
        /\ f[axis] = IF shape[axis] = 0 THEN 0 ELSE (shape[axis] - 1) * strides[axis]
    BY Zenon DEF Reach
  <2>. QED
    BY <2>1, <2>2, Zenon
<1> HIDE DEF f, h
<1>6. first * st \in Nat /\ first * st + h[axis] <= f[axis]
  <2>1. /\ first * st + (n - 1) * (st * step) <= (dim - 1) * st
        /\ first * st \in Nat
    BY <1>2, SliceReach
  <2>. QED
    BY <1>5, <2>1, Zenon
<1>7. offset + Sums(f)[D] < size
  BY <1>3 DEF Fits, Extent, f
<1> DEFINE a == first * st
<1>8. a \in Nat /\ a + h[axis] <= f[axis]
  BY <1>6
<1> HIDE DEF a
<1>9. (offset + a) + Sums(h)[D] < size
  BY <1>1, <1>4, <1>7, <1>8, Shifted
<1>10. Extent(shape2, strides2) = Sums(h)[D]
  BY DEF Extent, h
<1>. QED
  BY <1>9, <1>10, Zenon DEF a

LEMMA AxisFacts ==
    ASSUME NEW shape \in Seq(Nat), NEW strides \in Seq(Nat), Len(strides) = Len(shape),
           NEW axis \in DOMAIN shape
    PROVE  shape[axis] \in Nat /\ axis \in DOMAIN strides /\ strides[axis] \in Nat
<1>1. axis \in DOMAIN strides
  OBVIOUS
<1>. QED
  BY <1>1

LEMMA SliceFits ==
    ASSUME NEW shape \in Seq(Nat), NEW strides \in Seq(Nat), Len(strides) = Len(shape),
           NEW offset \in Nat, NEW size \in Nat, Fits(shape, strides, offset, size),
           NEW axis \in DOMAIN shape, NEW first \in 0..shape[axis], NEW last \in 0..shape[axis],
           NEW step \in Nat \ {0},
           NEW shape2 \in Seq(Nat),
           shape2 = [shape EXCEPT ![axis] = Length(first, last, step)],
           NEW strides2 \in Seq(Nat), strides2 = [strides EXCEPT ![axis] = @ * step],
           Len(strides2) = Len(shape2)
    PROVE  Fits(shape2, strides2, offset + first * strides[axis], size)
<1> DEFINE D == DOMAIN shape
           n == Length(first, last, step)
           dim == shape[axis]
           st == strides[axis]
<1>1. DOMAIN shape2 = D /\ DOMAIN strides = D /\ axis \in D
  BY ShapeFacts
<1>2. /\ shape2[axis] = n /\ strides2[axis] = st * step
      /\ \A i \in D \ {axis} : shape2[i] = shape[i] /\ strides2[i] = strides[i]
  BY <1>1
<1>3. dim \in Nat /\ st \in Nat /\ first \in Nat /\ step \in Nat
  <2>1. dim \in Nat /\ st \in Nat
    BY AxisFacts
  <2>. QED
    BY <2>1
<1>4. n \in Nat /\ (n > 0 => dim > 0 /\ first + (n - 1) * step <= dim - 1)
  BY <1>3, SliceBounds
<1> HIDE DEF n, dim, st, D
<1>5. DOMAIN shape = D /\ shape[axis] = dim /\ strides[axis] = st
  BY DEF dim, st, D
<1>6. Fits(shape2, strides2, offset + first * st, size)
  BY <1>1, <1>2, <1>3, <1>4, <1>5, CutFits
<1>. QED
  BY <1>6 DEF st

-----------------------------------------------------------------------------
(* The operations on views *)

LEMMA TableOfNats ==
    ASSUME NEW N \in Nat, NEW f, f = [k \in 1..N |-> f[k]], \A k \in 1..N : f[k] \in Nat
    PROVE  f \in Seq(Nat) /\ Len(f) = N
<1>1. f \in [1..N -> Nat]
  BY Zenon
<1>. QED
  BY <1>1

LEMMA InitViews ==
    ASSUME Init
    PROVE  VInv
<1> DEFINE N == Numel(shape_)
           f == [p \in 1..N |-> p]
<1>1. shape_ \in Seq(Nat)
  BY ViewsAssumption DEF Init
<1>2. N \in Nat
  BY <1>1, BehindFacts, ShapeFacts
<1>3. f \in Seq(Nat) /\ Len(f) = N
  <2> HIDE DEF N
  <2>1. f = [k \in 1..N |-> f[k]] /\ \A k \in 1..N : f[k] \in Nat
    BY <1>2
  <2> HIDE DEF f
  <2>. QED
    BY <1>2, <2>1, TableOfNats
<1>4. memory = <<f>> /\ storage_ = 1 /\ byte_offset_ = 0
      /\ strides_ = ContiguousStrides(shape_)
  BY DEF Init
<1> HIDE DEF f, N
<1>5. strides_ \in Seq(Nat) /\ Len(strides_) = Len(shape_)
  BY <1>1, <1>4, StridesAreBehind
<1>6. memory \in Seq(Seq(Nat)) /\ storage_ \in DOMAIN memory /\ Len(memory[storage_]) = N
  BY <1>3, <1>4
<1>7. 0 \in Nat /\ (Positive(shape_) => 0 + Numel(shape_) - 1 < N)
  BY <1>2 DEF N
<1>8. Fits(shape_, strides_, byte_offset_, Len(memory[storage_]))
  BY <1>1, <1>2, <1>4, <1>6, <1>7, NewFits
<1>. QED
  BY <1>1, <1>4, <1>5, <1>6, <1>7, <1>8 DEF VInv, Typed

LEMMA NewTensorKeeps ==
    ASSUME VInv, NEW shape \in Seq(Nat), NEW values \in Seq(Nat),
           Len(values) = Numel(shape), NewTensor(shape, values)
    PROVE  VInv'
<1>1. Numel(shape) \in Nat
  BY BehindFacts, ShapeFacts
<1>2. memory \in Seq(Seq(Nat))
  BY DEF VInv, Typed
<1>3. /\ shape_' = shape /\ strides_' = ContiguousStrides(shape) /\ byte_offset_' = 0
      /\ memory' = Append(memory, values) /\ storage_' = Len(memory')
  BY DEF NewTensor
<1>4. memory' \in Seq(Seq(Nat)) /\ storage_' \in DOMAIN memory' /\ memory'[storage_'] = values
  BY <1>2, <1>3
<1>5. strides_' \in Seq(Nat) /\ Len(strides_') = Len(shape_')
  BY <1>3, StridesAreBehind
<1>6. 0 \in Nat /\ (Positive(shape) => 0 + Numel(shape) - 1 < Numel(shape))
  BY <1>1
<1>7. Fits(shape, ContiguousStrides(shape), 0, Numel(shape))
  BY <1>1, <1>6, NewFits
<1>. QED
  BY <1>3, <1>4, <1>5, <1>6, <1>7 DEF VInv, Typed

\* What copying reads, element by element or with memcpy.
LEMMA CopiesAreValues ==
    ASSUME VInv
    PROVE  LET f == [k \in 1..Numel(shape_) |-> memory[storage_][1 + Positions[k]]]
           IN  /\ f \in Seq(Nat) /\ Len(f) = Numel(shape_)
               /\ CopyOut \in Seq(Nat) /\ Len(CopyOut) = Numel(shape_)
<1> DEFINE N == Numel(shape_)
           store == memory[storage_]
           f == [k \in 1..N |-> store[1 + Positions[k]]]
<1>1. shape_ \in Seq(Nat) /\ store \in Seq(Nat) /\ byte_offset_ \in Nat
  BY DEF VInv, Typed
<1>2. N \in Nat
  BY <1>1, BehindFacts, ShapeFacts
<1>3. \A i \in DOMAIN store : store[i] \in Nat
  BY <1>1
<1>4. \A k \in 1..N : Positions[k] \in Nat /\ Positions[k] + 1 \in DOMAIN store
  BY PositionsInStorage
<1>5. \A k \in 1..N : 1 + Positions[k] = Positions[k] + 1
  BY <1>4
<1>6. \A k \in 1..N : store[1 + Positions[k]] \in Nat
  BY <1>3, <1>4, <1>5
<1>7. f \in Seq(Nat) /\ Len(f) = N
  <2>1. f = [k \in 1..N |-> f[k]] /\ \A k \in 1..N : f[k] \in Nat
    BY <1>6
  <2> HIDE DEF f
  <2>. QED
    BY <1>2, <2>1, TableOfNats
<1>8. ASSUME NEW k \in 1..N, IsContiguous
      PROVE  store[1 + byte_offset_ + k - 1] \in Nat
  <2>1. Positive(shape_)
    <3> HIDE DEF N
    <3>1. N > 0
      BY <1>2
    <3>. QED
      BY <1>1, <3>1, PositiveCount DEF N
  <2>2. byte_offset_ + N - 1 < Len(store)
    BY <1>8, <2>1, ContiguousInStorage
  <2> HIDE DEF N, store
  <2>3. 1 + byte_offset_ + k - 1 \in 1..Len(store)
    BY <1>1, <1>2, <2>2
  <2>. QED
    BY <1>1, <1>3, <2>3
<1>9. CopyOut \in Seq(Nat) /\ Len(CopyOut) = N
  <2>1. CopyOut = [k \in 1..N |-> store[1 + IF IsContiguous THEN byte_offset_ + k - 1
                                                          ELSE Positions[k]]]
    BY DEF CopyOut
  <2>2. \A k \in 1..N : CopyOut[k] \in Nat
    <3> TAKE k \in 1..N
    <3>1. CASE IsContiguous
      <4>1. 1 + (byte_offset_ + k - 1) = 1 + byte_offset_ + k - 1
        BY <1>1
      <4>. QED
        BY <1>8, <2>1, <3>1, <4>1
    <3>2. CASE ~IsContiguous
      BY <1>6, <2>1, <3>2
    <3>. QED
      BY <3>1, <3>2
  <2>3. CopyOut = [k \in 1..N |-> CopyOut[k]]
    BY <2>1
  <2>. QED
    BY <1>2, <2>2, <2>3, TableOfNats
<1>. QED
  BY <1>7, <1>9

LEMMA ReshapeKeeps ==
    ASSUME VInv, NEW target \in Targets, Reshape(target)
    PROVE  VInv'
<1>1. target \in Seq(Nat) /\ Numel(target) = Numel(shape_)
  BY ViewsAssumption DEF Reshape
<1>2. CASE IsContiguous
  <2>1. /\ shape_' = target /\ strides_' = ContiguousStrides(target)
        /\ byte_offset_' = byte_offset_ /\ storage_' = storage_ /\ memory' = memory
    BY <1>2 DEF Reshape
  <2>2. strides_' \in Seq(Nat) /\ Len(strides_') = Len(shape_')
    BY <1>1, <2>1, StridesAreBehind
  <2>3. /\ shape_ \in Seq(Nat) /\ byte_offset_ \in Nat
        /\ memory \in Seq(Seq(Nat)) /\ storage_ \in DOMAIN memory
        /\ Len(memory[storage_]) \in Nat
    BY DEF VInv, Typed
  <2>4. Positive(target) => byte_offset_ + Numel(target) - 1 < Len(memory[storage_])
    <3>1. Positive(target) => Positive(shape_)
      BY <1>1, <2>3, PositiveCount
    <3>. QED
      BY <1>1, <1>2, <3>1, ContiguousInStorage
  <2>5. Fits(target, ContiguousStrides(target), byte_offset_, Len(memory[storage_]))
    BY <1>1, <2>3, <2>4, NewFits
  <2>. QED
    BY <1>1, <2>1, <2>2, <2>3, <2>5 DEF VInv, Typed
<1>3. CASE ~IsContiguous
  <2> DEFINE f == [k \in 1..Numel(shape_) |-> memory[storage_][1 + Positions[k]]]
  <2>1. NewTensor(target, f)
    BY <1>3 DEF Reshape
  <2>2. f \in Seq(Nat) /\ Len(f) = Numel(shape_)
    BY CopiesAreValues
  <2> HIDE DEF f
  <2>. QED
    BY <1>1, <2>1, <2>2, NewTensorKeeps
<1>. QED
  BY <1>2, <1>3

LEMMA TransposeKeeps ==
    ASSUME VInv, NEW perm \in [DOMAIN shape_ -> DOMAIN shape_], Transpose(perm)
    PROVE  VInv'
<1>1. /\ shape_ \in Seq(Nat) /\ strides_ \in Seq(Nat) /\ Len(strides_) = Len(shape_)
      /\ byte_offset_ \in Nat /\ memory \in Seq(Seq(Nat)) /\ storage_ \in DOMAIN memory
      /\ Len(memory[storage_]) \in Nat
      /\ Fits(shape_, strides_, byte_offset_, Len(memory[storage_]))
  BY DEF VInv, Typed
<1>2. /\ IsInjective(perm)
      /\ shape_' = [i \in DOMAIN perm |-> shape_[perm[i]]]
      /\ strides_' = [i \in DOMAIN perm |-> strides_[perm[i]]]
      /\ byte_offset_' = byte_offset_ /\ storage_' = storage_ /\ memory' = memory
  BY DEF Transpose
<1>3. /\ shape_' \in Seq(Nat) /\ strides_' \in Seq(Nat) /\ Len(strides_') = Len(shape_')
  <2> DEFINE n == Len(shape_)
  <2>1. n \in Nat /\ DOMAIN perm = 1..n /\ DOMAIN shape_ = 1..n /\ DOMAIN strides_ = 1..n
    BY <1>1
  <2>2. \A i \in 1..n : perm[i] \in 1..n
    BY <2>1
  <2>3. \A i \in 1..n : shape_[i] \in Nat /\ strides_[i] \in Nat
    BY <1>1, <2>1
  <2> HIDE DEF n
  <2>4. /\ shape_' = [i \in 1..n |-> shape_'[i]] /\ \A i \in 1..n : shape_'[i] \in Nat
        /\ strides_' = [i \in 1..n |-> strides_'[i]] /\ \A i \in 1..n : strides_'[i] \in Nat
    BY <1>2, <2>1, <2>2, <2>3
  <2>5. shape_' \in Seq(Nat) /\ Len(shape_') = n
    BY <2>1, <2>4, TableOfNats
  <2>6. strides_' \in Seq(Nat) /\ Len(strides_') = n
    BY <2>1, <2>4, TableOfNats
  <2>. QED
    BY <2>5, <2>6
<1>4. Fits(shape_', strides_', byte_offset_, Len(memory[storage_]))
  BY <1>1, <1>2, <1>3, TransposeFits
<1>. QED
  BY <1>1, <1>2, <1>3, <1>4 DEF VInv, Typed

LEMMA BoundFacts ==
    ASSUME NEW x \in Int, NEW dim \in Nat
    PROVE  Bound(x, dim) \in 0..dim
BY DEF Bound, Clamp

LEMMA SliceKeeps ==
    ASSUME VInv, NEW axis \in DOMAIN shape_, NEW s \in Slices, Slice(axis, s[1], s[2], s[3])
    PROVE  VInv'
<1> DEFINE dim == shape_[axis]
           first == Bound(s[1], dim)
           last == Bound(s[2], dim)
           step == s[3]
<1>1. /\ shape_ \in Seq(Nat) /\ strides_ \in Seq(Nat) /\ Len(strides_) = Len(shape_)
      /\ byte_offset_ \in Nat /\ memory \in Seq(Seq(Nat)) /\ storage_ \in DOMAIN memory
      /\ Len(memory[storage_]) \in Nat
      /\ Fits(shape_, strides_, byte_offset_, Len(memory[storage_]))
  BY DEF VInv, Typed
<1>2. dim \in Nat /\ axis \in DOMAIN strides_ /\ strides_[axis] \in Nat
  BY <1>1, AxisFacts
<1>3. first \in 0..dim /\ last \in 0..dim /\ step \in Nat \ {0}
  BY <1>2, BoundFacts, ViewsAssumption
<1>4. /\ shape_' = [shape_ EXCEPT ![axis] = Length(first, last, step)]
      /\ strides_' = [strides_ EXCEPT ![axis] = @ * step]
      /\ byte_offset_' = byte_offset_ + first * strides_[axis]
      /\ storage_' = storage_ /\ memory' = memory
  BY DEF Slice
<1>5. Length(first, last, step) \in Nat
  BY <1>2, <1>3, SliceBounds
<1> HIDE DEF first, last, step
<1>6. first \in Nat /\ step \in Nat
  BY <1>2, <1>3
<1>7. strides_[axis] * step \in Nat /\ first * strides_[axis] \in Nat
  <2> DEFINE st == strides_[axis]
  <2>1. st \in Nat
    BY <1>2
  <2> HIDE DEF st
  <2>2. st * step \in Nat /\ first * st \in Nat
    BY <1>6, <2>1
  <2>. QED
    BY <2>2 DEF st
<1>8. shape_' \in Seq(Nat) /\ Len(shape_') = Len(shape_)
  BY <1>1, <1>4, <1>5
<1>9. strides_' \in Seq(Nat) /\ Len(strides_') = Len(strides_)
  BY <1>1, <1>4, <1>7
<1>10. byte_offset_' \in Nat
  <2> DEFINE a == first * strides_[axis]
  <2>1. a \in Nat /\ byte_offset_ \in Nat /\ byte_offset_' = byte_offset_ + a
    BY <1>1, <1>4, <1>7
  <2> HIDE DEF a
  <2>. QED
    BY <2>1
<1>11. Fits(shape_', strides_', byte_offset_', Len(memory[storage_]))
  <2>1. Len(strides_') = Len(shape_')
    BY <1>1, <1>8, <1>9
  <2>. QED
    BY <1>1, <1>3, <1>4, <1>8, <1>9, <2>1, SliceFits
<1>. QED
  BY <1>1, <1>4, <1>8, <1>9, <1>10, <1>11 DEF VInv, Typed

LEMMA FillZerosKeeps ==
    ASSUME VInv, FillZeros
    PROVE  VInv'
<1> DEFINE zeroed == IF IsContiguous
                     THEN byte_offset_ .. byte_offset_ + Numel(shape_) - 1
                     ELSE Range(Positions)
           old == memory[storage_]
           new == [p \in DOMAIN old |-> IF p - 1 \in zeroed THEN 0 ELSE old[p]]
<1>1. memory \in Seq(Seq(Nat)) /\ storage_ \in DOMAIN memory /\ old \in Seq(Nat)
  BY DEF VInv, Typed
<1>2. memory' = [memory EXCEPT ![storage_] = new]
  BY DEF FillZeros
<1>3. /\ shape_' = shape_ /\ strides_' = strides_ /\ byte_offset_' = byte_offset_
      /\ storage_' = storage_
  BY DEF FillZeros
<1> HIDE DEF zeroed
<1>4. new \in Seq(Nat) /\ Len(new) = Len(old)
  <2> DEFINE n == Len(old)
  <2>1. n \in Nat /\ DOMAIN old = 1..n /\ \A p \in 1..n : old[p] \in Nat
    BY <1>1
  <2> HIDE DEF n, old
  <2>2. new = [p \in 1..n |-> new[p]] /\ \A p \in 1..n : new[p] \in Nat
    BY <2>1
  <2> HIDE DEF new
  <2>3. new \in Seq(Nat) /\ Len(new) = n
    BY <2>1, <2>2, TableOfNats
  <2>. QED
    BY <2>3 DEF n
<1> HIDE DEF new
<1>5. memory' \in Seq(Seq(Nat)) /\ storage_ \in DOMAIN memory' /\ memory'[storage_] = new
  BY <1>1, <1>2, <1>4
<1>. QED
  BY <1>3, <1>4, <1>5 DEF VInv, Typed

LEMMA CloneKeeps ==
    ASSUME VInv, CloneContiguous
    PROVE  VInv'
<1>1. NewTensor(shape_, CopyOut)
  BY DEF CloneContiguous
<1>2. shape_ \in Seq(Nat) /\ CopyOut \in Seq(Nat) /\ Len(CopyOut) = Numel(shape_)
  BY CopiesAreValues DEF VInv, Typed
<1>. QED
  BY <1>1, <1>2, NewTensorKeeps

LEMMA ViewsStep ==
    ASSUME VInv, [Next]_vars
    PROVE  VInv'
<1>1. CASE UNCHANGED vars
  BY <1>1 DEF VInv, Typed, vars
<1>2. ASSUME NEW target \in Targets, Reshape(target) PROVE VInv'
  BY <1>2, ReshapeKeeps
<1>3. ASSUME NEW perm \in [DOMAIN shape_ -> DOMAIN shape_], Transpose(perm) PROVE VInv'
  BY <1>3, TransposeKeeps
<1>4. ASSUME NEW axis \in DOMAIN shape_, NEW s \in Slices, Slice(axis, s[1], s[2], s[3])
      PROVE  VInv'
  BY <1>4, SliceKeeps
<1>5. CASE FillZeros
  BY <1>5, FillZerosKeeps
<1>6. CASE CloneContiguous
  BY <1>6, CloneKeeps
<1>. QED
  BY <1>1, <1>2, <1>3, <1>4, <1>5, <1>6 DEF Next

LEMMA InvariantInStorage ==
    ASSUME VInv
    PROVE  ViewInStorage /\ EnumerationsAgree
<1>1. shape_ \in Seq(Nat)
  BY DEF VInv, Typed
<1>. QED
  BY <1>1, PositionsFacts, PositionsInStorage DEF ViewInStorage, EnumerationsAgree

LEMMA CallsKeep == CallSpec => []VInv
<1>1. CallInit => VInv
  BY InitViews DEF CallInit
<1>2. VInv /\ [CallNext]_call_vars => VInv'
  <2> SUFFICES ASSUME VInv, [CallNext]_call_vars PROVE VInv'
    OBVIOUS
  <2>1. [Next]_vars
    BY DEF CallNext, ViewStep, Execute, call_vars, vars
  <2>. QED
    BY <2>1, ViewsStep
<1>. QED
  BY <1>1, <1>2, PTL DEF CallSpec

LEMMA ViewsKeep == Spec => []VInv
<1>1. VInv /\ [Next]_vars => VInv'
  BY ViewsStep
<1>. QED
  BY <1>1, InitViews, PTL DEF Spec

\* Whatever views are made of views, by reshaping, transposing and slicing in
\* any order and number, and whatever is written and copied in between, the
\* shape, strides and offset of a tensor address its storage and nothing else.
THEOREM ViewsStayInStorage == CallSpec => []ViewInStorage
BY CallsKeep, InvariantInStorage, PTL

\* The same without the kernels.
THEOREM ViewsAloneStayInStorage == Spec => []ViewInStorage
BY ViewsKeep, InvariantInStorage, PTL

\* The odometer of copy_to_bytes, reshape and fill_zeros, and the division of
\* logical_offset in the kernels, visit the elements of every tensor at the same
\* positions in the same order.
THEOREM EnumerationsAlwaysAgree == CallSpec => []EnumerationsAgree
BY CallsKeep, InvariantInStorage, PTL

-----------------------------------------------------------------------------
(* The coordinates that the kernels count through *)

Inside(coords, shape) ==
    DOMAIN coords = DOMAIN shape /\ \A i \in DOMAIN shape : coords[i] \in 0..shape[i] - 1

\* Without axes of length 0 the coordinates are the digits of the linear index.
LEMMA CoordinatesAreDigits ==
    ASSUME NEW shape \in Seq(Nat), Positive(shape), NEW linear \in Nat
    PROVE  Coordinates(linear, shape) = Digits(shape, linear)
<1> DEFINE n == Len(shape)
           Step(rest) == [i \in 1..n |->
                            IF i = n THEN linear
                            ELSE IF shape[i+1] = 0 THEN rest[i+1]
                            ELSE rest[i+1] \div shape[i+1]]
           Q == CHOOSE rest : rest = Step(rest)
           R == Rests(shape, linear)
<1>1. n \in Nat /\ DOMAIN shape = 1..n /\ \A i \in 1..n : shape[i] \in Nat /\ shape[i] # 0
  <2>1. \A i \in 1..n : shape[i] \in Nat /\ shape[i] > 0
    BY ShapeFacts DEF Positive
  <2>2. n \in Nat /\ DOMAIN shape = 1..n
    BY ShapeFacts
  <2> HIDE DEF n
  <2>3. \A i \in 1..n : shape[i] # 0
    BY <2>1, NotZero, Zenon
  <2>. QED
    BY <2>1, <2>2, <2>3
<1>2. R = [i \in 1..n |-> IF i = n THEN linear ELSE R[i+1] \div shape[i+1]]
  BY RestFacts, Zenon
<1> HIDE DEF R
<1>3. R = Step(R)
  <2>1. ASSUME NEW i \in 1..n, i # n PROVE i + 1 \in 1..n
    <3> HIDE DEF n
    <3>. QED
      BY <1>1, <2>1
  <2>2. \A i \in 1..n : (IF i = n THEN linear ELSE R[i+1] \div shape[i+1])
                      = (IF i = n THEN linear ELSE IF shape[i+1] = 0 THEN R[i+1]
                         ELSE R[i+1] \div shape[i+1])
    BY <1>1, <2>1, Zenon
  <2>. QED
    BY <1>2, <2>2
<1>4. Q = Step(Q)
  <2> HIDE DEF Step
  <2>. QED
    BY <1>3
<1> HIDE DEF Q
<1>5. \A i \in 1..n : /\ R[i] = IF i = n THEN linear ELSE R[i+1] \div shape[i+1]
                      /\ Q[i] = IF i = n THEN linear ELSE IF shape[i+1] = 0 THEN Q[i+1]
                                ELSE Q[i+1] \div shape[i+1]
  BY <1>2, <1>4, Zenon
<1>6. \A i \in 1..n : Q[i] = R[i]
  <2> DEFINE S == {i \in 1..n : Q[i] = R[i]}
  <2> HIDE DEF n
  <2>1. CASE n = 0
    BY <2>1
  <2>2. CASE n > 0
    <3>1. n \in 1..n
      BY <1>1, <2>2
    <3>2. n \in S
      BY <1>5, <3>1
    <3>3. ASSUME NEW i \in 1..n-1, i + 1 \in S
          PROVE  i \in S
      <4>1. i + 1 \in 1..n /\ i \in 1..n /\ i # n
        BY <1>1
      <4>2. Q[i+1] = R[i+1]
        BY <3>3
      <4>3. Q[i] = R[i]
        BY <1>1, <1>5, <4>1, <4>2, Zenon
      <4>. QED
        BY <4>1, <4>3
    <3> HIDE DEF S
    <3>4. \A i \in 1..n : i \in S
      BY <1>1, <3>2, <3>3, DownwardInduction
    <3>. QED
      BY <3>4 DEF S
  <2>. QED
    BY <1>1, <2>1, <2>2
<1>7. Coordinates(linear, shape) = [i \in 1..n |-> IF shape[i] = 0 THEN 0 ELSE Q[i] % shape[i]]
  BY <1>1 DEF Coordinates, Q
<1>8. Digits(shape, linear) = [i \in 1..n |-> R[i] % shape[i]]
  BY <1>1 DEF Digits, R
<1>9. \A i \in 1..n : (IF shape[i] = 0 THEN 0 ELSE Q[i] % shape[i]) = R[i] % shape[i]
  BY <1>1, <1>6, Zenon
<1>. QED
  BY <1>7, <1>8, <1>9

LEMMA CoordinatesInside ==
    ASSUME NEW shape \in Seq(Nat), Positive(shape), NEW linear \in Nat
    PROVE  Inside(Coordinates(linear, shape), shape)
<1>1. Coordinates(linear, shape) = Digits(shape, linear)
  BY CoordinatesAreDigits
<1>2. ASSUME NEW i \in DOMAIN shape
      PROVE  Digits(shape, linear)[i] \in 0..shape[i] - 1
  <2>1. shape[i] \in Nat /\ i \in 1..Len(shape)
    BY ShapeFacts
  <2>2. shape[i] > 0
    BY DEF Positive
  <2>3. Rests(shape, linear)[i] \in Nat
    BY <2>1, RestFacts
  <2> DEFINE d == shape[i]
             a == Rests(shape, linear)[i]
  <2>4. d \in Nat \ {0} /\ a \in Nat
    BY <2>1, <2>2, <2>3
  <2> HIDE DEF d, a
  <2>5. a % d \in 0..d - 1
    BY <2>4, Division
  <2>. QED
    BY <2>5 DEF a, d, Digits
<1>3. DOMAIN Digits(shape, linear) = DOMAIN shape
  BY DEF Digits
<1>. QED
  BY <1>1, <1>2, <1>3 DEF Inside

-----------------------------------------------------------------------------
(* The windows of a pooling *)

\* o counts the windows; the last one of ceil_mode is given up if it starts
\* behind the input.
LEMMA WindowStarts ==
    ASSUME NEW input \in Nat \ {0}, NEW before \in Nat, NEW after \in Nat, NEW kernel \in Nat,
           after < kernel, NEW stride \in Nat \ {0}, NEW ceil_mode \in BOOLEAN,
           NEW o \in Nat, o < OutputSize(input, before, after, kernel, stride, ceil_mode)
    PROVE  o * stride \in Nat /\ o * stride <= input + before - 1
<1> DEFINE numerator == input + before + after - kernel
           dividend == IF ceil_mode THEN numerator + stride - 1 ELSE numerator
           q == dividend \div stride
           r == dividend % stride
<1>1. numerator \in Nat
  <2>1. CASE numerator < 0
    <3>1. OutputSize(input, before, after, kernel, stride, ceil_mode) = 0
      BY <2>1 DEF OutputSize
    <3>. QED
      BY <3>1
  <2>. QED
    BY <2>1
<1>2. OutputSize(input, before, after, kernel, stride, ceil_mode) =
        IF ceil_mode /\ (1 + q - 1) * stride >= input + before THEN 1 + q - 1 ELSE 1 + q
  <2>1. ~(numerator < 0)
    BY <1>1
  <2>. QED
    <3>1. OutputSize(input, before, after, kernel, stride, ceil_mode) =
            IF numerator < 0 THEN 0
            ELSE IF ceil_mode /\ (1 + q - 1) * stride >= input + before THEN 1 + q - 1 ELSE 1 + q
      BY SMT DEF OutputSize
    <3> HIDE DEF numerator, q
    <3>. QED
      BY <2>1, <3>1, Zenon
<1>3. numerator <= input + before - 1
  OBVIOUS
<1> HIDE DEF numerator
<1>4. dividend \in Nat
  BY <1>1
<1> HIDE DEF dividend
<1>5. q \in Nat /\ r \in 0..stride - 1 /\ dividend = stride * q + r
  BY <1>4, Division
<1> HIDE DEF q, r
<1>6. q * stride \in Nat /\ o * stride \in Nat /\ stride * q = q * stride
  BY <1>5
<1>7. 1 + q - 1 = q
  BY <1>5
<1>8. CASE ceil_mode /\ q * stride >= input + before
  <2>1. o < q
    <3>1. OutputSize(input, before, after, kernel, stride, ceil_mode) = q
      BY <1>2, <1>7, <1>8, Zenon
    <3>. QED
      BY <3>1
  <2>2. o * stride <= (q - 1) * stride
    <3> DEFINE p == q - 1
    <3>1. p \in Nat /\ o <= p
      BY <1>5, <2>1
    <3> HIDE DEF p
    <3>2. o * stride <= p * stride
      BY <3>1, Scaled
    <3>. QED
      BY <3>2 DEF p
  <2>3. (q - 1) * stride = q * stride - stride
    BY <1>5
  <2>4. dividend = numerator + stride - 1
    BY <1>8 DEF dividend
  <2> DEFINE s == o * stride
             t == q * stride
  <2>5. s \in Nat /\ t \in Nat /\ s <= t - stride /\ dividend = t + r
    BY <1>5, <1>6, <2>2, <2>3
  <2> HIDE DEF s, t
  <2>6. s <= input + before - 1
    BY <1>1, <1>3, <1>5, <2>4, <2>5
  <2>. QED
    BY <1>6, <2>6 DEF s
<1>9. CASE ~(ceil_mode /\ q * stride >= input + before)
  <2>1. o <= q
    <3>1. OutputSize(input, before, after, kernel, stride, ceil_mode) = 1 + q
      BY <1>2, <1>7, <1>9, Zenon
    <3>. QED
      BY <1>5, <3>1
  <2>2. o * stride <= q * stride
    BY <1>5, <2>1, Scaled
  <2>3. q * stride <= input + before - 1
    <3> DEFINE t == q * stride
    <3>1. t \in Nat /\ dividend = t + r /\ (~ceil_mode => dividend = numerator)
      BY <1>5, <1>6 DEF dividend
    <3>2. ceil_mode => ~(t >= input + before)
      BY <1>9
    <3> HIDE DEF t
    <3>3. ASSUME ceil_mode PROVE t <= input + before - 1
      <4>1. ~(t >= input + before)
        BY <3>2, <3>3, Zenon
      <4>. QED
        BY <3>1, <4>1
    <3>4. ASSUME ~ceil_mode PROVE t <= input + before - 1
      BY <1>1, <1>3, <1>5, <3>1, <3>4
    <3>5. t <= input + before - 1
      BY <3>3, <3>4
    <3>. QED
      BY <3>5 DEF t
  <2> DEFINE s == o * stride
             t == q * stride
  <2>4. s \in Nat /\ t \in Nat /\ s <= t /\ t <= input + before - 1
    BY <1>6, <2>2, <2>3
  <2> HIDE DEF s, t
  <2>5. s <= input + before - 1
    BY <2>4
  <2>. QED
    BY <1>6, <2>5 DEF s
<1>. QED
  BY <1>8, <1>9

LEMMA WindowMeets ==
    ASSUME NEW input \in Nat \ {0}, NEW before \in Nat, NEW after \in Nat, NEW kernel \in Nat,
           before < kernel, after < kernel, NEW stride \in Nat \ {0}, NEW ceil_mode \in BOOLEAN,
           NEW o \in Nat, o < OutputSize(input, before, after, kernel, stride, ceil_mode)
    PROVE  \E k \in 0..kernel - 1 : o * stride - before + k * 1 \in 0..input - 1
<1> DEFINE s == o * stride
<1>1. s \in Nat /\ s <= input + before - 1
  BY WindowStarts
<1> HIDE DEF s
<1>2. CASE s >= before
  <2>1. 0 \in 0..kernel - 1 /\ s - before + 0 * 1 \in 0..input - 1
    BY <1>1, <1>2
  <2>. QED
    BY <2>1 DEF s
<1>3. CASE s < before
  <2>1. before - s \in 0..kernel - 1 /\ s - before + (before - s) * 1 \in 0..input - 1
    BY <1>1, <1>3
  <2>. QED
    BY <2>1 DEF s
<1>. QED
  BY <1>1, <1>2, <1>3

-----------------------------------------------------------------------------
(* Operands and results of a call *)

TensorFits(t) ==
    /\ t.shape \in Seq(Nat) /\ t.strides \in Seq(Nat) /\ Len(t.strides) = Len(t.shape)
    /\ t.offset \in Nat /\ t.data \in Seq(Int)
    /\ Fits(t.shape, t.strides, t.offset, Len(t.data))

LEMMA InsertedFacts ==
    ASSUME NEW S, NEW s \in Seq(S), NEW e \in S, NEW n \in Nat, Len(s) = n,
           NEW v \in 1..n + 1
    PROVE  /\ Len(InsertAt(s, v, e)) = n + 1 /\ DOMAIN InsertAt(s, v, e) = 1..n + 1
           /\ \A i \in 1..v - 1 : InsertAt(s, v, e)[i] = s[i]
           /\ InsertAt(s, v, e)[v] = e
           /\ \A i \in v + 1..n + 1 : InsertAt(s, v, e)[i] = s[i - 1]
<1> DEFINE x == SubSeq(s, 1, v - 1)
           y == <<e>>
           z == SubSeq(s, v, n)
           a == x \o y
           b == a \o z
<1>1. x \in Seq(S) /\ Len(x) = v - 1 /\ \A i \in 1..v - 1 : x[i] = s[i]
  OBVIOUS
<1>2. z \in Seq(S) /\ Len(z) = n - v + 1 /\ \A i \in 1..n - v + 1 : z[i] = s[v + i - 1]
  OBVIOUS
<1>3. y \in Seq(S) /\ Len(y) = 1 /\ y[1] = e
  OBVIOUS
<1> HIDE DEF x, y, z
<1>4. a \in Seq(S) /\ Len(a) = v /\ a[v] = e /\ \A i \in 1..v - 1 : a[i] = s[i]
  <2>1. x \in Seq(S) /\ y \in Seq(S)
    BY <1>1, <1>3
  <2>2. /\ a \in Seq(S) /\ Len(a) = Len(x) + Len(y)
        /\ \A i \in 1..Len(x) + Len(y) : a[i] = IF i <= Len(x) THEN x[i] ELSE y[i - Len(x)]
    BY <2>1, ConcatProperties, Zenon
  <2> HIDE DEF a
  <2>3. Len(x) = v - 1 /\ Len(y) = 1 /\ y[1] = e /\ \A i \in 1..v - 1 : x[i] = s[i]
    BY <1>1, <1>3
  <2>4. Len(x) + Len(y) = v /\ v \in 1..v /\ ~(v <= v - 1) /\ v - (v - 1) = 1
    BY <2>3
  <2>5. \A i \in 1..v - 1 : i \in 1..v /\ i <= v - 1
    OBVIOUS
  <2>6. a \in Seq(S) /\ Len(a) = v
    BY <2>2, <2>4
  <2>7. \A i \in 1..v : a[i] = IF i <= v - 1 THEN x[i] ELSE y[i - (v - 1)]
    BY <2>2, <2>3, <2>4
  <2>8. a[v] = e
    BY <2>3, <2>4, <2>7, Zenon
  <2>9. \A i \in 1..v - 1 : a[i] = s[i]
    BY <2>3, <2>5, <2>7, Zenon
  <2>. QED
    BY <2>6, <2>8, <2>9
<1> HIDE DEF a
<1>5. /\ Len(b) = n + 1 /\ DOMAIN b = 1..n + 1
      /\ \A i \in 1..v : b[i] = a[i]
      /\ \A i \in v + 1..n + 1 : b[i] = z[i - v]
  <2>1. a \in Seq(S) /\ z \in Seq(S)
    BY <1>2, <1>4
  <2>2. /\ b \in Seq(S) /\ Len(b) = Len(a) + Len(z)
        /\ \A i \in 1..Len(a) + Len(z) : b[i] = IF i <= Len(a) THEN a[i] ELSE z[i - Len(a)]
    BY <2>1, ConcatProperties, Zenon
  <2>3. DOMAIN b = 1..Len(b)
    BY <2>2
  <2> HIDE DEF b
  <2>4. Len(a) = v /\ Len(a) + Len(z) = n + 1
    BY <1>2, <1>4
  <2>5. /\ \A i \in 1..v : i \in 1..n + 1 /\ i <= v
        /\ \A i \in v + 1..n + 1 : i \in 1..n + 1 /\ ~(i <= v)
    OBVIOUS
  <2>. QED
    BY <2>2, <2>3, <2>4, <2>5
<1>6. InsertAt(s, v, e) = b
  BY DEF InsertAt, a, x, y, z
<1> HIDE DEF b
<1>7. \A i \in v + 1..n + 1 : i - v \in 1..n - v + 1 /\ v + (i - v) - 1 = i - 1
  OBVIOUS
<1>8. v \in 1..v /\ \A i \in 1..v - 1 : i \in 1..v
  OBVIOUS
<1>. QED
  BY <1>2, <1>4, <1>5, <1>6, <1>7, <1>8

\* Which of them are omitted does not matter for what the others hold.
LEMMA OperandsFit ==
    ASSUME VInv, NEW c \in Calls
    PROVE  /\ Len(Operands(c)) = Len(c.rest) + 1 /\ DOMAIN Operands(c) = 1..Len(c.rest) + 1
           /\ \A i \in 1..Len(c.rest) + 1 :
                 Operands(c)[i] = <<>> \/ TensorFits(Operands(c)[i])
<1> DEFINE n == Len(c.rest)
           v == c.view
           e == View(c.dtype)
<1>1. n \in Nat /\ v \in 1..n + 1 /\ c.rest \in Seq(Tensors \cup {<<>>})
  BY CallsAssumption
<1>2. TensorFits(e)
  <2>1. /\ e.shape = shape_ /\ e.strides = strides_ /\ e.offset = byte_offset_
        /\ e.data = memory[storage_]
    BY DEF View
  <2>2. memory[storage_] \in Seq(Nat) /\ Seq(Nat) \subseteq Seq(Int)
    BY DEF VInv, Typed
  <2> HIDE DEF e
  <2>. QED
    BY <2>1, <2>2 DEF TensorFits, VInv, Typed
<1>3. ASSUME NEW i \in 1..n, c.rest[i] # <<>>
      PROVE  TensorFits(c.rest[i])
  <2> DEFINE r == c.rest[i]
  <2>1. r \in Tensors
    BY <1>1, <1>3
  <2>2. r.strides = ContiguousStrides(r.shape) /\ r.offset = 0 /\ Len(r.data) = Numel(r.shape)
    BY <1>1, <1>3, CallsAssumption
  <2> HIDE DEF r
  <2>3. r.shape \in Seq(Nat) /\ r.data \in Seq(Int)
    BY <2>1 DEF Tensors
  <2>4. Numel(r.shape) \in Nat
    BY <2>3, BehindFacts, ShapeFacts
  <2>5. r.strides \in Seq(Nat) /\ Len(r.strides) = Len(r.shape)
    BY <2>2, <2>3, StridesAreBehind
  <2>6. Positive(r.shape) => 0 + Numel(r.shape) - 1 < Numel(r.shape)
    BY <2>4
  <2>7. Fits(r.shape, r.strides, 0, Numel(r.shape))
    BY <2>2, <2>3, <2>4, <2>6, NewFits
  <2>8. TensorFits(r)
    BY <2>2, <2>3, <2>5, <2>7 DEF TensorFits
  <2>. QED
    BY <2>8 DEF r
<1>4. Operands(c) = InsertAt(c.rest, v, e)
  BY DEF Operands
<1> DEFINE S == (Tensors \cup {<<>>}) \cup {e}
<1>5. c.rest \in Seq(S) /\ e \in S
  BY <1>1
<1> HIDE DEF e, v, S
<1>6. Len(c.rest) = n
  OBVIOUS
<1> HIDE DEF n
<1>7. /\ Len(Operands(c)) = n + 1 /\ DOMAIN Operands(c) = 1..n + 1
      /\ \A i \in 1..v - 1 : Operands(c)[i] = c.rest[i]
      /\ Operands(c)[v] = e
      /\ \A i \in v + 1..n + 1 : Operands(c)[i] = c.rest[i - 1]
  BY <1>1, <1>4, <1>5, <1>6, InsertedFacts
<1>8. \A i \in 1..n + 1 : Operands(c)[i] = <<>> \/ TensorFits(Operands(c)[i])
  <2> TAKE i \in 1..n + 1
  <2>1. CASE i \in 1..v - 1
    <3>1. i \in 1..n
      BY <1>1, <2>1
    <3>. QED
      BY <1>3, <1>7, <2>1, <3>1
  <2>2. CASE i = v
    BY <1>2, <1>7, <2>2
  <2>3. CASE i \in v + 1..n + 1
    <3>1. i - 1 \in 1..n
      BY <1>1, <2>3
    <3>. QED
      BY <1>3, <1>7, <2>3, <3>1
  <2>4. i \in 1..v - 1 \/ i = v \/ i \in v + 1..n + 1
    BY <1>1
  <2>. QED
    BY <2>1, <2>2, <2>3, <2>4
<1>. QED
  BY <1>7, <1>8 DEF n

\* input_at has looked for the operands that an answer is computed from.
LEMMA OperandsPresent ==
    ASSUME NEW c, NEW x, Kernel(c, x).status = "ok"
    PROVE  ~InputMissing(c, x) /\ \A i \in 1..Required(c.op, Len(x)) : Has(x, i)
<1>1. Thrown.status # "ok"
  BY DEF Thrown
<1>2. ~InputMissing(c, x)
  <2>1. InputMissing(c, x) => Kernel(c, x) = Thrown
    BY Zenon DEF Kernel
  <2>. QED
    BY <1>1, <2>1, Zenon
<1>. QED
  BY <1>2, Zenon DEF InputMissing

\* What a kernel has made of its operands stays what it is.
CallInv == call # <<>> => call \in Calls /\ result = Kernel(call, Operands(call))

LEMMA CallStep ==
    ASSUME CallInv, [CallNext]_call_vars
    PROVE  CallInv'
<1>1. CASE UNCHANGED call_vars
  <2>1. call' = call /\ result' = result /\ UNCHANGED vars
    BY <1>1 DEF call_vars
  <2>2. Operands(call)' = Operands(call)
    BY <2>1 DEF vars, Operands, View
  <2>. QED
    BY <2>1, <2>2 DEF CallInv
<1>2. CASE ViewStep
  BY <1>2 DEF ViewStep, CallInv
<1>3. ASSUME NEW c \in Calls, Execute(c)
      PROVE  CallInv'
  <2>1. call' = c /\ result' = Kernel(c, Operands(c)) /\ UNCHANGED vars
    BY <1>3 DEF Execute
  <2>2. Operands(call)' = Operands(c)
    BY <2>1 DEF vars, Operands, View
  <2>. QED
    BY <2>1, <2>2 DEF CallInv
<1>. QED
  BY <1>1, <1>2, <1>3 DEF CallNext

LEMMA CallsAnswered == CallSpec => [](VInv /\ CallInv)
<1>1. CallInit => CallInv
  BY DEF CallInit, CallInv
<1>2. CallInv /\ [CallNext]_call_vars => CallInv'
  BY CallStep
<1>3. CallSpec => []CallInv
  BY <1>1, <1>2, PTL DEF CallSpec
<1>. QED
  BY <1>3, CallsKeep, PTL

-----------------------------------------------------------------------------
(* The windows of MaxPool *)

PoolKernel(c) == GetAttr(c, "kernel_shape", <<>>)

CeilMode(c) == GetAttr(c, "ceil_mode", 0) # 0

PoolShape(x, c) ==
    <<x[1].shape[1], x[1].shape[2]>>
      \o [s \in 1..2 |-> OutputExtent(x, c, PoolKernel(c), s, CeilMode(c))]

PoolTerms(x, c, o) ==
    {<<At(x, 1, <<o[1], o[2], Tap(c, 1, o, k), Tap(c, 2, o, k)>>)>> :
        k \in TapsInside(x, c, PoolKernel(c), o)}

LEMMA PoolAnswer ==
    ASSUME NEW x, NEW c, c.op = "MaxPool", Kernel(c, x).status = "ok"
    PROVE  /\ Has(x, 1)
           /\ Len(x[1].shape) = 4 /\ PositivePair(PoolKernel(c)) /\ ~WindowThrows(c)
           /\ \A i \in DOMAIN PoolShape(x, c) : ~(PoolShape(x, c)[i] < 0)
           /\ Kernel(c, x).elements =
                [k \in 1..Numel(PoolShape(x, c)) |->
                    PoolTerms(x, c, Coordinates(k - 1, PoolShape(x, c)))]
<1>1. Has(x, 1) /\ Kernel(c, x) = MaxPool(x, c)
  <2>1. ~InputMissing(c, x) /\ \A i \in 1..Required(c.op, Len(x)) : Has(x, i)
    BY OperandsPresent
  <2>2. Required(c.op, Len(x)) = 1
    BY DEF Required
  <2>3. Has(x, 1)
    BY <2>1, <2>2
  <2>. QED
    BY <2>1, <2>3 DEF Kernel
<1> DEFINE refused == \/ ~Float(x) \/ Len(x[1].shape) # 4
                      \/ ~PositivePair(PoolKernel(c))
                      \/ WindowThrows(c)
                      \/ GetAttr(c, "storage_order", 0) # 0
                      \/ c.indices
           negative == \E i \in DOMAIN PoolShape(x, c) : PoolShape(x, c)[i] < 0
           answer == [status |-> "ok", dtype |-> "FLOAT32", shape |-> PoolShape(x, c),
                      elements |-> [k \in 1..Numel(PoolShape(x, c)) |->
                                      PoolTerms(x, c, Coordinates(k - 1, PoolShape(x, c)))]]
<1>2. MaxPool(x, c) = IF refused THEN Thrown ELSE IF negative THEN Thrown ELSE answer
  BY Zenon DEF MaxPool, Result, PoolShape, PoolTerms, PoolKernel, CeilMode
<1>3. Thrown.status # "ok"
  BY DEF Thrown
<1>4. answer.elements = [k \in 1..Numel(PoolShape(x, c)) |->
                            PoolTerms(x, c, Coordinates(k - 1, PoolShape(x, c)))]
  OBVIOUS
<1> HIDE DEF answer
<1>5. ~refused /\ ~negative /\ Kernel(c, x) = answer
  BY <1>1, <1>2, <1>3, Zenon
<1>. QED
  BY <1>1, <1>4, <1>5, Zenon

LEMMA SequenceOfLength ==
    ASSUME NEW S, NEW n \in Nat, NEW s \in Seq(S), Len(s) = n
    PROVE  s \in [1..n -> S]
<1>1. s \in [1..Len(s) -> S]
  BY LenProperties
<1>. QED
  BY <1>1

LEMMA FunctionIsSequence ==
    ASSUME NEW S, NEW n \in Nat, NEW s \in [1..n -> S]
    PROVE  s \in Seq(S)
BY SeqDef

\* Two numbers that the kernels accept.
LEMMA PairPositive ==
    ASSUME NEW v \in Seq(Int), PositivePair(v)
    PROVE  \A s \in 1..2 : v[s] \in Nat \ {0}
<1>1. Len(v) = 2 /\ v[1] > 0 /\ v[2] > 0
  BY DEF PositivePair
<1>2. v[1] \in Int /\ v[2] \in Int
  <2>1. 2 \in Nat
    OBVIOUS
  <2>2. v \in [1..2 -> Int]
    BY <1>1, <2>1, SequenceOfLength, Zenon
  <2>. QED
    BY <2>2
<1>3. \A s \in 1..2 : s = 1 \/ s = 2
  OBVIOUS
<1>4. \A n \in Int : n > 0 => n \in Nat \ {0}
  OBVIOUS
<1>5. v[1] \in Nat \ {0} /\ v[2] \in Nat \ {0}
  BY <1>1, <1>2, <1>4
<1>. QED
  BY <1>3, <1>5, Zenon

LEMMA WindowNumbers ==
    ASSUME NEW c \in Calls, ~WindowThrows(c)
    PROVE  \A s \in 1..2 : /\ Strides(c)[s] \in Nat \ {0} /\ Dilations(c)[s] \in Nat \ {0}
                           /\ Pads(c)[s] \in Nat /\ Pads(c)[s + 2] \in Nat
<1>1. PositivePair(Strides(c)) /\ PositivePair(Dilations(c))
  BY DEF WindowThrows
<1>2. Strides(c) \in Seq(Int)
  <2>1. "strides" \in DOMAIN c.attrs => c.attrs["strides"] \in Seq(Int)
    BY CallsAssumption
  <2>2. <<1, 1>> \in Seq(Int)
    OBVIOUS
  <2>. QED
    BY <2>1, <2>2, Zenon DEF Strides, GetAttr
<1>3. Dilations(c) \in Seq(Int)
  <2>1. "dilations" \in DOMAIN c.attrs => c.attrs["dilations"] \in Seq(Int)
    BY CallsAssumption
  <2>2. <<1, 1>> \in Seq(Int)
    OBVIOUS
  <2>. QED
    BY <2>1, <2>2, Zenon DEF Dilations, GetAttr
<1>4. /\ Pads(c) \in Seq(Int) /\ Len(Pads(c)) = 4
      /\ \A i \in 1..4 : ~(Pads(c)[i] < 0)
  <2>1. Pads(c) \in Seq(Int)
    <3>1. "pads" \in DOMAIN c.attrs => c.attrs["pads"] \in Seq(Int)
      BY CallsAssumption
    <3>2. <<0, 0, 0, 0>> \in Seq(Int)
      OBVIOUS
    <3>. QED
      BY <3>1, <3>2, Zenon DEF Pads, GetAttr
  <2>2. Len(Pads(c)) = 4
    BY DEF WindowThrows
  <2>3. DOMAIN Pads(c) = 1..4
    BY <2>1, <2>2
  <2>. QED
    BY <2>1, <2>2, <2>3 DEF WindowThrows
<1> DEFINE pads == Pads(c)
<1> HIDE DEF pads
<1>5. pads \in Seq(Int) /\ Len(pads) = 4 /\ \A i \in 1..4 : ~(pads[i] < 0)
  BY <1>4 DEF pads
<1>6. \A s \in 1..2 : pads[s] \in Nat /\ pads[s + 2] \in Nat
  <2>1. \A i \in 1..4 : pads[i] \in Int /\ ~(pads[i] < 0)
    <3>1. 4 \in Nat
      OBVIOUS
    <3>2. pads \in [1..4 -> Int]
      BY <1>5, <3>1, SequenceOfLength, Zenon
    <3>. QED
      BY <1>5, <3>2, Zenon
  <2>2. \A n \in Int : ~(n < 0) => n \in Nat
    OBVIOUS
  <2>3. \A i \in 1..4 : pads[i] \in Nat
    BY <2>1, <2>2, Zenon
  <2>4. \A s \in 1..2 : s \in 1..4 /\ s + 2 \in 1..4
    OBVIOUS
  <2>. QED
    BY <2>3, <2>4, Zenon
<1>7. \A s \in 1..2 : Strides(c)[s] \in Nat \ {0} /\ Dilations(c)[s] \in Nat \ {0}
  BY <1>1, <1>2, <1>3, PairPositive, Zenon
<1>. QED
  BY <1>6, <1>7, Zenon DEF pads

LEMMA KernelNumbers ==
    ASSUME NEW c \in Calls, PositivePair(PoolKernel(c))
    PROVE  /\ "kernel_shape" \in DOMAIN c.attrs /\ PoolKernel(c) = c.attrs["kernel_shape"]
           /\ \A s \in 1..2 : PoolKernel(c)[s] \in Nat \ {0}
<1>1. "kernel_shape" \in DOMAIN c.attrs /\ PoolKernel(c) = c.attrs["kernel_shape"]
  <2>1. Len(PoolKernel(c)) = 2 /\ Len(<<>>) = 0
    BY DEF PositivePair
  <2>. QED
    BY <2>1 DEF PoolKernel, GetAttr
<1>2. PoolKernel(c) \in Seq(Int)
  BY <1>1, CallsAssumption
<1>. QED
  BY <1>1, <1>2, PairPositive, Zenon

\* One coordinate of a window: o counts the windows along it.
LEMMA WindowMeetsAlong ==
    ASSUME NEW x, NEW c \in Calls, NEW o, NEW s \in 1..2,
           ~WindowThrows(c), PositivePair(PoolKernel(c)), Dilations(c) = <<1, 1>>,
           {Pads(c)[s], Pads(c)[s + 2]} \subseteq 0..PoolKernel(c)[s] - 1,
           x[1].shape[s + 2] \in Nat \ {0},
           o[s + 2] \in Nat, o[s + 2] < OutputExtent(x, c, PoolKernel(c), s, CeilMode(c))
    PROVE  \E t \in 0..PoolKernel(c)[s] - 1 :
              o[s + 2] * Strides(c)[s] - Pads(c)[s] + t * Dilations(c)[s]
                \in 0..x[1].shape[s + 2] - 1
<1> DEFINE kernel == PoolKernel(c)[s]
           stride == Strides(c)[s]
           before == Pads(c)[s]
           after == Pads(c)[s + 2]
           input == x[1].shape[s + 2]
           n == o[s + 2]
           ceil_mode == CeilMode(c)
<1>1. kernel \in Nat \ {0} /\ stride \in Nat \ {0} /\ before \in Nat /\ after \in Nat
  BY WindowNumbers, KernelNumbers
<1>2. Dilations(c)[s] = 1
  BY SMT
<1>3. before \in 0..kernel - 1 /\ after \in 0..kernel - 1
  OBVIOUS
<1>4. n < OutputSize(input, before, after, 1 * (kernel - 1) + 1, stride, ceil_mode)
  BY <1>2, Zenon DEF OutputExtent
<1>5. input \in Nat \ {0} /\ n \in Nat
  OBVIOUS
<1>6. ceil_mode \in BOOLEAN
  BY Zenon DEF CeilMode
<1> HIDE DEF kernel, stride, before, after, input, n, ceil_mode
<1>7. 1 * (kernel - 1) + 1 = kernel /\ before < kernel /\ after < kernel
  BY <1>1, <1>3
<1>8. n < OutputSize(input, before, after, kernel, stride, ceil_mode)
  BY <1>4, <1>7, Zenon
<1>9. kernel \in Nat
  BY <1>1
<1>10. \E t \in 0..kernel - 1 : n * stride - before + t * 1 \in 0..input - 1
  BY <1>1, <1>5, <1>6, <1>7, <1>8, <1>9, WindowMeets
<1>. QED
  BY <1>2, <1>10, Zenon DEF kernel, stride, before, input, n

LEMMA PoolShapeFacts ==
    ASSUME NEW x, NEW c, x[1].shape \in Seq(Nat), Len(x[1].shape) = 4,
           OutputExtent(x, c, PoolKernel(c), 1, CeilMode(c)) \in Int,
           OutputExtent(x, c, PoolKernel(c), 2, CeilMode(c)) \in Int,
           \A i \in DOMAIN PoolShape(x, c) : ~(PoolShape(x, c)[i] < 0)
    PROVE  /\ PoolShape(x, c) \in Seq(Nat) /\ DOMAIN PoolShape(x, c) = 1..4
           /\ PoolShape(x, c)[3] = OutputExtent(x, c, PoolKernel(c), 1, CeilMode(c))
           /\ PoolShape(x, c)[4] = OutputExtent(x, c, PoolKernel(c), 2, CeilMode(c))
<1> DEFINE shape == x[1].shape
           h == OutputExtent(x, c, PoolKernel(c), 1, CeilMode(c))
           w == OutputExtent(x, c, PoolKernel(c), 2, CeilMode(c))
           extents == [s \in 1..2 |-> OutputExtent(x, c, PoolKernel(c), s, CeilMode(c))]
           p == PoolShape(x, c)
<1>1. extents \in Seq(Int) /\ Len(extents) = 2 /\ extents[1] = h /\ extents[2] = w
  <2>1. extents = <<h, w>>
    <3>1. \A s \in 1..2 : extents[s] = <<h, w>>[s]
      <4>1. \A s \in 1..2 : s = 1 \/ s = 2
        OBVIOUS
      <4>2. extents[1] = h /\ extents[2] = w
        OBVIOUS
      <4> HIDE DEF extents
      <4>. QED
        BY <4>1, <4>2
    <3>. QED
      BY <3>1
  <2> HIDE DEF extents
  <2>. QED
    BY <2>1
<1>2. p = <<shape[1], shape[2]>> \o extents
  BY DEF PoolShape
<1>3. shape[1] \in Int /\ shape[2] \in Int
  OBVIOUS
<1>4. h \in Int /\ w \in Int
  OBVIOUS
<1> HIDE DEF shape, extents, h, w
<1>5. /\ p \in Seq(Int) /\ Len(p) = 4 /\ p[3] = h /\ p[4] = w
  <2> DEFINE front == <<shape[1], shape[2]>>
  <2>1. front \in Seq(Int) /\ Len(front) = 2
    BY <1>3
  <2>2. p = front \o extents
    BY <1>2
  <2> HIDE DEF p, front
  <2>3. front \in Seq(Int) /\ extents \in Seq(Int)
    BY <1>1, <2>1
  <2>4. /\ p \in Seq(Int) /\ Len(p) = Len(front) + Len(extents)
        /\ \A i \in 1..Len(front) + Len(extents) :
              p[i] = IF i <= Len(front) THEN front[i] ELSE extents[i - Len(front)]
    BY <2>2, <2>3, ConcatProperties, Zenon
  <2>5. Len(p) = 4 /\ \A i \in 1..4 : p[i] = IF i <= 2 THEN front[i] ELSE extents[i - 2]
    BY <1>1, <2>1, <2>4
  <2>6. /\ 3 \in 1..4 /\ ~(3 <= 2) /\ 3 - 2 = 1
        /\ 4 \in 1..4 /\ ~(4 <= 2) /\ 4 - 2 = 2
    OBVIOUS
  <2>7. p[3] = extents[1] /\ p[4] = extents[2]
    BY <2>5, <2>6, Zenon
  <2>. QED
    BY <1>1, <2>4, <2>5, <2>7
<1>6. \A i \in DOMAIN p : ~(p[i] < 0)
  OBVIOUS
<1> HIDE DEF p
<1>7. 4 \in Nat
  OBVIOUS
<1>8. p \in [1..4 -> Int]
  BY <1>5, <1>7, SequenceOfLength, Zenon
<1>9. p \in [1..4 -> Nat]
  BY <1>6, <1>8
<1>10. p \in Seq(Nat)
  BY <1>7, <1>9, FunctionIsSequence, Zenon
<1>. QED
  BY <1>5, <1>8, <1>10 DEF p, h, w

LEMMA SizeIsInteger ==
    ASSUME NEW input \in Nat, NEW before \in Nat, NEW after \in Nat, NEW kernel \in Int,
           NEW stride \in Nat \ {0}, NEW ceil_mode \in BOOLEAN
    PROVE  OutputSize(input, before, after, kernel, stride, ceil_mode) \in Int
<1> DEFINE numerator == input + before + after - kernel
           dividend == IF ceil_mode THEN numerator + stride - 1 ELSE numerator
           q == dividend \div stride
<1>1. OutputSize(input, before, after, kernel, stride, ceil_mode) =
        IF numerator < 0 THEN 0
        ELSE IF ceil_mode /\ (1 + q - 1) * stride >= input + before THEN 1 + q - 1 ELSE 1 + q
  BY SMT DEF OutputSize
<1>2. numerator \in Int
  OBVIOUS
<1> HIDE DEF numerator
<1>3. ~(numerator < 0) => dividend \in Nat
  BY <1>2
<1> HIDE DEF dividend
<1>4. ~(numerator < 0) => q \in Nat
  BY <1>3, Division
<1> HIDE DEF q
<1>5. ~(numerator < 0) => 1 + q \in Int /\ 1 + q - 1 \in Int
  BY <1>4
<1>. QED
  BY <1>1, <1>5

LEMMA ExtentIsInteger ==
    ASSUME NEW x, NEW c \in Calls, NEW kernel, NEW s \in 1..2, NEW ceil_mode \in BOOLEAN,
           ~WindowThrows(c), kernel[s] \in Nat \ {0}, x[1].shape[s + 2] \in Nat
    PROVE  OutputExtent(x, c, kernel, s, ceil_mode) \in Int
<1> DEFINE taps == kernel[s]
           stride == Strides(c)[s]
           before == Pads(c)[s]
           after == Pads(c)[s + 2]
           input == x[1].shape[s + 2]
           d == Dilations(c)[s]
<1>1. /\ taps \in Nat \ {0} /\ stride \in Nat \ {0} /\ d \in Nat \ {0}
      /\ before \in Nat /\ after \in Nat
  BY WindowNumbers
<1>2. input \in Nat
  OBVIOUS
<1>3. OutputExtent(x, c, kernel, s, ceil_mode)
        = OutputSize(input, before, after, d * (taps - 1) + 1, stride, ceil_mode)
  BY Zenon DEF OutputExtent
<1> HIDE DEF taps, stride, before, after, input, d
<1> DEFINE reach == d * (taps - 1) + 1
<1>4. reach \in Int
  BY <1>1
<1>5. OutputExtent(x, c, kernel, s, ceil_mode)
        = OutputSize(input, before, after, reach, stride, ceil_mode)
  BY <1>3
<1> HIDE DEF reach
<1>6. OutputSize(input, before, after, reach, stride, ceil_mode) \in Int
  BY <1>1, <1>2, <1>4, SizeIsInteger
<1>. QED
  BY <1>5, <1>6

LEMMA PoolMeetsInput ==
    ASSUME VInv, CallInv
    PROVE  WindowsMeetInput
<1> DEFINE x == Operands(call)
           c == call
           kernel == PoolKernel(c)
           p == PoolShape(x, c)
<1> SUFFICES ASSUME call # <<>>, call.op = "MaxPool", result.status = "ok",
                    Numel(x[1].shape) > 0, Dilations(c) = <<1, 1>>,
                    \A s \in 1..2 : {Pads(c)[s], Pads(c)[s + 2]}
                                      \subseteq 0..call.attrs["kernel_shape"][s] - 1,
                    NEW k \in DOMAIN result.elements
             PROVE  result.elements[k] # {}
  BY Zenon DEF WindowsMeetInput
<1>1. c \in Calls /\ result = Kernel(c, x)
  BY DEF CallInv
<1>2. c.op = "MaxPool" /\ Kernel(c, x).status = "ok"
  BY <1>1
<1>3. /\ Has(x, 1)
      /\ Len(x[1].shape) = 4 /\ PositivePair(kernel) /\ ~WindowThrows(c)
      /\ \A i \in DOMAIN p : ~(p[i] < 0)
      /\ result.elements = [i \in 1..Numel(p) |-> PoolTerms(x, c, Coordinates(i - 1, p))]
  <2>1. /\ Has(x, 1)
        /\ Len(x[1].shape) = 4 /\ PositivePair(PoolKernel(c)) /\ ~WindowThrows(c)
        /\ \A i \in DOMAIN PoolShape(x, c) : ~(PoolShape(x, c)[i] < 0)
        /\ Kernel(c, x).elements =
              [i \in 1..Numel(PoolShape(x, c)) |->
                  PoolTerms(x, c, Coordinates(i - 1, PoolShape(x, c)))]
    <3> HIDE DEF x, c
    <3>. QED
      BY <1>2, PoolAnswer
  <2>. QED
    BY <1>1, <2>1, Zenon
<1>4. x[1].shape \in Seq(Nat)
  <2>1. /\ \A i \in 1..Len(c.rest) + 1 : x[i] = <<>> \/ TensorFits(x[i])
        /\ Len(x) = Len(c.rest) + 1
    BY <1>1, OperandsFit
  <2>2. Len(c.rest) \in Nat
    BY <1>1, CallsAssumption
  <2>3. 1 \in 1..Len(c.rest) + 1 /\ x[1] # <<>>
    BY <1>3, <2>2 DEF Has
  <2>. QED
    BY <2>1, <2>3, Zenon DEF TensorFits
<1>5. \A s \in 1..2 : x[1].shape[s + 2] \in Nat \ {0}
  <2>1. Positive(x[1].shape)
    BY <1>4, PositiveCount
  <2>2. 4 \in Nat
    OBVIOUS
  <2>3. x[1].shape \in [1..4 -> Nat]
    BY <1>3, <1>4, <2>2, SequenceOfLength, Zenon
  <2>4. \A s \in 1..2 : s + 2 \in 1..4
    OBVIOUS
  <2> DEFINE shape == x[1].shape
  <2>5. shape \in [1..4 -> Nat] /\ \A i \in DOMAIN shape : shape[i] > 0
    BY <2>1, <2>3 DEF Positive
  <2> HIDE DEF shape
  <2>6. \A i \in 1..4 : shape[i] \in Nat \ {0}
    BY <2>5
  <2>. QED
    BY <2>4, <2>6 DEF shape
<1> DEFINE h == OutputExtent(x, c, kernel, 1, CeilMode(c))
           w == OutputExtent(x, c, kernel, 2, CeilMode(c))
<1>6. h \in Int /\ w \in Int
  <2>1. CeilMode(c) \in BOOLEAN /\ 1 \in 1..2 /\ 2 \in 1..2
    BY DEF CeilMode
  <2>2. \A s \in 1..2 : x[1].shape[s + 2] \in Nat
    BY <1>5
  <2>3. \A s \in 1..2 : kernel[s] \in Nat \ {0}
    BY <1>1, <1>3, KernelNumbers, Zenon
  <2>. QED
    BY <1>1, <1>3, <2>1, <2>2, <2>3, ExtentIsInteger, Zenon
<1>7. p \in Seq(Nat) /\ DOMAIN p = 1..4 /\ p[3] = h /\ p[4] = w
  <2>1. Len(x[1].shape) = 4 /\ \A i \in DOMAIN PoolShape(x, c) : ~(PoolShape(x, c)[i] < 0)
    BY <1>3
  <2> HIDE DEF x, c
  <2>2. x[1].shape \in Seq(Nat) /\ Len(x[1].shape) = 4
    BY <1>4, <2>1
  <2>3. /\ OutputExtent(x, c, PoolKernel(c), 1, CeilMode(c)) \in Int
        /\ OutputExtent(x, c, PoolKernel(c), 2, CeilMode(c)) \in Int
    BY <1>6
  <2>4. /\ PoolShape(x, c) \in Seq(Nat) /\ DOMAIN PoolShape(x, c) = 1..4
        /\ PoolShape(x, c)[3] = OutputExtent(x, c, PoolKernel(c), 1, CeilMode(c))
        /\ PoolShape(x, c)[4] = OutputExtent(x, c, PoolKernel(c), 2, CeilMode(c))
    BY <2>1, <2>2, <2>3, PoolShapeFacts
  <2>. QED
    BY <2>4
<1>8. "kernel_shape" \in DOMAIN c.attrs /\ kernel = c.attrs["kernel_shape"]
  BY <1>1, <1>3, KernelNumbers, Zenon
<1>9. \A s \in 1..2 : {Pads(c)[s], Pads(c)[s + 2]} \subseteq 0..kernel[s] - 1
  BY <1>8
<1> DEFINE o == Coordinates(k - 1, p)
<1>10. k \in 1..Numel(p) /\ result.elements[k] = PoolTerms(x, c, o)
  BY <1>3, Zenon
<1>11. Inside(o, p)
  <2>1. Numel(p) \in Nat
    BY <1>7, BehindFacts, ShapeFacts
  <2>2. Numel(p) > 0 /\ k - 1 \in Nat
    BY <1>10, <2>1
  <2>3. Positive(p)
    BY <1>7, <2>2, PositiveCount, Zenon
  <2>. QED
    BY <1>7, <2>2, <2>3, CoordinatesInside, Zenon
<1> HIDE DEF x, c, p, o, kernel
<1>12. \A s \in 1..2 : /\ o[s + 2] \in Nat
                       /\ o[s + 2] < OutputExtent(x, c, kernel, s, CeilMode(c))
  <2>1. o[3] \in 0..h - 1 /\ o[4] \in 0..w - 1
    <3>1. 3 \in 1..4 /\ 4 \in 1..4
      OBVIOUS
    <3> HIDE DEF h, w
    <3>. QED
      BY <1>7, <1>11, <3>1, Zenon DEF Inside
  <2>2. o[3] \in Nat /\ o[4] \in Nat /\ o[3] < h /\ o[4] < w
    <3> HIDE DEF h, w
    <3>. QED
      BY <1>6, <2>1
  <2>3. \A s \in 1..2 : (s = 1 /\ s + 2 = 3) \/ (s = 2 /\ s + 2 = 4)
    OBVIOUS
  <2>. QED
    BY <2>2, <2>3, Zenon DEF h, w
<1>13. \A s \in 1..2 :
          \E t \in 0..kernel[s] - 1 :
             o[s + 2] * Strides(c)[s] - Pads(c)[s] + t * Dilations(c)[s]
               \in 0..x[1].shape[s + 2] - 1
  <2>1. Dilations(c) = <<1, 1>>
    OBVIOUS
  <2>. QED
    BY <1>1, <1>3, <1>5, <1>9, <1>12, <2>1, WindowMeetsAlong, Zenon DEF kernel
<1>14. PICK t1 \in 0..kernel[1] - 1 :
          o[1 + 2] * Strides(c)[1] - Pads(c)[1] + t1 * Dilations(c)[1]
            \in 0..x[1].shape[1 + 2] - 1
  <2>1. 1 \in 1..2
    OBVIOUS
  <2>. QED
    BY <1>13, <2>1, Zenon
<1>15. PICK t2 \in 0..kernel[2] - 1 :
          o[2 + 2] * Strides(c)[2] - Pads(c)[2] + t2 * Dilations(c)[2]
            \in 0..x[1].shape[2 + 2] - 1
  <2>1. 2 \in 1..2
    OBVIOUS
  <2>. QED
    BY <1>13, <2>1, Zenon
<1>16. <<t1, t2>> \in TapsInside(x, c, kernel, o)
  <2> DEFINE t == <<t1, t2>>
  <2>1. t[1] = t1 /\ t[2] = t2 /\ t \in (0..kernel[1] - 1) \X (0..kernel[2] - 1)
    OBVIOUS
  <2> HIDE DEF t
  <2>2. \A s \in 1..2 : s = 1 \/ s = 2
    OBVIOUS
  <2>3. Tap(c, 1, o, t) \in 0..x[1].shape[1 + 2] - 1
    BY <1>14, <2>1, Zenon DEF Tap
  <2>4. Tap(c, 2, o, t) \in 0..x[1].shape[2 + 2] - 1
    BY <1>15, <2>1, Zenon DEF Tap
  <2>5. \A s \in 1..2 : Tap(c, s, o, t) \in 0..x[1].shape[s + 2] - 1
    BY <2>2, <2>3, <2>4, Zenon
  <2>6. t \in TapsInside(x, c, kernel, o)
    BY <2>1, <2>5, Zenon DEF TapsInside
  <2>. QED
    BY <2>6 DEF t
<1>17. PoolTerms(x, c, o) # {}
  BY <1>16 DEF PoolTerms, kernel
<1>. QED
  BY <1>10, <1>17

\* Every window of a MaxPool without dilation whose pads are smaller than its
\* kernel covers a part of the input: no element of a result is -infinity.
THEOREM WindowsAlwaysMeetInput == CallSpec => []WindowsMeetInput
BY CallsAnswered, PoolMeetsInput, PTL

-----------------------------------------------------------------------------
(* What the helpers of the kernels return *)

LinearStep(w, coords, shape) ==
    [s \in SUBSET DOMAIN coords |->
        IF s = {} THEN 0 ELSE w[s \ {Max(s)}] * shape[Max(s)] + coords[Max(s)]]

LEMMA LinearIsLast ==
    ASSUME NEW coords, NEW shape, NEW n \in Nat, DOMAIN coords = 1..n
    PROVE  Linear(coords, shape) =
             (CHOOSE w : w = LinearStep(w, coords, shape))[DOMAIN coords]
<1> DEFINE places == [i \in DOMAIN coords |-> i]
           Raw(w) == [s \in SUBSET DOMAIN places |->
                        IF s = {} THEN 0
                        ELSE w[s \ {Max(s)}] * shape[places[Max(s)]] + coords[places[Max(s)]]]
<1>1. Linear(coords, shape) = (CHOOSE w : w = Raw(w))[DOMAIN places]
  BY DEF Linear, FoldLeft, MapThenFoldSet
<1>2. DOMAIN places = DOMAIN coords
  OBVIOUS
<1>3. \A s \in SUBSET DOMAIN coords : s # {} => places[Max(s)] = Max(s)
  BY LargestIn
<1>4. \A w : Raw(w) = LinearStep(w, coords, shape)
  <2> TAKE w
  <2>1. \A s \in SUBSET DOMAIN coords :
           (IF s = {} THEN 0
            ELSE w[s \ {Max(s)}] * shape[places[Max(s)]] + coords[places[Max(s)]])
         = (IF s = {} THEN 0 ELSE w[s \ {Max(s)}] * shape[Max(s)] + coords[Max(s)])
    <3> HIDE DEF places
    <3>. QED
      BY <1>3
  <2> HIDE DEF places
  <2>. QED
    BY <1>2, <2>1 DEF LinearStep
<1> HIDE DEF Raw, places
<1>. QED
  BY <1>1, <1>2, <1>4

LEMMA ProductSum == \A a, x, b \in Nat : a * x + b \in Nat
BY SMT

LEMMA LinearNatural ==
    ASSUME NEW n \in Nat, NEW coords, DOMAIN coords = 1..n, NEW shape,
           \A i \in 1..n : coords[i] \in Nat /\ shape[i] \in Nat
    PROVE  Linear(coords, shape) \in Nat
<1> DEFINE D == 1..n
           next == [p \in Nat \X D |-> p[1] * shape[p[2]] + coords[p[2]]]
           Q == CHOOSE w : w = LinearStep(w, coords, shape)
<1>1. next \in [Nat \X D -> Nat]
  BY ProductSum
<1>2. Descent(Nat, 0, next, n)
  BY <1>1 DEF Descent
<1> HIDE DEF next
<1>3. PICK w : Descends(w, Nat, 0, next, n)
  BY <1>2, DescentExists
<1>4. \A a \in Nat, i \in D : next[<<a, i>>] = a * shape[i] + coords[i]
  BY DEF next
<1>5. \A s \in SUBSET D : s # {} => Max(s) \in s /\ Max(s) \in D
  BY LargestIn
<1>6. w = LinearStep(w, coords, shape)
  <2>1. \A s \in SUBSET D : s # {} => w[s \ {Max(s)}] \in Nat
    BY <1>3 DEF Descends
  <2>2. \A s \in SUBSET D : s # {} => next[<<w[s \ {Max(s)}], Max(s)>>]
                                      = w[s \ {Max(s)}] * shape[Max(s)] + coords[Max(s)]
    BY <1>4, <1>5, <2>1
  <2>3. DescentStep(w, 0, next, n) = LinearStep(w, coords, shape)
    BY <2>2 DEF DescentStep, LinearStep
  <2>. QED
    BY <1>3, <2>3 DEF Descends
<1>7. Q = LinearStep(Q, coords, shape)
  BY <1>6
<1> HIDE DEF Q
<1>8. \A s \in SUBSET D : Q[s] = IF s = {} THEN 0
                                  ELSE Q[s \ {Max(s)}] * shape[Max(s)] + coords[Max(s)]
  BY <1>7 DEF LinearStep
<1>9. DescendsWithin(Q, Nat, 0, next, n)
  BY <1>4, <1>5, <1>8 DEF DescendsWithin
<1>10. Q[1..n] \in Nat
  BY <1>2, <1>9, DescentTyped
<1>. QED
  BY <1>10, LinearIsLast DEF Q

\* An axis of a broadcast has a dimension of one of the shapes.
BroadcastStep(w, dims) ==
    [s \in SUBSET DOMAIN dims |->
        IF s = {} THEN 1
        ELSE IF w[s \ {Max(s)}] = 1 THEN dims[Max(s)] ELSE w[s \ {Max(s)}]]

LEMMA BroadcastIsLast ==
    ASSUME NEW dims
    PROVE  BroadcastDim(dims) = (CHOOSE w : w = BroadcastStep(w, dims))[DOMAIN dims]
BY DEF BroadcastDim, BroadcastStep, FoldLeft, MapThenFoldSet

LEMMA BroadcastDimIn ==
    ASSUME NEW T, 1 \in T, NEW n \in Nat, NEW dims, DOMAIN dims = 1..n,
           \A i \in 1..n : dims[i] \in T
    PROVE  BroadcastDim(dims) \in T
<1> DEFINE D == 1..n
           next == [p \in T \X D |-> IF p[1] = 1 THEN dims[p[2]] ELSE p[1]]
           Q == CHOOSE w : w = BroadcastStep(w, dims)
<1>1. next \in [T \X D -> T]
  OBVIOUS
<1>2. Descent(T, 1, next, n)
  BY <1>1 DEF Descent
<1> HIDE DEF next
<1>3. PICK w : Descends(w, T, 1, next, n)
  BY <1>2, DescentExists
<1>4. \A a \in T, i \in D : next[<<a, i>>] = IF a = 1 THEN dims[i] ELSE a
  BY DEF next
<1>5. \A s \in SUBSET D : s # {} => Max(s) \in s /\ Max(s) \in D
  BY LargestIn
<1>6. w = BroadcastStep(w, dims)
  <2>1. \A s \in SUBSET D : s # {} => w[s \ {Max(s)}] \in T
    BY <1>3 DEF Descends
  <2>2. \A s \in SUBSET D : s # {} =>
           next[<<w[s \ {Max(s)}], Max(s)>>]
             = IF w[s \ {Max(s)}] = 1 THEN dims[Max(s)] ELSE w[s \ {Max(s)}]
    BY <1>4, <1>5, <2>1
  <2>3. DescentStep(w, 1, next, n) = BroadcastStep(w, dims)
    BY <2>2 DEF DescentStep, BroadcastStep
  <2>. QED
    BY <1>3, <2>3 DEF Descends
<1>7. Q = BroadcastStep(Q, dims)
  BY <1>6
<1> HIDE DEF Q
<1>8. \A s \in SUBSET D : Q[s] = IF s = {} THEN 1
                                  ELSE IF Q[s \ {Max(s)}] = 1 THEN dims[Max(s)] ELSE Q[s \ {Max(s)}]
  BY <1>7 DEF BroadcastStep
<1>9. DescendsWithin(Q, T, 1, next, n)
  BY <1>4, <1>5, <1>8 DEF DescendsWithin
<1>10. Q[1..n] \in T
  BY <1>2, <1>9, DescentTyped
<1>. QED
  BY <1>10, BroadcastIsLast DEF Q

-----------------------------------------------------------------------------
(* Positions that lie in the storage *)

LEMMA SumWithin ==
    ASSUME NEW shape \in Seq(Nat), NEW strides \in Seq(Nat), Len(strides) = Len(shape),
           NEW offset \in Nat, NEW index, Inside(index, shape)
    PROVE  FoldFunction(+, offset, [i \in DOMAIN index |-> index[i] * strides[i]])
             \in offset .. offset + Extent(shape, strides)
<1> DEFINE f == [i \in DOMAIN index |-> index[i] * strides[i]]
           h == Reach(shape, strides)
<1>1. /\ Naturals(h) /\ DOMAIN h = DOMAIN shape /\ IsFiniteSet(DOMAIN shape)
      /\ \A i \in DOMAIN shape : shape[i] \in Nat /\ strides[i] \in Nat
  BY ReachFacts, ShapeFacts DEF Naturals
<1>2. \A i \in DOMAIN shape : f[i] \in Nat /\ f[i] <= h[i]
  <2> TAKE i \in DOMAIN shape
  <2> DEFINE a == index[i]
             b == strides[i]
             c == shape[i] - 1
  <2>1. a \in Nat /\ b \in Nat /\ c \in Nat /\ a <= c /\ shape[i] # 0
    BY <1>1 DEF Inside
  <2>2. f[i] = a * b /\ h[i] = c * b
    BY <2>1 DEF Reach, Inside
  <2> HIDE DEF a, b, c, f, h
  <2>3. a * b \in Nat /\ a * b <= c * b
    BY <2>1
  <2>. QED
    BY <2>2, <2>3
<1>3. DOMAIN f = DOMAIN shape
  BY DEF Inside
<1> HIDE DEF f, h
<1>5. Naturals(f)
  BY <1>1, <1>2, <1>3 DEF Naturals
<1>6. FoldFunction(+, offset, f) = offset + Sums(f)[DOMAIN f]
  BY <1>1, <1>5, SumFromFacts
<1>7. Sums(f)[DOMAIN f] <= Sums(h)[DOMAIN h]
  BY <1>1, <1>2, <1>3, <1>5, SumsMonotone
<1>8. Sums(f)[DOMAIN f] \in Nat /\ Sums(h)[DOMAIN h] \in Nat
  BY <1>1, <1>5, SumFacts
<1>9. Extent(shape, strides) = Sums(h)[DOMAIN h]
  BY <1>1 DEF Extent, h
<1> DEFINE x == Sums(f)[DOMAIN f]
           y == Sums(h)[DOMAIN h]
<1> HIDE DEF x, y
<1>10. offset + x \in offset .. offset + y
  BY <1>7, <1>8 DEF x, y
<1>. QED
  BY <1>6, <1>9, <1>10 DEF x, y, f

LEMMA TensorReads ==
    ASSUME NEW t, TensorFits(t), NEW coords, Inside(coords, t.shape)
    PROVE  TensorOffset(t, coords) \in Nat /\ TensorOffset(t, coords) + 1 \in DOMAIN t.data
<1> DEFINE x == TensorOffset(t, coords)
           e == Extent(t.shape, t.strides)
           n == Len(t.data)
<1>1. /\ t.shape \in Seq(Nat) /\ t.strides \in Seq(Nat) /\ Len(t.strides) = Len(t.shape)
      /\ t.offset \in Nat /\ t.data \in Seq(Int)
      /\ Fits(t.shape, t.strides, t.offset, Len(t.data))
  BY DEF TensorFits
<1>2. x \in t.offset .. t.offset + e
  BY <1>1, SumWithin DEF TensorOffset
<1>3. Positive(t.shape)
  <2>1. \A i \in DOMAIN t.shape : t.shape[i] \in Nat /\ coords[i] \in 0..t.shape[i] - 1
    BY <1>1, ShapeFacts DEF Inside
  <2>. QED
    BY <2>1 DEF Positive
<1>4. t.offset + e < n
  BY <1>1, <1>3 DEF Fits
<1>5. n \in Nat /\ DOMAIN t.data = 1..n
  BY <1>1
<1>6. e \in Nat
  BY <1>1, ReachFacts
<1> HIDE DEF x, e, n
<1>7. x \in Nat /\ x + 1 \in 1..n
  BY <1>1, <1>2, <1>4, <1>5, <1>6
<1>. QED
  BY <1>5, <1>7 DEF x

\* Where a position of a term lies, if it is not a literal.
Stored(x, p) == p[1] # 0 => p[2] + 1 \in DOMAIN x[p[1]].data

TermStored(x, term) == \A j \in DOMAIN term : Stored(x, term[j])

Reads(r, x) == \A k \in DOMAIN r.elements : \A term \in r.elements[k] : TermStored(x, term)

LEMMA AtStored ==
    ASSUME NEW x, NEW i, TensorFits(x[i]), NEW coords, Inside(coords, x[i].shape)
    PROVE  Stored(x, At(x, i, coords))
<1>1. At(x, i, coords)[1] = i /\ At(x, i, coords)[2] = TensorOffset(x[i], coords)
  BY DEF At
<1>2. TensorOffset(x[i], coords) + 1 \in DOMAIN x[i].data
  BY TensorReads
<1>. QED
  BY <1>1, <1>2, Zenon DEF Stored

\* coordinates() makes something inside of every number.
LEMMA AtLinearStored ==
    ASSUME NEW x, NEW i, TensorFits(x[i]), Positive(x[i].shape), NEW linear \in Nat
    PROVE  Stored(x, AtLinear(x, i, linear))
<1>1. x[i].shape \in Seq(Nat)
  BY DEF TensorFits
<1>2. Inside(Coordinates(linear, x[i].shape), x[i].shape)
  BY <1>1, CoordinatesInside
<1>. QED
  BY <1>2, AtStored DEF AtLinear

\* The last of the coordinates are inside the shape, or stretch a one.
Stretches(shape, coords) ==
    \A i \in DOMAIN shape :
        shape[i] = 1 \/ coords[Len(coords) - Len(shape) + i] \in 0..shape[i] - 1

LEMMA BroadcastReads ==
    ASSUME NEW t, TensorFits(t), NEW coords, Stretches(t.shape, coords)
    PROVE  /\ BroadcastOffset(t, coords) \in Nat
           /\ BroadcastOffset(t, coords) + 1 \in DOMAIN t.data
<1> DEFINE shift == Len(coords) - Len(t.shape)
           d == [i \in DOMAIN t.shape |-> IF t.shape[i] = 1 THEN 0 ELSE coords[shift + i]]
<1>1. \A i \in DOMAIN t.shape : d[i] \in 0..t.shape[i] - 1
  <2> TAKE i \in DOMAIN t.shape
  <2>1. CASE t.shape[i] = 1
    BY <2>1
  <2>2. CASE t.shape[i] # 1
    BY <2>2 DEF Stretches
  <2>. QED
    BY <2>1, <2>2
<1>2. BroadcastOffset(t, coords) = TensorOffset(t, d)
  BY DEF BroadcastOffset
<1>3. Inside(d, t.shape)
  BY <1>1 DEF Inside
<1> HIDE DEF d
<1>. QED
  BY <1>2, <1>3, TensorReads

LEMMA AtBroadcastStored ==
    ASSUME NEW x, NEW j, TensorFits(x[j]), NEW coords, Stretches(x[j].shape, coords)
    PROVE  Stored(x, AtBroadcast(x, j, coords))
<1>1. /\ AtBroadcast(x, j, coords)[1] = j
      /\ AtBroadcast(x, j, coords)[2] = BroadcastOffset(x[j], coords)
  BY DEF AtBroadcast
<1>2. BroadcastOffset(x[j], coords) + 1 \in DOMAIN x[j].data
  BY BroadcastReads
<1>. QED
  BY <1>1, <1>2, Zenon DEF Stored

LEMMA OneStored == ASSUME NEW x, NEW p, Stored(x, p) PROVE TermStored(x, <<p>>)
<1>1. DOMAIN <<p>> = {1} /\ <<p>>[1] = p
  OBVIOUS
<1>. QED
  BY <1>1, Zenon DEF TermStored

LEMMA TwoStored ==
    ASSUME NEW x, NEW p, NEW q, Stored(x, p), Stored(x, q)
    PROVE  TermStored(x, <<p, q>>)
<1>1. DOMAIN <<p, q>> = {1, 2} /\ <<p, q>>[1] = p /\ <<p, q>>[2] = q
  OBVIOUS
<1>. QED
  BY <1>1, Zenon DEF TermStored

\* The k-th element of a result.
LEMMA ElementInside ==
    ASSUME NEW shape \in Seq(Nat), NEW k \in 1..Numel(shape)
    PROVE  Positive(shape) /\ k - 1 \in Nat /\ Inside(Coordinates(k - 1, shape), shape)
<1>1. Numel(shape) \in Nat
  BY BehindFacts, ShapeFacts
<1>2. k - 1 \in Nat /\ Numel(shape) > 0
  BY <1>1
<1>. QED
  BY <1>2, PositiveCount, CoordinatesInside

\* A shape that the constructor does not refuse.
LEMMA NotNegative ==
    ASSUME NEW shape \in Seq(Int), ~\E i \in DOMAIN shape : shape[i] < 0
    PROVE  shape \in Seq(Nat)
<1>1. shape \in [1..Len(shape) -> Int] /\ Len(shape) \in Nat
  BY LenProperties
<1>2. \A i \in 1..Len(shape) : shape[i] \in Nat
  BY <1>1
<1>3. shape \in [1..Len(shape) -> Nat]
  BY <1>1, <1>2
<1>. QED
  BY <1>1, <1>3, FunctionIsSequence

-----------------------------------------------------------------------------
(* elementwise.cpp, and Cast, Constant and Shape of bert.cpp *)

LEMMA UnaryReads ==
    ASSUME NEW x, TensorFits(x[1]), UnaryNode(x).status = "ok"
    PROVE  Reads(UnaryNode(x), x)
<1> DEFINE r == UnaryNode(x)
           shape == x[1].shape
           negative == \E i \in DOMAIN shape : shape[i] < 0
           terms(k) == {<<At(x, 1, Coordinates(k - 1, shape))>>}
<1>1. r = IF ~Float(x) THEN Thrown ELSE IF negative THEN Thrown
          ELSE [status |-> "ok", dtype |-> "FLOAT32", shape |-> shape,
                elements |-> [k \in 1..Numel(shape) |-> terms(k)]]
  BY Zenon DEF UnaryNode, Result
<1>2. r.elements = [k \in 1..Numel(shape) |-> terms(k)]
  <2> HIDE DEF terms, negative
  <2>. QED
    BY <1>1 DEF Thrown
<1>3. shape \in Seq(Nat)
  BY DEF TensorFits
<1>4. ASSUME NEW k \in 1..Numel(shape) PROVE \A term \in terms(k) : TermStored(x, term)
  <2>1. Inside(Coordinates(k - 1, shape), x[1].shape)
    BY <1>3, ElementInside
  <2>. QED
    BY <2>1, AtStored, OneStored
<1> HIDE DEF terms, r
<1>5. Reads(r, x)
  BY <1>2, <1>4, Zenon DEF Reads
<1>. QED
  BY <1>5 DEF r

LEMMA CoordinatesSequence ==
    ASSUME NEW shape \in Seq(Nat), NEW k \in 1..Numel(shape)
    PROVE  /\ Coordinates(k - 1, shape) \in Seq(Nat)
           /\ Len(Coordinates(k - 1, shape)) = Len(shape)
<1> DEFINE o == Coordinates(k - 1, shape)
           n == Len(shape)
<1>1. n \in Nat /\ DOMAIN shape = 1..n /\ \A i \in 1..n : shape[i] \in Nat
  BY ShapeFacts
<1>2. \A i \in 1..n : o[i] \in 0..shape[i] - 1
  BY <1>1, ElementInside DEF Inside
<1>3. o = [i \in 1..n |-> o[i]]
  BY <1>1 DEF Coordinates
<1> HIDE DEF o, n
<1>4. \A i \in 1..n : o[i] \in Nat
  BY <1>1, <1>2
<1>5. o \in [1..n -> Nat]
  BY <1>3, <1>4
<1>6. o \in Seq(Nat)
  BY <1>1, <1>5, FunctionIsSequence
<1>7. Len(o) = n
  BY <1>1, <1>5, <1>6
<1>. QED
  BY <1>6, <1>7 DEF o, n

LEMMA MaxOfThree ==
    ASSUME NEW a \in Nat, NEW b \in Nat, NEW c \in Nat
    PROVE  /\ Max({a, b, c}) \in Nat
           /\ a <= Max({a, b, c}) /\ b <= Max({a, b, c}) /\ c <= Max({a, b, c})
<1> DEFINE T == {a, b, c}
<1>1. \E m \in T : \A y \in T : m >= y
  <2>1. CASE a >= b /\ a >= c
    BY <2>1
  <2>2. CASE b >= a /\ b >= c
    BY <2>2
  <2>3. CASE c >= a /\ c >= b
    BY <2>3
  <2>. QED
    BY <2>1, <2>2, <2>3
<1>2. Max(T) \in T /\ \A y \in T : Max(T) >= y
  <2>1. Max(T) = CHOOSE m \in T : \A y \in T : m >= y
    BY DEF Max
  <2> HIDE DEF T
  <2>. QED
    BY <1>1, <2>1, Zenon
<1> DEFINE m == Max(T)
<1>3. m \in T /\ m >= a /\ m >= b /\ m >= c
  BY <1>2
<1> HIDE DEF m
<1>4. m \in Nat /\ a <= m /\ b <= m /\ c <= m
  BY <1>3
<1>. QED
  BY <1>4 DEF m

\* Two or three shapes that are broadcast together.
Shaped(shapes) ==
    /\ DOMAIN shapes = 1..2 \/ DOMAIN shapes = 1..3
    /\ \A j \in DOMAIN shapes : shapes[j] \in Seq(Int)

LEMMA LongestFacts ==
    ASSUME NEW shapes, Shaped(shapes)
    PROVE  /\ LongestShape(shapes) \in Nat
           /\ \A j \in DOMAIN shapes :
                 /\ Len(shapes[j]) \in Nat /\ DOMAIN shapes[j] = 1..Len(shapes[j])
                 /\ Len(shapes[j]) <= LongestShape(shapes)
<1>1. \A j \in DOMAIN shapes : Len(shapes[j]) \in Nat /\ DOMAIN shapes[j] = 1..Len(shapes[j])
  BY DEF Shaped
<1>2. CASE DOMAIN shapes = 1..2
  <2> DEFINE a == Len(shapes[1])
             b == Len(shapes[2])
  <2>1. {Len(shapes[j]) : j \in DOMAIN shapes} = {a, b, b}
    <3>1. 1..2 = {1, 2}
      OBVIOUS
    <3>. QED
      BY <1>2, <3>1
  <2>2. a \in Nat /\ b \in Nat
    BY <1>1, <1>2
  <2>3. LongestShape(shapes) = Max({a, b, b})
    BY <2>1 DEF LongestShape
  <2>4. \A j \in DOMAIN shapes : Len(shapes[j]) = a \/ Len(shapes[j]) = b
    BY <1>2
  <2> HIDE DEF a, b
  <2>5. Max({a, b, b}) \in Nat /\ a <= Max({a, b, b}) /\ b <= Max({a, b, b})
    BY <2>2, MaxOfThree
  <2>. QED
    BY <1>1, <2>3, <2>4, <2>5, Zenon
<1>3. CASE DOMAIN shapes = 1..3
  <2> DEFINE a == Len(shapes[1])
             b == Len(shapes[2])
             c == Len(shapes[3])
  <2>1. {Len(shapes[j]) : j \in DOMAIN shapes} = {a, b, c}
    <3>1. 1..3 = {1, 2, 3}
      OBVIOUS
    <3>. QED
      BY <1>3, <3>1
  <2>2. a \in Nat /\ b \in Nat /\ c \in Nat
    BY <1>1, <1>3
  <2>3. LongestShape(shapes) = Max({a, b, c})
    BY <2>1 DEF LongestShape
  <2>4. \A j \in DOMAIN shapes : Len(shapes[j]) = a \/ Len(shapes[j]) = b \/ Len(shapes[j]) = c
    BY <1>3
  <2> HIDE DEF a, b, c
  <2>5. /\ Max({a, b, c}) \in Nat
        /\ a <= Max({a, b, c}) /\ b <= Max({a, b, c}) /\ c <= Max({a, b, c})
    BY <2>2, MaxOfThree
  <2>. QED
    BY <1>1, <2>3, <2>4, <2>5, Zenon
<1>. QED
  BY <1>2, <1>3 DEF Shaped

\* Where the dimension i of a shape stands in the result.
LEMMA Aligned ==
    ASSUME NEW shapes, Shaped(shapes), NEW j \in DOMAIN shapes, NEW i \in DOMAIN shapes[j]
    PROVE  /\ LongestShape(shapes) - Len(shapes[j]) + i \in 1..LongestShape(shapes)
           /\ DimsAt(shapes, LongestShape(shapes) - Len(shapes[j]) + i)[j] = shapes[j][i]
<1> DEFINE m == LongestShape(shapes)
           n == Len(shapes[j])
           axis == m - n + i
<1>1. m \in Nat /\ n \in Nat /\ n <= m /\ DOMAIN shapes[j] = 1..n
  BY LongestFacts
<1>2. i \in 1..n
  BY <1>1
<1>3. DimsAt(shapes, axis)[j] =
        IF axis - m + n > 0 THEN shapes[j][axis - m + n] ELSE 1
  BY DEF DimsAt
<1> HIDE DEF m, n
<1>4. axis \in 1..m /\ axis - m + n = i /\ i > 0
  BY <1>1, <1>2
<1>5. DimsAt(shapes, axis)[j] = shapes[j][i]
  BY <1>3, <1>4, Zenon
<1>. QED
  BY <1>4, <1>5 DEF m, n

LEMMA DimsFacts ==
    ASSUME NEW shapes, Shaped(shapes), NEW T, 1 \in T,
           \A j \in DOMAIN shapes : \A i \in DOMAIN shapes[j] : shapes[j][i] \in T,
           NEW axis \in 1..LongestShape(shapes)
    PROVE  /\ DOMAIN DimsAt(shapes, axis) = DOMAIN shapes
           /\ \A j \in DOMAIN shapes : DimsAt(shapes, axis)[j] \in T
<1>1. DOMAIN DimsAt(shapes, axis) = DOMAIN shapes
  BY DEF DimsAt
<1>2. ASSUME NEW j \in DOMAIN shapes
      PROVE  DimsAt(shapes, axis)[j] \in T
  <2> DEFINE m == LongestShape(shapes)
             n == Len(shapes[j])
             at == axis - m + n
  <2>1. DimsAt(shapes, axis)[j] = IF at > 0 THEN shapes[j][at] ELSE 1
    BY DEF DimsAt
  <2>2. m \in Nat /\ n \in Nat /\ n <= m /\ DOMAIN shapes[j] = 1..n
    BY LongestFacts
  <2>3. axis \in 1..m
    OBVIOUS
  <2> HIDE DEF m, n
  <2>4. at > 0 => at \in 1..n
    BY <2>2, <2>3
  <2> HIDE DEF at
  <2>5. at > 0 => shapes[j][at] \in T
    BY <2>2, <2>4
  <2>. QED
    BY <2>1, <2>5
<1>. QED
  BY <1>1, <1>2

LEMMA BroadcastShapeFacts ==
    ASSUME NEW shapes, Shaped(shapes), NEW T, 1 \in T,
           \A j \in DOMAIN shapes : \A i \in DOMAIN shapes[j] : shapes[j][i] \in T
    PROVE  /\ BroadcastShape(shapes) \in Seq(T)
           /\ Len(BroadcastShape(shapes)) = LongestShape(shapes)
<1> DEFINE m == LongestShape(shapes)
<1>1. m \in Nat
  BY LongestFacts
<1>2. ASSUME NEW axis \in 1..m
      PROVE  BroadcastDim(DimsAt(shapes, axis)) \in T
  <2> DEFINE dims == DimsAt(shapes, axis)
  <2>1. DOMAIN dims = DOMAIN shapes /\ \A j \in DOMAIN shapes : dims[j] \in T
    BY DimsFacts
  <2> HIDE DEF dims
  <2>2. CASE DOMAIN shapes = 1..2
    <3>1. 2 \in Nat
      OBVIOUS
    <3>2. BroadcastDim(dims) \in T
      BY <2>1, <2>2, <3>1, BroadcastDimIn
    <3>. QED
      BY <3>2 DEF dims
  <2>3. CASE DOMAIN shapes = 1..3
    <3>1. 3 \in Nat
      OBVIOUS
    <3>2. BroadcastDim(dims) \in T
      BY <2>1, <2>3, <3>1, BroadcastDimIn
    <3>. QED
      BY <3>2 DEF dims
  <2>. QED
    BY <2>2, <2>3 DEF Shaped
<1>3. BroadcastShape(shapes) \in [1..m -> T]
  BY <1>2 DEF BroadcastShape
<1> HIDE DEF m
<1>4. BroadcastShape(shapes) \in Seq(T)
  BY <1>1, <1>3, FunctionIsSequence
<1>5. Len(BroadcastShape(shapes)) = m
  BY <1>1, <1>3, <1>4
<1>. QED
  BY <1>4, <1>5 DEF m

\* The dimensions of a shape are those of the result, or ones.
Conforms(shapes, j, out) ==
    \A axis \in 1..LongestShape(shapes) : DimsAt(shapes, axis)[j] \in {1, out[axis]}

LEMMA BroadcastCovers ==
    ASSUME NEW shapes, Shaped(shapes), NEW j \in DOMAIN shapes, NEW out, Conforms(shapes, j, out),
           NEW coords \in Seq(Nat), Len(coords) = LongestShape(shapes), Inside(coords, out)
    PROVE  Stretches(shapes[j], coords)
<1> SUFFICES ASSUME NEW i \in DOMAIN shapes[j]
             PROVE  \/ shapes[j][i] = 1
                    \/ coords[Len(coords) - Len(shapes[j]) + i] \in 0..shapes[j][i] - 1
  BY DEF Stretches
<1> DEFINE axis == LongestShape(shapes) - Len(shapes[j]) + i
<1>1. axis \in 1..LongestShape(shapes) /\ DimsAt(shapes, axis)[j] = shapes[j][i]
  BY Aligned
<1>2. shapes[j][i] \in {1, out[axis]}
  BY <1>1 DEF Conforms
<1>3. DOMAIN coords = 1..LongestShape(shapes)
  OBVIOUS
<1>4. coords[axis] \in 0..out[axis] - 1
  BY <1>1, <1>3, Zenon DEF Inside
<1>5. Len(coords) - Len(shapes[j]) + i = axis
  OBVIOUS
<1> HIDE DEF axis
<1>. QED
  BY <1>2, <1>4, <1>5

LEMMA NotThrown ==
    ASSUME NEW shapes, ~BroadcastThrows(shapes), NEW j \in DOMAIN shapes
    PROVE  Conforms(shapes, j, BroadcastShape(shapes))
BY DEF BroadcastThrows, Conforms

LEMMA BinaryReads ==
    ASSUME NEW x, TensorFits(x[1]), TensorFits(x[2]), Binary(x).status = "ok"
    PROVE  Reads(Binary(x), x)
<1> DEFINE r == Binary(x)
           shapes == <<x[1].shape, x[2].shape>>
           m == LongestShape(shapes)
           dims == [axis \in 1..m |-> DimsAt(shapes, axis)]
           shape == [axis \in DOMAIN dims |->
                       IF dims[axis][1] = 1 THEN dims[axis][2] ELSE dims[axis][1]]
           refused == ~Float(x) \/ \E axis \in DOMAIN dims :
                         dims[axis][1] # dims[axis][2] /\ 1 \notin Range(dims[axis])
           negative == \E i \in DOMAIN shape : shape[i] < 0
           terms(k) == {<<AtBroadcast(x, 1, Coordinates(k - 1, shape)),
                          AtBroadcast(x, 2, Coordinates(k - 1, shape))>>}
<1>1. r = IF refused THEN Thrown ELSE IF negative THEN Thrown
          ELSE [status |-> "ok", dtype |-> "FLOAT32", shape |-> shape,
                elements |-> [k \in 1..Numel(shape) |-> terms(k)]]
  BY Zenon DEF Binary, Result
<1>2. ~refused /\ r.elements = [k \in 1..Numel(shape) |-> terms(k)]
  <2> HIDE DEF terms, negative, refused
  <2>1. ~refused /\ ~negative
    BY <1>1 DEF Thrown
  <2>2. r = [status |-> "ok", dtype |-> "FLOAT32", shape |-> shape,
             elements |-> [k \in 1..Numel(shape) |-> terms(k)]]
    BY <1>1, <2>1, Zenon
  <2> HIDE DEF r
  <2>. QED
    BY <2>1, <2>2
<1>3. x[1].shape \in Seq(Nat) /\ x[2].shape \in Seq(Nat)
  BY DEF TensorFits
<1>4. /\ Shaped(shapes) /\ DOMAIN shapes = 1..2
      /\ shapes[1] = x[1].shape /\ shapes[2] = x[2].shape
      /\ \A j \in DOMAIN shapes : \A i \in DOMAIN shapes[j] : shapes[j][i] \in Nat
  BY <1>3 DEF Shaped
<1> HIDE DEF shapes
<1>5. m \in Nat
  BY <1>4, LongestFacts
<1>6. ASSUME NEW axis \in 1..m
      PROVE  /\ shape[axis] \in Nat
             /\ \A j \in DOMAIN shapes : DimsAt(shapes, axis)[j] \in {1, shape[axis]}
  <2> DEFINE d == DimsAt(shapes, axis)
  <2>1. DOMAIN d = 1..2 /\ d[1] \in Nat /\ d[2] \in Nat
    <3>1. 1 \in Nat
      OBVIOUS
    <3>2. DOMAIN DimsAt(shapes, axis) = DOMAIN shapes
          /\ \A j \in DOMAIN shapes : DimsAt(shapes, axis)[j] \in Nat
      BY <1>4, <3>1, DimsFacts
    <3>. QED
      BY <1>4, <3>2
  <2>2. shape[axis] = IF d[1] = 1 THEN d[2] ELSE d[1]
    OBVIOUS
  <2>3. d[1] = d[2] \/ 1 \in Range(d)
    <3>1. dims[axis] = d /\ axis \in DOMAIN dims
      OBVIOUS
    <3>. QED
      BY <1>2, <3>1, Zenon
  <2>4. d[1] = d[2] \/ d[1] = 1 \/ d[2] = 1
    <3>1. DOMAIN d = {1, 2}
      BY <2>1
    <3> HIDE DEF d
    <3>. QED
      BY <2>3, <3>1 DEF Range
  <2> HIDE DEF d, shape
  <2>5. shape[axis] \in Nat /\ d[1] \in {1, shape[axis]} /\ d[2] \in {1, shape[axis]}
    BY <2>1, <2>2, <2>4
  <2>6. \A j \in DOMAIN shapes : d[j] \in {1, shape[axis]}
    BY <1>4, <2>5
  <2>. QED
    BY <2>5, <2>6 DEF d
<1>7. shape \in [1..m -> Nat]
  BY <1>6
<1> HIDE DEF shape, m
<1>8. shape \in Seq(Nat) /\ Len(shape) = m
  BY <1>5, <1>7, FunctionIsSequence
<1>9. ASSUME NEW k \in 1..Numel(shape) PROVE \A term \in terms(k) : TermStored(x, term)
  <2> DEFINE o == Coordinates(k - 1, shape)
  <2>1. Inside(o, shape) /\ o \in Seq(Nat) /\ Len(o) = LongestShape(shapes)
    BY <1>8, ElementInside, CoordinatesSequence DEF m
  <2> HIDE DEF o
  <2>2. ASSUME NEW j \in DOMAIN shapes
        PROVE  Stretches(shapes[j], o)
    <3>1. Conforms(shapes, j, shape)
      BY <1>6 DEF m, Conforms
    <3>2. Shaped(shapes)
      BY <1>4
    <3>. QED
      BY <2>1, <3>1, <3>2, BroadcastCovers
  <2>3. Stored(x, AtBroadcast(x, 1, o)) /\ Stored(x, AtBroadcast(x, 2, o))
    BY <1>4, <2>2, AtBroadcastStored
  <2>4. TermStored(x, <<AtBroadcast(x, 1, o), AtBroadcast(x, 2, o)>>)
    BY <2>3, TwoStored
  <2>. QED
    BY <2>4 DEF o
<1> HIDE DEF terms, r
<1>10. Reads(r, x)
  BY <1>2, <1>9, Zenon DEF Reads
<1>. QED
  BY <1>10 DEF r

LEMMA CastReads ==
    ASSUME NEW x, NEW c, TensorFits(x[1]), CastOp(x, c).status = "ok"
    PROVE  Reads(CastOp(x, c), x)
<1> DEFINE r == CastOp(x, c)
           to == GetAttr(c, "to", 0)
           shape == x[1].shape
           negative == \E i \in DOMAIN shape : shape[i] < 0
           terms(k) == {<<At(x, 1, Coordinates(k - 1, shape))>>}
<1>1. r = IF to \notin {1, 2, 6, 7, 9} THEN Thrown ELSE IF negative THEN Thrown
          ELSE [status |-> "ok", dtype |-> OnnxDtypes[to], shape |-> shape,
                elements |-> [k \in 1..Numel(shape) |-> terms(k)]]
  BY Zenon DEF CastOp, Result
<1>2. r.elements = [k \in 1..Numel(shape) |-> terms(k)]
  <2> HIDE DEF terms, negative
  <2>. QED
    BY <1>1 DEF Thrown
<1>3. shape \in Seq(Nat)
  BY DEF TensorFits
<1>4. ASSUME NEW k \in 1..Numel(shape) PROVE \A term \in terms(k) : TermStored(x, term)
  <2>1. Inside(Coordinates(k - 1, shape), x[1].shape)
    BY <1>3, ElementInside
  <2>. QED
    BY <2>1, AtStored, OneStored
<1> HIDE DEF terms, r
<1>5. Reads(r, x)
  BY <1>2, <1>4, Zenon DEF Reads
<1>. QED
  BY <1>5 DEF r

LEMMA LiteralStored == ASSUME NEW x, NEW v PROVE TermStored(x, << <<0, v>> >>)
<1>1. <<0, v>>[1] = 0
  OBVIOUS
<1>. QED
  BY <1>1, OneStored, Zenon DEF Stored

LEMMA ConstantReads ==
    ASSUME NEW x, NEW c, ConstantOp(c).status = "ok"
    PROVE  Reads(ConstantOp(c), x)
<1> DEFINE r == ConstantOp(c)
           v == c.attrs["value"].tensor
           shape == v.shape
           negative == \E i \in DOMAIN shape : shape[i] < 0
           terms(k) == {<< <<0, v.data[1 + TensorOffset(v, Coordinates(k - 1, shape))]>> >>}
<1>1. r = IF "value" \notin DOMAIN c.attrs THEN Thrown
          ELSE IF c.attrs["value"].type # "TENSOR" THEN Thrown
          ELSE IF negative THEN Thrown
          ELSE [status |-> "ok", dtype |-> v.dtype, shape |-> shape,
                elements |-> [k \in 1..Numel(shape) |-> terms(k)]]
  BY Zenon DEF ConstantOp, Result
<1>2. r.elements = [k \in 1..Numel(shape) |-> terms(k)]
  <2> HIDE DEF terms, negative
  <2>. QED
    BY <1>1 DEF Thrown
<1>3. \A k \in 1..Numel(shape) : \A term \in terms(k) : TermStored(x, term)
  BY LiteralStored
<1> HIDE DEF terms, r
<1>4. Reads(r, x)
  BY <1>2, <1>3, Zenon DEF Reads
<1>. QED
  BY <1>4 DEF r

LEMMA ShapeReads ==
    ASSUME NEW x, NEW c, ShapeOp(x, c).status = "ok"
    PROVE  Reads(ShapeOp(x, c), x)
<1> DEFINE r == ShapeOp(x, c)
           rank == Len(x[1].shape)
           start == Bound(GetAttr(c, "start", 0), rank)
           end == Max({start, Bound(GetAttr(c, "end", rank), rank)})
           shape == <<end - start>>
           negative == \E i \in DOMAIN shape : shape[i] < 0
           terms(k) == {<< <<0, x[1].shape[start + Coordinates(k - 1, shape)[1] + 1]>> >>}
<1>1. r = IF negative THEN Thrown
          ELSE [status |-> "ok", dtype |-> "INT64", shape |-> shape,
                elements |-> [k \in 1..Numel(shape) |-> terms(k)]]
  BY Zenon DEF ShapeOp, Result
<1>2. r.elements = [k \in 1..Numel(shape) |-> terms(k)]
  <2> HIDE DEF terms, negative, shape
  <2>. QED
    BY <1>1 DEF Thrown
<1> HIDE DEF shape
<1>3. \A k \in 1..Numel(shape) : \A term \in terms(k) : TermStored(x, term)
  BY LiteralStored
<1> HIDE DEF terms, r
<1>4. Reads(r, x)
  BY <1>2, <1>3, Zenon DEF Reads
<1>. QED
  BY <1>4 DEF r

-----------------------------------------------------------------------------
(* bert.cpp: broadcasts and reshapes *)

\* int64_values of a vector: as many integers as its one dimension says.
LEMMA Int64Facts ==
    ASSUME NEW t, TensorFits(t), Len(t.shape) = 1
    PROVE  Int64Values(t) \in Seq(Int) /\ DOMAIN Int64Values(t) = 1..Len(Int64Values(t))
<1>1. t.shape \in Seq(Nat) /\ t.data \in Seq(Int)
  BY DEF TensorFits
<1>2. t.shape[1] \in Nat /\ DOMAIN t.shape = 1..1
  BY <1>1
<1>3. Numel(t.shape) = t.shape[1]
  <2>1. Behind(t.shape, 0) = t.shape[1] * Behind(t.shape, 1) /\ Behind(t.shape, 1) = 1
    <3>1. 1 \in 1..Len(t.shape) /\ 1 - 1 = 0
      OBVIOUS
    <3>. QED
      BY <1>1, <3>1, BehindFacts
  <2>2. Behind(t.shape, 0) = Numel(t.shape)
    BY <1>1, BehindFacts
  <2>. QED
    BY <1>2, <2>1, <2>2
<1> DEFINE n == t.shape[1]
<1>4. ASSUME NEW k \in 1..n PROVE t.data[1 + TensorOffset(t, <<k - 1>>)] \in Int
  <2> DEFINE d == <<k - 1>>
  <2>1. Inside(d, t.shape)
    <3>1. DOMAIN d = 1..1 /\ d[1] = k - 1
      OBVIOUS
    <3>2. \A i \in 1..1 : i = 1
      OBVIOUS
    <3>3. k - 1 \in 0..t.shape[1] - 1
      BY <1>2
    <3> HIDE DEF d
    <3>. QED
      BY <1>2, <3>1, <3>2, <3>3 DEF Inside
  <2> HIDE DEF d
  <2>2. TensorOffset(t, d) \in Nat /\ TensorOffset(t, d) + 1 \in DOMAIN t.data
    BY <2>1, TensorReads
  <2>3. 1 + TensorOffset(t, d) \in DOMAIN t.data
    BY <2>2
  <2>. QED
    BY <1>1, <2>3 DEF d
<1>5. Int64Values(t) \in [1..n -> Int]
  BY <1>3, <1>4 DEF Int64Values
<1> HIDE DEF n
<1>6. n \in Nat
  BY <1>2 DEF n
<1>7. Int64Values(t) \in Seq(Int)
  BY <1>5, <1>6, FunctionIsSequence
<1>. QED
  BY <1>7

LEMMA WhereReads ==
    ASSUME NEW x, TensorFits(x[1]), TensorFits(x[2]), TensorFits(x[3]), WhereOp(x).status = "ok"
    PROVE  Reads(WhereOp(x), x)
<1> DEFINE r == WhereOp(x)
           shapes == [i \in 1..3 |-> x[i].shape]
           select_x(o) == x[1].data[1 + BroadcastOffset(x[1], o)] # 0
           shape == BroadcastShape(shapes)
           refused == x[1].dtype # "BOOL" \/ x[2].dtype # x[3].dtype \/ BroadcastThrows(shapes)
           negative == \E i \in DOMAIN shape : shape[i] < 0
           term(o) == <<AtBroadcast(x, 1, o), AtBroadcast(x, IF select_x(o) THEN 2 ELSE 3, o)>>
           terms(k) == {term(Coordinates(k - 1, shape))}
<1>1. r = IF refused THEN Thrown ELSE IF negative THEN Thrown
          ELSE [status |-> "ok", dtype |-> x[2].dtype, shape |-> shape,
                elements |-> [k \in 1..Numel(shape) |-> terms(k)]]
  BY Zenon DEF WhereOp, Result
<1>2. ~refused /\ r.elements = [k \in 1..Numel(shape) |-> terms(k)]
  <2> HIDE DEF terms, negative, refused
  <2>. QED
    BY <1>1 DEF Thrown
<1>3. x[1].shape \in Seq(Nat) /\ x[2].shape \in Seq(Nat) /\ x[3].shape \in Seq(Nat)
  BY DEF TensorFits
<1>4. /\ Shaped(shapes) /\ DOMAIN shapes = 1..3
      /\ shapes[1] = x[1].shape /\ shapes[2] = x[2].shape /\ shapes[3] = x[3].shape
      /\ \A j \in DOMAIN shapes : \A i \in DOMAIN shapes[j] : shapes[j][i] \in Nat
  <2>1. /\ DOMAIN shapes = 1..3
        /\ shapes[1] = x[1].shape /\ shapes[2] = x[2].shape /\ shapes[3] = x[3].shape
    OBVIOUS
  <2> HIDE DEF shapes
  <2>2. \A j \in DOMAIN shapes : j = 1 \/ j = 2 \/ j = 3
    BY <2>1
  <2>3. \A j \in DOMAIN shapes : shapes[j] \in Seq(Nat)
    BY <1>3, <2>1, <2>2, Zenon
  <2>4. \A j \in DOMAIN shapes : \A i \in DOMAIN shapes[j] : shapes[j][i] \in Nat
    <3> TAKE j \in DOMAIN shapes
    <3> DEFINE q == shapes[j]
    <3>1. q \in Seq(Nat)
      BY <2>3
    <3> HIDE DEF q
    <3>2. \A i \in DOMAIN q : q[i] \in Nat
      BY <3>1
    <3>. QED
      BY <3>2 DEF q
  <2>5. \A j \in DOMAIN shapes : shapes[j] \in Seq(Int)
    <3> TAKE j \in DOMAIN shapes
    <3> DEFINE q == shapes[j]
    <3>1. q \in Seq(Nat)
      BY <2>3
    <3> HIDE DEF q
    <3>2. q \in Seq(Int)
      BY <3>1
    <3>. QED
      BY <3>2 DEF q
  <2>6. Shaped(shapes)
    BY <2>1, <2>5, Zenon DEF Shaped
  <2>. QED
    BY <2>1, <2>4, <2>6, Zenon
<1>5. ~BroadcastThrows(shapes)
  BY <1>2
<1> HIDE DEF shapes
<1>6. shape \in Seq(Nat) /\ Len(shape) = LongestShape(shapes)
  <2>1. 1 \in Nat
    OBVIOUS
  <2>. QED
    BY <1>4, <2>1, BroadcastShapeFacts
<1>7. \A j \in DOMAIN shapes : Conforms(shapes, j, shape)
  BY <1>5, NotThrown
<1> HIDE DEF shape, select_x
<1>8. ASSUME NEW k \in 1..Numel(shape) PROVE \A u \in terms(k) : TermStored(x, u)
  <2> DEFINE o == Coordinates(k - 1, shape)
  <2>1. Inside(o, shape) /\ o \in Seq(Nat) /\ Len(o) = LongestShape(shapes)
    BY <1>6, ElementInside, CoordinatesSequence
  <2> HIDE DEF o
  <2>2. ASSUME NEW j \in DOMAIN shapes
        PROVE  Stretches(shapes[j], o)
    <3>1. Shaped(shapes)
      BY <1>4
    <3>. QED
      BY <1>7, <2>1, <3>1, BroadcastCovers
  <2>3. 1 \in DOMAIN shapes /\ 2 \in DOMAIN shapes /\ 3 \in DOMAIN shapes
    BY <1>4
  <2>4. /\ Stored(x, AtBroadcast(x, 1, o)) /\ Stored(x, AtBroadcast(x, 2, o))
        /\ Stored(x, AtBroadcast(x, 3, o))
    BY <1>4, <2>2, <2>3, AtBroadcastStored
  <2>5. Stored(x, AtBroadcast(x, IF select_x(o) THEN 2 ELSE 3, o))
    BY <2>4
  <2>6. TermStored(x, term(o))
    BY <2>4, <2>5, TwoStored
  <2>. QED
    BY <2>6 DEF o
<1> HIDE DEF terms, r
<1>9. Reads(r, x)
  BY <1>2, <1>8, Zenon DEF Reads
<1>. QED
  BY <1>9 DEF r

LEMMA PairShaped ==
    ASSUME NEW a \in Seq(Nat), NEW b \in Seq(Nat)
    PROVE  /\ Shaped(<<a, b>>) /\ DOMAIN <<a, b>> = 1..2
           /\ <<a, b>>[1] = a /\ <<a, b>>[2] = b
           /\ \A j \in DOMAIN <<a, b>> : \A i \in DOMAIN <<a, b>>[j] : <<a, b>>[j][i] \in Nat
<1> DEFINE shapes == <<a, b>>
<1>1. DOMAIN shapes = 1..2 /\ shapes[1] = a /\ shapes[2] = b
  OBVIOUS
<1>2. \A j \in 1..2 : j = 1 \/ j = 2
  OBVIOUS
<1> HIDE DEF shapes
<1>3. \A j \in DOMAIN shapes : shapes[j] \in Seq(Nat)
  BY <1>1, <1>2
<1>4. \A j \in DOMAIN shapes : shapes[j] \in Seq(Int)
  BY <1>3
<1>5. \A j \in DOMAIN shapes : \A i \in DOMAIN shapes[j] : shapes[j][i] \in Nat
  BY <1>3
<1>. QED
  BY <1>1, <1>4, <1>5 DEF Shaped, shapes

LEMMA ExpandReads ==
    ASSUME NEW x, TensorFits(x[1]), TensorFits(x[2]), Expand(x).status = "ok"
    PROVE  Reads(Expand(x), x)
<1> DEFINE r == Expand(x)
           shape == Int64Values(x[2])
           shapes == <<x[1].shape, shape>>
           unfit == BroadcastThrows(shapes) \/ BroadcastShape(shapes) # shape
           negative == \E i \in DOMAIN shape : shape[i] < 0
           terms(k) == {<<AtBroadcast(x, 1, Coordinates(k - 1, shape))>>}
<1>1. r = IF ~IsInt64Vector(x[2]) THEN Thrown ELSE IF unfit THEN Thrown
          ELSE IF negative THEN Thrown
          ELSE [status |-> "ok", dtype |-> x[1].dtype, shape |-> shape,
                elements |-> [k \in 1..Numel(shape) |-> terms(k)]]
  BY Zenon DEF Expand, Result
<1>2. /\ IsInt64Vector(x[2]) /\ ~unfit /\ ~negative
      /\ r.elements = [k \in 1..Numel(shape) |-> terms(k)]
  <2> HIDE DEF terms, negative, unfit, shape, shapes
  <2>. QED
    BY <1>1 DEF Thrown
<1>3. shape \in Seq(Nat)
  <2>1. shape \in Seq(Int)
    BY <1>2, Int64Facts DEF IsInt64Vector
  <2> HIDE DEF shape
  <2>. QED
    BY <1>2, <2>1, NotNegative
<1>4. x[1].shape \in Seq(Nat)
  BY DEF TensorFits
<1> HIDE DEF shape
<1>5. /\ Shaped(shapes) /\ DOMAIN shapes = 1..2
      /\ shapes[1] = x[1].shape
      /\ \A j \in DOMAIN shapes : \A i \in DOMAIN shapes[j] : shapes[j][i] \in Nat
  BY <1>3, <1>4, PairShaped
<1> HIDE DEF shapes
<1>6. Len(shape) = LongestShape(shapes)
  <2>1. 1 \in Nat
    OBVIOUS
  <2>2. Len(BroadcastShape(shapes)) = LongestShape(shapes)
    BY <1>5, <2>1, BroadcastShapeFacts
  <2>. QED
    BY <1>2, <2>2
<1>7. 1 \in DOMAIN shapes /\ Conforms(shapes, 1, shape)
  BY <1>2, <1>5, NotThrown
<1>8. ASSUME NEW k \in 1..Numel(shape) PROVE \A u \in terms(k) : TermStored(x, u)
  <2> DEFINE o == Coordinates(k - 1, shape)
  <2>1. Inside(o, shape) /\ o \in Seq(Nat) /\ Len(o) = LongestShape(shapes)
    BY <1>3, <1>6, ElementInside, CoordinatesSequence
  <2> HIDE DEF o
  <2>2. Stretches(shapes[1], o)
    <3>1. Shaped(shapes)
      BY <1>5
    <3>. QED
      BY <1>7, <2>1, <3>1, BroadcastCovers
  <2>3. Stored(x, AtBroadcast(x, 1, o))
    BY <1>5, <2>2, AtBroadcastStored
  <2>. QED
    BY <2>3, OneStored DEF o
<1> HIDE DEF terms, r
<1>9. Reads(r, x)
  BY <1>2, <1>8, Zenon DEF Reads
<1>. QED
  BY <1>9 DEF r

-----------------------------------------------------------------------------
(* The operators that reshape *)

LEMMA ReshapedReads ==
    ASSUME NEW x, TensorFits(x[1]), NEW shape \in Seq(Int), Reshaped(x, shape).status = "ok"
    PROVE  Reads(Reshaped(x, shape), x)
<1> DEFINE r == Reshaped(x, shape)
           negative == \E i \in DOMAIN shape : shape[i] < 0
           terms(k) == {<<AtLinear(x, 1, Linear(Coordinates(k - 1, shape), shape))>>}
<1>1. r = IF Numel(shape) # Numel(x[1].shape) THEN Thrown ELSE IF negative THEN Thrown
          ELSE [status |-> "ok", dtype |-> x[1].dtype, shape |-> shape,
                elements |-> [k \in 1..Numel(shape) |-> terms(k)]]
  BY Zenon DEF Reshaped, Result
<1>2. /\ Numel(shape) = Numel(x[1].shape) /\ ~negative
      /\ r.elements = [k \in 1..Numel(shape) |-> terms(k)]
  <2> HIDE DEF terms, negative
  <2>. QED
    BY <1>1 DEF Thrown
<1>3. shape \in Seq(Nat) /\ x[1].shape \in Seq(Nat)
  BY <1>2, NotNegative DEF TensorFits
<1>4. ASSUME NEW k \in 1..Numel(shape) PROVE \A u \in terms(k) : TermStored(x, u)
  <2> DEFINE o == Coordinates(k - 1, shape)
  <2>1. o \in Seq(Nat) /\ Len(o) = Len(shape) /\ Len(shape) \in Nat
    BY <1>3, CoordinatesSequence
  <2>2. Positive(x[1].shape)
    <3>1. k \in 1..Numel(x[1].shape)
      BY <1>2
    <3>. QED
      BY <1>3, <3>1, ElementInside
  <2> HIDE DEF o
  <2>3. Linear(o, shape) \in Nat
    <3>1. DOMAIN o = 1..Len(shape) /\ \A i \in 1..Len(shape) : o[i] \in Nat /\ shape[i] \in Nat
      BY <1>3, <2>1
    <3>. QED
      BY <2>1, <3>1, LinearNatural
  <2>4. Stored(x, AtLinear(x, 1, Linear(o, shape)))
    BY <2>2, <2>3, AtLinearStored
  <2>. QED
    BY <2>4, OneStored DEF o
<1> HIDE DEF terms, r
<1>5. Reads(r, x)
  BY <1>2, <1>4, Zenon DEF Reads
<1>. QED
  BY <1>5 DEF r

LEMMA CountIsNatural == ASSUME NEW s \in Seq(Nat) PROVE Numel(s) \in Nat
BY BehindFacts, ShapeFacts

LEMMA PartOfShape ==
    ASSUME NEW shape \in Seq(Nat), NEW a \in Nat, NEW b \in 0..Len(shape), a >= 1
    PROVE  SubSeq(shape, a, b) \in Seq(Nat)
<1>1. \A j \in a .. b : shape[j] \in Nat
  BY ShapeFacts
<1>. QED
  BY <1>1, SubSeqOfNats

LEMMA FlattenReads ==
    ASSUME NEW x, NEW c, TensorFits(x[1]), Flatten(x, c).status = "ok"
    PROVE  Reads(Flatten(x, c), x)
<1> DEFINE r == Flatten(x, c)
           dims == x[1].shape
           rank == Len(dims)
           axis == NormalizeAxis(GetAttr(c, "axis", 1), rank) - 1
           shape == <<Numel(SubSeq(dims, 1, axis)), Numel(SubSeq(dims, axis + 1, rank))>>
<1>1. r = IF axis \notin 0..rank THEN Thrown ELSE Reshaped(x, shape)
  BY Zenon DEF Flatten
<1>2. axis \in 0..rank /\ r = Reshaped(x, shape) /\ r.status = "ok"
  <2> HIDE DEF shape, axis
  <2>. QED
    BY <1>1 DEF Thrown
<1>3. dims \in Seq(Nat)
  BY DEF TensorFits
<1> HIDE DEF dims, axis
<1>4. shape \in Seq(Int)
  <2>1. rank \in Nat
    BY <1>3
  <2> HIDE DEF rank
  <2>2. axis \in Nat /\ axis + 1 \in Nat /\ axis + 1 >= 1 /\ rank \in 0..rank /\ 1 \in Nat /\ 1 >= 1
    BY <1>2, <2>1
  <2>3. Numel(SubSeq(dims, 1, axis)) \in Nat /\ Numel(SubSeq(dims, axis + 1, rank)) \in Nat
    BY <1>2, <1>3, <2>2, PartOfShape, CountIsNatural DEF rank
  <2>. QED
    BY <2>3
<1> HIDE DEF shape, r
<1>5. Reads(r, x)
  BY <1>2, <1>4, ReshapedReads
<1>. QED
  BY <1>5 DEF r

DroppedStep(w, shape, axes) ==
    [s \in SUBSET DOMAIN shape |->
        IF s = {} THEN <<>>
        ELSE IF Max(s) \in axes THEN w[s \ {Max(s)}]
        ELSE Append(w[s \ {Max(s)}], shape[Max(s)])]

LEMMA DroppedIsLast ==
    ASSUME NEW shape, NEW axes, NEW n \in Nat, DOMAIN shape = 1..n
    PROVE  Dropped(shape, axes) = (CHOOSE w : w = DroppedStep(w, shape, axes))[DOMAIN shape]
<1> DEFINE places == [i \in DOMAIN shape |-> i]
           Raw(w) == [s \in SUBSET DOMAIN places |->
                        IF s = {} THEN <<>>
                        ELSE IF places[Max(s)] \in axes THEN w[s \ {Max(s)}]
                        ELSE Append(w[s \ {Max(s)}], shape[places[Max(s)]])]
<1>1. Dropped(shape, axes) = (CHOOSE w : w = Raw(w))[DOMAIN places]
  BY DEF Dropped, FoldLeft, MapThenFoldSet
<1>2. DOMAIN places = DOMAIN shape
  OBVIOUS
<1>3. \A s \in SUBSET DOMAIN shape : s # {} => places[Max(s)] = Max(s)
  BY LargestIn
<1>4. \A w : Raw(w) = DroppedStep(w, shape, axes)
  <2> TAKE w
  <2>1. \A s \in SUBSET DOMAIN shape :
           (IF s = {} THEN <<>>
            ELSE IF places[Max(s)] \in axes THEN w[s \ {Max(s)}]
            ELSE Append(w[s \ {Max(s)}], shape[places[Max(s)]]))
         = (IF s = {} THEN <<>>
            ELSE IF Max(s) \in axes THEN w[s \ {Max(s)}]
            ELSE Append(w[s \ {Max(s)}], shape[Max(s)]))
    <3> HIDE DEF places
    <3>. QED
      BY <1>3
  <2> HIDE DEF places
  <2>. QED
    BY <1>2, <2>1 DEF DroppedStep
<1> HIDE DEF Raw, places
<1>. QED
  BY <1>1, <1>2, <1>4

LEMMA DroppedFacts ==
    ASSUME NEW shape \in Seq(Nat), NEW axes
    PROVE  Dropped(shape, axes) \in Seq(Nat)
<1> DEFINE n == Len(shape)
           D == 1..n
           S == Seq(Nat)
           next == [p \in S \X D |-> IF p[2] \in axes THEN p[1] ELSE Append(p[1], shape[p[2]])]
           Q == CHOOSE w : w = DroppedStep(w, shape, axes)
<1>1. n \in Nat /\ DOMAIN shape = D /\ \A i \in D : shape[i] \in Nat
  BY ShapeFacts
<1> HIDE DEF n
<1>2. Descent(S, <<>>, next, n)
  <2>1. \A a \in S, i \in D : Append(a, shape[i]) \in S
    BY <1>1
  <2>2. <<>> \in S
    OBVIOUS
  <2>3. next \in [S \X D -> S]
    <3> HIDE DEF S, D
    <3>. QED
      BY <2>1
  <2>. QED
    BY <1>1, <2>2, <2>3 DEF Descent
<1>3. \A a \in S, i \in D :
        next[<<a, i>>] = IF i \in axes THEN a ELSE Append(a, shape[i])
  OBVIOUS
<1> HIDE DEF next, S
<1>4. PICK w : Descends(w, S, <<>>, next, n)
  BY <1>2, DescentExists
<1>5. \A s \in SUBSET D : s # {} => Max(s) \in s /\ Max(s) \in D
  BY <1>1, LargestIn
<1>6. w = DroppedStep(w, shape, axes)
  <2>1. \A s \in SUBSET D : s # {} => w[s \ {Max(s)}] \in S
    BY <1>4 DEF Descends
  <2>2. \A s \in SUBSET D : s # {} =>
           next[<<w[s \ {Max(s)}], Max(s)>>]
             = IF Max(s) \in axes THEN w[s \ {Max(s)}]
               ELSE Append(w[s \ {Max(s)}], shape[Max(s)])
    BY <1>3, <1>5, <2>1
  <2>3. DescentStep(w, <<>>, next, n) = DroppedStep(w, shape, axes)
    BY <1>1, <2>2 DEF DescentStep, DroppedStep
  <2>. QED
    BY <1>4, <2>3 DEF Descends
<1>7. Q = DroppedStep(Q, shape, axes)
  BY <1>6
<1> HIDE DEF Q
<1>8. \A s \in SUBSET D : Q[s] = IF s = {} THEN <<>>
                                  ELSE IF Max(s) \in axes THEN Q[s \ {Max(s)}]
                                  ELSE Append(Q[s \ {Max(s)}], shape[Max(s)])
  BY <1>1, <1>7 DEF DroppedStep
<1>9. DescendsWithin(Q, S, <<>>, next, n)
  BY <1>3, <1>5, <1>8 DEF DescendsWithin
<1>10. Q[D] \in S
  BY <1>2, <1>9, DescentTyped
<1>11. Dropped(shape, axes) = Q[D]
  BY <1>1, DroppedIsLast DEF Q
<1>. QED
  BY <1>10, <1>11 DEF S

LEMMA ReshapeReads ==
    ASSUME NEW x, NEW c, TensorFits(x[1]), TensorFits(x[2]), ReshapeOp(x, c).status = "ok"
    PROVE  Reads(ReshapeOp(x, c), x)
<1> DEFINE r == ReshapeOp(x, c)
           dims == Int64Values(x[2])
           open == {i \in DOMAIN dims : dims[i] = -1}
           copied == {i \in DOMAIN dims : dims[i] = 0 /\ GetAttr(c, "allowzero", 0) = 0}
           known == [i \in DOMAIN dims |-> IF i \in open THEN 1
                                           ELSE IF i \in copied THEN x[1].shape[i] ELSE dims[i]]
           inferred == Inferred(Numel(known), Numel(x[1].shape))
           refused == \/ ~IsInt64Vector(x[2])
                      \/ Cardinality(open) > 1
                      \/ ~(copied \subseteq DOMAIN x[1].shape)
                      \/ \E i \in DOMAIN dims : dims[i] < -1
                      \/ open # {} /\ inferred = {}
           shape == [i \in DOMAIN dims |-> IF i \in open THEN CHOOSE d \in inferred : TRUE
                                           ELSE known[i]]
<1>1. r = IF refused THEN Thrown ELSE Reshaped(x, shape)
  BY Zenon DEF ReshapeOp
<1>2. ~refused /\ r = Reshaped(x, shape) /\ r.status = "ok"
  <2> HIDE DEF refused, shape
  <2>. QED
    BY <1>1 DEF Thrown
<1>3. /\ IsInt64Vector(x[2]) /\ copied \subseteq DOMAIN x[1].shape
      /\ \A i \in DOMAIN dims : ~(dims[i] < -1)
      /\ open # {} => inferred # {}
  BY <1>2
<1>4. dims \in Seq(Int) /\ DOMAIN dims = 1..Len(dims) /\ Len(dims) \in Nat
  BY <1>3, Int64Facts DEF IsInt64Vector
<1>5. \A i \in DOMAIN x[1].shape : x[1].shape[i] \in Nat
  BY DEF TensorFits
<1> HIDE DEF dims, refused
<1>6. known \in [1..Len(dims) -> Nat]
  <2>1. ASSUME NEW i \in 1..Len(dims) PROVE known[i] \in Nat
    <3>1. CASE i \in open
      BY <1>4, <3>1
    <3>2. CASE i \notin open /\ i \in copied
      BY <1>3, <1>4, <1>5, <3>2
    <3>3. CASE i \notin open /\ i \notin copied
      <4>1. dims[i] \in Int /\ ~(dims[i] < -1) /\ dims[i] # -1
        BY <1>3, <1>4, <3>3
      <4>2. known[i] = dims[i]
        BY <1>4, <3>3
      <4>. QED
        BY <4>1, <4>2
    <3>. QED
      BY <3>1, <3>2, <3>3
  <2>. QED
    BY <1>4, <2>1
<1> HIDE DEF known, copied
<1>7. known \in Seq(Nat)
  BY <1>4, <1>6, FunctionIsSequence
<1>8. \A d \in inferred : d \in Nat
  <2>1. Numel(known) \in Nat /\ Numel(x[1].shape) \in Nat
    BY <1>7, CountIsNatural DEF TensorFits
  <2>2. Numel(known) # 0 => Numel(x[1].shape) \div Numel(known) \in Nat
    BY <2>1, Division
  <2>. QED
    BY <2>1, <2>2 DEF Inferred
<1> HIDE DEF inferred
<1>9. shape \in [1..Len(dims) -> Int]
  <2>1. open # {} => (CHOOSE d \in inferred : TRUE) \in Nat
    BY <1>3, <1>8
  <2>2. \A i \in 1..Len(dims) : known[i] \in Int
    BY <1>6
  <2>3. \A i \in 1..Len(dims) : shape[i] \in Int
    <3>1. \A i \in 1..Len(dims) : i \in open => open # {}
      OBVIOUS
    <3>2. \A i \in 1..Len(dims) : shape[i] = IF i \in open THEN CHOOSE d \in inferred : TRUE
                                             ELSE known[i]
      BY <1>4
    <3> HIDE DEF shape, open
    <3>. QED
      BY <2>1, <2>2, <3>1, <3>2
  <2>4. shape = [i \in 1..Len(dims) |-> shape[i]]
    BY <1>4
  <2> HIDE DEF shape
  <2>. QED
    BY <2>3, <2>4
<1> HIDE DEF shape, r
<1>10. shape \in Seq(Int)
  BY <1>4, <1>9, FunctionIsSequence
<1>11. Reads(r, x)
  BY <1>2, <1>10, ReshapedReads
<1>. QED
  BY <1>11 DEF r

\* The axes given to unsqueeze and squeeze are integers.
LEMMA AxesFacts ==
    ASSUME NEW x, NEW c \in Calls, Has(x, 2) => TensorFits(x[2]), ~AxesThrow(x)
    PROVE  /\ AxesGiven(x, c) \in Seq(Int)
           /\ Len(AxesGiven(x, c)) \in Nat /\ DOMAIN AxesGiven(x, c) = 1..Len(AxesGiven(x, c))
<1>1. AxesGiven(x, c) \in Seq(Int)
  <2>1. CASE Has(x, 2)
    <3>1. AxesGiven(x, c) = Int64Values(x[2]) /\ Len(x[2].shape) = 1
      BY <2>1 DEF AxesGiven, AxesThrow, IsInt64Vector
    <3>. QED
      BY <2>1, <3>1, Int64Facts
  <2>2. CASE ~Has(x, 2) /\ "axes" \in DOMAIN c.attrs
    <3>1. AxesGiven(x, c) = c.attrs["axes"]
      BY <2>2 DEF AxesGiven, GetAttr
    <3>2. c.attrs["axes"] \in Seq(Int)
      BY <2>2, CallsAssumption
    <3>. QED
      BY <3>1, <3>2
  <2>3. CASE ~Has(x, 2) /\ "axes" \notin DOMAIN c.attrs
    BY <2>3 DEF AxesGiven, GetAttr
  <2>. QED
    BY <2>1, <2>2, <2>3
<1>. QED
  BY <1>1

LEMMA SqueezeReads ==
    ASSUME NEW x, NEW c \in Calls, TensorFits(x[1]), Has(x, 2) => TensorFits(x[2]),
           Squeeze(x, c).status = "ok"
    PROVE  Reads(Squeeze(x, c), x)
<1> DEFINE r == Squeeze(x, c)
           axes == AxesGiven(x, c)
           shape == x[1].shape
           ones == {i \in DOMAIN shape : shape[i] = 1}
           normalized == NormalizedAxes(axes, Len(shape))
<1>1. r = IF AxesThrow(x) THEN Thrown
          ELSE IF axes = <<>> THEN Reshaped(x, Dropped(shape, ones))
          ELSE IF ~AxesValid(axes, Len(shape)) \/ ~(normalized \subseteq ones) THEN Thrown
          ELSE Reshaped(x, Dropped(shape, normalized))
  BY Zenon DEF Squeeze
<1>2. r.status = "ok"
  OBVIOUS
<1> HIDE DEF axes, ones, normalized
<1>3. r = Reshaped(x, Dropped(shape, ones)) \/ r = Reshaped(x, Dropped(shape, normalized))
  BY <1>1, <1>2 DEF Thrown
<1>4. shape \in Seq(Nat)
  BY DEF TensorFits
<1> HIDE DEF shape, r
<1>5. Dropped(shape, ones) \in Seq(Int) /\ Dropped(shape, normalized) \in Seq(Int)
  BY <1>4, DroppedFacts
<1>6. Reads(r, x)
  BY <1>2, <1>3, <1>5, ReshapedReads
<1>. QED
  BY <1>6 DEF r

Below(N, i) == {j \in N : j < i}
Above(N, i) == {j \in N : j > i}

LEMMA SplitAround ==
    ASSUME NEW m \in Nat, NEW N, NEW i \in Int,
           \A j \in N : j \in Int /\ 1 <= j /\ j <= m /\ j # i
    PROVE  /\ Below(N, i) \subseteq 1..i - 1 /\ Above(N, i) \subseteq i + 1..m
           /\ N = Below(N, i) \cup Above(N, i) /\ Below(N, i) \cap Above(N, i) = {}
BY DEF Below, Above

LEMMA InsertedAxis ==
    ASSUME NEW m \in Nat, NEW N, N \subseteq 1..m, NEW i \in 1..m, i \notin N
    PROVE  i - Cardinality(Below(N, i)) \in 1..m - Cardinality(N)
<1> DEFINE L == Below(N, i)
           H == Above(N, i)
<1>1. i \in Int /\ \A j \in N : j \in Int /\ 1 <= j /\ j <= m /\ j # i
  OBVIOUS
<1>2. L \subseteq 1..i - 1 /\ H \subseteq i + 1..m /\ N = L \cup H /\ L \cap H = {}
  BY <1>1, SplitAround
<1> HIDE DEF L, H
<1>3. IsFiniteSet(1..i - 1) /\ Cardinality(1..i - 1) = i - 1
  BY FS_Interval
<1>4. IsFiniteSet(i + 1..m) /\ Cardinality(i + 1..m) = m - i
  BY FS_Interval
<1>5. IsFiniteSet(L) /\ Cardinality(L) <= i - 1
  BY <1>2, <1>3, FS_Subset
<1>6. IsFiniteSet(H) /\ Cardinality(H) <= m - i
  BY <1>2, <1>4, FS_Subset
<1>7. Cardinality(L \cup H) = Cardinality(L) + Cardinality(H) - Cardinality(L \cap H)
  BY <1>5, <1>6, FS_Union
<1>8. Cardinality(L) \in Nat /\ Cardinality(H) \in Nat
  BY <1>5, <1>6, FS_CardinalityType
<1>9. Cardinality(N) = Cardinality(L) + Cardinality(H)
  <2>1. Cardinality(L \cap H) = 0
    BY <1>2, FS_EmptySet
  <2>2. Cardinality(L \cup H) = Cardinality(L) + Cardinality(H)
    BY <1>7, <1>8, <2>1
  <2>. QED
    BY <1>2, <2>2
<1>10. i - Cardinality(L) \in 1..m - Cardinality(N)
  BY <1>5, <1>6, <1>8, <1>9
<1>. QED
  BY <1>10 DEF L

\* As many axes as were given.
LEMMA DistinctAxes ==
    ASSUME NEW axes \in Seq(Int), NEW rank, AxesValid(axes, rank)
    PROVE  /\ NormalizedAxes(axes, rank) \subseteq 1..rank
           /\ Cardinality(NormalizedAxes(axes, rank)) = Len(axes)
<1> DEFINE f == [k \in DOMAIN axes |-> NormalizeAxis(axes[k], rank)]
           T == NormalizedAxes(axes, rank)
<1>1. Range(f) \subseteq 1..rank /\ IsInjective(f)
  BY DEF AxesValid
<1>2. T = Range(f)
  BY DEF NormalizedAxes, Range
<1>3. DOMAIN f = 1..Len(axes) /\ Len(axes) \in Nat
  OBVIOUS
<1> HIDE DEF f, T
<1>4. f \in Bijection(1..Len(axes), T)
  <2>1. f = [k \in 1..Len(axes) |-> f[k]]
    BY <1>3 DEF f
  <2>2. \A k \in 1..Len(axes) : f[k] \in T
    BY <1>2, <1>3 DEF Range
  <2>3. f \in [1..Len(axes) -> T]
    BY <2>1, <2>2
  <2>4. IsInjective(f)
    BY <1>1
  <2>5. \A t \in T : \E k \in 1..Len(axes) : f[k] = t
    BY <1>2, <1>3 DEF Range
  <2>. QED
    BY <2>3, <2>4, <2>5 DEF Bijection, Injection, Surjection
<1>5. IsFiniteSet(1..Len(axes)) /\ Cardinality(1..Len(axes)) = Len(axes)
  BY <1>3, FS_Interval
<1>6. ExistsBijection(1..Len(axes), T)
  BY <1>4 DEF ExistsBijection
<1>7. Cardinality(T) = Len(axes)
  BY <1>5, <1>6, FS_Bijection
<1>. QED
  BY <1>1, <1>2, <1>7 DEF T

LEMMA UnsqueezeReads ==
    ASSUME NEW x, NEW c \in Calls, TensorFits(x[1]), Has(x, 2) => TensorFits(x[2]),
           Unsqueeze(x, c).status = "ok"
    PROVE  Reads(Unsqueeze(x, c), x)
<1> DEFINE r == Unsqueeze(x, c)
           axes == AxesGiven(x, c)
           dims == x[1].shape
           rank == Len(dims) + Len(axes)
           normalized == NormalizedAxes(axes, rank)
           input_axis(i) == i - Cardinality({j \in normalized : j < i})
           shape == [i \in 1..rank |-> IF i \in normalized THEN 1 ELSE dims[input_axis(i)]]
<1>1. r = IF AxesThrow(x) \/ ~AxesValid(axes, rank) THEN Thrown ELSE Reshaped(x, shape)
  BY Zenon DEF Unsqueeze
<1>2. ~AxesThrow(x) /\ AxesValid(axes, rank) /\ r = Reshaped(x, shape) /\ r.status = "ok"
  <2> HIDE DEF axes, shape, rank
  <2>. QED
    BY <1>1 DEF Thrown
<1>3. axes \in Seq(Int) /\ Len(axes) \in Nat
  BY <1>2, AxesFacts
<1>4. dims \in Seq(Nat) /\ Len(dims) \in Nat /\ \A i \in 1..Len(dims) : dims[i] \in Nat
  <2>1. dims \in Seq(Nat)
    BY DEF TensorFits
  <2>. QED
    BY <2>1, ShapeFacts
<1> HIDE DEF axes, dims
<1>5. rank \in Nat /\ rank - Len(axes) = Len(dims)
  BY <1>3, <1>4
<1> HIDE DEF rank
<1>6. normalized \subseteq 1..rank /\ Cardinality(normalized) = Len(axes)
  BY <1>2, <1>3, DistinctAxes
<1> HIDE DEF normalized
<1>7. \A i \in 1..rank : i \notin normalized => input_axis(i) \in 1..Len(dims)
  BY <1>5, <1>6, InsertedAxis DEF Below
<1> HIDE DEF input_axis
<1>8. shape \in [1..rank -> Int]
  BY <1>4, <1>7
<1> HIDE DEF shape, r
<1>9. shape \in Seq(Int)
  BY <1>5, <1>8, FunctionIsSequence
<1>10. Reads(r, x)
  BY <1>2, <1>9, ReshapedReads
<1>. QED
  BY <1>10 DEF r

-----------------------------------------------------------------------------
(* bert.cpp: parts and lines of a tensor *)

LEMMA ElementLinear ==
    ASSUME NEW shape \in Seq(Nat), NEW k \in 1..Numel(shape)
    PROVE  Linear(Coordinates(k - 1, shape), shape) \in Nat
<1> DEFINE o == Coordinates(k - 1, shape)
<1>1. o \in Seq(Nat) /\ Len(o) = Len(shape) /\ Len(shape) \in Nat
  BY CoordinatesSequence
<1> HIDE DEF o
<1>2. DOMAIN o = 1..Len(shape) /\ \A i \in 1..Len(shape) : o[i] \in Nat /\ shape[i] \in Nat
  BY <1>1
<1>3. Linear(o, shape) \in Nat
  BY <1>1, <1>2, LinearNatural
<1>. QED
  BY <1>3 DEF o

LEMMA SlicePosition ==
    ASSUME NEW dim \in Nat, NEW first \in 0..dim, NEW last \in 0..dim, NEW step \in Nat \ {0},
           NEW p \in 0..Length(first, last, step) - 1
    PROVE  first + p * step \in 0..dim - 1
<1> DEFINE n == Length(first, last, step)
<1>1. n \in Nat /\ (n > 0 => dim > 0 /\ first + (n - 1) * step <= dim - 1)
  BY SliceBounds
<1> HIDE DEF n
<1>2. p \in Nat /\ n - 1 \in Nat /\ p <= n - 1
  BY <1>1 DEF n
<1>3. p * step <= (n - 1) * step
  BY <1>2, Scaled
<1>4. p * step \in Nat /\ (n - 1) * step \in Nat
  BY <1>2
<1> DEFINE a == p * step
           b == (n - 1) * step
<1> HIDE DEF a, b
<1>5. first + b <= dim - 1
  BY <1>1, <1>2 DEF b
<1>6. a \in Nat /\ b \in Nat /\ a <= b
  BY <1>3, <1>4 DEF a, b
<1>7. first + a \in 0..dim - 1
  BY <1>5, <1>6
<1>. QED
  BY <1>7 DEF a

LEMMA SliceReads ==
    ASSUME NEW x, NEW c, Len(x) \in Nat, Has(x, 2), Has(x, 3),
           TensorFits(x[1]), \A i \in 2..5 : Has(x, i) => TensorFits(x[i]),
           SliceOp(x, c).status = "ok"
    PROVE  Reads(SliceOp(x, c), x)
<1> DEFINE r == SliceOp(x, c)
           dims == x[1].shape
           starts == Int64Values(x[2])
           ends == Int64Values(x[3])
           axes == IF Has(x, 4) THEN Int64Values(x[4]) ELSE [k \in DOMAIN starts |-> k - 1]
           steps == IF Has(x, 5) THEN Int64Values(x[5]) ELSE [k \in DOMAIN starts |-> 1]
           entries(i) == {k \in DOMAIN starts : NormalizeAxis(axes[k], Len(dims)) = i}
           begin(i) == IF entries(i) = {} THEN 0 ELSE Bound(starts[Max(entries(i))], dims[i])
           end(i) == IF entries(i) = {} THEN dims[i] ELSE Bound(ends[Max(entries(i))], dims[i])
           step(i) == IF entries(i) = {} THEN 1 ELSE steps[Max(entries(i))]
           refused == \/ \E i \in 2..Len(x) : Has(x, i) /\ ~IsInt64Vector(x[i])
                      \/ {Len(ends), Len(axes), Len(steps)} # {Len(starts)}
                      \/ \E k \in DOMAIN starts :
                            \/ NormalizeAxis(axes[k], Len(dims)) \notin DOMAIN dims
                            \/ steps[k] <= 0
           shape == [i \in DOMAIN dims |-> Length(begin(i), end(i), step(i))]
           negative == \E i \in DOMAIN shape : shape[i] < 0
           source(o) == [i \in DOMAIN o |-> begin(i) + o[i] * step(i)]
           terms(k) == {<<At(x, 1, source(Coordinates(k - 1, shape)))>>}
<1>1. r = IF refused THEN Thrown ELSE IF negative THEN Thrown
          ELSE [status |-> "ok", dtype |-> x[1].dtype, shape |-> shape,
                elements |-> [k \in 1..Numel(shape) |-> terms(k)]]
  BY Zenon DEF SliceOp, Result
<1>2. ~refused /\ r.elements = [k \in 1..Numel(shape) |-> terms(k)]
  <2> HIDE DEF terms, negative, refused, shape
  <2>. QED
    BY <1>1 DEF Thrown
<1> HIDE DEF r
<1>3. /\ \A i \in 2..5 : Has(x, i) => TensorFits(x[i]) /\ IsInt64Vector(x[i])
      /\ Len(ends) = Len(starts) /\ Len(steps) = Len(starts)
      /\ \A k \in DOMAIN starts : ~(steps[k] <= 0)
  <2>1. \A i \in 2..Len(x) : Has(x, i) => IsInt64Vector(x[i])
    BY <1>2, Zenon
  <2>2. \A i \in 2..5 : Has(x, i) => i \in 2..Len(x)
    BY DEF Has
  <2>3. \A i \in 2..5 : Has(x, i) => TensorFits(x[i])
    OBVIOUS
  <2>4. {Len(ends), Len(axes), Len(steps)} = {Len(starts)}
    BY <1>2, Zenon
  <2>5. \A k \in DOMAIN starts : ~(steps[k] <= 0)
    BY <1>2, Zenon
  <2> HIDE DEF starts, ends, axes, steps, refused, entries, shape
  <2>6. \A i \in 2..5 : Has(x, i) => TensorFits(x[i]) /\ IsInt64Vector(x[i])
    BY <2>1, <2>2, <2>3
  <2>7. Len(ends) = Len(starts) /\ Len(steps) = Len(starts)
    BY <2>4
  <2>. QED
    BY <2>5, <2>6, <2>7
<1> HIDE DEF refused
<1>4. \A i \in 2..5 : Has(x, i) => /\ Int64Values(x[i]) \in Seq(Int)
                                   /\ DOMAIN Int64Values(x[i]) = 1..Len(Int64Values(x[i]))
  BY <1>3, Int64Facts DEF IsInt64Vector
<1>5. /\ 2 \in 2..5 /\ 3 \in 2..5 /\ 5 \in 2..5
  OBVIOUS
<1> DEFINE n == Len(starts)
<1>6. n \in Nat /\ DOMAIN starts = 1..n
  BY <1>4, <1>5
<1>7. \A k \in 1..n : starts[k] \in Int /\ ends[k] \in Int /\ steps[k] \in Nat \ {0}
  <2>1. starts \in Seq(Int) /\ ends \in Seq(Int) /\ DOMAIN ends = 1..Len(ends)
    BY <1>4, <1>5
  <2>2. Has(x, 5) => steps \in Seq(Int) /\ DOMAIN steps = 1..Len(steps)
    BY <1>4, <1>5
  <2>3. ~Has(x, 5) => \A k \in 1..n : steps[k] = 1
    BY <1>6
  <2> HIDE DEF starts, ends, steps, n
  <2>4. \A k \in 1..n : starts[k] \in Int /\ ends[k] \in Int
    BY <1>3, <1>6, <2>1 DEF n
  <2>5. \A k \in 1..n : steps[k] \in Int
    BY <1>3, <2>2, <2>3 DEF n
  <2>6. \A k \in 1..n : ~(steps[k] <= 0)
    BY <1>3, <1>6
  <2>. QED
    BY <2>4, <2>5, <2>6
<1>8. \A i : entries(i) # {} => Max(entries(i)) \in 1..n
  <2> TAKE i
  <2>1. entries(i) \in SUBSET (1..n)
    BY <1>6
  <2> HIDE DEF entries
  <2>. QED
    BY <1>6, <2>1, LargestIn
<1> HIDE DEF starts, ends, axes, steps, n
<1>9. dims \in Seq(Nat) /\ Len(dims) \in Nat /\ DOMAIN dims = 1..Len(dims)
      /\ \A i \in 1..Len(dims) : dims[i] \in Nat
  <2>1. dims \in Seq(Nat)
    BY DEF TensorFits
  <2>. QED
    BY <2>1, ShapeFacts
<1> HIDE DEF entries, dims
<1>10. ASSUME NEW i \in 1..Len(dims)
       PROVE  begin(i) \in 0..dims[i] /\ end(i) \in 0..dims[i] /\ step(i) \in Nat \ {0}
  <2>1. dims[i] \in Nat
    BY <1>9
  <2>2. CASE entries(i) = {}
    BY <2>1, <2>2
  <2>3. CASE entries(i) # {}
    <3>1. /\ starts[Max(entries(i))] \in Int /\ ends[Max(entries(i))] \in Int
          /\ steps[Max(entries(i))] \in Nat \ {0}
      BY <1>7, <1>8, <2>3
    <3>2. /\ Bound(starts[Max(entries(i))], dims[i]) \in 0..dims[i]
          /\ Bound(ends[Max(entries(i))], dims[i]) \in 0..dims[i]
      BY <2>1, <3>1, BoundFacts
    <3>. QED
      BY <2>3, <3>1, <3>2
  <2>. QED
    BY <2>2, <2>3
<1> HIDE DEF begin, end, step
<1>11. \A i \in 1..Len(dims) : Length(begin(i), end(i), step(i)) \in Nat
  BY <1>9, <1>10, SliceBounds
<1>12. shape \in Seq(Nat) /\ DOMAIN shape = 1..Len(dims)
  <2>1. shape \in [1..Len(dims) -> Nat]
    BY <1>9, <1>11
  <2> HIDE DEF shape
  <2>. QED
    BY <1>9, <2>1, FunctionIsSequence
<1>13. \A i \in 1..Len(dims) : shape[i] = Length(begin(i), end(i), step(i))
  BY <1>9
<1> HIDE DEF shape
<1>14. ASSUME NEW k \in 1..Numel(shape) PROVE \A u \in terms(k) : TermStored(x, u)
  <2> DEFINE o == Coordinates(k - 1, shape)
  <2>1. Inside(o, shape)
    BY <1>12, ElementInside
  <2> HIDE DEF o
  <2>2. ASSUME NEW i \in 1..Len(dims) PROVE begin(i) + o[i] * step(i) \in 0..dims[i] - 1
    <3>1. o[i] \in 0..Length(begin(i), end(i), step(i)) - 1
      BY <1>12, <1>13, <2>1 DEF Inside
    <3>. QED
      BY <1>9, <1>10, <3>1, SlicePosition
  <2>3. DOMAIN o = 1..Len(dims)
    BY <1>12, <2>1 DEF Inside
  <2>4. Inside(source(o), x[1].shape)
    <3>1. Inside(source(o), dims)
      BY <1>9, <2>2, <2>3 DEF Inside
    <3>. QED
      BY <3>1 DEF dims
  <2> HIDE DEF source
  <2>5. Stored(x, At(x, 1, source(o)))
    BY <2>4, AtStored
  <2>. QED
    BY <2>5, OneStored DEF o
<1> HIDE DEF terms
<1>15. Reads(r, x)
  BY <1>2, <1>14, Zenon DEF Reads
<1>. QED
  BY <1>15 DEF r

LEMMA ReduceMeanReads ==
    ASSUME NEW x, NEW c, TensorFits(x[1]), ReduceMean(x, c).status = "ok"
    PROVE  Reads(ReduceMean(x, c), x)
<1> DEFINE r == ReduceMean(x, c)
           dims == x[1].shape
           axes == GetAttr(c, "axes", <<>>)
           reduced == IF axes = <<>> THEN DOMAIN dims ELSE NormalizedAxes(axes, Len(dims))
           keepdims == GetAttr(c, "keepdims", 1) # 0
           shape == IF keepdims
                    THEN [i \in DOMAIN dims |-> IF i \in reduced THEN 1 ELSE dims[i]]
                    ELSE Dropped(dims, reduced)
           output_coords(d) == IF keepdims
                               THEN [i \in DOMAIN d |-> IF i \in reduced THEN 0 ELSE d[i]]
                               ELSE Dropped(d, reduced)
           target(k) == Linear(output_coords(Coordinates(k, dims)), shape)
           refused == ~Float(x) \/ ~(reduced \subseteq DOMAIN dims)
           negative == \E i \in DOMAIN shape : shape[i] < 0
           summed(o) == {j \in 0..Numel(dims) - 1 : target(j) = Linear(o, shape)}
           terms(k) == {<<AtLinear(x, 1, j)>> : j \in summed(Coordinates(k - 1, shape))}
<1>1. r = IF refused THEN Thrown ELSE IF negative THEN Thrown
          ELSE [status |-> "ok", dtype |-> "FLOAT32", shape |-> shape,
                elements |-> [k \in 1..Numel(shape) |-> terms(k)]]
  BY Zenon DEF ReduceMean, Result
<1>2. r.elements = [k \in 1..Numel(shape) |-> terms(k)]
  <2> HIDE DEF terms, negative, refused, shape
  <2>. QED
    BY <1>1 DEF Thrown
<1>3. dims \in Seq(Nat)
  BY DEF TensorFits
<1> HIDE DEF shape, r, target, refused, reduced
<1>4. ASSUME NEW k \in 1..Numel(shape) PROVE \A u \in terms(k) : TermStored(x, u)
  <2>1. ASSUME NEW j \in 0..Numel(dims) - 1 PROVE TermStored(x, <<AtLinear(x, 1, j)>>)
    <3>1. Numel(dims) \in Nat
      BY <1>3, CountIsNatural
    <3>2. j \in Nat /\ Numel(dims) > 0
      BY <3>1
    <3>3. Positive(dims)
      BY <1>3, <3>2, PositiveCount
    <3>. QED
      BY <3>2, <3>3, AtLinearStored, OneStored
  <2> HIDE DEF dims
  <2>. QED
    BY <2>1
<1> HIDE DEF terms
<1>5. Reads(r, x)
  BY <1>2, <1>4, Zenon DEF Reads
<1>. QED
  BY <1>5 DEF r

LEMMA LineNatural ==
    ASSUME NEW linear \in Nat, NEW dimension \in Nat \ {0}, NEW inner \in Nat \ {0},
           NEW k \in SoftmaxLine(linear, dimension, inner)
    PROVE  k \in Nat
<1> DEFINE outer == linear \div (dimension * inner)
           rest == linear % inner
<1>1. dimension * inner \in Nat \ {0}
  BY SMT
<1>2. outer \in Nat /\ rest \in Nat
  <2> DEFINE d == dimension * inner
  <2> HIDE DEF d
  <2>1. d \in Nat \ {0}
    BY <1>1 DEF d
  <2>2. linear \div d \in Nat
    BY <2>1, Division
  <2>3. (linear % inner) \in 0..inner - 1
    BY Division
  <2>. QED
    BY <2>2, <2>3 DEF d
<1> HIDE DEF outer, rest
<1>3. PICK current \in 0..dimension - 1 : k = (outer * dimension + current) * inner + rest
  BY DEF SoftmaxLine, outer, rest
<1>4. outer * dimension \in Nat /\ current \in Nat
  BY <1>2
<1>5. outer * dimension + current \in Nat
  BY <1>4
<1> DEFINE a == outer * dimension + current
<1> HIDE DEF a
<1>6. a * inner \in Nat
  BY <1>5 DEF a
<1>. QED
  BY <1>2, <1>3, <1>6 DEF a

LEMMA SoftmaxReads ==
    ASSUME NEW x, NEW c, TensorFits(x[1]), Softmax(x, c).status = "ok"
    PROVE  Reads(Softmax(x, c), x)
<1> DEFINE r == Softmax(x, c)
           shape == x[1].shape
           axis == NormalizeAxis(GetAttr(c, "axis", -1), Len(shape))
           inner == Numel(SubSeq(shape, axis + 1, Len(shape)))
           refused == ~Float(x) \/ axis \notin DOMAIN shape
           negative == \E i \in DOMAIN shape : shape[i] < 0
           line(o) == SoftmaxLine(Linear(o, shape), shape[axis], inner)
           terms(k) == {<<AtLinear(x, 1, Linear(Coordinates(k - 1, shape), shape)),
                          AtLinear(x, 1, j)>> : j \in line(Coordinates(k - 1, shape))}
<1>1. r = IF refused THEN Thrown ELSE IF negative THEN Thrown
          ELSE [status |-> "ok", dtype |-> "FLOAT32", shape |-> shape,
                elements |-> [k \in 1..Numel(shape) |-> terms(k)]]
  BY Zenon DEF Softmax, Result
<1>2. axis \in DOMAIN shape /\ r.elements = [k \in 1..Numel(shape) |-> terms(k)]
  <2> HIDE DEF terms, negative, axis
  <2>. QED
    BY <1>1 DEF Thrown
<1>3. shape \in Seq(Nat)
  BY DEF TensorFits
<1> HIDE DEF r, refused, axis
<1>4. ASSUME NEW k \in 1..Numel(shape) PROVE \A u \in terms(k) : TermStored(x, u)
  <2> DEFINE o == Coordinates(k - 1, shape)
             linear == Linear(o, shape)
  <2>1. linear \in Nat /\ Positive(shape)
    BY <1>3, ElementInside, ElementLinear
  <2> HIDE DEF linear, o
  <2>2. \A i \in 1..Len(shape) : shape[i] \in Nat \ {0}
    BY <1>3, <2>1, ShapeFacts DEF Positive
  <2>3. Len(shape) \in Nat /\ axis \in 1..Len(shape)
    BY <1>2, <1>3
  <2>4. inner \in Nat \ {0}
    <3>1. \A j \in axis + 1 .. Len(shape) : shape[j] \in Nat /\ shape[j] > 0
      BY <2>2, <2>3
    <3> DEFINE s == SubSeq(shape, axis + 1, Len(shape))
               m == Len(shape) - (axis + 1) + 1
    <3>2. axis + 1 \in Int /\ Len(shape) \in Int
      BY <2>3
    <3>3. s \in Seq(Nat) /\ \A j \in 1..m : s[j] = shape[axis + 1 + j - 1]
      BY <3>1, <3>2, SubSeqOfNats
    <3>4. Len(s) = IF axis + 1 <= Len(shape) THEN m ELSE 0
      BY <3>1, <3>2, SubSeqOfNats
    <3>5. DOMAIN s = 1..m
      <4> HIDE DEF s
      <4>. QED
        BY <2>3, <3>3, <3>4
    <3> HIDE DEF s
    <3>6. Positive(s)
      <4>1. \A j \in 1..m : axis + 1 + j - 1 \in axis + 1 .. Len(shape)
        BY <2>3
      <4>2. \A j \in 1..m : s[j] > 0
        BY <3>1, <3>3, <4>1
      <4>. QED
        BY <3>5, <4>2 DEF Positive
    <3>7. Numel(s) \in Nat /\ Numel(s) > 0
      BY <3>3, <3>6, PositiveCount, CountIsNatural
    <3>. QED
      BY <3>7 DEF s
  <2> HIDE DEF inner
  <2>5. \A j \in line(o) : j \in Nat
    <3>1. shape[axis] \in Nat \ {0}
      BY <2>2, <2>3
    <3>. QED
      BY <2>1, <2>4, <3>1, LineNatural DEF linear
  <2>6. \A j \in line(o) : TermStored(x, <<AtLinear(x, 1, linear), AtLinear(x, 1, j)>>)
    BY <2>1, <2>5, AtLinearStored, TwoStored
  <2> HIDE DEF line
  <2>. QED
    BY <2>6 DEF o, linear
<1> HIDE DEF terms
<1>5. Reads(r, x)
  BY <1>2, <1>4, Zenon DEF Reads
<1>. QED
  BY <1>5 DEF r

-----------------------------------------------------------------------------
(* bert.cpp, norm.cpp and pool.cpp: normalisation and averages *)

LEMMA VectorStored ==
    ASSUME NEW x, NEW i, TensorFits(x[i]), Len(x[i].shape) = 1,
           NEW column \in 0..x[i].shape[1] - 1
    PROVE  Stored(x, <<i, x[i].offset + column * x[i].strides[1]>>)
<1> DEFINE t == x[i]
           d == <<column>>
           f == [j \in DOMAIN d |-> d[j] * t.strides[j]]
<1>1. /\ t.shape \in Seq(Nat) /\ t.strides \in Seq(Nat) /\ Len(t.strides) = Len(t.shape)
      /\ t.offset \in Nat
  BY DEF TensorFits
<1>2. Len(t.shape) = 1
  OBVIOUS
<1>3. t.shape[1] \in Nat /\ DOMAIN t.shape = 1..1 /\ t.strides[1] \in Nat
  <2> HIDE DEF t
  <2>. QED
    BY <1>1, <1>2
<1>4. column \in Nat /\ column \in 0..t.shape[1] - 1
  BY <1>3
<1>5. DOMAIN d = 1..1 /\ d[1] = column /\ 1..1 = {1}
  OBVIOUS
<1>6. Inside(d, t.shape)
  <2> HIDE DEF d, t
  <2>. QED
    BY <1>3, <1>4, <1>5 DEF Inside
<1>7. f = [j \in {1} |-> column * t.strides[1]]
  <2> HIDE DEF d, t
  <2>. QED
    BY <1>5
<1>8. TensorOffset(t, d) = FoldFunction(+, t.offset, f)
  BY DEF TensorOffset
<1> HIDE DEF t, d
<1> DEFINE e == column * t.strides[1]
<1>9. e \in Nat
  BY <1>3, <1>4
<1> HIDE DEF e
<1>10. DOMAIN f = {1} /\ f[1] = e
  BY <1>7 DEF e
<1> HIDE DEF f
<1>11. Naturals(f)
  BY <1>9, <1>10, FS_Singleton DEF Naturals
<1>12. Sums(f)[{1}] = e
  <2>1. Sums(f)[{}] = 0 /\ Sums(f)[{1}] = f[1] + Sums(f)[{1} \ {1}]
    BY <1>10, <1>11, SumFacts
  <2>2. {1} \ {1} = {}
    OBVIOUS
  <2>. QED
    BY <1>9, <1>10, <2>1, <2>2
<1>13. TensorOffset(t, d) = t.offset + e
  BY <1>1, <1>8, <1>10, <1>11, <1>12, SumFromFacts
<1>14. TensorFits(t)
  BY DEF t
<1>15. t.offset + e + 1 \in DOMAIN t.data
  BY <1>6, <1>13, <1>14, TensorReads
<1> DEFINE p == <<i, t.offset + e>>
<1>16. p[1] = i /\ p[2] = t.offset + e
  OBVIOUS
<1> HIDE DEF p
<1>17. Stored(x, p)
  BY <1>15, <1>16 DEF Stored, t
<1>. QED
  BY <1>17 DEF p, t, e

LEMMA FourStored ==
    ASSUME NEW x, NEW p, NEW q, NEW u, NEW v,
           Stored(x, p), Stored(x, q), Stored(x, u), Stored(x, v)
    PROVE  TermStored(x, <<p, q, u, v>>)
<1>1. /\ DOMAIN <<p, q, u, v>> = {1, 2, 3, 4}
      /\ <<p, q, u, v>>[1] = p /\ <<p, q, u, v>>[2] = q
      /\ <<p, q, u, v>>[3] = u /\ <<p, q, u, v>>[4] = v
  OBVIOUS
<1>. QED
  BY <1>1, Zenon DEF TermStored

LEMMA FourInside ==
    ASSUME NEW shape \in Seq(Nat), Len(shape) = 4, NEW a, NEW b, NEW c, NEW d,
           a \in 0..shape[1] - 1, b \in 0..shape[2] - 1,
           c \in 0..shape[3] - 1, d \in 0..shape[4] - 1
    PROVE  Inside(<<a, b, c, d>>, shape)
<1> DEFINE o == <<a, b, c, d>>
<1>1. DOMAIN shape = 1..4
  OBVIOUS
<1>2. DOMAIN o = 1..4 /\ o[1] = a /\ o[2] = b /\ o[3] = c /\ o[4] = d
  OBVIOUS
<1>3. \A i \in 1..4 : i = 1 \/ i = 2 \/ i = 3 \/ i = 4
  OBVIOUS
<1> HIDE DEF o
<1>4. \A i \in 1..4 : o[i] \in 0..shape[i] - 1
  BY <1>2, <1>3, Zenon
<1>5. Inside(o, shape)
  BY <1>1, <1>2, <1>4, Zenon DEF Inside
<1>. QED
  BY <1>5 DEF o

LEMMA FourFacts ==
    ASSUME NEW s \in Seq(Nat), Len(s) = 4
    PROVE  /\ DOMAIN s = 1..4
           /\ s[1] \in Nat /\ s[2] \in Nat /\ s[3] \in Nat /\ s[4] \in Nat
<1>1. 4 \in Nat
  OBVIOUS
<1>2. s \in [1..4 -> Nat]
  BY <1>1, SequenceOfLength, Zenon
<1>3. \A i \in 1..4 : s[i] \in Nat
  BY <1>2
<1>. QED
  BY <1>2, <1>3

\* Two sequences one behind the other.
IsJoined(p, s, t, m, n) ==
    /\ Len(p) = m + n /\ DOMAIN p = 1..m + n
    /\ \A i \in 1..m : p[i] = s[i]
    /\ \A i \in 1..n : p[m + i] = t[i]

LEMMA Joined ==
    ASSUME NEW S, NEW s \in Seq(S), NEW t \in Seq(S), NEW m \in Nat, NEW n \in Nat,
           Len(s) = m, Len(t) = n
    PROVE  s \o t \in Seq(S) /\ IsJoined(s \o t, s, t, m, n)
<1> DEFINE p == s \o t
<1>1. /\ p \in Seq(S) /\ Len(p) = Len(s) + Len(t)
      /\ \A i \in 1..Len(s) + Len(t) : p[i] = IF i <= Len(s) THEN s[i] ELSE t[i - Len(s)]
  BY ConcatProperties, Zenon
<1> HIDE DEF p
<1>2. \A i \in 1..m + n : p[i] = IF i <= m THEN s[i] ELSE t[i - m]
  BY <1>1, Zenon
<1>3. \A i \in 1..m : i \in 1..m + n /\ i <= m
  OBVIOUS
<1>4. \A i \in 1..n : m + i \in 1..m + n /\ ~(m + i <= m) /\ (m + i) - m = i
  OBVIOUS
<1>5. \A i \in 1..m : p[i] = s[i]
  BY <1>2, <1>3, Zenon
<1>6. \A i \in 1..n : p[m + i] = t[i]
  BY <1>2, <1>4, Zenon
<1>7. DOMAIN p = 1..m + n
  BY <1>1
<1>. QED
  BY <1>1, <1>5, <1>6, <1>7 DEF p, IsJoined

LEMMA PairsJoined ==
    ASSUME NEW a, NEW b, NEW S, NEW T, NEW q \in S \X T
    PROVE  <<a, b>> \o q = <<a, b, q[1], q[2]>>
<1> DEFINE V == {a, b, q[1], q[2]}
           s == <<a, b>>
           v == <<a, b, q[1], q[2]>>
<1>1. s \in Seq(V) /\ Len(s) = 2 /\ s[1] = a /\ s[2] = b
  OBVIOUS
<1>2. q = <<q[1], q[2]>>
  OBVIOUS
<1>3. <<q[1], q[2]>> \in Seq(V) /\ Len(<<q[1], q[2]>>) = 2
  OBVIOUS
<1>4. v \in Seq(V) /\ Len(v) = 4 /\ v[1] = a /\ v[2] = b /\ v[3] = q[1] /\ v[4] = q[2]
  OBVIOUS
<1>5. q \in Seq(V) /\ Len(q) = 2
  BY <1>2, <1>3
<1> HIDE DEF V, s, v
<1>6. 2 \in Nat /\ 2 + 2 = 4
  OBVIOUS
<1>7. /\ s \o q \in Seq(V) /\ Len(s \o q) = 2 + 2
      /\ \A i \in 1..2 : (s \o q)[i] = s[i]
      /\ \A i \in 1..2 : (s \o q)[2 + i] = q[i]
  <2>1. s \in Seq(V) /\ q \in Seq(V) /\ Len(s) = 2 /\ Len(q) = 2 /\ 2 \in Nat
    BY <1>1, <1>5, <1>6
  <2>2. s \o q \in Seq(V) /\ IsJoined(s \o q, s, q, 2, 2)
    BY <2>1, Joined
  <2>. QED
    BY <2>2, Zenon DEF IsJoined
<1>8. 1 \in 1..2 /\ 2 \in 1..2 /\ 2 + 1 = 3
  OBVIOUS
<1>9. /\ (s \o q)[1] = s[1] /\ (s \o q)[2] = s[2]
      /\ (s \o q)[2 + 1] = q[1] /\ (s \o q)[2 + 2] = q[2]
  BY <1>7, <1>8, Zenon
<1>10. \A i \in 1..4 : i = 1 \/ i = 2 \/ i = 3 \/ i = 4
  OBVIOUS
<1>11. \A i \in 1..4 : (s \o q)[i] = v[i]
  BY <1>1, <1>4, <1>6, <1>8, <1>9, <1>10, Zenon
<1>12. s \o q = v
  <2>1. Len(s \o q) = Len(v) /\ \A i \in 1..Len(s \o q) : (s \o q)[i] = v[i]
    BY <1>4, <1>6, <1>7, <1>11, Zenon
  <2>2. s \o q \in Seq(V) /\ v \in Seq(V)
    BY <1>4, <1>7
  <2>. QED
    BY <2>1, <2>2, SeqEqual, Zenon
<1>. QED
  BY <1>12 DEF s, v

\* The elements of the last dimension, which layer_norm treats as rows.
LEMMA RowFacts ==
    ASSUME NEW linear \in Nat, NEW width \in Nat \ {0}, NEW other \in 0..width - 1
    PROVE  /\ linear % width \in 0..width - 1
           /\ (linear \div width) * width + other \in Nat
<1>1. linear \div width \in Nat /\ (linear % width) \in 0..width - 1
  BY Division
<1> DEFINE q == linear \div width
<1> HIDE DEF q
<1>2. q * width \in Nat /\ other \in Nat
  BY <1>1 DEF q
<1>. QED
  BY <1>1, <1>2 DEF q

LEMMA LayerNormReads ==
    ASSUME NEW x, TensorFits(x[1]), TensorFits(x[2]), TensorFits(x[3]),
           LayerNorm(x).status = "ok"
    PROVE  Reads(LayerNorm(x), x)
<1> DEFINE r == LayerNorm(x)
           shape == x[1].shape
           width == shape[Len(shape)]
           at(i, column) == <<i, x[i].offset + column * x[i].strides[1]>>
           refused == \/ ~Float(x)
                      \/ Len(x[2].shape) # 1 \/ x[3].shape # x[2].shape
                      \/ shape = <<>>
           negative == \E i \in DOMAIN shape : shape[i] < 0
           term(linear, row, column, other) ==
              <<AtLinear(x, 1, linear), AtLinear(x, 1, row * width + other),
                at(2, column), at(3, column)>>
           of(linear) == {term(linear, linear \div width, linear % width, other) :
                             other \in 0..width - 1}
           terms(k) == of(Linear(Coordinates(k - 1, shape), shape))
<1>1. r = IF refused THEN Thrown ELSE IF width # x[2].shape[1] THEN Thrown
          ELSE IF negative THEN Thrown
          ELSE [status |-> "ok", dtype |-> "FLOAT32", shape |-> shape,
                elements |-> [k \in 1..Numel(shape) |-> terms(k)]]
  BY Zenon DEF LayerNorm, Result
<1>2. /\ ~refused /\ width = x[2].shape[1]
      /\ r.elements = [k \in 1..Numel(shape) |-> terms(k)]
  <2> HIDE DEF terms, negative, refused, width
  <2>. QED
    BY <1>1 DEF Thrown
<1>3. /\ Len(x[2].shape) = 1 /\ Len(x[3].shape) = 1 /\ x[3].shape[1] = width
      /\ shape # <<>>
  BY <1>2
<1>4. shape \in Seq(Nat)
  BY DEF TensorFits
<1> HIDE DEF refused, r
<1>5. ASSUME NEW k \in 1..Numel(shape) PROVE \A u \in terms(k) : TermStored(x, u)
  <2> DEFINE linear == Linear(Coordinates(k - 1, shape), shape)
  <2>1. linear \in Nat /\ Positive(shape)
    BY <1>4, ElementInside, ElementLinear
  <2> HIDE DEF linear
  <2>2. width \in Nat \ {0}
    <3>1. Len(shape) \in 1..Len(shape)
      BY <1>3, <1>4
    <3>2. \A i \in 1..Len(shape) : shape[i] \in Nat \ {0}
      BY <1>4, <2>1, ShapeFacts DEF Positive
    <3>. QED
      BY <3>1, <3>2
  <2> HIDE DEF width
  <2>3. ASSUME NEW other \in 0..width - 1
        PROVE  TermStored(x, term(linear, linear \div width, linear % width, other))
    <3> DEFINE column == linear % width
               behind == (linear \div width) * width + other
    <3>1. column \in 0..width - 1 /\ behind \in Nat
      BY <2>1, <2>2, RowFacts
    <3> HIDE DEF column, behind
    <3>2. column \in 0..x[2].shape[1] - 1 /\ column \in 0..x[3].shape[1] - 1
      BY <1>2, <1>3, <3>1
    <3>3. Stored(x, at(2, column)) /\ Stored(x, at(3, column))
      BY <1>3, <3>2, VectorStored
    <3>4. Stored(x, AtLinear(x, 1, linear)) /\ Stored(x, AtLinear(x, 1, behind))
      BY <2>1, <3>1, AtLinearStored
    <3> HIDE DEF at
    <3>5. TermStored(x, <<AtLinear(x, 1, linear), AtLinear(x, 1, behind),
                          at(2, column), at(3, column)>>)
      BY <3>3, <3>4, FourStored
    <3>. QED
      BY <3>5 DEF column, behind
  <2> HIDE DEF term
  <2>4. \A u \in of(linear) : TermStored(x, u)
    BY <2>3
  <2>. QED
    BY <2>4 DEF linear
<1> HIDE DEF terms
<1>6. Reads(r, x)
  BY <1>2, <1>5, Zenon DEF Reads
<1>. QED
  BY <1>6 DEF r

LEMMA BatchNormReads ==
    ASSUME NEW x, NEW c, \A i \in 1..5 : TensorFits(x[i]), BatchNorm(x, c).status = "ok"
    PROVE  Reads(BatchNorm(x, c), x)
<1> DEFINE r == BatchNorm(x, c)
           shape == x[1].shape
           epsilon == GetAttr(c, "epsilon", 1)
           at(i, channel) == <<i, x[i].offset + channel * x[i].strides[1]>>
           variance(channel) == x[5].data[1 + at(5, channel)[2]]
           refused == \/ ~Float(x)
                      \/ Len(shape) # 4
                      \/ \E i \in 2..5 : x[i].shape # <<shape[2]>>
                      \/ epsilon < 0
           unstable == \E n \in 0..shape[1] - 1, channel \in 0..shape[2] - 1 :
                          variance(channel) + epsilon <= 0
           negative == \E i \in DOMAIN shape : shape[i] < 0
           statistics(o) == [i \in 1..4 |-> at(i + 1, o[2])]
           term(o) == <<At(x, 1, o)>> \o statistics(o)
           terms(k) == {term(Coordinates(k - 1, shape))}
<1>1. r = IF refused THEN Thrown ELSE IF unstable THEN Thrown ELSE IF negative THEN Thrown
          ELSE [status |-> "ok", dtype |-> "FLOAT32", shape |-> shape,
                elements |-> [k \in 1..Numel(shape) |-> terms(k)]]
  BY Zenon DEF BatchNorm, Result
<1>2. ~refused /\ r.elements = [k \in 1..Numel(shape) |-> terms(k)]
  <2> HIDE DEF terms, negative, refused, unstable
  <2>. QED
    BY <1>1 DEF Thrown
<1>3. Len(shape) = 4 /\ \A i \in 2..5 : x[i].shape = <<shape[2]>>
  BY <1>2
<1>4. \A i \in 1..4 : /\ TensorFits(x[i + 1]) /\ Len(x[i + 1].shape) = 1
                      /\ x[i + 1].shape[1] = shape[2]
  <2>1. \A i \in 1..4 : i + 1 \in 2..5 /\ i + 1 \in 1..5
    OBVIOUS
  <2>2. Len(<<shape[2]>>) = 1 /\ <<shape[2]>>[1] = shape[2]
    OBVIOUS
  <2>. QED
    BY <1>3, <2>1, <2>2, Zenon
<1>5. TensorFits(x[1]) /\ shape \in Seq(Nat)
  <2>1. TensorFits(x[1])
    OBVIOUS
  <2>. QED
    BY <2>1 DEF TensorFits
<1> HIDE DEF refused, r
<1>6. ASSUME NEW k \in 1..Numel(shape) PROVE \A u \in terms(k) : TermStored(x, u)
  <2> DEFINE o == Coordinates(k - 1, shape)
  <2>1. Inside(o, shape)
    BY <1>5, ElementInside
  <2>2. 2 \in DOMAIN shape
    BY <1>3, <1>5
  <2> HIDE DEF o
  <2>3. o[2] \in 0..shape[2] - 1
    BY <2>1, <2>2 DEF Inside
  <2>4. \A i \in 1..4 : Stored(x, at(i + 1, o[2]))
    BY <1>4, <2>3, VectorStored
  <2>5. Stored(x, At(x, 1, o))
    BY <1>5, <2>1, AtStored
  <2> HIDE DEF at, shape
  <2> DEFINE head == <<At(x, 1, o)>>
             tail == statistics(o)
             V == {At(x, 1, o)} \cup {at(i + 1, o[2]) : i \in 1..4}
  <2>6. \A v \in V : Stored(x, v)
    BY <2>4, <2>5
  <2>7. tail \in [1..4 -> V]
    OBVIOUS
  <2>8. head \in Seq(V)
    OBVIOUS
  <2> HIDE DEF V, head, tail
  <2>9. 4 \in Nat
    OBVIOUS
  <2>10. tail \in Seq(V)
    BY <2>7, <2>9, FunctionIsSequence
  <2>11. head \o tail \in Seq(V)
    BY <2>8, <2>10, ConcatProperties
  <2>12. \A j \in DOMAIN (head \o tail) : (head \o tail)[j] \in V
    BY <2>11
  <2>13. TermStored(x, head \o tail)
    BY <2>6, <2>12, Zenon DEF TermStored
  <2>. QED
    BY <2>13 DEF head, tail, o
<1> HIDE DEF terms
<1>7. Reads(r, x)
  BY <1>2, <1>6, Zenon DEF Reads
<1>. QED
  BY <1>7 DEF r

LEMMA GlobalAvgPoolReads ==
    ASSUME NEW x, TensorFits(x[1]), GlobalAvgPool(x).status = "ok"
    PROVE  Reads(GlobalAvgPool(x), x)
<1> DEFINE r == GlobalAvgPool(x)
           dims == x[1].shape
           shape == <<dims[1], dims[2], 1, 1>>
           refused == ~Float(x) \/ Len(dims) # 4
           empty == dims[3] = 0 \/ dims[4] = 0
           negative == \E i \in DOMAIN shape : shape[i] < 0
           plane == (0..dims[3] - 1) \X (0..dims[4] - 1)
           of(o) == {<<At(x, 1, <<o[1], o[2]>> \o p)>> : p \in plane}
           terms(k) == of(Coordinates(k - 1, shape))
<1>1. r = IF refused THEN Thrown ELSE IF empty THEN Thrown ELSE IF negative THEN Thrown
          ELSE [status |-> "ok", dtype |-> "FLOAT32", shape |-> shape,
                elements |-> [k \in 1..Numel(shape) |-> terms(k)]]
  BY Zenon DEF GlobalAvgPool, Result
<1>2. ~refused /\ r.elements = [k \in 1..Numel(shape) |-> terms(k)]
  <2> HIDE DEF terms, negative, refused, empty, shape
  <2>. QED
    BY <1>1 DEF Thrown
<1>3. Len(dims) = 4
  BY <1>2
<1>4. dims \in Seq(Nat)
  BY DEF TensorFits
<1>5. dims[1] \in Nat /\ dims[2] \in Nat
  BY <1>3, <1>4, FourFacts
<1> HIDE DEF refused, r, dims
<1>6. /\ shape \in Seq(Nat) /\ DOMAIN shape = 1..4
      /\ shape[1] = dims[1] /\ shape[2] = dims[2]
  BY <1>5
<1> HIDE DEF shape
<1>7. ASSUME NEW k \in 1..Numel(shape) PROVE \A u \in terms(k) : TermStored(x, u)
  <2> DEFINE o == Coordinates(k - 1, shape)
  <2>1. Inside(o, shape)
    BY <1>6, ElementInside
  <2> HIDE DEF o
  <2>2. o[1] \in 0..dims[1] - 1 /\ o[2] \in 0..dims[2] - 1
    BY <1>6, <2>1 DEF Inside
  <2>3. ASSUME NEW p \in plane PROVE TermStored(x, <<At(x, 1, <<o[1], o[2]>> \o p)>>)
    <3> DEFINE d == <<o[1], o[2]>> \o p
    <3>1. Inside(d, dims)
      <4>1. p[1] \in 0..dims[3] - 1 /\ p[2] \in 0..dims[4] - 1
        OBVIOUS
      <4>2. d = <<o[1], o[2], p[1], p[2]>>
        BY PairsJoined
      <4>. QED
        BY <1>3, <1>4, <2>2, <4>1, <4>2, FourInside
    <3> HIDE DEF d
    <3>2. Stored(x, At(x, 1, d))
      BY <3>1, AtStored DEF dims
    <3>3. TermStored(x, <<At(x, 1, d)>>)
      BY <3>2, OneStored
    <3>. QED
      BY <3>3 DEF d
  <2> HIDE DEF plane
  <2>4. \A u \in of(o) : TermStored(x, u)
    BY <2>3
  <2>. QED
    BY <2>4 DEF o
<1> HIDE DEF terms
<1>8. Reads(r, x)
  BY <1>2, <1>7, Zenon DEF Reads
<1>. QED
  BY <1>8 DEF r

-----------------------------------------------------------------------------
(* pool.cpp and conv2d.cpp *)

Negative(shape) == \E i \in DOMAIN shape : shape[i] < 0

IsWindowShape(p, a, b) == p \in Seq(Nat) /\ DOMAIN p = 1..4 /\ p[1] = a /\ p[2] = b

LEMMA WindowShape ==
    ASSUME NEW a \in Nat, NEW b \in Nat, NEW e \in [1..2 -> Int], ~Negative(<<a, b>> \o e)
    PROVE  IsWindowShape(<<a, b>> \o e, a, b)
<1> DEFINE p == <<a, b>> \o e
<1> DEFINE s == <<a, b>>
<1>1. s \in Seq(Int) /\ Len(s) = 2 /\ s[1] = a /\ s[2] = b
  OBVIOUS
<1>2. 2 \in Nat /\ 2 + 2 = 4
  OBVIOUS
<1>3. e \in Seq(Int)
  BY <1>2, FunctionIsSequence
<1>4. Len(e) = 2
  BY <1>3
<1> HIDE DEF s
<1>5. s \o e \in Seq(Int) /\ IsJoined(s \o e, s, e, 2, 2)
  BY <1>1, <1>2, <1>3, <1>4, Joined
<1>6. p = s \o e
  BY DEF s
<1>0. ~Negative(p)
  OBVIOUS
<1> HIDE DEF p
<1>7. 1 \in 1..2 /\ 2 \in 1..2
  OBVIOUS
<1>8. p[1] = a /\ p[2] = b
  <2>1. \A i \in 1..2 : (s \o e)[i] = s[i]
    BY <1>5, Zenon DEF IsJoined
  <2>2. p[1] = s[1] /\ p[2] = s[2]
    BY <1>6, <1>7, <2>1
  <2>. QED
    BY <1>1, <2>2
<1>9. p \in Seq(Int) /\ DOMAIN p = 1..4
  <2>1. DOMAIN (s \o e) = 1..2 + 2
    BY <1>5 DEF IsJoined
  <2>. QED
    BY <1>2, <1>5, <1>6, <2>1
<1>10. p \in Seq(Nat)
  BY <1>9, <1>0, NotNegative DEF Negative
<1>. QED
  BY <1>8, <1>9, <1>10 DEF p, IsWindowShape

\* The taps of a window on the input, in the planes that are there.
LEMMA TapInside ==
    ASSUME NEW x, NEW c, x[1].shape \in Seq(Nat), Len(x[1].shape) = 4, NEW kernel, NEW o,
           NEW k \in TapsInside(x, c, kernel, o),
           NEW n \in 0..x[1].shape[1] - 1, NEW channel \in 0..x[1].shape[2] - 1
    PROVE  Inside(<<n, channel, Tap(c, 1, o, k), Tap(c, 2, o, k)>>, x[1].shape)
<1>1. \A s \in 1..2 : Tap(c, s, o, k) \in 0..x[1].shape[s + 2] - 1
  BY Zenon DEF TapsInside
<1>2. 1 \in 1..2 /\ 2 \in 1..2 /\ 1 + 2 = 3 /\ 2 + 2 = 4
  OBVIOUS
<1>3. Tap(c, 1, o, k) \in 0..x[1].shape[3] - 1 /\ Tap(c, 2, o, k) \in 0..x[1].shape[4] - 1
  BY <1>1, <1>2
<1> DEFINE h == Tap(c, 1, o, k)
           w == Tap(c, 2, o, k)
<1> HIDE DEF h, w
<1>4. h \in 0..x[1].shape[3] - 1 /\ w \in 0..x[1].shape[4] - 1
  BY <1>3 DEF h, w
<1>5. Inside(<<n, channel, h, w>>, x[1].shape)
  BY <1>4, FourInside
<1>. QED
  BY <1>5 DEF h, w

LEMMA MaxPoolReads ==
    ASSUME NEW x, NEW c \in Calls, TensorFits(x[1]), MaxPool(x, c).status = "ok"
    PROVE  Reads(MaxPool(x, c), x)
<1> DEFINE r == MaxPool(x, c)
           dims == x[1].shape
           kernel == GetAttr(c, "kernel_shape", <<>>)
           ceil_mode == GetAttr(c, "ceil_mode", 0) # 0
           refused == \/ ~Float(x) \/ Len(dims) # 4
                      \/ ~PositivePair(kernel)
                      \/ WindowThrows(c)
                      \/ GetAttr(c, "storage_order", 0) # 0
                      \/ c.indices
           extents == [s \in 1..2 |-> OutputExtent(x, c, kernel, s, ceil_mode)]
           shape == <<dims[1], dims[2]>> \o extents
           negative == \E i \in DOMAIN shape : shape[i] < 0
           of(o) == {<<At(x, 1, <<o[1], o[2], Tap(c, 1, o, k), Tap(c, 2, o, k)>>)>> :
                        k \in TapsInside(x, c, kernel, o)}
           terms(k) == of(Coordinates(k - 1, shape))
<1>1. r = IF refused THEN Thrown ELSE IF negative THEN Thrown
          ELSE [status |-> "ok", dtype |-> "FLOAT32", shape |-> shape,
                elements |-> [k \in 1..Numel(shape) |-> terms(k)]]
  BY Zenon DEF MaxPool, Result
<1>2. ~refused /\ ~negative /\ r.elements = [k \in 1..Numel(shape) |-> terms(k)]
  <2> HIDE DEF terms, negative, refused, shape
  <2>. QED
    BY <1>1 DEF Thrown
<1>3. Len(dims) = 4 /\ PositivePair(kernel) /\ ~WindowThrows(c)
  BY <1>2
<1>4. dims \in Seq(Nat)
  BY DEF TensorFits
<1> HIDE DEF refused, r, ceil_mode
<1>5. /\ dims[1] \in Nat /\ dims[2] \in Nat /\ dims[3] \in Nat /\ dims[4] \in Nat
      /\ DOMAIN dims = 1..4
  BY <1>3, <1>4, FourFacts
<1>6. extents \in [1..2 -> Int]
  <2>1. \A s \in 1..2 : kernel[s] \in Nat \ {0}
    BY <1>3, KernelNumbers DEF PoolKernel
  <2>2. \A s \in 1..2 : dims[s + 2] \in Nat
    <3>1. \A s \in 1..2 : s = 1 \/ s = 2
      OBVIOUS
    <3>2. 1 + 2 = 3 /\ 2 + 2 = 4
      OBVIOUS
    <3>. QED
      BY <1>5, <3>1, <3>2
  <2>3. ceil_mode \in BOOLEAN
    BY DEF ceil_mode
  <2>4. \A s \in 1..2 : OutputExtent(x, c, kernel, s, ceil_mode) \in Int
    <3> HIDE DEF kernel
    <3>. QED
      BY <1>3, <2>1, <2>2, <2>3, ExtentIsInteger
  <2>. QED
    BY <2>4
<1> HIDE DEF extents, kernel
<1>7. shape \in Seq(Nat) /\ DOMAIN shape = 1..4 /\ shape[1] = dims[1] /\ shape[2] = dims[2]
  <2> DEFINE a == dims[1]
             b == dims[2]
  <2>1. a \in Nat /\ b \in Nat
    BY <1>5
  <2>2. shape = <<a, b>> \o extents
    OBVIOUS
  <2> HIDE DEF dims, shape, a, b
  <2>3. ~Negative(<<a, b>> \o extents)
    BY <1>2, <2>2 DEF Negative
  <2>4. IsWindowShape(<<a, b>> \o extents, a, b)
    BY <1>6, <2>1, <2>3, WindowShape
  <2>. QED
    BY <2>2, <2>4 DEF a, b, IsWindowShape
<1> HIDE DEF shape, negative
<1>8. ASSUME NEW k \in 1..Numel(shape) PROVE \A u \in terms(k) : TermStored(x, u)
  <2> DEFINE o == Coordinates(k - 1, shape)
  <2>1. Inside(o, shape)
    BY <1>7, ElementInside
  <2> HIDE DEF o
  <2>2. o[1] \in 0..dims[1] - 1 /\ o[2] \in 0..dims[2] - 1
    <3>1. 1 \in 1..4 /\ 2 \in 1..4
      OBVIOUS
    <3>2. o[1] \in 0..shape[1] - 1 /\ o[2] \in 0..shape[2] - 1
      BY <1>7, <2>1, <3>1, Zenon DEF Inside
    <3>. QED
      BY <1>7, <3>2
  <2>3. ASSUME NEW q \in TapsInside(x, c, kernel, o)
        PROVE  TermStored(x, <<At(x, 1, <<o[1], o[2], Tap(c, 1, o, q), Tap(c, 2, o, q)>>)>>)
    <3> DEFINE d == <<o[1], o[2], Tap(c, 1, o, q), Tap(c, 2, o, q)>>
    <3>1. Inside(d, x[1].shape)
      BY <1>3, <1>4, <2>2, TapInside
    <3> HIDE DEF d, dims
    <3>2. Stored(x, At(x, 1, d))
      BY <3>1, AtStored
    <3>3. TermStored(x, <<At(x, 1, d)>>)
      BY <3>2, OneStored
    <3>. QED
      BY <3>3 DEF d
  <2>4. \A u \in of(o) : TermStored(x, u)
    BY <2>3
  <2>. QED
    BY <2>4 DEF o
<1> HIDE DEF terms
<1>9. Reads(r, x)
  BY <1>2, <1>8, Zenon DEF Reads
<1>. QED
  BY <1>9 DEF r

\* The channel of the input that output channel oc reads, in its group.
LEMMA ChannelInside ==
    ASSUME NEW channels \in Nat, NEW outputs \in Nat, NEW groups \in Nat \ {0},
           channels % groups = 0, outputs % groups = 0, NEW oc \in 0..outputs - 1,
           NEW width, width = channels \div groups, NEW p \in 0..width - 1
    PROVE  (oc \div (outputs \div groups)) * width + p \in 0..channels - 1
<1> DEFINE q == outputs \div groups
           g == oc \div q
<1>1. width \in Nat /\ channels = groups * width
  <2>1. /\ channels \div groups \in Nat
        /\ channels = groups * (channels \div groups) + (channels % groups)
    BY Division
  <2>. QED
    BY <2>1
<1>2. q \in Nat /\ outputs = groups * q
  <2>1. q \in Nat /\ outputs = groups * q + (outputs % groups)
    BY Division
  <2> HIDE DEF q
  <2>. QED
    BY <2>1
<1>3. oc \in Nat /\ oc < outputs
  OBVIOUS
<1> HIDE DEF q
<1>4. q \in Nat \ {0}
  <2>1. q = 0 => groups * q = 0
    OBVIOUS
  <2>. QED
    BY <1>2, <1>3, <2>1
<1>5. g \in Nat /\ (oc % q) \in 0..q - 1 /\ oc = q * g + (oc % q)
  BY <1>3, <1>4, Division
<1> HIDE DEF g
<1>6. g < groups
  <2> SUFFICES ASSUME ~(g < groups) PROVE FALSE
    OBVIOUS
  <2>1. groups <= g
    BY <1>5
  <2>2. groups * q <= g * q
    BY <1>4, <1>5, <2>1, Scaled
  <2>3. g * q = q * g /\ q * g \in Nat /\ groups * q \in Nat
    BY <1>4, <1>5
  <2> DEFINE a == groups * q
             b == q * g
  <2> HIDE DEF a, b
  <2>4. a <= b /\ a \in Nat /\ b \in Nat
    BY <2>2, <2>3 DEF a, b
  <2>5. oc >= b
    BY <1>5, <2>3 DEF b
  <2>6. oc < a
    BY <1>2, <1>3 DEF a
  <2>. QED
    BY <1>3, <2>4, <2>5, <2>6
<1>7. g + 1 \in Nat /\ g + 1 <= groups
  BY <1>5, <1>6
<1>8. (g + 1) * width <= groups * width
  BY <1>1, <1>7, Scaled
<1>9. (g + 1) * width = g * width + width /\ g * width \in Nat
  BY <1>1, <1>5
<1> DEFINE e == g * width
<1> HIDE DEF e
<1>10. e \in Nat /\ e + width <= channels
  <2>1. e + width <= groups * width
    BY <1>8, <1>9 DEF e
  <2>2. e \in Nat
    BY <1>9 DEF e
  <2>. QED
    BY <1>1, <2>1, <2>2
<1>11. e + p \in 0..channels - 1
  BY <1>1, <1>10
<1>. QED
  BY <1>11 DEF e, g, q

LEMMA ConvReads ==
    ASSUME NEW x, NEW c \in Calls, TensorFits(x[1]), TensorFits(x[2]),
           Has(x, 3) => TensorFits(x[3]), Conv2d(x, c).status = "ok"
    PROVE  Reads(Conv2d(x, c), x)
<1> DEFINE r == Conv2d(x, c)
           dims == x[1].shape
           weights == x[2].shape
           groups == GetAttr(c, "group", 1)
           kernel == <<weights[3], weights[4]>>
           group(oc) == oc \div (weights[1] \div groups)
           products(o) ==
             {<<At(x, 1, <<o[1], group(o[2]) * weights[2] + p[1], Tap(c, 1, o, p[2]), Tap(c, 2, o, p[2])>>),
                At(x, 2, <<o[2], p[1]>> \o p[2])>> :
                  p \in (0..weights[2] - 1) \X TapsInside(x, c, kernel, o)}
           bias(o) == {<< <<3, x[3].offset + o[2] * x[3].strides[1]>> >>}
           refused == ~Float(x) \/ Len(dims) # 4 \/ Len(weights) # 4 \/ groups <= 0
           unfit == \/ dims[2] % groups # 0 \/ weights[1] % groups # 0
                    \/ weights[2] # dims[2] \div groups
                    \/ ~PositivePair(kernel)
                    \/ GetAttr(c, "kernel_shape", kernel) # kernel
                    \/ WindowThrows(c)
                    \/ Has(x, 3) /\ x[3].shape # <<weights[1]>>
           extents == [s \in 1..2 |-> OutputExtent(x, c, kernel, s, FALSE)]
           shape == <<dims[1], weights[1]>> \o extents
           sizes == {dims[1] * extents[1] * extents[2], weights[1] \div groups,
                     weights[2] * kernel[1] * kernel[2]}
           beyond == ~FitInt(sizes)
           negative == \E i \in DOMAIN shape : shape[i] < 0
           of(o) == IF Has(x, 3) THEN products(o) \cup bias(o) ELSE products(o)
           terms(k) == of(Coordinates(k - 1, shape))
<1>1. r = IF refused THEN Thrown ELSE IF unfit THEN Thrown
          ELSE IF beyond THEN Thrown ELSE IF negative THEN Thrown
          ELSE [status |-> "ok", dtype |-> "FLOAT32", shape |-> shape,
                elements |-> [k \in 1..Numel(shape) |-> terms(k)]]
  BY Zenon DEF Conv2d, Result
<1>2. ~refused /\ ~unfit /\ ~negative /\ r.elements = [k \in 1..Numel(shape) |-> terms(k)]
  <2> HIDE DEF terms, negative, refused, unfit, beyond, sizes, shape
  <2>. QED
    BY <1>1 DEF Thrown
<1>3. /\ Len(dims) = 4 /\ Len(weights) = 4 /\ ~(groups <= 0)
      /\ dims[2] % groups = 0 /\ weights[1] % groups = 0 /\ weights[2] = dims[2] \div groups
      /\ PositivePair(kernel) /\ ~WindowThrows(c)
      /\ Has(x, 3) => x[3].shape = <<weights[1]>>
  BY <1>2, Zenon
<1>4. dims \in Seq(Nat) /\ weights \in Seq(Nat)
  BY DEF TensorFits
<1>5. groups \in Nat \ {0}
  <2>1. "group" \in DOMAIN c.attrs => c.attrs["group"] \in Int
    BY CallsAssumption
  <2>2. groups \in Int
    BY <2>1 DEF GetAttr
  <2> HIDE DEF groups
  <2>. QED
    BY <1>3, <2>2
<1> HIDE DEF refused, unfit, beyond, sizes, r, groups
<1>6. /\ dims[1] \in Nat /\ dims[2] \in Nat /\ dims[3] \in Nat /\ dims[4] \in Nat
      /\ DOMAIN dims = 1..4
  BY <1>3, <1>4, FourFacts
<1>7. /\ weights[1] \in Nat /\ weights[2] \in Nat /\ weights[3] \in Nat /\ weights[4] \in Nat
      /\ DOMAIN weights = 1..4
  BY <1>3, <1>4, FourFacts
<1>8. kernel[1] = weights[3] /\ kernel[2] = weights[4]
  OBVIOUS
<1>9. extents \in [1..2 -> Int]
  <2>1. \A s \in 1..2 : kernel[s] \in Nat \ {0}
    <3>1. kernel \in Seq(Int)
      BY <1>7
    <3> HIDE DEF kernel
    <3>. QED
      BY <1>3, <3>1, PairPositive
  <2>2. \A s \in 1..2 : dims[s + 2] \in Nat
    <3>1. \A s \in 1..2 : s = 1 \/ s = 2
      OBVIOUS
    <3>2. 1 + 2 = 3 /\ 2 + 2 = 4
      OBVIOUS
    <3>. QED
      BY <1>6, <3>1, <3>2
  <2>3. FALSE \in BOOLEAN
    OBVIOUS
  <2>4. \A s \in 1..2 : OutputExtent(x, c, kernel, s, FALSE) \in Int
    <3> HIDE DEF kernel
    <3>. QED
      BY <1>3, <2>1, <2>2, <2>3, ExtentIsInteger
  <2>. QED
    BY <2>4
<1> HIDE DEF extents, kernel
<1>10. shape \in Seq(Nat) /\ DOMAIN shape = 1..4 /\ shape[1] = dims[1] /\ shape[2] = weights[1]
  <2> DEFINE a == dims[1]
             b == weights[1]
  <2>1. a \in Nat /\ b \in Nat
    BY <1>6, <1>7
  <2>2. shape = <<a, b>> \o extents
    OBVIOUS
  <2> HIDE DEF dims, weights, shape, a, b
  <2>3. ~Negative(<<a, b>> \o extents)
    BY <1>2, <2>2 DEF Negative
  <2>4. IsWindowShape(<<a, b>> \o extents, a, b)
    BY <1>9, <2>1, <2>3, WindowShape
  <2>. QED
    BY <2>2, <2>4 DEF a, b, IsWindowShape
<1> HIDE DEF shape, negative
<1>11. ASSUME NEW k \in 1..Numel(shape) PROVE \A u \in terms(k) : TermStored(x, u)
  <2> DEFINE o == Coordinates(k - 1, shape)
  <2>1. Inside(o, shape)
    BY <1>10, ElementInside
  <2> HIDE DEF o
  <2>2. o[1] \in 0..dims[1] - 1 /\ o[2] \in 0..weights[1] - 1
    <3>1. 1 \in 1..4 /\ 2 \in 1..4
      OBVIOUS
    <3>2. o[1] \in 0..shape[1] - 1 /\ o[2] \in 0..shape[2] - 1
      BY <1>10, <2>1, <3>1, Zenon DEF Inside
    <3>. QED
      BY <1>10, <3>2
  <2> DEFINE product(p) ==
        <<At(x, 1, <<o[1], group(o[2]) * weights[2] + p[1], Tap(c, 1, o, p[2]), Tap(c, 2, o, p[2])>>),
          At(x, 2, <<o[2], p[1]>> \o p[2])>>
  <2>3. ASSUME NEW p \in (0..weights[2] - 1) \X TapsInside(x, c, kernel, o)
        PROVE  TermStored(x, product(p))
    <3> DEFINE q == p[2]
               channel == group(o[2]) * weights[2] + p[1]
               d == <<o[1], channel, Tap(c, 1, o, q), Tap(c, 2, o, q)>>
               e == <<o[2], p[1]>> \o q
    <3>1. p[1] \in 0..weights[2] - 1 /\ q \in TapsInside(x, c, kernel, o)
      OBVIOUS
    <3>2. channel \in 0..dims[2] - 1
      <4> HIDE DEF dims, weights, q
      <4>. QED
        BY <1>3, <1>5, <1>6, <1>7, <2>2, <3>1, ChannelInside
    <3>3. Inside(d, dims)
      <4> HIDE DEF channel, q
      <4>. QED
        BY <1>3, <1>4, <2>2, <3>1, <3>2, TapInside
    <3>4. Inside(e, weights)
      <4>1. q \in (0..kernel[1] - 1) \X (0..kernel[2] - 1)
        BY <3>1 DEF TapsInside
      <4>2. q[1] \in 0..weights[3] - 1 /\ q[2] \in 0..weights[4] - 1
        BY <1>8, <4>1
      <4> HIDE DEF q, weights
      <4>3. <<o[2], p[1]>> \o q = <<o[2], p[1], q[1], q[2]>>
        BY <4>1, PairsJoined
      <4>4. Inside(<<o[2], p[1], q[1], q[2]>>, weights)
        BY <1>3, <1>4, <2>2, <3>1, <4>2, FourInside
      <4>. QED
        BY <4>3, <4>4
    <3>5. product(p) = <<At(x, 1, d), At(x, 2, e)>>
      OBVIOUS
    <3> HIDE DEF d, e, product
    <3>6. Stored(x, At(x, 1, d)) /\ Stored(x, At(x, 2, e))
      BY <3>3, <3>4, AtStored
    <3>7. TermStored(x, <<At(x, 1, d), At(x, 2, e)>>)
      BY <3>6, TwoStored
    <3>. QED
      BY <3>5, <3>7
  <2>4. products(o) = {product(p) : p \in (0..weights[2] - 1) \X TapsInside(x, c, kernel, o)}
    OBVIOUS
  <2> HIDE DEF product, products
  <2>5. \A u \in products(o) : TermStored(x, u)
    BY <2>3, <2>4
  <2>6. Has(x, 3) => \A u \in bias(o) : TermStored(x, u)
    <3> SUFFICES ASSUME Has(x, 3) PROVE \A u \in bias(o) : TermStored(x, u)
      OBVIOUS
    <3>1. x[3].shape = <<weights[1]>> /\ TensorFits(x[3])
      BY <1>3
    <3>2. Len(x[3].shape) = 1 /\ x[3].shape[1] = weights[1]
      BY <3>1
    <3>3. Stored(x, <<3, x[3].offset + o[2] * x[3].strides[1]>>)
      BY <2>2, <3>1, <3>2, VectorStored
    <3>4. TermStored(x, << <<3, x[3].offset + o[2] * x[3].strides[1]>> >>)
      BY <3>3, OneStored
    <3>. QED
      BY <3>4
  <2> HIDE DEF bias
  <2>7. \A u \in of(o) : TermStored(x, u)
    BY <2>5, <2>6
  <2>. QED
    BY <2>7 DEF o
<1> HIDE DEF terms
<1>12. Reads(r, x)
  BY <1>2, <1>11, Zenon DEF Reads
<1>. QED
  BY <1>12 DEF r

-----------------------------------------------------------------------------
(* gemm.cpp *)

LEMMA FactorStored ==
    ASSUME NEW x, NEW i, TensorFits(x[i]), Len(x[i].shape) = 2,
           x[i].shape[1] # 0, x[i].shape[2] # 0, NEW linear \in Nat
    PROVE  Stored(x, AtLinear(x, i, linear))
<1>1. x[i].shape \in Seq(Nat)
  BY DEF TensorFits
<1> DEFINE s == x[i].shape
<1> HIDE DEF s
<1>2. s \in Seq(Nat) /\ Len(s) = 2 /\ s[1] # 0 /\ s[2] # 0
  BY <1>1 DEF s
<1>3. DOMAIN s = 1..2 /\ s[1] > 0 /\ s[2] > 0 /\ \A j \in 1..2 : j = 1 \/ j = 2
  BY <1>2
<1>4. Positive(s)
  BY <1>3 DEF Positive
<1>5. Positive(x[i].shape)
  BY <1>4 DEF s
<1>. QED
  BY <1>5, AtLinearStored

LEMMA TwoFacts ==
    ASSUME NEW s \in Seq(Nat), Len(s) = 2
    PROVE  s[1] \in Nat /\ s[2] \in Nat
OBVIOUS

LEMMA GemmReads ==
    ASSUME NEW x, NEW c, TensorFits(x[1]), TensorFits(x[2]),
           Has(x, 3) => TensorFits(x[3]), GemmOp(x, c).status = "ok"
    PROVE  Reads(GemmOp(x, c), x)
<1> DEFINE r == GemmOp(x, c)
           transposed(i) == GetAttr(c, IF i = 1 THEN "transA" ELSE "transB", 0) # 0
           m == x[1].shape[IF transposed(1) THEN 2 ELSE 1]
           inner == x[1].shape[IF transposed(1) THEN 1 ELSE 2]
           b_k == x[2].shape[IF transposed(2) THEN 2 ELSE 1]
           n == x[2].shape[IF transposed(2) THEN 1 ELSE 2]
           a(row, k) == AtLinear(x, 1, IF transposed(1) THEN k * m + row ELSE row * inner + k)
           b(k, column) == AtLinear(x, 2, IF transposed(2) THEN column * inner + k ELSE k * n + column)
           shape == <<m, n>>
           shapes == <<shape, x[3].shape>>
           products(o) == {<<a(o[1], k), b(k, o[2])>> : k \in 0..inner - 1}
           refused == ~Float(x) \/ Len(x[1].shape) # 2 \/ Len(x[2].shape) # 2
           mismatch == inner # b_k \/ ~FitInt({m, n, inner})
           unfit == BroadcastThrows(shapes) \/ BroadcastShape(shapes) # shape
           negative == \E i \in DOMAIN shape : shape[i] < 0
           with(o) == products(o) \cup {<<AtBroadcast(x, 3, o)>>}
           plain(k) == products(Coordinates(k - 1, shape))
           biased(k) == with(Coordinates(k - 1, shape))
<1>1. r = IF refused THEN Thrown ELSE IF mismatch THEN Thrown
          ELSE IF ~Has(x, 3)
          THEN IF negative THEN Thrown
               ELSE [status |-> "ok", dtype |-> "FLOAT32", shape |-> shape,
                     elements |-> [k \in 1..Numel(shape) |-> plain(k)]]
          ELSE IF unfit THEN Thrown
          ELSE IF negative THEN Thrown
          ELSE [status |-> "ok", dtype |-> "FLOAT32", shape |-> shape,
                elements |-> [k \in 1..Numel(shape) |-> biased(k)]]
  BY Zenon DEF GemmOp, Result
<1>2. /\ ~refused /\ ~mismatch
      /\ ~Has(x, 3) => r.elements = [k \in 1..Numel(shape) |-> plain(k)]
      /\ Has(x, 3) => ~unfit /\ r.elements = [k \in 1..Numel(shape) |-> biased(k)]
  <2> HIDE DEF plain, biased, negative, refused, mismatch, unfit, shape, inner, b_k
  <2>. QED
    BY <1>1 DEF Thrown
<1>3. Len(x[1].shape) = 2 /\ Len(x[2].shape) = 2
  BY <1>2, Zenon
<1>4. x[1].shape \in Seq(Nat) /\ x[2].shape \in Seq(Nat)
  BY DEF TensorFits
<1>5. /\ x[1].shape[1] \in Nat /\ x[1].shape[2] \in Nat
      /\ x[2].shape[1] \in Nat /\ x[2].shape[2] \in Nat
  BY <1>3, <1>4, TwoFacts
<1>6. /\ m \in Nat /\ n \in Nat /\ inner \in Nat
      /\ {x[1].shape[1], x[1].shape[2]} = {m, inner}
      /\ {x[2].shape[1], x[2].shape[2]} = {n, inner}
  <2>0. inner = b_k
    BY <1>2, Zenon
  <2> DEFINE t1 == transposed(1)
             t2 == transposed(2)
  <2> HIDE DEF t1, t2
  <2>1. /\ m = x[1].shape[IF t1 THEN 2 ELSE 1] /\ inner = x[1].shape[IF t1 THEN 1 ELSE 2]
        /\ b_k = x[2].shape[IF t2 THEN 2 ELSE 1] /\ n = x[2].shape[IF t2 THEN 1 ELSE 2]
    BY DEF t1, t2
  <2> HIDE DEF m, n, inner, b_k
  <2>. QED
    BY <2>0, <1>5, <2>1, Zenon
<1> HIDE DEF refused, mismatch, unfit, negative, r
<1>7. shape \in Seq(Nat) /\ Len(shape) = 2 /\ DOMAIN shape = 1..2 /\ shape[1] = m /\ shape[2] = n
  <2> HIDE DEF m, n
  <2>. QED
    BY <1>6
<1>8. ASSUME NEW k \in 1..Numel(shape)
      PROVE  LET o == Coordinates(k - 1, shape)
             IN  /\ \A u \in products(o) : TermStored(x, u)
                 /\ Inside(o, shape) /\ o \in Seq(Nat) /\ Len(o) = 2
  <2> DEFINE o == Coordinates(k - 1, shape)
  <2> HIDE DEF shape
  <2>1. Inside(o, shape) /\ o \in Seq(Nat) /\ Len(o) = 2
    BY <1>7, ElementInside, CoordinatesSequence
  <2> HIDE DEF o
  <2>2. o[1] \in 0..m - 1 /\ o[2] \in 0..n - 1
    <3>1. 1 \in 1..2 /\ 2 \in 1..2
      OBVIOUS
    <3>2. o[1] \in 0..shape[1] - 1 /\ o[2] \in 0..shape[2] - 1
      BY <1>7, <2>1, <3>1, Zenon DEF Inside
    <3>. QED
      BY <1>7, <3>2
  <2>3. ASSUME NEW l \in 0..inner - 1
        PROVE  TermStored(x, <<a(o[1], l), b(l, o[2])>>)
    <3> DEFINE t1 == transposed(1)
               t2 == transposed(2)
               p == IF t1 THEN l * m + o[1] ELSE o[1] * inner + l
               q == IF t2 THEN o[2] * inner + l ELSE l * n + o[2]
    <3>1. a(o[1], l) = AtLinear(x, 1, p) /\ b(l, o[2]) = AtLinear(x, 2, q)
      OBVIOUS
    <3> HIDE DEF t1, t2, m, n, inner, a, b
    <3>2. p \in Nat /\ q \in Nat
      <4>1. l \in Nat /\ o[1] \in Nat /\ o[2] \in Nat
        BY <1>6, <2>2
      <4>2. l * m \in Nat /\ o[1] * inner \in Nat /\ o[2] * inner \in Nat /\ l * n \in Nat
        BY <1>6, <4>1
      <4>. QED
        BY <4>1, <4>2
    <3>3. m # 0 /\ n # 0 /\ inner # 0
      BY <1>6, <2>2
    <3> HIDE DEF p, q
    <3>4. /\ x[1].shape[1] # 0 /\ x[1].shape[2] # 0
          /\ x[2].shape[1] # 0 /\ x[2].shape[2] # 0
      BY <1>6, <3>3
    <3>5. Stored(x, AtLinear(x, 1, p)) /\ Stored(x, AtLinear(x, 2, q))
      BY <1>3, <3>2, <3>4, FactorStored
    <3>6. TermStored(x, <<AtLinear(x, 1, p), AtLinear(x, 2, q)>>)
      BY <3>5, TwoStored
    <3>. QED
      BY <3>1, <3>6
  <2> HIDE DEF a, b, inner
  <2>4. \A u \in products(o) : TermStored(x, u)
    BY <2>3
  <2> HIDE DEF products
  <2>. QED
    BY <2>1, <2>4 DEF o
<1>9. CASE ~Has(x, 3)
  <2>1. \A k \in 1..Numel(shape) : \A u \in plain(k) : TermStored(x, u)
    <3> HIDE DEF products
    <3>. QED
      BY <1>8
  <2> HIDE DEF plain, shape
  <2>2. r.elements = [k \in 1..Numel(shape) |-> plain(k)]
    BY <1>2, <1>9
  <2>3. Reads(r, x)
    BY <2>1, <2>2, Zenon DEF Reads
  <2>. QED
    BY <2>3 DEF r
<1>10. CASE Has(x, 3)
  <2>1. TensorFits(x[3]) /\ ~unfit
    BY <1>2, <1>10, Zenon
  <2>2. ~BroadcastThrows(shapes) /\ BroadcastShape(shapes) = shape
    BY <2>1 DEF unfit
  <2>3. x[3].shape \in Seq(Nat)
    BY <2>1 DEF TensorFits
  <2> HIDE DEF shape
  <2>4. /\ Shaped(shapes) /\ DOMAIN shapes = 1..2 /\ shapes[2] = x[3].shape
        /\ \A j \in DOMAIN shapes : \A i \in DOMAIN shapes[j] : shapes[j][i] \in Nat
    <3>1. shapes[1] = shape /\ shapes[2] = x[3].shape /\ DOMAIN shapes = 1..2
      OBVIOUS
    <3>2. \A j \in 1..2 : j = 1 \/ j = 2
      OBVIOUS
    <3> HIDE DEF shapes
    <3>. QED
      BY <1>7, <2>3, <3>1, <3>2 DEF Shaped
  <2> HIDE DEF shapes
  <2>5. LongestShape(shapes) = 2
    <3>1. 1 \in Nat
      OBVIOUS
    <3>. QED
      BY <1>7, <2>2, <2>4, <3>1, BroadcastShapeFacts
  <2>6. 2 \in DOMAIN shapes
    BY <2>4
  <2>7. Conforms(shapes, 2, shape)
    BY <2>2, <2>6, NotThrown
  <2>8. ASSUME NEW k \in 1..Numel(shape) PROVE \A u \in biased(k) : TermStored(x, u)
    <3> DEFINE o == Coordinates(k - 1, shape)
    <3>1. /\ \A u \in products(o) : TermStored(x, u)
          /\ Inside(o, shape) /\ o \in Seq(Nat) /\ Len(o) = 2
      <4> HIDE DEF products
      <4>. QED
        BY <1>8
    <3> HIDE DEF products, o
    <3>2. Stretches(shapes[2], o)
      <4>1. Shaped(shapes) /\ Len(o) = LongestShape(shapes)
        BY <2>4, <2>5, <3>1
      <4>. QED
        BY <2>6, <2>7, <3>1, <4>1, BroadcastCovers
    <3>3. TermStored(x, <<AtBroadcast(x, 3, o)>>)
      <4>1. Stretches(x[3].shape, o)
        BY <2>4, <3>2
      <4>2. Stored(x, AtBroadcast(x, 3, o))
        BY <2>1, <4>1, AtBroadcastStored
      <4>. QED
        BY <4>2, OneStored
    <3>4. \A u \in with(o) : TermStored(x, u)
      BY <3>1, <3>3
    <3>. QED
      BY <3>4 DEF o
  <2> HIDE DEF biased
  <2>9. r.elements = [k \in 1..Numel(shape) |-> biased(k)]
    BY <1>2, <1>10
  <2>10. Reads(r, x)
    BY <2>8, <2>9, Zenon DEF Reads
  <2>. QED
    BY <2>10 DEF r
<1>. QED
  BY <1>9, <1>10

-----------------------------------------------------------------------------
(* bert.cpp: Gather *)

\* The n entries of a sequence behind the first m.
IsCut(p, s, m, n) ==
    Len(p) = n /\ DOMAIN p = 1..n /\ \A i \in 1..n : p[i] = s[m + i]

LEMMA Cut ==
    ASSUME NEW s \in Seq(Nat), NEW m \in Nat, NEW n \in Nat, m + n <= Len(s)
    PROVE  SubSeq(s, m + 1, m + n) \in Seq(Nat) /\ IsCut(SubSeq(s, m + 1, m + n), s, m, n)
<1> DEFINE p == SubSeq(s, m + 1, m + n)
<1>1. m + 1 \in Int /\ m + n \in Int /\ \A j \in m + 1 .. m + n : s[j] \in Nat
  OBVIOUS
<1>2. /\ p \in Seq(Nat)
      /\ Len(p) = IF m + 1 <= m + n THEN m + n - (m + 1) + 1 ELSE 0
      /\ \A j \in 1 .. m + n - (m + 1) + 1 : p[j] = s[(m + 1) + j - 1]
  BY <1>1, SubSeqOfNats
<1>3. /\ m + n - (m + 1) + 1 = n /\ (~(m + 1 <= m + n) => n = 0)
      /\ \A j \in 1..n : (m + 1) + j - 1 = m + j
  OBVIOUS
<1> HIDE DEF p
<1>4. Len(p) = n /\ \A j \in 1..n : p[j] = s[m + j]
  BY <1>2, <1>3
<1>5. DOMAIN p = 1..n
  BY <1>2, <1>4
<1>. QED
  BY <1>2, <1>4, <1>5 DEF p, IsCut

\* Three sequences one behind the other.
IsThree(p, s, t, u, a, b, c) ==
    /\ Len(p) = a + b + c /\ DOMAIN p = 1..a + b + c
    /\ \A i \in 1..a : p[i] = s[i]
    /\ \A i \in 1..b : p[a + i] = t[i]
    /\ \A i \in 1..c : p[a + b + i] = u[i]

LEMMA ThreeJoined ==
    ASSUME NEW s \in Seq(Nat), NEW t \in Seq(Nat), NEW u \in Seq(Nat),
           NEW a \in Nat, NEW b \in Nat, NEW c \in Nat,
           Len(s) = a, Len(t) = b, Len(u) = c
    PROVE  (s \o t) \o u \in Seq(Nat) /\ IsThree((s \o t) \o u, s, t, u, a, b, c)
<1> DEFINE q == s \o t
           p == q \o u
<1>1. q \in Seq(Nat) /\ IsJoined(q, s, t, a, b)
  BY Joined
<1> HIDE DEF q
<1>2. a + b \in Nat /\ Len(q) = a + b
  BY <1>1 DEF IsJoined
<1>3. p \in Seq(Nat) /\ IsJoined(p, q, u, a + b, c)
  BY <1>1, <1>2, Joined
<1> HIDE DEF p
<1>4. \A i \in 1..a : p[i] = s[i]
  <2>1. \A i \in 1..a : i \in 1..a + b
    OBVIOUS
  <2>. QED
    BY <1>1, <1>3, <2>1, Zenon DEF IsJoined
<1>5. \A i \in 1..b : p[a + i] = t[i]
  <2>1. \A i \in 1..b : a + i \in 1..a + b
    OBVIOUS
  <2>. QED
    BY <1>1, <1>3, <2>1, Zenon DEF IsJoined
<1>6. Len(p) = a + b + c /\ DOMAIN p = 1..a + b + c /\ \A i \in 1..c : p[a + b + i] = u[i]
  BY <1>3, Zenon DEF IsJoined
<1>7. IsThree(p, s, t, u, a, b, c)
  BY <1>4, <1>5, <1>6, Zenon DEF IsThree
<1>. QED
  BY <1>3, <1>7 DEF p, q

\* Numbers up to a + b + c lie in one of three stretches.
LEMMA ThreeStretches ==
    ASSUME NEW a \in Nat, NEW b \in Nat, NEW c \in Nat, NEW i \in 1..a + b + c
    PROVE  \/ i \in 1..a
           \/ i - a \in 1..b /\ a + (i - a) = i
           \/ i - (a + b) \in 1..c /\ a + b + (i - (a + b)) = i
OBVIOUS

LEMMA GatherInside ==
    ASSUME NEW data, NEW mid, NEW a \in Nat, NEW w \in Nat, NEW b \in Nat,
           DOMAIN data = 1..a + 1 + b, DOMAIN mid = 1..w,
           NEW front, NEW back, IsCut(front, data, 0, a), IsCut(back, data, a + 1, b),
           NEW shape, IsThree(shape, front, mid, back, a, w, b),
           NEW o, Inside(o, shape), NEW before, NEW index, NEW behind,
           IsCut(before, o, 0, a), IsCut(index, o, a, w), IsCut(behind, o, a + w, b),
           NEW selected \in 0..data[a + 1] - 1, NEW one, one[1] = selected,
           NEW source, IsThree(source, before, one, behind, a, 1, b)
    PROVE  Inside(index, mid) /\ Inside(source, data)
<1>1. /\ \A i \in 1..a : i \in 1..a + w + b /\ 0 + i = i
      /\ \A i \in 1..w : a + i \in 1..a + w + b
      /\ \A i \in 1..b : a + w + i \in 1..a + w + b
  OBVIOUS
<1>2. \A i \in 1..a + w + b : o[i] \in 0..shape[i] - 1
  BY Zenon DEF Inside, IsThree
<1>3. \A i \in 1..w : index[i] = o[a + i] /\ shape[a + i] = mid[i]
  BY Zenon DEF IsCut, IsThree
<1>4. \A i \in 1..w : index[i] \in 0..mid[i] - 1
  BY <1>1, <1>2, <1>3, Zenon
<1>5. Inside(index, mid)
  BY <1>4, Zenon DEF Inside, IsCut
<1>6. \A i \in 1..a : source[i] = o[i] /\ shape[i] = data[i]
  <2>1. \A i \in 1..a : source[i] = before[i] /\ shape[i] = front[i]
    BY Zenon DEF IsThree
  <2>2. \A i \in 1..a : before[i] = o[0 + i] /\ front[i] = data[0 + i]
    BY Zenon DEF IsCut
  <2>. QED
    BY <1>1, <2>1, <2>2, Zenon
<1>7. \A i \in 1..b : source[a + 1 + i] = o[a + w + i] /\ shape[a + w + i] = data[a + 1 + i]
  <2>1. \A i \in 1..b : source[a + 1 + i] = behind[i] /\ shape[a + w + i] = back[i]
    BY Zenon DEF IsThree
  <2>2. \A i \in 1..b : behind[i] = o[a + w + i] /\ back[i] = data[a + 1 + i]
    BY Zenon DEF IsCut
  <2>. QED
    BY <2>1, <2>2, Zenon
<1>8. source[a + 1] = selected
  <2>1. 1 \in 1..1
    OBVIOUS
  <2>. QED
    BY <2>1, Zenon DEF IsThree
<1>9. ASSUME NEW i \in 1..a + 1 + b
      PROVE  source[i] \in 0..data[i] - 1
  <2>1. 1 \in Nat
    OBVIOUS
  <2>2. CASE i \in 1..a
    BY <1>1, <1>2, <1>6, <2>2, Zenon
  <2>3. CASE i - a \in 1..1 /\ a + (i - a) = i
    <3>1. i = a + 1
      BY <2>3
    <3>. QED
      BY <1>8, <3>1
  <2>4. CASE i - (a + 1) \in 1..b /\ a + 1 + (i - (a + 1)) = i
    <3> DEFINE j == i - (a + 1)
    <3>1. j \in 1..b /\ a + 1 + j = i
      BY <2>4
    <3> HIDE DEF j
    <3>2. source[a + 1 + j] \in 0..data[a + 1 + j] - 1
      BY <1>1, <1>2, <1>7, <3>1
    <3>. QED
      BY <3>1, <3>2
  <2>. QED
    BY <2>1, <2>2, <2>3, <2>4, ThreeStretches
<1>10. Inside(source, data)
  BY <1>9, Zenon DEF Inside, IsThree
<1>. QED
  BY <1>5, <1>10

LEMMA GatherReads ==
    ASSUME NEW x, NEW c, TensorFits(x[1]), TensorFits(x[2]), Gather(x, c).status = "ok"
    PROVE  Reads(Gather(x, c), x)
<1> DEFINE r == Gather(x, c)
           data == x[1].shape
           width == Len(x[2].shape)
           axis == NormalizeAxis(GetAttr(c, "axis", 0), Len(data))
           front == SubSeq(data, 1, axis - 1)
           back == SubSeq(data, axis + 1, Len(data))
           shape == front \o x[2].shape \o back
           index(o) == SubSeq(o, axis, axis + width - 1)
           read(o) == x[2].data[1 + TensorOffset(x[2], index(o))]
           selected(o) == IF read(o) < 0 THEN read(o) + data[axis] ELSE read(o)
           source(o) == SubSeq(o, 1, axis - 1) \o <<selected(o)>> \o SubSeq(o, axis + width, Len(o))
           refused == x[2].dtype # "INT64" \/ axis \notin DOMAIN data
           outside == \E k \in 0..Numel(shape) - 1 :
                         selected(Coordinates(k, shape)) \notin 0..data[axis] - 1
           negative == \E i \in DOMAIN shape : shape[i] < 0
           terms(k) == {<<At(x, 2, index(Coordinates(k - 1, shape))),
                          At(x, 1, source(Coordinates(k - 1, shape)))>>}
<1>1. r = IF refused THEN Thrown ELSE IF outside THEN Thrown ELSE IF negative THEN Thrown
          ELSE [status |-> "ok", dtype |-> x[1].dtype, shape |-> shape,
                elements |-> [k \in 1..Numel(shape) |-> terms(k)]]
  BY Zenon DEF Gather, Result
<1>2. /\ ~refused /\ ~outside
      /\ r.elements = [k \in 1..Numel(shape) |-> terms(k)]
  <2> HIDE DEF terms, negative, outside, refused, shape
  <2>. QED
    BY <1>1 DEF Thrown
<1>3. axis \in DOMAIN data
  BY <1>2, Zenon
<1>4. /\ data \in Seq(Nat) /\ x[2].shape \in Seq(Nat)
      /\ TensorFits(x[1]) /\ TensorFits(x[2])
  BY DEF TensorFits
<1> DEFINE mid == x[2].shape
           a == axis - 1
           w == width
           b == Len(data) - axis
<1>5. mid \in Seq(Nat)
  BY <1>4
<1> HIDE DEF data, mid, axis, r, refused, negative
<1>6. /\ a \in Nat /\ w \in Nat /\ b \in Nat /\ axis = a + 1 /\ Len(data) = a + 1 + b
      /\ DOMAIN data = 1..a + 1 + b /\ DOMAIN mid = 1..w
  <2>1. Len(data) \in Nat /\ DOMAIN data = 1..Len(data) /\ w \in Nat /\ DOMAIN mid = 1..w
    BY <1>4 DEF mid
  <2> HIDE DEF w
  <2> DEFINE n == Len(data)
  <2>2. n \in Nat /\ axis \in 1..n
    BY <1>3, <2>1
  <2> HIDE DEF n
  <2>3. axis - 1 \in Nat /\ n - axis \in Nat /\ axis = (axis - 1) + 1
        /\ n = (axis - 1) + 1 + (n - axis)
    BY <2>2
  <2>. QED
    BY <2>1, <2>3 DEF n
<1>7. Len(mid) = w
  BY DEF mid
<1> HIDE DEF a, b, w
<1>8. /\ front \in Seq(Nat) /\ IsCut(front, data, 0, a)
      /\ back \in Seq(Nat) /\ IsCut(back, data, a + 1, b)
  <2>1. /\ 0 \in Nat /\ a + 1 \in Nat /\ 0 + a <= Len(data) /\ (a + 1) + b <= Len(data)
        /\ 0 + 1 = 1 /\ 0 + a = axis - 1 /\ (a + 1) + 1 = axis + 1 /\ (a + 1) + b = Len(data)
    BY <1>6
  <2>2. /\ SubSeq(data, 0 + 1, 0 + a) \in Seq(Nat)
        /\ IsCut(SubSeq(data, 0 + 1, 0 + a), data, 0, a)
    BY <1>4, <1>6, <2>1, Cut
  <2>3. /\ SubSeq(data, (a + 1) + 1, (a + 1) + b) \in Seq(Nat)
        /\ IsCut(SubSeq(data, (a + 1) + 1, (a + 1) + b), data, a + 1, b)
    BY <1>4, <1>6, <2>1, Cut
  <2>. QED
    BY <2>1, <2>2, <2>3, Zenon
<1> HIDE DEF front, back
<1>9. shape \in Seq(Nat) /\ IsThree(shape, front, mid, back, a, w, b)
  <2>1. Len(front) = a /\ Len(back) = b
    BY <1>8 DEF IsCut
  <2>2. (front \o mid) \o back \in Seq(Nat) /\ IsThree((front \o mid) \o back, front, mid, back, a, w, b)
    BY <1>5, <1>6, <1>7, <1>8, <2>1, ThreeJoined
  <2>. QED
    BY <2>2 DEF mid
<1>10. \A k \in 0..Numel(shape) - 1 : selected(Coordinates(k, shape)) \in 0..data[axis] - 1
  <2> HIDE DEF selected, shape
  <2>. QED
    BY <1>2
<1> HIDE DEF outside, shape
<1>11. ASSUME NEW k \in 1..Numel(shape) PROVE \A u \in terms(k) : TermStored(x, u)
  <2> DEFINE o == Coordinates(k - 1, shape)
  <2>1. Inside(o, shape) /\ o \in Seq(Nat) /\ Len(o) = Len(shape)
    BY <1>9, ElementInside, CoordinatesSequence
  <2>2. selected(o) \in 0..data[a + 1] - 1
    <3>1. k - 1 \in 0..Numel(shape) - 1
      <4>1. Numel(shape) \in Nat
        BY <1>9, CountIsNatural
      <4>. QED
        BY <4>1
    <3>2. selected(o) \in 0..data[axis] - 1
      <4> HIDE DEF selected
      <4>. QED
        BY <1>10, <3>1
    <3> HIDE DEF selected, o
    <3>. QED
      BY <1>6, <3>2
  <2> DEFINE one == <<selected(o)>>
  <2> HIDE DEF o, selected
  <2>3. one \in Seq(Nat) /\ Len(one) = 1 /\ one[1] = selected(o)
    <3>1. selected(o) \in Nat
      BY <2>2
    <3>. QED
      BY <3>1
  <2>4. Len(o) = a + w + b
    BY <1>9, <2>1 DEF IsThree
  <2>5. /\ SubSeq(o, 0 + 1, 0 + a) \in Seq(Nat) /\ IsCut(SubSeq(o, 0 + 1, 0 + a), o, 0, a)
        /\ SubSeq(o, a + 1, a + w) \in Seq(Nat) /\ IsCut(SubSeq(o, a + 1, a + w), o, a, w)
        /\ SubSeq(o, (a + w) + 1, (a + w) + b) \in Seq(Nat)
        /\ IsCut(SubSeq(o, (a + w) + 1, (a + w) + b), o, a + w, b)
    <3>1. /\ 0 \in Nat /\ a + w \in Nat /\ 0 + a <= Len(o) /\ a + w <= Len(o)
          /\ (a + w) + b <= Len(o)
      BY <1>6, <2>4
    <3>. QED
      BY <1>6, <2>1, <3>1, Cut
  <2>6. /\ 0 + 1 = 1 /\ 0 + a = axis - 1 /\ a + 1 = axis /\ a + w = axis + width - 1
        /\ (a + w) + 1 = axis + width /\ (a + w) + b = Len(o)
    <3>1. w = width
      BY DEF w
    <3> HIDE DEF width
    <3>. QED
      BY <1>6, <2>4, <3>1
  <2> DEFINE before == SubSeq(o, 1, axis - 1)
             behind == SubSeq(o, axis + width, Len(o))
  <2>7. /\ before \in Seq(Nat) /\ IsCut(before, o, 0, a)
        /\ IsCut(index(o), o, a, w)
        /\ behind \in Seq(Nat) /\ IsCut(behind, o, a + w, b)
    BY <2>5, <2>6, Zenon
  <2>8. source(o) = (before \o one) \o behind
    OBVIOUS
  <2> HIDE DEF before, behind, one, source, index
  <2>9. IsThree(source(o), before, one, behind, a, 1, b)
    <3>1. Len(before) = a /\ Len(behind) = b /\ 1 \in Nat
      BY <2>7 DEF IsCut
    <3>2. IsThree((before \o one) \o behind, before, one, behind, a, 1, b)
      BY <1>6, <2>3, <2>7, <3>1, ThreeJoined
    <3>. QED
      BY <2>8, <3>2
  <2>10. Inside(index(o), mid) /\ Inside(source(o), data)
    BY <1>6, <1>8, <1>9, <2>1, <2>2, <2>3, <2>7, <2>9, GatherInside
  <2>11. Stored(x, At(x, 2, index(o))) /\ Stored(x, At(x, 1, source(o)))
    BY <1>4, <2>10, AtStored DEF mid, data
  <2>12. TermStored(x, <<At(x, 2, index(o)), At(x, 1, source(o))>>)
    BY <2>11, TwoStored
  <2>13. \A u \in {<<At(x, 2, index(o)), At(x, 1, source(o))>>} : TermStored(x, u)
    BY <2>12
  <2>. QED
    BY <2>13, Zenon DEF o, index, source
<1> HIDE DEF terms
<1>12. Reads(r, x)
  BY <1>2, <1>11, Zenon DEF Reads
<1>. QED
  BY <1>12 DEF r

-----------------------------------------------------------------------------
(* bert.cpp: Concat *)

LEMMA SumOnSet ==
    ASSUME NEW f, Naturals(f), NEW D \in SUBSET DOMAIN f
    PROVE  SumFunctionOnSet(f, D) = Sums(f)[D]
<1> DEFINE g == [i \in D |-> f[i]]
           Raw(w) == [s \in SUBSET D |-> IF s = {} THEN 0 ELSE f[Pick(s)] + w[s \ {Pick(s)}]]
           Step(w) == [s \in SUBSET DOMAIN g |->
                         IF s = {} THEN 0 ELSE g[Pick(s)] + w[s \ {Pick(s)}]]
<1>1. SumFunctionOnSet(f, D) = (CHOOSE w : w = Raw(w))[D]
  BY DEF SumFunctionOnSet, FoldFunctionOnSet, MapThenFoldSet, Pick
<1>2. Sums(g) = CHOOSE w : w = Step(w)
  BY Zenon DEF Sums, SumsFrom
<1>3. DOMAIN g = D /\ \A i \in D : g[i] = f[i]
  OBVIOUS
<1> HIDE DEF g
<1>4. \A s \in SUBSET D : s # {} => g[Pick(s)] = f[Pick(s)]
  BY <1>3 DEF Pick
<1>5. \A w : Raw(w) = Step(w)
  <2> TAKE w
  <2>. QED
    BY <1>3, <1>4
<1>6. Naturals(g)
  <2>1. IsFiniteSet(D)
    BY FS_Subset DEF Naturals
  <2>. QED
    BY <1>3, <2>1 DEF Naturals
<1>7. Sums(g)[D] = Sums(f)[D]
  <2>1. D \subseteq DOMAIN g \cap DOMAIN f
    BY <1>3
  <2>. QED
    BY <1>3, <1>6, <2>1, SumsAgree
<1> HIDE DEF Raw, Step
<1>. QED
  BY <1>1, <1>2, <1>5, <1>7

LEMMA LeastIn ==
    ASSUME NEW T \in SUBSET Nat, T # {}
    PROVE  Min(T) \in T /\ \A y \in T : Min(T) <= y
<1>1. \E m \in T : \A y \in T : m <= y
  BY LeastNatural
<1>2. Min(T) = CHOOSE m \in T : \A y \in T : m <= y
  BY DEF Min
<1>. QED
  BY <1>1, <1>2, Zenon

\* Where the piece j begins, and the piece in which a position lies.
First(length, j) == SumFunctionOnSet(length, 1..j-1)

Piece(length, p) == Min({j \in DOMAIN length : p < First(length, j) + length[j]})

LEMMA PieceFacts ==
    ASSUME NEW N \in Nat, NEW length, Naturals(length), DOMAIN length = 1..N,
           NEW p \in Nat, p < SumFunction(length)
    PROVE  /\ Piece(length, p) \in 1..N
           /\ p - First(length, Piece(length, p)) \in 0..length[Piece(length, p)] - 1
<1> DEFINE T == {j \in 1..N : p < First(length, j) + length[j]}
           m == Min(T)
<1>1. \A j \in 1..N : length[j] \in Nat
  BY DEF Naturals
<1>2. \A j \in 1..N + 1 : /\ First(length, j) = Sums(length)[1..j-1]
                          /\ Sums(length)[1..j-1] \in Nat
  <2> SUFFICES ASSUME NEW j \in 1..N + 1
               PROVE  /\ First(length, j) = Sums(length)[1..j-1]
                      /\ Sums(length)[1..j-1] \in Nat
    OBVIOUS
  <2> DEFINE D == 1..j - 1
  <2>1. D \in SUBSET DOMAIN length
    OBVIOUS
  <2> HIDE DEF D
  <2>2. SumFunctionOnSet(length, D) = Sums(length)[D] /\ Sums(length)[D] \in Nat
    BY <2>1, SumOnSet, SumFacts
  <2>. QED
    BY <2>2 DEF D, First
<1>3. First(length, 1) = 0
  <2>1. 1 \in 1..N + 1 /\ 1..1-1 = {}
    OBVIOUS
  <2>2. Sums(length)[{}] = 0
    BY SumFacts
  <2>. QED
    BY <1>2, <2>1, <2>2
<1>4. \A j \in 1..N : First(length, j + 1) = length[j] + First(length, j)
  <2> SUFFICES ASSUME NEW j \in 1..N
               PROVE  First(length, j + 1) = length[j] + First(length, j)
    OBVIOUS
  <2> DEFINE D == 1..j
  <2>1. D \in SUBSET DOMAIN length /\ j \in D /\ D \ {j} = 1..j - 1 /\ D = 1..(j + 1) - 1
    OBVIOUS
  <2>2. j \in 1..N + 1 /\ j + 1 \in 1..N + 1
    OBVIOUS
  <2> HIDE DEF D
  <2>3. Sums(length)[D] = length[j] + Sums(length)[D \ {j}]
    <3>1. \A s \in SUBSET DOMAIN length : \A i \in s :
             Sums(length)[s] = length[i] + Sums(length)[s \ {i}]
      BY SumFacts
    <3>. QED
      BY <2>1, <3>1, Zenon
  <2>4. First(length, j) = Sums(length)[1..j-1] /\ First(length, j + 1) = Sums(length)[1..(j+1)-1]
    BY <1>2, <2>2
  <2>. QED
    BY <2>1, <2>3, <2>4
<1>5. SumFunction(length) = First(length, N + 1)
  <2>1. (N + 1) - 1 = N
    OBVIOUS
  <2>. QED
    BY <2>1 DEF SumFunction, First
<1>6. \A j \in 1..N + 1 : First(length, j) \in Nat
  BY <1>2
<1>7. T # {}
  <2>1. N # 0
    BY <1>3, <1>5
  <2>2. N \in 1..N
    BY <2>1
  <2>3. p < First(length, N) + length[N]
    <3>1. First(length, N + 1) = length[N] + First(length, N)
      BY <1>4, <2>2
    <3>2. length[N] \in Nat /\ First(length, N) \in Nat
      BY <1>1, <1>6, <2>2
    <3>. QED
      BY <1>5, <3>1, <3>2
  <2>. QED
    BY <2>2, <2>3
<1>8. m \in T /\ \A j \in T : m <= j
  <2>1. T \in SUBSET Nat
    OBVIOUS
  <2> HIDE DEF T
  <2>. QED
    BY <1>7, <2>1, LeastIn
<1>9. Piece(length, p) = m
  BY DEF Piece
<1>10. First(length, m) <= p
  <2> HIDE DEF m
  <2>1. CASE m = 1
    BY <1>3, <2>1
  <2>2. CASE m # 1
    <3> DEFINE j == m - 1
    <3>1. j \in 1..N /\ j + 1 = m /\ ~(m <= j)
      BY <1>8, <2>2
    <3> HIDE DEF j
    <3>2. ~(p < First(length, j) + length[j])
      BY <1>8, <3>1
    <3>3. First(length, m) = length[j] + First(length, j)
      BY <1>4, <3>1
    <3>4. length[j] \in Nat /\ First(length, j) \in Nat
      BY <1>1, <1>6, <3>1
    <3>. QED
      BY <3>2, <3>3, <3>4
  <2>. QED
    BY <2>1, <2>2
<1>11. m \in 1..N /\ p < First(length, m) + length[m]
  BY <1>8
<1> HIDE DEF m, T
<1>12. First(length, m) \in Nat /\ length[m] \in Nat
  BY <1>1, <1>6, <1>11
<1>13. p - First(length, m) \in 0..length[m] - 1
  BY <1>10, <1>11, <1>12
<1>. QED
  BY <1>9, <1>11, <1>13

LEMMA ConcatReads ==
    ASSUME NEW N \in Nat \ {0}, NEW x, DOMAIN x = 1..N, \A j \in 1..N : TensorFits(x[j]),
           NEW c, Concat(x, c).status = "ok"
    PROVE  Reads(Concat(x, c), x)
<1> DEFINE r == Concat(x, c)
           dims == x[1].shape
           rank == Len(dims)
           axis == NormalizeAxis(GetAttr(c, "axis", 0), rank)
           fits(t) == /\ Len(t.shape) = rank
                      /\ t.dtype = x[1].dtype
                      /\ \A i \in 1..rank \ {axis} : t.shape[i] = dims[i]
           length == [j \in DOMAIN x |-> x[j].shape[axis]]
           first(j) == SumFunctionOnSet(length, 1..j-1)
           source(o) == Min({j \in DOMAIN x : o[axis] < first(j) + length[j]})
           refused == axis \notin 1..rank \/ \E j \in DOMAIN x : ~fits(x[j])
           shape == [dims EXCEPT ![axis] = SumFunction(length)]
           negative == \E i \in DOMAIN shape : shape[i] < 0
           place(o) == [o EXCEPT ![axis] = @ - first(source(o))]
           of(o) == {<<At(x, source(o), place(o))>>}
           terms(k) == of(Coordinates(k - 1, shape))
<1>1. r = IF refused THEN Thrown ELSE IF negative THEN Thrown
          ELSE [status |-> "ok", dtype |-> x[1].dtype, shape |-> shape,
                elements |-> [k \in 1..Numel(shape) |-> terms(k)]]
  BY Zenon DEF Concat, Result
<1>2. ~refused /\ ~negative /\ r.elements = [k \in 1..Numel(shape) |-> terms(k)]
  <2> HIDE DEF terms, negative, refused, shape
  <2>. QED
    BY <1>1 DEF Thrown
<1>3. axis \in 1..rank /\ \A j \in 1..N : fits(x[j])
  BY <1>2, Zenon
<1>4. 1 \in 1..N /\ \A j \in 1..N : x[j].shape \in Seq(Nat)
  BY DEF TensorFits
<1>5. dims \in Seq(Nat) /\ rank \in Nat /\ DOMAIN dims = 1..rank
  BY <1>4
<1>6. \A j \in 1..N : /\ DOMAIN x[j].shape = 1..rank
                      /\ \A i \in 1..rank : i # axis => x[j].shape[i] = dims[i]
                      /\ x[j].shape[axis] \in Nat
  <2> SUFFICES ASSUME NEW j \in 1..N
               PROVE  /\ DOMAIN x[j].shape = 1..rank
                      /\ \A i \in 1..rank : i # axis => x[j].shape[i] = dims[i]
                      /\ x[j].shape[axis] \in Nat
    OBVIOUS
  <2>1. fits(x[j]) /\ x[j].shape \in Seq(Nat)
    BY <1>3, <1>4
  <2>2. /\ Len(x[j].shape) = rank
        /\ \A i \in 1..rank : i # axis => x[j].shape[i] = dims[i]
    BY <2>1
  <2> DEFINE s == x[j].shape
  <2> HIDE DEF rank, dims, axis, fits, s
  <2>3. s \in Seq(Nat) /\ Len(s) = rank
    BY <2>1, <2>2 DEF s
  <2>4. DOMAIN s = 1..rank /\ \A i \in 1..rank : s[i] \in Nat
    BY <2>3, ShapeFacts
  <2>. QED
    BY <1>3, <2>2, <2>4 DEF s
<1>7. DOMAIN length = 1..N /\ \A j \in 1..N : length[j] = x[j].shape[axis] /\ length[j] \in Nat
  BY <1>6
<1> HIDE DEF refused, r, fits, rank, dims, axis
<1>8. Naturals(length) /\ SumFunction(length) \in Nat
  <2> HIDE DEF length
  <2>1. IsFiniteSet(1..N)
    BY FS_Interval
  <2>2. Naturals(length)
    BY <1>7, <2>1 DEF Naturals
  <2>3. DOMAIN length \in SUBSET DOMAIN length
    OBVIOUS
  <2>4. SumFunction(length) = Sums(length)[DOMAIN length]
    BY <2>2, <2>3, SumOnSet DEF SumFunction
  <2>. QED
    BY <2>2, <2>3, <2>4, SumFacts
<1>9. /\ shape \in Seq(Nat) /\ DOMAIN shape = 1..rank
      /\ shape[axis] = SumFunction(length)
      /\ \A i \in 1..rank : i # axis => shape[i] = dims[i]
  <2> DEFINE total == SumFunction(length)
  <2>1. total \in Nat
    BY <1>8
  <2>2. shape = [dims EXCEPT ![axis] = total]
    OBVIOUS
  <2> HIDE DEF total, shape
  <2>3. shape \in Seq(Nat)
    BY <1>3, <1>5, <2>1, <2>2
  <2>4. /\ DOMAIN shape = 1..rank /\ shape[axis] = total
        /\ \A i \in 1..rank : i # axis => shape[i] = dims[i]
    BY <1>3, <1>5, <2>2
  <2>. QED
    BY <2>3, <2>4 DEF total
<1> HIDE DEF shape, negative
<1>10. ASSUME NEW k \in 1..Numel(shape) PROVE \A u \in terms(k) : TermStored(x, u)
  <2> DEFINE o == Coordinates(k - 1, shape)
  <2>1. Inside(o, shape)
    BY <1>9, ElementInside
  <2> HIDE DEF o
  <2>2. \A i \in 1..rank : o[i] \in 0..shape[i] - 1
    BY <1>9, <2>1, Zenon DEF Inside
  <2>3. o[axis] \in Nat /\ o[axis] < SumFunction(length)
    <3>1. o[axis] \in 0..shape[axis] - 1
      BY <1>3, <2>2
    <3> DEFINE total == SumFunction(length)
    <3>2. shape[axis] = total /\ total \in Nat
      BY <1>8, <1>9
    <3> HIDE DEF total
    <3>3. o[axis] \in Nat /\ o[axis] < total
      BY <3>1, <3>2
    <3>. QED
      BY <3>3 DEF total
  <2> DEFINE s == source(o)
  <2>4. s = Piece(length, o[axis]) /\ first(s) = First(length, s)
    <3>1. DOMAIN length = DOMAIN x
      OBVIOUS
    <3> HIDE DEF length
    <3>. QED
      BY <3>1 DEF Piece, First
  <2> DEFINE before == first(s)
  <2> HIDE DEF length
  <2>5. s \in 1..N /\ o[axis] - before \in 0..length[s] - 1
    <3> HIDE DEF s, before
    <3>1. /\ Piece(length, o[axis]) \in 1..N
          /\ o[axis] - First(length, Piece(length, o[axis]))
               \in 0..length[Piece(length, o[axis])] - 1
      BY <1>7, <1>8, <2>3, PieceFacts
    <3>2. before = First(length, s) /\ s = Piece(length, o[axis])
      BY <2>4 DEF before
    <3>. QED
      BY <3>1, <3>2, Zenon
  <2>6. place(o) = [o EXCEPT ![axis] = @ - before]
    OBVIOUS
  <2> HIDE DEF s, before, place
  <2>7. Inside(place(o), x[s].shape)
    <3> DEFINE t == x[s].shape
    <3>1. /\ DOMAIN t = 1..rank /\ length[s] = t[axis]
          /\ \A i \in 1..rank : i # axis => t[i] = dims[i]
      BY <1>6, <1>7, <2>5
    <3>2. DOMAIN o = 1..rank
      BY <1>9, <2>1 DEF Inside
    <3> HIDE DEF t
    <3>3. DOMAIN place(o) = 1..rank /\ place(o)[axis] = o[axis] - before
          /\ \A i \in 1..rank : i # axis => place(o)[i] = o[i]
      BY <1>3, <2>6, <3>2
    <3>4. \A i \in 1..rank : place(o)[i] \in 0..t[i] - 1
      <4> TAKE i \in 1..rank
      <4>1. CASE i = axis
        BY <2>5, <3>1, <3>3, <4>1
      <4>2. CASE i # axis
        BY <1>9, <2>2, <3>1, <3>3, <4>2
      <4>. QED
        BY <4>1, <4>2
    <3>5. Inside(place(o), t)
      BY <3>1, <3>3, <3>4, Zenon DEF Inside
    <3>. QED
      BY <3>5 DEF t
  <2>8. Stored(x, At(x, s, place(o)))
    BY <2>5, <2>7, AtStored
  <2>9. TermStored(x, <<At(x, s, place(o))>>)
    BY <2>8, OneStored
  <2>. QED
    BY <2>9 DEF o, s
<1> HIDE DEF terms
<1>11. Reads(r, x)
  BY <1>2, <1>10, Zenon DEF Reads
<1>. QED
  BY <1>11 DEF r

-----------------------------------------------------------------------------
(* bert.cpp: MatMul *)

\* A tensor of matrices without its last two axes.
Matrices(t) ==
    [shape |-> SubSeq(t.shape, 1, Len(t.shape) - 2), strides |-> t.strides, offset |-> t.offset]

\* Three terms of a sum over 1..n, the last two apart.
LEMMA LastTwo ==
    ASSUME NEW m \in Nat, NEW h, Naturals(h), DOMAIN h = 1..m + 2,
           NEW g, Naturals(g), DOMAIN g = 1..m, \A i \in 1..m : g[i] = h[i],
           NEW b \in Nat
    PROVE  FoldFunction(+, b, h) = FoldFunction(+, b, g) + h[m + 1] + h[m + 2]
<1>1. /\ 1..m + 2 \in SUBSET DOMAIN h /\ m + 2 \in 1..m + 2
      /\ 1..m + 1 \in SUBSET DOMAIN h /\ m + 1 \in 1..m + 1
      /\ (1..m + 2) \ {m + 2} = 1..m + 1 /\ (1..m + 1) \ {m + 1} = 1..m
      /\ 1..m \in SUBSET DOMAIN h
  OBVIOUS
<1>2. \A s \in SUBSET DOMAIN h : /\ Sums(h)[s] \in Nat
                                 /\ \A i \in s : Sums(h)[s] = h[i] + Sums(h)[s \ {i}]
  BY SumFacts
<1>3. /\ Sums(h)[1..m + 2] = h[m + 2] + Sums(h)[1..m + 1]
      /\ Sums(h)[1..m + 1] = h[m + 1] + Sums(h)[1..m]
      /\ Sums(h)[1..m] \in Nat
  <2> DEFINE A == 1..m + 2
             B == 1..m + 1
             C == 1..m
  <2>1. /\ A \in SUBSET DOMAIN h /\ m + 2 \in A /\ A \ {m + 2} = B
        /\ B \in SUBSET DOMAIN h /\ m + 1 \in B /\ B \ {m + 1} = C
        /\ C \in SUBSET DOMAIN h
    BY <1>1, Zenon
  <2> HIDE DEF A, B, C
  <2>2. Sums(h)[A] = h[m + 2] + Sums(h)[A \ {m + 2}]
    BY <1>2, <2>1, Zenon
  <2>3. Sums(h)[B] = h[m + 1] + Sums(h)[B \ {m + 1}]
    BY <1>2, <2>1, Zenon
  <2>4. Sums(h)[C] \in Nat
    BY <1>2, <2>1, Zenon
  <2>. QED
    BY <2>1, <2>2, <2>3, <2>4 DEF A, B, C
<1>4. Sums(g)[1..m] = Sums(h)[1..m]
  <2> DEFINE D == 1..m
  <2>1. D \subseteq DOMAIN g \cap DOMAIN h /\ \A i \in D : g[i] = h[i]
    BY <1>1
  <2> HIDE DEF D
  <2>2. Sums(g)[D] = Sums(h)[D]
    BY <2>1, SumsAgree
  <2>. QED
    BY <2>2 DEF D
<1>5. /\ FoldFunction(+, b, h) = b + Sums(h)[1..m + 2]
      /\ FoldFunction(+, b, g) = b + Sums(g)[1..m]
  BY SumFromFacts
<1>6. h[m + 1] \in Nat /\ h[m + 2] \in Nat
  <2>1. m + 1 \in DOMAIN h /\ m + 2 \in DOMAIN h
    OBVIOUS
  <2>. QED
    BY <2>1 DEF Naturals
<1> DEFINE z == Sums(h)[1..m]
           u == h[m + 1]
           v == h[m + 2]
           of_h == FoldFunction(+, b, h)
           of_g == FoldFunction(+, b, g)
<1>7. /\ z \in Nat /\ u \in Nat /\ v \in Nat
      /\ of_h = b + (v + (u + z)) /\ of_g = b + z
  BY <1>3, <1>4, <1>5, <1>6, Zenon
<1> HIDE DEF z, u, v, of_h, of_g
<1>8. of_h = of_g + u + v
  BY <1>7
<1>. QED
  BY <1>8 DEF u, v, of_h, of_g

LEMMA MatrixReads ==
    ASSUME NEW t, TensorFits(t), Len(t.shape) >= 2, NEW outer, Stretches(Matrices(t).shape, outer),
           NEW row \in 0..t.shape[Len(t.shape) - 1] - 1,
           NEW column \in 0..t.shape[Len(t.shape)] - 1
    PROVE  BroadcastOffset(Matrices(t), outer) + row * t.strides[Len(t.shape) - 1]
                                               + column * t.strides[Len(t.shape)] + 1 \in DOMAIN t.data
<1> DEFINE shape == t.shape
           strides == t.strides
           n == Len(shape)
           m == n - 2
           front == Matrices(t).shape
           shift == Len(outer) - Len(front)
           d == [i \in DOMAIN front |-> IF front[i] = 1 THEN 0 ELSE outer[shift + i]]
           g == [i \in DOMAIN d |-> d[i] * strides[i]]
           e == [j \in 1..n |-> IF j \in 1..m THEN d[j] ELSE IF j = n - 1 THEN row ELSE column]
           h == [i \in DOMAIN e |-> e[i] * strides[i]]
<1>1. /\ shape \in Seq(Nat) /\ strides \in Seq(Nat) /\ Len(strides) = n /\ t.offset \in Nat
  BY DEF TensorFits
<1>2. /\ n \in Nat /\ n >= 2 /\ DOMAIN shape = 1..n /\ DOMAIN strides = 1..n
      /\ \A i \in 1..n : shape[i] \in Nat /\ strides[i] \in Nat
  <2>1. n >= 2
    OBVIOUS
  <2> HIDE DEF shape, strides
  <2>2. n \in Nat /\ DOMAIN shape = 1..n /\ \A i \in 1..n : shape[i] \in Nat
    BY <1>1, ShapeFacts
  <2>3. DOMAIN strides = 1..Len(strides) /\ \A i \in 1..Len(strides) : strides[i] \in Nat
    BY <1>1, ShapeFacts
  <2>4. Len(strides) = n
    BY <1>1
  <2> HIDE DEF n
  <2>5. DOMAIN strides = 1..n /\ \A i \in 1..n : strides[i] \in Nat
    BY <2>3, <2>4
  <2>. QED
    BY <2>1, <2>2, <2>5
<1>3. m \in Nat /\ n = m + 2 /\ n - 1 = m + 1 /\ m + 2 = n /\ 0 + m <= n
  <2> HIDE DEF n
  <2>. QED
    BY <1>2
<1>4. row \in 0..shape[m + 1] - 1 /\ column \in 0..shape[m + 2] - 1
  BY <1>3
<1>5. /\ front = SubSeq(shape, 1, m)
      /\ Matrices(t).strides = strides /\ Matrices(t).offset = t.offset
  BY DEF Matrices
<1> HIDE DEF m, n, shape, strides
<1>6. front \in Seq(Nat) /\ DOMAIN front = 1..m /\ \A i \in 1..m : front[i] = shape[i]
  <2>1. 0 \in Nat /\ 0 + m <= Len(shape) /\ 0 + 1 = 1 /\ 0 + m = m /\ \A i \in 1..m : 0 + i = i
    BY <1>3 DEF n
  <2>2. SubSeq(shape, 0 + 1, 0 + m) \in Seq(Nat) /\ IsCut(SubSeq(shape, 0 + 1, 0 + m), shape, 0, m)
    BY <1>1, <1>3, <2>1, Cut
  <2>3. front \in Seq(Nat) /\ IsCut(front, shape, 0, m)
    BY <1>5, <2>1, <2>2
  <2>. QED
    BY <2>1, <2>3, Zenon DEF IsCut
<1>7. BroadcastOffset(Matrices(t), outer) = FoldFunction(+, t.offset, g)
  BY <1>5 DEF BroadcastOffset, TensorOffset
<1> HIDE DEF front
<1>8. \A i \in 1..m : d[i] \in 0..front[i] - 1
  <2> TAKE i \in 1..m
  <2>1. d[i] = IF front[i] = 1 THEN 0 ELSE outer[shift + i]
    BY <1>6
  <2>2. front[i] = 1 \/ outer[shift + i] \in 0..front[i] - 1
    BY <1>6 DEF Stretches, front
  <2> HIDE DEF d
  <2>3. CASE front[i] = 1
    BY <2>1, <2>3
  <2>4. CASE front[i] # 1
    BY <2>1, <2>2, <2>4
  <2>. QED
    BY <2>3, <2>4
<1>9. DOMAIN d = 1..m
  BY <1>6
<1> HIDE DEF d
<1>10. /\ \A i \in 1..m : i \in 1..n /\ i # n - 1 /\ i # n
       /\ m + 1 \in 1..n /\ m + 1 \notin 1..m /\ m + 1 = n - 1
       /\ m + 2 \in 1..n /\ m + 2 \notin 1..m /\ m + 2 # n - 1
       /\ \A i \in 1..n : i \in 1..m \/ i = m + 1 \/ i = m + 2
  BY <1>2, <1>3
<1>11. DOMAIN e = 1..n /\ e[m + 1] = row /\ e[m + 2] = column /\ \A i \in 1..m : e[i] = d[i]
  BY <1>10
<1> HIDE DEF e
<1>12. \A i \in 1..n : e[i] \in 0..shape[i] - 1
  BY <1>4, <1>6, <1>8, <1>10, <1>11
<1>13. Inside(e, t.shape)
  BY <1>2, <1>11, <1>12, Zenon DEF Inside, shape
<1>14. TensorOffset(t, e) + 1 \in DOMAIN t.data
  BY <1>13, TensorReads
<1>15. TensorOffset(t, e) = FoldFunction(+, t.offset, h)
  BY Zenon DEF TensorOffset, strides
<1>16. /\ DOMAIN h = 1..n /\ \A i \in 1..n : h[i] = e[i] * strides[i]
       /\ DOMAIN g = 1..m /\ \A i \in 1..m : g[i] = d[i] * strides[i]
  <2>1. DOMAIN e = 1..n /\ DOMAIN d = 1..m
    BY <1>9, <1>11
  <2>2. DOMAIN h = 1..n /\ \A i \in 1..n : h[i] = e[i] * strides[i]
    BY <2>1, Zenon
  <2>3. DOMAIN g = 1..m /\ \A i \in 1..m : g[i] = d[i] * strides[i]
    BY <2>1, Zenon
  <2>. QED
    BY <2>2, <2>3, Zenon
<1> HIDE DEF h, g
<1>17. \A i \in 1..n : h[i] \in Nat
  <2> TAKE i \in 1..n
  <2>1. e[i] \in Nat /\ strides[i] \in Nat
    <3>1. \A high, z : z \in 0..high => z \in Nat
      BY SMT
    <3>. QED
      BY <1>2, <1>12, <3>1, Zenon
  <2> DEFINE p == e[i]
             q == strides[i]
  <2>2. p \in Nat /\ q \in Nat /\ h[i] = p * q
    BY <1>16, <2>1
  <2> HIDE DEF p, q
  <2>3. p * q \in Nat
    BY <2>2
  <2>. QED
    BY <2>2, <2>3
<1>18. \A i \in 1..m : g[i] = h[i]
  BY <1>10, <1>11, <1>16
<1>19. Naturals(h) /\ Naturals(g)
  <2>1. IsFiniteSet(1..n) /\ IsFiniteSet(1..m)
    BY <1>2, <1>3, FS_Interval
  <2>2. Naturals(h)
    BY <1>16, <1>17, <2>1 DEF Naturals
  <2>3. \A i \in 1..m : g[i] \in Nat
    BY <1>10, <1>17, <1>18
  <2>. QED
    BY <1>16, <2>1, <2>2, <2>3 DEF Naturals
<1>20. FoldFunction(+, t.offset, h) = FoldFunction(+, t.offset, g) + h[m + 1] + h[m + 2]
  <2>1. DOMAIN h = 1..m + 2
    BY <1>3, <1>16
  <2>. QED
    BY <1>1, <1>3, <1>16, <1>18, <1>19, <2>1, LastTwo
<1>21. h[m + 1] = row * strides[n - 1] /\ h[m + 2] = column * strides[n]
  BY <1>3, <1>10, <1>11, <1>16
<1>22. BroadcastOffset(Matrices(t), outer) + row * strides[n - 1] + column * strides[n] + 1
         \in DOMAIN t.data
  BY <1>7, <1>14, <1>15, <1>20, <1>21, Zenon
<1>. QED
  BY <1>22 DEF n, shape, strides

\* Coordinates in a batch of matrices: those of the batch, a row, a column.
LEMMA BatchSplit ==
    ASSUME NEW batch, NEW last, NEW shape, NEW m \in Nat, DOMAIN batch = 1..m,
           IsJoined(shape, batch, last, m, 2),
           NEW o \in Seq(Nat), Inside(o, shape)
    PROVE  /\ SubSeq(o, 1, Len(o) - 2) \in Seq(Nat) /\ Len(SubSeq(o, 1, Len(o) - 2)) = m
           /\ Inside(SubSeq(o, 1, Len(o) - 2), batch)
           /\ o[Len(o) - 1] \in 0..last[1] - 1 /\ o[Len(o)] \in 0..last[2] - 1
<1>4. DOMAIN o = 1..m + 2 /\ \A i \in 1..m + 2 : o[i] \in 0..shape[i] - 1
  BY Zenon DEF Inside, IsJoined
<1>5. Len(o) = m + 2
  <2>1. DOMAIN o = 1..Len(o) /\ Len(o) \in Nat
    OBVIOUS
  <2> DEFINE n == Len(o)
  <2> HIDE DEF n
  <2>2. 1..n = 1..m + 2 /\ n \in Nat
    BY <1>4, <2>1 DEF n
  <2>3. n = m + 2
    BY <2>2
  <2>. QED
    BY <2>3 DEF n
<1>6. /\ \A i \in 1..m : i \in 1..m + 2 /\ 0 + i = i
      /\ 1 \in 1..2 /\ 2 \in 1..2 /\ m + 1 \in 1..m + 2 /\ m + 2 \in 1..m + 2
      /\ 0 \in Nat /\ 0 + 1 = 1 /\ 0 + m = m /\ 0 + m <= m + 2
      /\ (m + 2) - 2 = m /\ (m + 2) - 1 = m + 1
  OBVIOUS
<1>7. SubSeq(o, 1, m) \in Seq(Nat) /\ IsCut(SubSeq(o, 1, m), o, 0, m)
  <2>1. 0 + m <= Len(o)
    BY <1>5, <1>6
  <2>2. SubSeq(o, 0 + 1, 0 + m) \in Seq(Nat) /\ IsCut(SubSeq(o, 0 + 1, 0 + m), o, 0, m)
    BY <1>6, <2>1, Cut
  <2>. QED
    BY <1>6, <2>2, Zenon
<1> DEFINE outer == SubSeq(o, 1, m)
<1> HIDE DEF outer
<1>8. Len(outer) = m /\ DOMAIN outer = 1..m /\ \A i \in 1..m : outer[i] = o[0 + i]
  BY <1>7, Zenon DEF IsCut, outer
<1>9. \A i \in 1..m : outer[i] \in 0..batch[i] - 1
  <2>1. \A i \in 1..m : shape[i] = batch[i]
    BY Zenon DEF IsJoined
  <2>. QED
    BY <1>4, <1>6, <1>8, <2>1, Zenon
<1>10. Inside(outer, batch)
  BY <1>8, <1>9, Zenon DEF Inside
<1>11. o[m + 1] \in 0..last[1] - 1 /\ o[m + 2] \in 0..last[2] - 1
  <2>1. shape[m + 1] = last[1] /\ shape[m + 2] = last[2]
    BY <1>6, Zenon DEF IsJoined
  <2>2. o[m + 1] \in 0..shape[m + 1] - 1 /\ o[m + 2] \in 0..shape[m + 2] - 1
    BY <1>4, <1>6, Zenon
  <2>. QED
    BY <2>1, <2>2, Zenon
<1>12. SubSeq(o, 1, Len(o) - 2) = outer /\ Len(o) - 1 = m + 1
  BY <1>5, <1>6 DEF outer
<1>. QED
  BY <1>5, <1>7, <1>8, <1>10, <1>11, <1>12 DEF outer

LEMMA MatMulReads ==
    ASSUME NEW x, TensorFits(x[1]), TensorFits(x[2]), MatMul(x).status = "ok"
    PROVE  Reads(MatMul(x), x)
<1> DEFINE r == MatMul(x)
           rank(i) == Len(x[i].shape)
           dim(i, j) == x[i].shape[rank(i) - 2 + j]
           batch(i) == [shape |-> SubSeq(x[i].shape, 1, rank(i) - 2),
                        strides |-> x[i].strides, offset |-> x[i].offset]
           batches == <<batch(1).shape, batch(2).shape>>
           at(i, outer, row, column) ==
             <<i, BroadcastOffset(batch(i), outer) + row * x[i].strides[rank(i) - 1]
                                                   + column * x[i].strides[rank(i)]>>
           refused == ~Float(x) \/ rank(1) < 2 \/ rank(2) < 2
           unfit == \/ dim(1, 2) # dim(2, 1)
                    \/ ~FitInt({dim(1, 1), dim(2, 2), dim(1, 2)})
                    \/ BroadcastThrows(batches)
           shape == BroadcastShape(batches) \o <<dim(1, 1), dim(2, 2)>>
           negative == \E i \in DOMAIN shape : shape[i] < 0
           term(o, outer, k) == <<at(1, outer, o[Len(o) - 1], k), at(2, outer, k, o[Len(o)])>>
           of(o, outer) == {term(o, outer, k) : k \in 0..dim(1, 2) - 1}
           terms(k) == of(Coordinates(k - 1, shape),
                          SubSeq(Coordinates(k - 1, shape), 1, Len(Coordinates(k - 1, shape)) - 2))
<1>1. r = IF refused THEN Thrown ELSE IF unfit THEN Thrown ELSE IF negative THEN Thrown
          ELSE [status |-> "ok", dtype |-> "FLOAT32", shape |-> shape,
                elements |-> [k \in 1..Numel(shape) |-> terms(k)]]
  BY Zenon DEF MatMul, Result
<1>2. ~refused /\ ~unfit /\ r.elements = [k \in 1..Numel(shape) |-> terms(k)]
  <2> HIDE DEF terms, negative, refused, unfit, shape
  <2>. QED
    BY <1>1 DEF Thrown
<1>3. /\ ~(rank(1) < 2) /\ ~(rank(2) < 2)
      /\ dim(1, 2) = dim(2, 1) /\ ~BroadcastThrows(batches)
  BY <1>2, Zenon
<1>4. \A i \in 1..2 : TensorFits(x[i]) /\ x[i].shape \in Seq(Nat)
  <2>1. \A i \in 1..2 : i = 1 \/ i = 2
    OBVIOUS
  <2>2. \A i \in 1..2 : TensorFits(x[i])
    BY <2>1, Zenon
  <2>. QED
    BY <2>2 DEF TensorFits
<1>5. \A i \in 1..2 : rank(i) \in Nat /\ rank(i) >= 2
  <2>1. \A i \in 1..2 : rank(i) \in Nat /\ (i = 1 \/ i = 2)
    BY <1>4
  <2>. QED
    BY <1>3, <2>1
<1>6. \A i \in 1..2 : batch(i) = Matrices(x[i]) /\ batch(i).shape \in Seq(Nat)
  <2> SUFFICES ASSUME NEW i \in 1..2
               PROVE  batch(i) = Matrices(x[i]) /\ batch(i).shape \in Seq(Nat)
    OBVIOUS
  <2>1. batch(i) = Matrices(x[i])
    BY DEF Matrices
  <2> DEFINE s == x[i].shape
             n == Len(s)
  <2>2. s \in Seq(Nat) /\ n \in Nat /\ n >= 2
    BY <1>4, <1>5
  <2> HIDE DEF s
  <2>3. 1 \in Nat /\ 1 >= 1 /\ n - 2 \in 0..Len(s)
    BY <2>2
  <2>4. SubSeq(s, 1, n - 2) \in Seq(Nat)
    BY <2>2, <2>3, PartOfShape
  <2>. QED
    BY <2>1, <2>4 DEF s
<1>7. \A i, j \in 1..2 : dim(i, j) \in Nat
  <2> SUFFICES ASSUME NEW i \in 1..2, NEW j \in 1..2 PROVE dim(i, j) \in Nat
    OBVIOUS
  <2> DEFINE s == x[i].shape
             n == Len(s)
  <2>1. s \in Seq(Nat) /\ n \in Nat /\ n >= 2
    BY <1>4, <1>5
  <2> HIDE DEF s
  <2>2. \A p \in 1..n : s[p] \in Nat
    BY <2>1, ShapeFacts
  <2>3. n - 2 + j \in 1..n
    BY <2>1
  <2>4. s[n - 2 + j] \in Nat
    BY <2>2, <2>3
  <2>. QED
    BY <2>4 DEF s
<1>8. \A i \in 1..2 : /\ dim(i, 1) = x[i].shape[rank(i) - 1]
                      /\ dim(i, 2) = x[i].shape[rank(i)]
  <2>1. \A i \in 1..2 : rank(i) - 2 + 1 = rank(i) - 1 /\ rank(i) - 2 + 2 = rank(i)
    BY <1>5
  <2>. QED
    BY <2>1
<1> DEFINE outermost == BroadcastShape(batches)
           m == LongestShape(batches)
<1>9. /\ Shaped(batches) /\ DOMAIN batches = 1..2
      /\ batches[1] = batch(1).shape /\ batches[2] = batch(2).shape
      /\ \A j \in DOMAIN batches : \A i \in DOMAIN batches[j] : batches[j][i] \in Nat
  <2> DEFINE a == batch(1).shape
             b == batch(2).shape
  <2>1. a \in Seq(Nat) /\ b \in Seq(Nat) /\ batches = <<a, b>>
    BY <1>6
  <2> HIDE DEF a, b, batches
  <2>2. /\ Shaped(<<a, b>>) /\ DOMAIN <<a, b>> = 1..2
        /\ <<a, b>>[1] = a /\ <<a, b>>[2] = b
        /\ \A j \in DOMAIN <<a, b>> : \A i \in DOMAIN <<a, b>>[j] : <<a, b>>[j][i] \in Nat
    BY <2>1, PairShaped
  <2>3. /\ Shaped(batches) /\ DOMAIN batches = 1..2 /\ batches[1] = a /\ batches[2] = b
        /\ \A j \in DOMAIN batches : \A i \in DOMAIN batches[j] : batches[j][i] \in Nat
    BY <2>1, <2>2
  <2>4. a = batch(1).shape /\ b = batch(2).shape
    BY DEF a, b
  <2> HIDE DEF batch
  <2>. QED
    BY <2>3, <2>4
<1>10. \A i \in 1..2 : batches[i] = Matrices(x[i]).shape
  <2>1. \A i \in 1..2 : i = 1 \/ i = 2
    OBVIOUS
  <2> HIDE DEF batches, batch
  <2>. QED
    BY <1>6, <1>9, <2>1
<1> HIDE DEF refused, unfit, negative, r, batches
<1>11. outermost \in Seq(Nat) /\ Len(outermost) = m /\ m \in Nat
  <2>1. 1 \in Nat
    OBVIOUS
  <2>. QED
    BY <1>9, <2>1, BroadcastShapeFacts, LongestFacts
<1>12. \A j \in DOMAIN batches : Conforms(batches, j, outermost)
  BY <1>3, NotThrown
<1> HIDE DEF outermost
<1> DEFINE rows == dim(1, 1)
           columns == dim(2, 2)
           inner == dim(1, 2)
<1>13. rows \in Nat /\ columns \in Nat /\ inner \in Nat /\ inner = dim(2, 1)
  <2>1. 1 \in 1..2 /\ 2 \in 1..2
    OBVIOUS
  <2> HIDE DEF dim
  <2>. QED
    BY <1>3, <1>7, <2>1
<1> DEFINE last == <<rows, columns>>
<1>14. shape = outermost \o last
  BY DEF outermost
<1> HIDE DEF rows, columns, inner, shape
<1>15. /\ shape \in Seq(Nat) /\ IsJoined(shape, outermost, last, m, 2)
       /\ last[1] = rows /\ last[2] = columns
  <2>1. last \in Seq(Nat) /\ Len(last) = 2 /\ 2 \in Nat /\ last[1] = rows /\ last[2] = columns
    BY <1>13
  <2> HIDE DEF last, m
  <2>2. outermost \o last \in Seq(Nat) /\ IsJoined(outermost \o last, outermost, last, m, 2)
    BY <1>11, <2>1, Joined
  <2>. QED
    BY <1>14, <2>1, <2>2
<1> HIDE DEF last
<1>16. ASSUME NEW k \in 1..Numel(shape) PROVE \A u \in terms(k) : TermStored(x, u)
  <2> DEFINE o == Coordinates(k - 1, shape)
             outer == SubSeq(o, 1, Len(o) - 2)
             row == o[Len(o) - 1]
             column == o[Len(o)]
  <2>1. Inside(o, shape) /\ o \in Seq(Nat)
    BY <1>15, ElementInside, CoordinatesSequence
  <2> HIDE DEF o
  <2>2. /\ outer \in Seq(Nat) /\ Len(outer) = m /\ Inside(outer, outermost)
        /\ row \in 0..rows - 1 /\ column \in 0..columns - 1
    <3>1. m \in Nat /\ DOMAIN outermost = 1..m
      BY <1>11
    <3> HIDE DEF m
    <3>2. /\ SubSeq(o, 1, Len(o) - 2) \in Seq(Nat) /\ Len(SubSeq(o, 1, Len(o) - 2)) = m
          /\ Inside(SubSeq(o, 1, Len(o) - 2), outermost)
          /\ o[Len(o) - 1] \in 0..last[1] - 1 /\ o[Len(o)] \in 0..last[2] - 1
      BY <1>15, <2>1, <3>1, BatchSplit
    <3>. QED
      BY <1>15, <3>2
  <2> HIDE DEF outer, row, column
  <2>3. \A i \in 1..2 : Stretches(Matrices(x[i]).shape, outer)
    <3> SUFFICES ASSUME NEW i \in 1..2 PROVE Stretches(Matrices(x[i]).shape, outer)
      OBVIOUS
    <3>1. i \in DOMAIN batches /\ Shaped(batches) /\ Len(outer) = LongestShape(batches)
      BY <1>9, <2>2
    <3>2. Conforms(batches, i, outermost)
      BY <1>12, <3>1
    <3>3. Stretches(batches[i], outer)
      BY <2>2, <3>1, <3>2, BroadcastCovers
    <3>. QED
      BY <1>10, <3>3
  <2>4. ASSUME NEW i \in 1..2, NEW p \in 0..dim(i, 1) - 1, NEW q \in 0..dim(i, 2) - 1
        PROVE  Stored(x, at(i, outer, p, q))
    <3>1. /\ TensorFits(x[i]) /\ Len(x[i].shape) >= 2 /\ Stretches(Matrices(x[i]).shape, outer)
          /\ p \in 0..x[i].shape[Len(x[i].shape) - 1] - 1
          /\ q \in 0..x[i].shape[Len(x[i].shape)] - 1
      <4>1. Len(x[i].shape) = rank(i)
        OBVIOUS
      <4>2. p \in 0..x[i].shape[rank(i) - 1] - 1 /\ q \in 0..x[i].shape[rank(i)] - 1
        BY <1>8
      <4>. QED
        BY <1>4, <1>5, <2>3, <4>1, <4>2
    <3> DEFINE z == BroadcastOffset(batch(i), outer) + p * x[i].strides[rank(i) - 1]
                                                     + q * x[i].strides[rank(i)]
    <3>2. z + 1 \in DOMAIN x[i].data
      <4>1. batch(i) = Matrices(x[i])
        BY <1>6
      <4> HIDE DEF batch
      <4>. QED
        BY <3>1, <4>1, MatrixReads
    <3>3. at(i, outer, p, q) = <<i, z>>
      OBVIOUS
    <3> HIDE DEF z, at
    <3>4. <<i, z>>[1] = i /\ <<i, z>>[2] = z
      OBVIOUS
    <3>5. Stored(x, <<i, z>>)
      BY <3>2, <3>4, Zenon DEF Stored
    <3>. QED
      BY <3>3, <3>5
  <2> HIDE DEF at
  <2>5. ASSUME NEW l \in 0..inner - 1
        PROVE  TermStored(x, <<at(1, outer, row, l), at(2, outer, l, column)>>)
    <3>1. /\ row \in 0..dim(1, 1) - 1 /\ l \in 0..dim(1, 2) - 1
          /\ l \in 0..dim(2, 1) - 1 /\ column \in 0..dim(2, 2) - 1
      <4> HIDE DEF dim
      <4>. QED
        BY <1>13, <2>2 DEF rows, columns, inner
    <3>2. 1 \in 1..2 /\ 2 \in 1..2
      OBVIOUS
    <3> HIDE DEF dim
    <3>3. Stored(x, at(1, outer, row, l)) /\ Stored(x, at(2, outer, l, column))
      BY <2>4, <3>1, <3>2
    <3>. QED
      BY <3>3, TwoStored
  <2>6. \A l \in 0..inner - 1 : term(o, outer, l) = <<at(1, outer, row, l), at(2, outer, l, column)>>
    BY DEF row, column
  <2> HIDE DEF term
  <2>7. of(o, outer) = {term(o, outer, l) : l \in 0..inner - 1}
    BY DEF inner
  <2> HIDE DEF of
  <2>8. \A u \in of(o, outer) : TermStored(x, u)
    BY <2>5, <2>6, <2>7
  <2>. QED
    BY <2>8 DEF o, outer
<1> HIDE DEF terms
<1>17. Reads(r, x)
  BY <1>2, <1>16, Zenon DEF Reads
<1>. QED
  BY <1>17 DEF r

-----------------------------------------------------------------------------
(* Every kernel *)

Supported ==
    {"Unary", "Binary", "Cast", "Constant", "Shape", "Gather", "Concat", "Unsqueeze",
     "Squeeze", "Reshape", "Flatten", "Slice", "Expand", "Where", "ReduceMean", "Softmax",
     "MatMul", "LayerNorm", "BatchNorm", "Gemm", "MaxPool", "GlobalAveragePool", "Conv"}

\* A kernel that does not throw has the operands that it demands, all in their
\* storage; it may have more.
LEMMA KernelReads ==
    ASSUME NEW c \in Calls, NEW n \in Nat \ {0}, NEW x, Len(x) = n, DOMAIN x = 1..n,
           \A i \in 1..n : x[i] = <<>> \/ TensorFits(x[i]),
           Kernel(c, x).status = "ok"
    PROVE  Reads(Kernel(c, x), x)
<1> DEFINE r == Kernel(c, x)
           needs == Required(c.op, n)
<1>1. ~InputMissing(c, x) /\ \A i \in 1..needs : Has(x, i)
  BY OperandsPresent
<1>2. r.status = "ok" /\ Thrown.status # "ok"
  BY DEF Thrown
<1>3. \A i \in Nat \ {0} : Has(x, i) => TensorFits(x[i]) /\ i <= n
  BY DEF Has
<1>4. c.op \in Supported
  <2>1. c.op \notin Supported => r = Thrown
    BY <1>1 DEF Kernel, Supported
  <2>. QED
    BY <1>2, <2>1
<1> HIDE DEF needs
<1>5. \A i \in 1..5 : i <= needs => Has(x, i) /\ TensorFits(x[i])
  BY <1>1, <1>3
<1>6. CASE c.op = "Unary"
  <2>1. needs = 1 /\ r = UnaryNode(x)
    BY <1>1, <1>6 DEF needs, Required, Kernel
  <2> HIDE DEF r
  <2>2. TensorFits(x[1])
    BY <1>5, <2>1
  <2>. QED
    BY <1>2, <2>1, <2>2, UnaryReads DEF r
<1>7. CASE c.op = "Binary"
  <2>1. needs = 2 /\ r = Binary(x)
    BY <1>1, <1>7 DEF needs, Required, Kernel
  <2> HIDE DEF r
  <2>2. TensorFits(x[1]) /\ TensorFits(x[2])
    BY <1>5, <2>1
  <2>. QED
    BY <1>2, <2>1, <2>2, BinaryReads DEF r
<1>8. CASE c.op = "Cast"
  <2>1. needs = 1 /\ r = CastOp(x, c)
    BY <1>1, <1>8 DEF needs, Required, Kernel
  <2> HIDE DEF r
  <2>2. TensorFits(x[1])
    BY <1>5, <2>1
  <2>. QED
    BY <1>2, <2>1, <2>2, CastReads DEF r
<1>9. CASE c.op = "Constant"
  <2>1. needs = 0 /\ r = ConstantOp(c)
    BY <1>1, <1>9 DEF needs, Required, Kernel
  <2> HIDE DEF r
  <2>. QED
    BY <1>2, <2>1, ConstantReads DEF r
<1>10. CASE c.op = "Shape"
  <2>1. needs = 1 /\ r = ShapeOp(x, c)
    BY <1>1, <1>10 DEF needs, Required, Kernel
  <2> HIDE DEF r
  <2>. QED
    BY <1>2, <2>1, ShapeReads DEF r
<1>11. CASE c.op = "Gather"
  <2>1. needs = 2 /\ r = Gather(x, c)
    BY <1>1, <1>11 DEF needs, Required, Kernel
  <2> HIDE DEF r
  <2>2. TensorFits(x[1]) /\ TensorFits(x[2])
    BY <1>5, <2>1
  <2>. QED
    BY <1>2, <2>1, <2>2, GatherReads DEF r
<1>12. CASE c.op = "Concat"
  <2>1. needs = n /\ r = Concat(x, c)
    BY <1>1, <1>12 DEF needs, Required, Kernel
  <2> HIDE DEF r
  <2>2. \A j \in 1..n : TensorFits(x[j])
    BY <1>1, <1>3, <2>1
  <2>. QED
    BY <1>2, <2>1, <2>2, ConcatReads DEF r
<1>13. CASE c.op = "Unsqueeze"
  <2>1. needs = 1 /\ r = Unsqueeze(x, c)
    BY <1>1, <1>13 DEF needs, Required, Kernel
  <2> HIDE DEF r
  <2>2. TensorFits(x[1])
    BY <1>5, <2>1
  <2>3. Has(x, 2) => TensorFits(x[2])
    BY <1>3
  <2>. QED
    BY <1>2, <2>1, <2>2, <2>3, UnsqueezeReads DEF r
<1>14. CASE c.op = "Squeeze"
  <2>1. needs = 1 /\ r = Squeeze(x, c)
    BY <1>1, <1>14 DEF needs, Required, Kernel
  <2> HIDE DEF r
  <2>2. TensorFits(x[1])
    BY <1>5, <2>1
  <2>3. Has(x, 2) => TensorFits(x[2])
    BY <1>3
  <2>. QED
    BY <1>2, <2>1, <2>2, <2>3, SqueezeReads DEF r
<1>15. CASE c.op = "Reshape"
  <2>1. needs = 2 /\ r = ReshapeOp(x, c)
    BY <1>1, <1>15 DEF needs, Required, Kernel
  <2> HIDE DEF r
  <2>2. TensorFits(x[1]) /\ TensorFits(x[2])
    BY <1>5, <2>1
  <2>. QED
    BY <1>2, <2>1, <2>2, ReshapeReads DEF r
<1>16. CASE c.op = "Flatten"
  <2>1. needs = 1 /\ r = Flatten(x, c)
    BY <1>1, <1>16 DEF needs, Required, Kernel
  <2> HIDE DEF r
  <2>2. TensorFits(x[1])
    BY <1>5, <2>1
  <2>. QED
    BY <1>2, <2>1, <2>2, FlattenReads DEF r
<1>17. CASE c.op = "Slice"
  <2>1. needs = 3 /\ r = SliceOp(x, c)
    BY <1>1, <1>17 DEF needs, Required, Kernel
  <2> HIDE DEF r
  <2>2. TensorFits(x[1]) /\ TensorFits(x[2]) /\ TensorFits(x[3])
    BY <1>5, <2>1
  <2>3. Len(x) \in Nat /\ Has(x, 2) /\ Has(x, 3) /\ \A i \in 2..5 : Has(x, i) => TensorFits(x[i])
    BY <1>3, <1>5, <2>1
  <2>. QED
    BY <1>2, <2>1, <2>2, <2>3, SliceReads DEF r
<1>18. CASE c.op = "Expand"
  <2>1. needs = 2 /\ r = Expand(x)
    BY <1>1, <1>18 DEF needs, Required, Kernel
  <2> HIDE DEF r
  <2>2. TensorFits(x[1]) /\ TensorFits(x[2])
    BY <1>5, <2>1
  <2>. QED
    BY <1>2, <2>1, <2>2, ExpandReads DEF r
<1>19. CASE c.op = "Where"
  <2>1. needs = 3 /\ r = WhereOp(x)
    BY <1>1, <1>19 DEF needs, Required, Kernel
  <2> HIDE DEF r
  <2>2. TensorFits(x[1]) /\ TensorFits(x[2]) /\ TensorFits(x[3])
    BY <1>5, <2>1
  <2>. QED
    BY <1>2, <2>1, <2>2, WhereReads DEF r
<1>20. CASE c.op = "ReduceMean"
  <2>1. needs = 1 /\ r = ReduceMean(x, c)
    BY <1>1, <1>20 DEF needs, Required, Kernel
  <2> HIDE DEF r
  <2>2. TensorFits(x[1])
    BY <1>5, <2>1
  <2>. QED
    BY <1>2, <2>1, <2>2, ReduceMeanReads DEF r
<1>21. CASE c.op = "Softmax"
  <2>1. needs = 1 /\ r = Softmax(x, c)
    BY <1>1, <1>21 DEF needs, Required, Kernel
  <2> HIDE DEF r
  <2>2. TensorFits(x[1])
    BY <1>5, <2>1
  <2>. QED
    BY <1>2, <2>1, <2>2, SoftmaxReads DEF r
<1>22. CASE c.op = "MatMul"
  <2>1. needs = 2 /\ r = MatMul(x)
    BY <1>1, <1>22 DEF needs, Required, Kernel
  <2> HIDE DEF r
  <2>2. TensorFits(x[1]) /\ TensorFits(x[2])
    BY <1>5, <2>1
  <2>. QED
    BY <1>2, <2>1, <2>2, MatMulReads DEF r
<1>23. CASE c.op = "LayerNorm"
  <2>1. needs = 3 /\ r = LayerNorm(x)
    BY <1>1, <1>23 DEF needs, Required, Kernel
  <2> HIDE DEF r
  <2>2. TensorFits(x[1]) /\ TensorFits(x[2]) /\ TensorFits(x[3])
    BY <1>5, <2>1
  <2>. QED
    BY <1>2, <2>1, <2>2, LayerNormReads DEF r
<1>24. CASE c.op = "BatchNorm"
  <2>1. needs = 5 /\ r = BatchNorm(x, c)
    BY <1>1, <1>24 DEF needs, Required, Kernel
  <2> HIDE DEF r
  <2>2. \A i \in 1..5 : TensorFits(x[i])
    BY <1>5, <2>1
  <2>. QED
    BY <1>2, <2>1, <2>2, BatchNormReads DEF r
<1>25. CASE c.op = "Gemm"
  <2>1. needs = 2 /\ r = GemmOp(x, c)
    BY <1>1, <1>25 DEF needs, Required, Kernel
  <2> HIDE DEF r
  <2>2. TensorFits(x[1]) /\ TensorFits(x[2])
    BY <1>5, <2>1
  <2>3. Has(x, 3) => TensorFits(x[3])
    BY <1>3
  <2>. QED
    BY <1>2, <2>1, <2>2, <2>3, GemmReads DEF r
<1>26. CASE c.op = "MaxPool"
  <2>1. needs = 1 /\ r = MaxPool(x, c)
    BY <1>1, <1>26 DEF needs, Required, Kernel
  <2> HIDE DEF r
  <2>2. TensorFits(x[1])
    BY <1>5, <2>1
  <2>. QED
    BY <1>2, <2>1, <2>2, MaxPoolReads DEF r
<1>27. CASE c.op = "GlobalAveragePool"
  <2>1. needs = 1 /\ r = GlobalAvgPool(x)
    BY <1>1, <1>27 DEF needs, Required, Kernel
  <2> HIDE DEF r
  <2>2. TensorFits(x[1])
    BY <1>5, <2>1
  <2>. QED
    BY <1>2, <2>1, <2>2, GlobalAvgPoolReads DEF r
<1>28. CASE c.op = "Conv"
  <2>1. needs = 2 /\ r = Conv2d(x, c)
    BY <1>1, <1>28 DEF needs, Required, Kernel
  <2> HIDE DEF r
  <2>2. TensorFits(x[1]) /\ TensorFits(x[2])
    BY <1>5, <2>1
  <2>3. Has(x, 3) => TensorFits(x[3])
    BY <1>3
  <2>. QED
    BY <1>2, <2>1, <2>2, <2>3, ConvReads DEF r
<1>. QED
  BY <1>4, <1>6, <1>7, <1>8, <1>9, <1>10, <1>11, <1>12, <1>13, <1>14, <1>15, <1>16, <1>17, <1>18, <1>19, <1>20, <1>21, <1>22, <1>23, <1>24, <1>25, <1>26, <1>27, <1>28 DEF Supported

LEMMA AnswersRead == VInv /\ CallInv => ReadsInStorage
<1> SUFFICES ASSUME VInv, CallInv, call # <<>>, result.status = "ok"
             PROVE  Reads(result, Operands(call))
  BY Zenon DEF ReadsInStorage, Reads, TermStored, Stored
<1> DEFINE x == Operands(call)
           n == Len(call.rest) + 1
<1>1. call \in Calls /\ result = Kernel(call, x)
  BY DEF CallInv
<1>2. Len(call.rest) \in Nat
  BY <1>1, CallsAssumption
<1>3. Len(x) = n /\ DOMAIN x = 1..n /\ \A i \in 1..n : x[i] = <<>> \/ TensorFits(x[i])
  BY <1>1, OperandsFit
<1>4. n \in Nat \ {0}
  BY <1>2
<1> HIDE DEF n, x
<1>5. Reads(Kernel(call, x), x)
  BY <1>1, <1>3, <1>4, KernelReads
<1>. QED
  BY <1>1, <1>5 DEF x

\* No kernel reads outside the storage of its operands, on views of every shape,
\* stride and offset that the operations on tensors produce.
THEOREM OperandsAlwaysReadInStorage == CallSpec => []ReadsInStorage
BY CallsAnswered, AnswersRead, PTL
-----------------------------------------------------------------------------
(* The elements of an array, counted row by row *)

\* The values of Linear for the first i coordinates.
Horner(A, c, s) ==
    /\ A \in [0..Len(s) -> Nat]
    /\ A[0] = 0
    /\ \A i \in 1..Len(s) : A[i] = A[i-1] * s[i] + c[i]

LEMMA HornerExists ==
    ASSUME NEW s \in Seq(Nat), NEW c, DOMAIN c = DOMAIN s, \A i \in DOMAIN s : c[i] \in Nat
    PROVE  \E A : Horner(A, c, s) /\ Linear(c, s) = A[Len(s)]
<1> DEFINE n == Len(s)
           D == 1..n
           next == [p \in Nat \X D |-> p[1] * s[p[2]] + c[p[2]]]
           Q == CHOOSE w : w = LinearStep(w, c, s)
           A == [i \in 0..n |-> Q[1..i]]
<1>0. n \in Nat /\ DOMAIN s = D /\ DOMAIN c = D
      /\ \A i \in D : s[i] \in Nat /\ c[i] \in Nat
  BY ShapeFacts
<1> HIDE DEF n
<1>1. next \in [Nat \X D -> Nat]
  BY <1>0, ProductSum
<1>2. Descent(Nat, 0, next, n)
  BY <1>0, <1>1 DEF Descent
<1> HIDE DEF next
<1>3. PICK w : Descends(w, Nat, 0, next, n)
  BY <1>2, DescentExists
<1>4. \A a \in Nat, i \in D : next[<<a, i>>] = a * s[i] + c[i]
  BY DEF next
<1>5. \A t \in SUBSET D : t # {} => Max(t) \in t /\ Max(t) \in D
  BY <1>0, LargestIn
<1>6. w = LinearStep(w, c, s)
  <2>1. \A t \in SUBSET D : t # {} => w[t \ {Max(t)}] \in Nat
    BY <1>3 DEF Descends
  <2>2. \A t \in SUBSET D : t # {} => next[<<w[t \ {Max(t)}], Max(t)>>]
                                      = w[t \ {Max(t)}] * s[Max(t)] + c[Max(t)]
    BY <1>4, <1>5, <2>1
  <2>3. DescentStep(w, 0, next, n) = LinearStep(w, c, s)
    BY <1>0, <2>2 DEF DescentStep, LinearStep
  <2>. QED
    BY <1>3, <2>3 DEF Descends
<1>7. Q = LinearStep(Q, c, s)
  BY <1>6
<1> HIDE DEF Q
<1>8. \A t \in SUBSET D : Q[t] = IF t = {} THEN 0
                                  ELSE Q[t \ {Max(t)}] * s[Max(t)] + c[Max(t)]
  BY <1>0, <1>7 DEF LinearStep
<1>9. Q[1..0] = 0
  <2>1. 1..0 = {} /\ {} \in SUBSET D
    OBVIOUS
  <2>. QED
    BY <1>8, <2>1
<1>10. ASSUME NEW i \in 1..n PROVE Q[1..i] = Q[1..i-1] * s[i] + c[i]
  <2> DEFINE t == 1..i
  <2>1. t \in SUBSET D /\ i \in t /\ t \ {i} = 1..i-1 /\ \A y \in t : y <= i
    BY <1>0
  <2> HIDE DEF t
  <2>2. Max(t) = i
    <3>1. Max(t) \in t /\ \A y \in t : y <= Max(t)
      BY <1>0, <2>1, LargestIn
    <3>2. Max(t) \in D /\ D \subseteq Nat
      BY <1>0, <2>1, <3>1
    <3>3. Max(t) <= i /\ i <= Max(t)
      BY <2>1, <3>1
    <3>. QED
      BY <1>0, <3>2, <3>3
  <2>3. Q[t] = Q[t \ {i}] * s[i] + c[i]
    BY <1>8, <2>1, <2>2
  <2>. QED
    BY <2>1, <2>3 DEF t
<1>11. \A i \in 0..n : Q[1..i] \in Nat
  <2> DEFINE S == {i \in 0..n : Q[1..i] \in Nat}
  <2>1. 0 \in S
    BY <1>0, <1>9
  <2>2. ASSUME NEW i \in 0..n-1, i \in S PROVE i + 1 \in S
    <3>1. i + 1 \in 1..n /\ (i + 1) - 1 = i /\ i + 1 \in 0..n
      BY <1>0
    <3>2. Q[1..i+1] = Q[1..i] * s[i+1] + c[i+1]
      BY <1>10, <3>1
    <3>3. Q[1..i] \in Nat /\ s[i+1] \in Nat /\ c[i+1] \in Nat
      BY <1>0, <2>2, <3>1
    <3>4. Q[1..i+1] \in Nat
      <4> DEFINE u == Q[1..i]
                 v == s[i+1]
                 w1 == c[i+1]
      <4>1. u \in Nat /\ v \in Nat /\ w1 \in Nat
        BY <3>3
      <4> HIDE DEF u, v, w1
      <4>2. u * v + w1 \in Nat
        BY <4>1, ProductSum
      <4>. QED
        BY <3>2, <4>2, Zenon DEF u, v, w1
    <3>. QED
      BY <3>1, <3>4
  <2> HIDE DEF S
  <2>3. \A i \in 0..n : i \in S
    BY <1>0, <2>1, <2>2, NaturalInduction
  <2>. QED
    BY <2>3 DEF S
<1>12. A \in [0..n -> Nat] /\ A[0] = 0
  BY <1>0, <1>9, <1>11
<1>13. \A i \in 1..n : A[i] = A[i-1] * s[i] + c[i]
  <2> TAKE i \in 1..n
  <2>1. i \in 0..n /\ i - 1 \in 0..n
    BY <1>0
  <2>. QED
    BY <1>10, <2>1
<1>14. Linear(c, s) = A[n]
  <2>1. Linear(c, s) = Q[D]
    BY <1>0, LinearIsLast DEF Q
  <2>2. n \in 0..n
    BY <1>0
  <2>. QED
    BY <2>1, <2>2
<1> HIDE DEF A
<1>. QED
  BY <1>12, <1>13, <1>14 DEF Horner, n

LEMMA Distributes ==
    ASSUME NEW x \in Nat, NEW y \in Nat, NEW z \in Nat
    PROVE  (x + y) * z = x * z + y * z /\ x * z \in Nat /\ y * z \in Nat /\ (x + y) * z \in Nat
OBVIOUS

LEMMA Associates ==
    ASSUME NEW x \in Nat, NEW y \in Nat, NEW z \in Nat
    PROVE  (x * y) * z = x * (y * z) /\ x * (y * z) \in Nat
OBVIOUS

\* The next value, with as many elements behind it as it counts.
LEMMA HornerStep ==
    ASSUME NEW a \in Nat, NEW d \in Nat, NEW x \in 0..d - 1, NEW b \in Nat
    PROVE  ((a * d + x) + 1) * b <= (a + 1) * (d * b)
<1>1. a * d + d = (a + 1) * d /\ a * d \in Nat
  OBVIOUS
<1> DEFINE y == a * d
           z == (a + 1) * d
<1>2. y \in Nat /\ z = y + d
  BY <1>1
<1> HIDE DEF y, z
<1>3. (y + x) + 1 \in Nat /\ z \in Nat /\ (y + x) + 1 <= z
  BY <1>2
<1>4. ((y + x) + 1) * b <= z * b
  BY <1>3, Scaled
<1>5. z * b = (a + 1) * (d * b)
  <2>1. a + 1 \in Nat
    OBVIOUS
  <2>. QED
    BY <2>1, Associates DEF z
<1>. QED
  BY <1>4, <1>5 DEF y

LEMMA HornerBelow ==
    ASSUME NEW s \in Seq(Nat), NEW c, Inside(c, s), NEW A, Horner(A, c, s)
    PROVE  A[Len(s)] \in 0..Numel(s) - 1
<1> DEFINE n == Len(s)
           N == Numel(s)
           S == {i \in 0..n : (A[i] + 1) * Behind(s, i) <= N}
<1>1. n \in Nat /\ DOMAIN s = 1..n /\ \A i \in 1..n : s[i] \in Nat
  BY ShapeFacts
<1>2. /\ Behind(s, n) = 1 /\ Behind(s, 0) = N
      /\ \A i \in 0..n : Behind(s, i) \in Nat
      /\ \A i \in 1..n : Behind(s, i - 1) = s[i] * Behind(s, i)
  BY BehindFacts
<1>3. /\ \A i \in 0..n : A[i] \in Nat
      /\ A[0] = 0
      /\ \A i \in 1..n : A[i] = A[i-1] * s[i] + c[i]
  BY DEF Horner
<1>4. \A i \in 1..n : c[i] \in 0..s[i] - 1
  BY <1>1 DEF Inside
<1> HIDE DEF n
<1>5. 0 \in 0..n /\ n \in 0..n
  BY <1>1
<1>6. N \in Nat
  BY <1>2, <1>5
<1> HIDE DEF N
<1>7. 0 \in S
  BY <1>2, <1>3, <1>5, <1>6
<1>8. ASSUME NEW i \in 0..n-1, i \in S PROVE i + 1 \in S
  <2> DEFINE j == i + 1
             a == A[i]
             d == s[j]
             x == c[j]
             b == Behind(s, j)
             e == Behind(s, i)
             z == A[j]
  <2>1. j \in 1..n /\ j - 1 = i /\ j \in 0..n /\ i \in 0..n
    BY <1>1
  <2>2. e = d * b /\ b \in Nat /\ a \in Nat /\ d \in Nat /\ x \in 0..d-1 /\ z = a * d + x
    BY <1>1, <1>2, <1>3, <1>4, <2>1
  <2>3. (a + 1) * e <= N
    BY <1>8
  <2>4. z \in Nat /\ e \in Nat
    BY <1>2, <1>3, <2>1
  <2>5. SUFFICES (z + 1) * b <= N
    BY <2>1
  <2> HIDE DEF j, a, d, x, b, e, z
  <2>6. (z + 1) * b <= (a + 1) * e
    BY <2>2, HornerStep
  <2>7. (z + 1) * b \in Nat /\ (a + 1) * e \in Nat
    BY <2>2, <2>4
  <2> DEFINE u == (z + 1) * b
             v == (a + 1) * e
  <2>8. u <= v /\ v <= N /\ u \in Nat /\ v \in Nat
    BY <2>3, <2>6, <2>7
  <2> HIDE DEF u, v
  <2>9. u <= N
    BY <1>6, <2>8
  <2>. QED
    BY <2>9 DEF u
<1>9. \A i \in 0..n : i \in S
  <2> HIDE DEF S
  <2>. QED
    BY <1>1, <1>7, <1>8, NaturalInduction
<1>10. (A[n] + 1) * 1 <= N /\ A[n] \in Nat
  BY <1>2, <1>3, <1>5, <1>9
<1> DEFINE z == A[n]
<1>11. (z + 1) * 1 <= N /\ z \in Nat
  BY <1>10
<1> HIDE DEF z
<1>12. z \in 0..N-1
  BY <1>6, <1>11
<1>. QED
  BY <1>12 DEF z, n, N

\* The coordinates are the digits of what Linear counts.
LEMMA HornerDigits ==
    ASSUME NEW s \in Seq(Nat), Positive(s), NEW c \in Seq(Nat), Inside(c, s),
           NEW A, Horner(A, c, s)
    PROVE  Digits(s, A[Len(s)]) = c
<1> DEFINE n == Len(s)
           linear == A[n]
           R == Rests(s, linear)
           S == {i \in 1..n : R[i] = A[i]}
<1>1. n \in Nat /\ DOMAIN s = 1..n /\ \A i \in 1..n : s[i] \in Nat \ {0}
  BY ShapeFacts DEF Positive
<1>2. /\ \A i \in 0..n : A[i] \in Nat
      /\ \A i \in 1..n : A[i] = A[i-1] * s[i] + c[i]
  BY DEF Horner
<1>3. DOMAIN c = 1..n /\ \A i \in 1..n : c[i] \in 0..s[i] - 1
  BY <1>1 DEF Inside
<1> HIDE DEF n
<1>4. linear \in Nat
  BY <1>1, <1>2
<1>5. /\ n > 0 => R[n] = linear
      /\ \A i \in 1..n-1 : R[i] = R[i+1] \div s[i+1]
  BY <1>4, RestFacts DEF n
<1> HIDE DEF R, linear
<1>6. ASSUME NEW i \in 1..n
      PROVE  A[i] \div s[i] = A[i-1] /\ A[i] % s[i] = c[i]
  <2> DEFINE z == A[i]
             a == A[i-1]
             d == s[i]
             x == c[i]
  <2>1. i \in 0..n /\ i - 1 \in 0..n
    BY <1>1
  <2>2. z \in Nat /\ a \in Nat /\ d \in Nat \ {0} /\ x \in 0..d-1 /\ z = a * d + x
    BY <1>1, <1>2, <1>3, <2>1
  <2> HIDE DEF z, a, d, x
  <2>3. z = d * a + x
    BY <2>2
  <2>4. z \div d = a /\ z % d = x
    BY <2>2, <2>3, DivisionUnique
  <2>. QED
    BY <2>4 DEF z, a, d, x
<1>7. \A i \in 1..n : i \in S
  <2>1. CASE n = 0
    BY <2>1
  <2>2. CASE n > 0
    <3>1. n \in S
      BY <1>1, <1>5, <2>2 DEF linear
    <3>2. ASSUME NEW i \in 1..n-1, i + 1 \in S PROVE i \in S
      <4>1. i \in 1..n /\ i + 1 \in 1..n /\ (i + 1) - 1 = i
        BY <1>1
      <4>2. R[i] = A[i+1] \div s[i+1]
        BY <1>5, <3>2
      <4>3. A[i+1] \div s[i+1] = A[i]
        BY <1>6, <4>1
      <4>. QED
        BY <4>1, <4>2, <4>3
    <3> HIDE DEF S
    <3>. QED
      BY <1>1, <3>1, <3>2, DownwardInduction
  <2>. QED
    BY <1>1, <2>1, <2>2
<1>8. Digits(s, linear) = [i \in 1..n |-> R[i] % s[i]]
  BY <1>1 DEF Digits, R
<1>9. \A i \in 1..n : R[i] % s[i] = c[i]
  BY <1>6, <1>7
<1>10. c = [i \in 1..n |-> c[i]]
  BY <1>3
<1>. QED
  BY <1>8, <1>9, <1>10 DEF linear, n

LEMMA DigitsInside ==
    ASSUME NEW s \in Seq(Nat), Positive(s), NEW k \in Nat
    PROVE  Digits(s, k) \in Seq(Nat) /\ Len(Digits(s, k)) = Len(s) /\ Inside(Digits(s, k), s)
<1> DEFINE c == Digits(s, k)
           n == Len(s)
<1>1. Inside(c, s)
  BY CoordinatesInside, CoordinatesAreDigits
<1>2. n \in Nat /\ DOMAIN s = 1..n /\ \A i \in 1..n : s[i] \in Nat
  BY ShapeFacts
<1>3. c = [i \in 1..n |-> c[i]]
  BY <1>2 DEF Digits
<1> HIDE DEF c, n
<1>4. \A i \in 1..n : c[i] \in 0..s[i] - 1
  BY <1>1, <1>2 DEF Inside
<1>5. \A i \in 1..n : c[i] \in Nat
  BY <1>2, <1>4
<1>6. c \in Seq(Nat) /\ Len(c) = n
  BY <1>2, <1>3, <1>5, TableOfNats
<1>. QED
  BY <1>1, <1>6 DEF c, n

LEMMA Swapped ==
    ASSUME NEW d \in Nat, NEW q \in Nat, NEW b \in Nat
    PROVE  (d * q) * b = q * (d * b)
OBVIOUS

LEMMA Cancels ==
    ASSUME NEW r \in Nat, NEW d \in Nat, NEW b \in Nat, r * b < d * b
    PROVE  r < d
<1>1. CASE d <= r
  <2>1. d * b <= r * b
    BY <1>1, Scaled
  <2>2. d * b \in Nat /\ r * b \in Nat
    OBVIOUS
  <2> DEFINE x == d * b
             y == r * b
  <2>3. x \in Nat /\ y \in Nat /\ x <= y /\ y < x
    BY <2>1, <2>2
  <2> HIDE DEF x, y
  <2>. QED
    BY <2>3
<1>. QED
  BY <1>1

\* Below the number of elements, the first digit is all that is left.
LEMMA FirstRest ==
    ASSUME NEW s \in Seq(Nat), Positive(s), NEW k \in 0..Numel(s) - 1, Len(s) > 0
    PROVE  Rests(s, k)[1] < s[1]
<1> DEFINE n == Len(s)
           R == Rests(s, k)
           S == {i \in 1..n : R[i] * Behind(s, i) <= k}
<1>1. n \in Nat /\ n > 0 /\ DOMAIN s = 1..n /\ \A i \in 1..n : s[i] \in Nat \ {0}
  BY ShapeFacts DEF Positive
<1>2. /\ Behind(s, n) = 1 /\ Behind(s, 0) = Numel(s)
      /\ \A i \in 0..n : Behind(s, i) \in Nat
      /\ \A i \in 1..n : Behind(s, i - 1) = s[i] * Behind(s, i)
  BY BehindFacts
<1>3. k \in Nat
  BY <1>2
<1>4. /\ R[n] = k
      /\ \A i \in 1..n-1 : R[i] = R[i+1] \div s[i+1]
      /\ \A i \in 1..n : R[i] \in Nat
  BY <1>1, <1>3, RestFacts
<1> HIDE DEF n, R
<1>5. n \in S
  <2>1. n \in 1..n
    BY <1>1
  <2>2. k * 1 = k /\ k <= k
    BY <1>3
  <2>3. R[n] * Behind(s, n) <= k
    BY <1>2, <1>4, <2>2, Zenon
  <2>. QED
    BY <2>1, <2>3, Zenon
<1>6. ASSUME NEW i \in 1..n-1, i + 1 \in S PROVE i \in S
  <2> DEFINE j == i + 1
             q == R[i]
             r == R[j]
             d == s[j]
             b == Behind(s, j)
             e == Behind(s, i)
  <2>1. j \in 1..n /\ j \in 0..n /\ j - 1 = i /\ i \in 1..n
    BY <1>1
  <2>2. /\ q = r \div d /\ r \in Nat /\ d \in Nat \ {0} /\ b \in Nat /\ e = d * b
        /\ r * b <= k
    BY <1>1, <1>2, <1>4, <1>6, <2>1
  <2>3. SUFFICES q * e <= k
    BY <2>1
  <2> HIDE DEF j, q, r, d, b, e
  <2>4. q \in Nat /\ (r % d) \in 0..d-1 /\ r = d * q + (r % d)
    BY <2>2, Division
  <2>5. d * q \in Nat /\ d * q <= r
    <3> DEFINE x == d * q
               y == r % d
    <3>1. x \in Nat /\ y \in Nat /\ r = x + y
      BY <2>2, <2>4
    <3> HIDE DEF x, y
    <3>2. x \in Nat /\ x <= r
      BY <3>1
    <3>. QED
      BY <3>2 DEF x
  <2>6. (d * q) * b <= r * b
    BY <2>2, <2>5, Scaled
  <2>7. (d * q) * b = q * e
    BY <2>2, <2>4, Swapped
  <2> DEFINE x == q * e
             y == r * b
  <2>8. x <= y /\ y <= k /\ x \in Nat /\ y \in Nat
    <3>1. e \in Nat
      BY <2>2
    <3>. QED
      BY <2>2, <2>4, <2>6, <2>7, <3>1
  <2> HIDE DEF x, y
  <2>9. x <= k
    BY <1>3, <2>8
  <2>. QED
    BY <2>9 DEF x
<1>7. 1 \in S
  <2> HIDE DEF S
  <2>1. \A i \in 1..n : i \in S
    BY <1>1, <1>5, <1>6, DownwardInduction
  <2>. QED
    BY <1>1, <2>1
<1>8. Numel(s) = s[1] * Behind(s, 1) /\ Behind(s, 1) \in Nat /\ R[1] \in Nat /\ s[1] \in Nat
  <2>1. 1 \in 1..n /\ 1 \in 0..n /\ 1 - 1 = 0
    BY <1>1
  <2>. QED
    BY <1>1, <1>2, <1>4, <2>1
<1> DEFINE r == R[1]
           d == s[1]
           b == Behind(s, 1)
           N == Numel(s)
<1>9. N = d * b /\ b \in Nat /\ r \in Nat /\ d \in Nat /\ r * b <= k /\ k \in 0..N - 1
  BY <1>7, <1>8
<1> HIDE DEF r, d, b, N
<1>10. r * b < d * b
  BY <1>3, <1>9
<1>11. r < d
  BY <1>9, <1>10, Cancels
<1>. QED
  BY <1>11 DEF r, d, R

\* Linear gives the number whose digits the coordinates are.
LEMMA LinearOfDigits ==
    ASSUME NEW s \in Seq(Nat), Positive(s), NEW k \in 0..Numel(s) - 1
    PROVE  Linear(Digits(s, k), s) = k
<1> DEFINE n == Len(s)
           R == Rests(s, k)
           c == Digits(s, k)
<1>1. n \in Nat /\ DOMAIN s = 1..n /\ \A i \in 1..n : s[i] \in Nat \ {0}
  BY ShapeFacts DEF Positive
<1>2. Numel(s) \in Nat /\ k \in Nat
  BY BehindFacts, ShapeFacts
<1>3. /\ n > 0 => R[n] = k
      /\ \A i \in 1..n-1 : R[i] = R[i+1] \div s[i+1]
      /\ \A i \in 1..n : R[i] \in Nat
  BY <1>2, RestFacts
<1>4. DOMAIN c = DOMAIN s /\ \A i \in 1..n : c[i] = R[i] % s[i]
  BY <1>1 DEF Digits
<1>5. c \in Seq(Nat) /\ \A i \in DOMAIN s : c[i] \in Nat
  BY <1>2, <1>4, DigitsInside
<1>6. n > 0 => R[1] < s[1]
  BY FirstRest
<1> HIDE DEF c
<1>7. PICK A : Horner(A, c, s) /\ Linear(c, s) = A[n]
  BY <1>4, <1>5, HornerExists
<1>8. /\ \A i \in 0..n : A[i] \in Nat
      /\ A[0] = 0
      /\ \A i \in 1..n : A[i] = A[i-1] * s[i] + c[i]
  BY <1>7 DEF Horner
<1> HIDE DEF n, R
<1>9. CASE n = 0
  <2>1. Numel(s) = 1
    BY <1>9, BehindFacts DEF n
  <2>. QED
    BY <1>2, <1>7, <1>8, <1>9, <2>1 DEF c
<1>10. CASE n > 0
  <2> DEFINE S == {j \in Nat : j + 1 \in 1..n => A[j+1] = R[j+1]}
  <2>1. 0 \in S
    <3>1. 1 \in 1..n /\ 1 - 1 = 0 /\ 0 + 1 = 1
      BY <1>1, <1>10
    <3> DEFINE r == R[1]
               d == s[1]
    <3>2. A[1] = 0 * d + (r % d) /\ r \in Nat /\ d \in Nat \ {0} /\ r < d
      BY <1>1, <1>3, <1>4, <1>6, <1>8, <1>10, <3>1
    <3> HIDE DEF r, d
    <3>3. r = d * 0 + r /\ r \in 0..d-1
      BY <3>2
    <3>4. r % d = r
      BY <3>2, <3>3, DivisionUnique
    <3>5. A[1] = r
      BY <3>2, <3>4
    <3>. QED
      BY <3>1, <3>5 DEF r
  <2>2. ASSUME NEW j \in 0..n-1, j \in S PROVE j + 1 \in S
    <3> SUFFICES ASSUME (j + 1) + 1 \in 1..n PROVE A[(j+1)+1] = R[(j+1)+1]
      BY <1>1
    <3> DEFINE i == j + 1
               m == i + 1
    <3>1. i \in 1..n-1 /\ m \in 1..n /\ m - 1 = i /\ i \in 1..n
      BY <1>1
    <3>2. A[i] = R[i]
      BY <2>2, <3>1
    <3>3. R[i] = R[m] \div s[m] /\ c[m] = R[m] % s[m] /\ A[m] = A[i] * s[m] + c[m]
      BY <1>3, <1>4, <1>8, <3>1
    <3>4. R[m] \in Nat /\ s[m] \in Nat \ {0}
      BY <1>1, <1>3, <3>1
    <3>5. SUFFICES A[m] = R[m]
      OBVIOUS
    <3> DEFINE r == R[m]
               d == s[m]
               z == A[m]
    <3>6. z = (r \div d) * d + (r % d) /\ r \in Nat /\ d \in Nat \ {0}
      BY <3>2, <3>3, <3>4
    <3> HIDE DEF r, d, z
    <3>7. r = d * (r \div d) + (r % d) /\ r \div d \in Nat
      BY <3>6, Division
    <3>8. (r \div d) * d = d * (r \div d)
      BY <3>6, <3>7
    <3>9. z = r
      BY <3>6, <3>7, <3>8, Zenon
    <3>. QED
      BY <3>9 DEF z, r
  <2>3. \A j \in 0..n : j \in S
    <3> HIDE DEF S
    <3>. QED
      BY <1>1, <2>1, <2>2, NaturalInduction
  <2>4. n - 1 \in 0..n /\ (n - 1) + 1 = n /\ n \in 1..n
    BY <1>1, <1>10
  <2>5. A[n] = R[n]
    BY <2>3, <2>4
  <2>. QED
    BY <1>3, <1>7, <1>10, <2>5 DEF c
<1>. QED
  BY <1>1, <1>9, <1>10

\* The coordinates of a shape, as sequences.
Places(s) == {c \in Seq(Nat) : Len(c) = Len(s) /\ Inside(c, s)}

LEMMA PlaceFacts ==
    ASSUME NEW s \in Seq(Nat), NEW c \in Places(s)
    PROVE  /\ c \in Seq(Nat) /\ Len(c) = Len(s) /\ DOMAIN c = DOMAIN s /\ Inside(c, s)
           /\ \A i \in DOMAIN s : c[i] \in Nat /\ c[i] \in 0..s[i] - 1
           /\ Positive(s)
<1>1. c \in Seq(Nat) /\ Len(c) = Len(s) /\ Inside(c, s)
  BY DEF Places
<1>2. DOMAIN s = 1..Len(s) /\ \A i \in DOMAIN s : s[i] \in Nat
  BY ShapeFacts
<1>3. DOMAIN c = DOMAIN s /\ \A i \in DOMAIN s : c[i] \in 0..s[i] - 1
  BY <1>1 DEF Inside
<1>4. \A i \in DOMAIN s : c[i] \in Nat /\ s[i] > 0
  BY <1>2, <1>3
<1>. QED
  BY <1>1, <1>3, <1>4 DEF Positive

LEMMA PlaceNumber ==
    ASSUME NEW s \in Seq(Nat), NEW c \in Places(s)
    PROVE  Linear(c, s) \in 0..Numel(s) - 1 /\ Digits(s, Linear(c, s)) = c
<1>1. /\ c \in Seq(Nat) /\ DOMAIN c = DOMAIN s /\ Inside(c, s) /\ Positive(s)
      /\ \A i \in DOMAIN s : c[i] \in Nat
  BY PlaceFacts
<1>2. PICK A : Horner(A, c, s) /\ Linear(c, s) = A[Len(s)]
  BY <1>1, HornerExists
<1>. QED
  BY <1>1, <1>2, HornerBelow, HornerDigits

LEMMA NumberPlace ==
    ASSUME NEW s \in Seq(Nat), NEW k \in 0..Numel(s) - 1
    PROVE  /\ Digits(s, k) \in Places(s) /\ Linear(Digits(s, k), s) = k
           /\ Positive(s) /\ k \in Nat /\ Numel(s) \in Nat
<1>1. Numel(s) \in Nat
  BY BehindFacts, ShapeFacts
<1>2. k \in Nat /\ Numel(s) > 0
  BY <1>1
<1>3. Positive(s)
  BY <1>2, PositiveCount
<1>. QED
  BY <1>1, <1>2, <1>3, DigitsInside, LinearOfDigits DEF Places

\* c comes before d where they differ first.
Precedes(c, d) ==
    \E i \in DOMAIN c : c[i] < d[i] /\ \A j \in 1..i-1 : c[j] = d[j]

LEMMA OneMore ==
    ASSUME NEW a \in Nat, NEW z \in Nat, a < z, NEW d \in Nat, NEW x \in 0..d - 1, NEW y \in Nat
    PROVE  a * d + x < z * d + y
<1>1. (a + 1) * d <= z * d
  BY Scaled
<1>2. (a + 1) * d = a * d + d /\ a * d \in Nat /\ z * d \in Nat
  OBVIOUS
<1> DEFINE u == a * d
           v == z * d
<1>3. u \in Nat /\ v \in Nat /\ u + d <= v
  BY <1>1, <1>2
<1> HIDE DEF u, v
<1>4. u + x < v + y
  BY <1>3
<1>. QED
  BY <1>4 DEF u, v

LEMMA OrderedNumbers ==
    ASSUME NEW s \in Seq(Nat), NEW c \in Places(s), NEW d \in Places(s), Precedes(c, d)
    PROVE  Linear(c, s) < Linear(d, s)
<1> DEFINE n == Len(s)
<1>1. n \in Nat /\ DOMAIN s = 1..n /\ \A i \in 1..n : s[i] \in Nat
  BY ShapeFacts
<1>2. /\ DOMAIN c = DOMAIN s /\ DOMAIN d = DOMAIN s
      /\ \A i \in DOMAIN s : c[i] \in Nat /\ c[i] \in 0..s[i] - 1 /\ d[i] \in Nat
  BY PlaceFacts
<1>3. PICK A : Horner(A, c, s) /\ Linear(c, s) = A[n]
  BY <1>2, HornerExists
<1>4. PICK B : Horner(B, d, s) /\ Linear(d, s) = B[n]
  BY <1>2, HornerExists
<1>5. /\ \A i \in 0..n : A[i] \in Nat /\ B[i] \in Nat
      /\ A[0] = 0 /\ B[0] = 0
      /\ \A i \in 1..n : A[i] = A[i-1] * s[i] + c[i] /\ B[i] = B[i-1] * s[i] + d[i]
  BY <1>3, <1>4 DEF Horner
<1> HIDE DEF n
<1>6. PICK m \in 1..n : c[m] < d[m] /\ \A j \in 1..m-1 : c[j] = d[j]
  BY <1>1, <1>2 DEF Precedes
<1>7. \A i \in 0..m-1 : A[i] = B[i]
  <2> DEFINE S == {i \in Nat : A[i] = B[i]}
  <2>1. 0 \in S
    BY <1>5
  <2>2. ASSUME NEW i \in 0..(m-1)-1, i \in S PROVE i + 1 \in S
    <3>1. i + 1 \in 1..n /\ (i + 1) - 1 = i /\ i + 1 \in 1..m-1 /\ i + 1 \in Nat
      BY <1>1, <1>6
    <3>2. A[i+1] = A[i] * s[i+1] + c[i+1] /\ B[i+1] = B[i] * s[i+1] + d[i+1] /\ c[i+1] = d[i+1]
      BY <1>5, <1>6, <3>1
    <3>3. A[i+1] = B[i+1]
      BY <2>2, <3>2, Zenon
    <3>. QED
      BY <3>1, <3>3
  <2>3. m - 1 \in Nat
    BY <1>1, <1>6
  <2> HIDE DEF S
  <2>4. \A i \in 0..m-1 : i \in S
    BY <2>1, <2>2, <2>3, NaturalInduction
  <2>. QED
    BY <2>4 DEF S
<1> DEFINE T == {i \in Nat : m + i \in 1..n => A[m+i] < B[m+i]}
<1>8. 0 \in T
  <2>1. m - 1 \in 0..n /\ m - 1 \in 0..m-1 /\ m \in 1..n /\ m + 0 = m /\ m \in DOMAIN s
    BY <1>1, <1>6
  <2> DEFINE a == A[m-1]
             x == c[m]
             y == d[m]
             e == s[m]
  <2>2. A[m] = a * e + x /\ B[m] = a * e + y /\ a \in Nat /\ e \in Nat /\ x \in Nat /\ y \in Nat
        /\ x < y
    BY <1>1, <1>2, <1>5, <1>6, <1>7, <2>1
  <2> HIDE DEF a, x, y, e
  <2>3. a * e \in Nat
    BY <2>2
  <2> DEFINE z == a * e
  <2>4. A[m] = z + x /\ B[m] = z + y /\ z \in Nat
    BY <2>2, <2>3
  <2> HIDE DEF z
  <2>5. A[m] < B[m]
    BY <2>2, <2>4
  <2>. QED
    BY <2>1, <2>5
<1>9. ASSUME NEW i \in 0..n-1, i \in T PROVE i + 1 \in T
  <2> SUFFICES ASSUME m + (i + 1) \in 1..n PROVE A[m + (i + 1)] < B[m + (i + 1)]
    BY <1>1
  <2> DEFINE j == m + i
             k == m + (i + 1)
             a == A[j]
             z == B[j]
             x == c[k]
             y == d[k]
             e == s[k]
  <2>1. j \in 1..n /\ k \in 1..n /\ k - 1 = j /\ j \in 0..n /\ k \in DOMAIN s
    BY <1>1, <1>6
  <2>2. /\ A[k] = a * e + x /\ B[k] = z * e + y
        /\ a \in Nat /\ z \in Nat /\ e \in Nat /\ x \in 0..e-1 /\ y \in Nat
    BY <1>1, <1>2, <1>5, <2>1
  <2>3. a < z
    BY <1>9, <2>1
  <2>4. SUFFICES A[k] < B[k]
    OBVIOUS
  <2> HIDE DEF a, z, x, y, e, k, j
  <2>5. a * e + x < z * e + y
    BY <2>2, <2>3, OneMore
  <2>. QED
    BY <2>2, <2>5, Zenon
<1>10. A[n] < B[n]
  <2> HIDE DEF T
  <2>1. \A i \in 0..n : i \in T
    BY <1>1, <1>8, <1>9, NaturalInduction
  <2>2. n - m \in 0..n /\ m + (n - m) = n /\ n \in 1..n
    BY <1>1, <1>6
  <2>3. n - m \in T
    BY <2>1, <2>2
  <2>. QED
    BY <2>2, <2>3 DEF T
<1>. QED
  BY <1>3, <1>4, <1>10

LEMMA EitherPrecedes ==
    ASSUME NEW s \in Seq(Nat), NEW c \in Places(s), NEW d \in Places(s), c # d
    PROVE  Precedes(c, d) \/ Precedes(d, c)
<1> DEFINE n == Len(s)
           T == {i \in 1..n : c[i] # d[i]}
<1>1. n \in Nat /\ DOMAIN s = 1..n
  BY ShapeFacts
<1>2. /\ c \in Seq(Nat) /\ d \in Seq(Nat) /\ DOMAIN c = DOMAIN s /\ DOMAIN d = DOMAIN s
      /\ \A i \in DOMAIN s : c[i] \in Nat /\ d[i] \in Nat
  BY PlaceFacts
<1> HIDE DEF n
<1>3. T # {}
  <2>1. c = [i \in 1..n |-> c[i]] /\ d = [i \in 1..n |-> d[i]]
    BY <1>1, <1>2
  <2>. QED
    BY <2>1
<1>4. T \in SUBSET Nat
  BY <1>1
<1>5. PICK m \in T : \A y \in T : m <= y
  <2> HIDE DEF T
  <2>. QED
    BY <1>3, <1>4, LeastNatural
<1>6. m \in 1..n /\ c[m] # d[m]
  BY <1>5
<1>7. \A j \in 1..m-1 : c[j] = d[j]
  <2> TAKE j \in 1..m-1
  <2>1. j \in 1..n /\ ~(m <= j)
    BY <1>1, <1>6
  <2>. QED
    BY <1>5, <2>1
<1>8. c[m] < d[m] \/ d[m] < c[m]
  BY <1>1, <1>2, <1>6
<1>. QED
  BY <1>1, <1>2, <1>6, <1>7, <1>8 DEF Precedes

LEMMA PrecedesIsBelow ==
    ASSUME NEW s \in Seq(Nat), NEW c \in Places(s), NEW d \in Places(s)
    PROVE  Precedes(c, d) <=> Linear(c, s) < Linear(d, s)
<1>1. Linear(c, s) \in Nat /\ Linear(d, s) \in Nat
  BY PlaceNumber
<1>2. ASSUME Linear(c, s) < Linear(d, s), ~Precedes(c, d) PROVE FALSE
  <2>1. c # d
    BY <1>1, <1>2
  <2>2. Precedes(d, c)
    BY <1>2, <2>1, EitherPrecedes
  <2>3. Linear(d, s) < Linear(c, s)
    BY <2>2, OrderedNumbers
  <2>. QED
    BY <1>1, <1>2, <2>3
<1>. QED
  BY <1>2, OrderedNumbers

-----------------------------------------------------------------------------
(* Coordinates of Array *)

Leading(s, n) == {c \in Seq(Nat) : Len(c) = n /\ \A i \in 1..n : c[i] \in 0..s[i] - 1}

\* One more coordinate, below d.
Extended(T, d) == {Append(c, x) : c \in T, x \in 0..d - 1}

LEMMA ExtendedBy ==
    ASSUME NEW T, NEW d
    PROVE  \A y : y \in Extended(T, d) <=> \E c \in T, x \in 0..d - 1 : y = Append(c, x)
BY DEF Extended

\* a is c with x behind it.
Lengthened(a, c, n, x) ==
    /\ a \in Seq(Nat) /\ Len(a) = n
    /\ \A i \in 1..n : (i = n => a[i] = x) /\ (i # n => a[i] = c[i])

LEMMA AppendLengthens ==
    ASSUME NEW n \in Nat, n # 0, NEW c \in Seq(Nat), Len(c) = n - 1, NEW x \in Nat
    PROVE  Lengthened(Append(c, x), c, n, x)
<1>1. Append(c, x) \in Seq(Nat) /\ Len(Append(c, x)) = n
  OBVIOUS
<1>2. Append(c, x)[n] = x
  OBVIOUS
<1>3. ASSUME NEW i \in 1..n, i # n PROVE Append(c, x)[i] = c[i]
  <2>1. i \in 1..Len(c)
    BY <1>3
  <2>. QED
    BY <2>1
<1>. QED
  BY <1>1, <1>2, <1>3, Zenon DEF Lengthened

LEMMA LeadingStep ==
    ASSUME NEW s \in Seq(Nat), NEW n \in 1..Len(s)
    PROVE  Leading(s, n) = Extended(Leading(s, n - 1), s[n])
<1>1. Len(s) \in Nat /\ DOMAIN s = 1..Len(s) /\ \A i \in 1..Len(s) : s[i] \in Nat
  BY ShapeFacts
<1>2. n \in Nat \ {0} /\ n - 1 \in Nat /\ s[n] \in Nat
  BY <1>1
<1>3. ASSUME NEW c \in Leading(s, n - 1), NEW x \in 0..s[n] - 1
      PROVE  Append(c, x) \in Leading(s, n)
  <2>1. c \in Seq(Nat) /\ Len(c) = n - 1 /\ \A i \in 1..n-1 : c[i] \in 0..s[i] - 1
    BY DEF Leading
  <2>2. x \in Nat
    BY <1>2
  <2>3. Lengthened(Append(c, x), c, n, x)
    <3>1. n \in Nat /\ n # 0
      BY <1>2
    <3>. QED
      BY <2>1, <2>2, <3>1, AppendLengthens, Zenon
  <2> DEFINE a == Append(c, x)
  <2> HIDE DEF a
  <2>4. a \in Seq(Nat) /\ Len(a) = n /\ \A i \in 1..n : (i = n => a[i] = x) /\ (i # n => a[i] = c[i])
    BY <2>3, Zenon DEF a, Lengthened
  <2>5. ASSUME NEW i \in 1..n PROVE a[i] \in 0..s[i] - 1
    <3>1. CASE i = n
      BY <2>4, <3>1, Zenon
    <3>2. CASE i # n
      <4>1. i \in 1..n-1
        BY <1>2, <3>2
      <4>. QED
        BY <2>1, <2>4, <3>2, <4>1, Zenon
    <3>. QED
      BY <3>1, <3>2
  <2>6. a \in Leading(s, n)
    BY <2>4, <2>5 DEF Leading
  <2>. QED
    BY <2>6, Zenon DEF a
<1>4. ASSUME NEW d \in Leading(s, n)
      PROVE  \E c \in Leading(s, n - 1), x \in 0..s[n] - 1 : d = Append(c, x)
  <2> DEFINE c == [i \in 1..n-1 |-> d[i]]
  <2>1. d \in Seq(Nat) /\ Len(d) = n /\ \A i \in 1..n : d[i] \in 0..s[i] - 1
    BY DEF Leading
  <2>2. \A i \in 1..n : d[i] \in Nat
    BY <2>1
  <2>3. 1..n-1 \subseteq 1..n
    BY <1>2
  <2>4. c \in Seq(Nat) /\ Len(c) = n - 1
    <3>1. c = [i \in 1..n-1 |-> c[i]] /\ \A i \in 1..n-1 : c[i] \in Nat
      BY <2>2, <2>3
    <3> HIDE DEF c
    <3>. QED
      BY <1>2, <3>1, TableOfNats
  <2>5. \A i \in 1..n-1 : c[i] = d[i]
    OBVIOUS
  <2> HIDE DEF c
  <2>6. c \in Leading(s, n - 1)
    BY <2>1, <2>3, <2>4, <2>5 DEF Leading
  <2>7. d[n] \in 0..s[n] - 1 /\ d[n] \in Nat
    BY <1>2, <2>1, <2>2
  <2>8. d = Append(c, d[n])
    <3> DEFINE a == Append(c, d[n])
    <3>1. n \in Nat /\ n # 0
      BY <1>2
    <3>2. Lengthened(a, c, n, d[n])
      BY <2>4, <2>7, <3>1, AppendLengthens, Zenon
    <3> HIDE DEF a
    <3>3. a \in Seq(Nat) /\ Len(a) = n /\ \A i \in 1..n : (i = n => a[i] = d[n]) /\ (i # n => a[i] = c[i])
      BY <3>2, Zenon DEF Lengthened
    <3>4. ASSUME NEW i \in 1..n PROVE a[i] = d[i]
      <4>1. CASE i = n
        BY <3>3, <4>1, Zenon
      <4>2. CASE i # n
        <5>1. i \in 1..n-1
          BY <1>2, <4>2
        <5>. QED
          BY <2>5, <3>3, <4>2, <5>1, Zenon
      <4>. QED
        BY <4>1, <4>2
    <3>5. d \in Seq(Nat) /\ Len(d) = n
      BY <2>1
    <3>6. a = d
      BY <3>3, <3>4, <3>5
    <3>. QED
      BY <3>6, Zenon DEF a
  <2>. QED
    BY <2>6, <2>7, <2>8
<1> DEFINE T == Leading(s, n - 1)
           L == Leading(s, n)
<1>5. \A y : y \in Extended(T, s[n]) <=> \E c \in T, x \in 0..s[n] - 1 : y = Append(c, x)
  BY ExtendedBy
<1>6. /\ \A c \in T, x \in 0..s[n] - 1 : Append(c, x) \in L
      /\ \A d \in L : \E c \in T, x \in 0..s[n] - 1 : d = Append(c, x)
  BY <1>3, <1>4
<1> HIDE DEF T, L
<1>7. \A y : y \in L <=> y \in Extended(T, s[n])
  <2> TAKE y
  <2>1. ASSUME y \in Extended(T, s[n]) PROVE y \in L
    <3>1. PICK c \in T, x \in 0..s[n] - 1 : y = Append(c, x)
      BY <1>5, <2>1
    <3>2. Append(c, x) \in L
      BY <1>6
    <3>. QED
      BY <3>1, <3>2, Zenon
  <2>2. ASSUME y \in L PROVE y \in Extended(T, s[n])
    BY <1>5, <1>6, <2>2, Zenon
  <2>. QED
    BY <2>1, <2>2
<1>8. L = Extended(T, s[n])
  BY <1>7
<1>. QED
  BY <1>8 DEF T, L

LEMMA CoordsArePlaces ==
    ASSUME NEW s \in Seq(Nat)
    PROVE  Cells!Coords(s) = Places(s)
<1> DEFINE N == Len(s)
           Step(w) == [n \in 0..N |-> IF n = 0 THEN {<<>>}
                                      ELSE Extended(w[n-1], s[n])]
           g == [n \in 0..N |-> Leading(s, n)]
           Q == CHOOSE w : w = Step(w)
<1>1. N \in Nat /\ DOMAIN s = 1..N
  BY ShapeFacts
<1>2. Leading(s, 0) = {<<>>}
  <2>1. 1..0 = {} /\ \A c \in Seq(Nat) : Len(c) = 0 <=> c = <<>>
    OBVIOUS
  <2>2. <<>> \in Seq(Nat)
    OBVIOUS
  <2>3. \A c : c \in Leading(s, 0) <=> c = <<>>
    BY <2>1, <2>2, Zenon DEF Leading
  <2>. QED
    BY <2>3
<1>3. \A n \in 1..N : Leading(s, n) = Extended(Leading(s, n-1), s[n])
  BY LeadingStep
<1>4. Cells!Coords(s) = Q[N]
  BY DEF Cells!Coords, Extended
<1> HIDE DEF N
<1>5. g = Step(g)
  <2>1. ASSUME NEW n \in 0..N, n # 0
        PROVE  g[n] = Extended(g[n-1], s[n])
    <3>1. n \in 1..N /\ n - 1 \in 0..N
      BY <1>1, <2>1
    <3>2. g[n-1] = Leading(s, n-1) /\ g[n] = Leading(s, n)
      BY <3>1
    <3> HIDE DEF g
    <3>. QED
      BY <1>3, <3>1, <3>2
  <2>2. g[0] = {<<>>}
    BY <1>1, <1>2
  <2>3. g = [n \in 0..N |-> g[n]]
    OBVIOUS
  <2> HIDE DEF g
  <2>4. \A n \in 0..N : g[n] = IF n = 0 THEN {<<>>}
                               ELSE Extended(g[n-1], s[n])
    BY <2>1, <2>2
  <2>. QED
    BY <2>3, <2>4
<1> HIDE DEF g
<1>6. Q = Step(Q)
  BY <1>5
<1> HIDE DEF Q
<1>7. \A n \in 0..N : Q[n] = IF n = 0 THEN {<<>>}
                             ELSE Extended(Q[n-1], s[n])
  <2>1. \A n \in 0..N : Step(Q)[n] = IF n = 0 THEN {<<>>}
                             ELSE Extended(Q[n-1], s[n])
    OBVIOUS
  <2> HIDE DEF Step
  <2>. QED
    BY <1>6, <2>1
<1> DEFINE S == {n \in 0..N : Q[n] = Leading(s, n)}
<1>8. 0 \in S
  <2>1. 0 \in 0..N
    BY <1>1
  <2>2. Q[0] = {<<>>}
    BY <1>7, <2>1, Zenon
  <2>. QED
    BY <1>2, <2>1, <2>2
<1>9. ASSUME NEW n \in 0..N-1, n \in S PROVE n + 1 \in S
  <2>1. n + 1 \in 1..N /\ (n + 1) - 1 = n /\ n + 1 \in 0..N /\ n + 1 # 0
    BY <1>1
  <2>2. Q[n+1] = Extended(Q[n], s[n+1])
    BY <1>7, <2>1
  <2>3. Leading(s, n+1) = Extended(Leading(s, n), s[n+1])
    BY <1>3, <2>1
  <2>4. Q[n] = Leading(s, n)
    BY <1>9
  <2>5. Q[n+1] = Leading(s, n+1)
    BY <2>2, <2>3, <2>4, Zenon
  <2>. QED
    BY <2>1, <2>5
<1>10. Q[N] = Leading(s, N)
  <2> HIDE DEF S
  <2>1. \A n \in 0..N : n \in S
    BY <1>1, <1>8, <1>9, NaturalInduction
  <2>2. N \in S
    BY <1>1, <2>1
  <2>. QED
    BY <2>2 DEF S
<1>11. Leading(s, N) = Places(s)
  <2>1. ASSUME NEW c \in Seq(Nat), Len(c) = N PROVE DOMAIN c = DOMAIN s
    BY <1>1, <2>1
  <2>. QED
    BY <1>1, <2>1 DEF Leading, Places, Inside, N
<1>. QED
  BY <1>4, <1>10, <1>11

LEMMA SameCoords ==
    /\ \A s : AsArray!Coords(s) = Cells!Coords(s)
    /\ \A c, d : AsArray!Before(c, d) = Precedes(c, d)
    /\ \A S : AsArray!Cardinality(S) = Cardinality(S)
<1>1. \A s : AsArray!Coords(s) = Cells!Coords(s)
  BY DEF AsArray!Coords, Cells!Coords
<1>2. \A c, d : AsArray!Before(c, d) = Precedes(c, d)
  BY DEF AsArray!Before, Precedes
<1>3. \A S : AsArray!Cardinality(S) = Cardinality(S)
  BY Zenon DEF AsArray!Cardinality, Cardinality
<1>. QED
  BY <1>1, <1>2, <1>3

\* As many as there are numbers below n.
LEMMA CountedByNumbers ==
    ASSUME NEW n \in Nat, NEW S, NEW f \in [1..n -> S],
           \A i, j \in 1..n : f[i] = f[j] => i = j,
           \A x \in S : \E i \in 1..n : f[i] = x
    PROVE  Cardinality(S) = n /\ IsFiniteSet(S)
<1>1. IsFiniteSet(1..n) /\ Cardinality(1..n) = n
  BY FS_Interval
<1>2. f \in Bijection(1..n, S)
  BY DEF Bijection, Injection, Surjection, IsInjective
<1>3. ExistsBijection(1..n, S)
  BY <1>2 DEF ExistsBijection
<1>. QED
  BY <1>1, <1>3, FS_Bijection

\* The coordinates whose numbers are below m.
LEMMA PlacesBelow ==
    ASSUME NEW s \in Seq(Nat), NEW m \in Nat, m <= Numel(s)
    PROVE  Cardinality({d \in Places(s) : Linear(d, s) < m}) = m
<1> DEFINE S == {d \in Places(s) : Linear(d, s) < m}
           f == [k \in 1..m |-> Digits(s, k - 1)]
<1>1. Numel(s) \in Nat
  BY BehindFacts, ShapeFacts
<1>2. ASSUME NEW k \in 1..m
      PROVE  Digits(s, k - 1) \in Places(s) /\ Linear(Digits(s, k - 1), s) = k - 1 /\ k - 1 < m
  <2>1. k - 1 \in 0..Numel(s) - 1 /\ k - 1 < m
    BY <1>1
  <2>. QED
    BY <2>1, NumberPlace
<1>3. f \in [1..m -> S]
  BY <1>2
<1>4. \A k \in 1..m : Linear(f[k], s) = k - 1
  BY <1>2
<1>5. ASSUME NEW i \in 1..m, NEW j \in 1..m, f[i] = f[j] PROVE i = j
  <2>1. i - 1 = j - 1
    BY <1>4, <1>5
  <2>. QED
    BY <2>1
<1>6. ASSUME NEW d \in S PROVE \E i \in 1..m : f[i] = d
  <2>1. Linear(d, s) \in 0..Numel(s) - 1 /\ Digits(s, Linear(d, s)) = d /\ Linear(d, s) < m
    BY PlaceNumber
  <2> DEFINE k == Linear(d, s)
  <2>2. k \in 0..Numel(s) - 1 /\ Digits(s, k) = d /\ k < m
    BY <2>1
  <2> HIDE DEF k
  <2>3. k + 1 \in 1..m /\ (k + 1) - 1 = k
    BY <1>1, <2>2
  <2>. QED
    BY <2>2, <2>3
<1> HIDE DEF f, S
<1>7. Cardinality(S) = m
  BY <1>3, <1>5, <1>6, CountedByNumbers
<1>. QED
  BY <1>7 DEF S

LEMMA CoordsCounted ==
    ASSUME NEW s \in Seq(Nat)
    PROVE  /\ AsArray!Coords(s) = Places(s)
           /\ AsArray!Cardinality(AsArray!Coords(s)) = Numel(s)
           /\ \A c \in Places(s) : AsArray!Rank(c, s) = Linear(c, s)
<1>1. AsArray!Coords(s) = Places(s)
  BY CoordsArePlaces, SameCoords
<1>2. Numel(s) \in Nat
  BY BehindFacts, ShapeFacts
<1>3. Cardinality(Places(s)) = Numel(s)
  <2>1. \A d \in Places(s) : Linear(d, s) < Numel(s)
    <3> TAKE d \in Places(s)
    <3>1. Linear(d, s) \in 0..Numel(s) - 1
      BY PlaceNumber
    <3>. QED
      BY <1>2, <3>1
  <2>2. {d \in Places(s) : Linear(d, s) < Numel(s)} = Places(s)
    BY <2>1
  <2>3. Numel(s) <= Numel(s)
    BY <1>2
  <2>4. Cardinality({d \in Places(s) : Linear(d, s) < Numel(s)}) = Numel(s)
    BY <1>2, <2>3, PlacesBelow
  <2>. QED
    BY <2>2, <2>4
<1>4. ASSUME NEW c \in Places(s) PROVE AsArray!Rank(c, s) = Linear(c, s)
  <2> DEFINE m == Linear(c, s)
  <2>1. m \in Nat /\ m <= Numel(s)
    <3>1. m \in 0..Numel(s) - 1
      BY PlaceNumber
    <3> HIDE DEF m
    <3>. QED
      BY <1>2, <3>1
  <2>2. \A d \in Places(s) : Precedes(d, c) <=> Linear(d, s) < m
    BY PrecedesIsBelow
  <2>3. AsArray!Rank(c, s) = Cardinality({d \in Places(s) : Precedes(d, c)})
    BY <1>1, SameCoords, Zenon DEF AsArray!Rank
  <2>4. {d \in Places(s) : Precedes(d, c)} = {d \in Places(s) : Linear(d, s) < m}
    BY <2>2
  <2>5. Cardinality({d \in Places(s) : Linear(d, s) < m}) = m
    BY <2>1, PlacesBelow
  <2>. QED
    BY <2>3, <2>4, <2>5
<1>. QED
  BY <1>1, <1>3, <1>4, SameCoords

-----------------------------------------------------------------------------
(* Where the elements of a view lie *)

Steps(c, strides) == [i \in DOMAIN c |-> c[i] * strides[i]]

LEMMA StepsNatural ==
    ASSUME NEW c \in Seq(Nat), NEW strides \in Seq(Nat), Len(strides) = Len(c)
    PROVE  /\ Naturals(Steps(c, strides)) /\ DOMAIN Steps(c, strides) = DOMAIN c
           /\ Sums(Steps(c, strides))[DOMAIN c] \in Nat
<1> DEFINE f == Steps(c, strides)
           n == Len(c)
<1>1. n \in Nat /\ DOMAIN c = 1..n /\ DOMAIN strides = 1..n
  OBVIOUS
<1>2. \A i \in 1..n : c[i] \in Nat /\ strides[i] \in Nat
  BY <1>1
<1> HIDE DEF n
<1>3. \A a, b \in Nat : a * b \in Nat
  BY SMT
<1>4. DOMAIN f = DOMAIN c /\ \A i \in 1..n : f[i] = c[i] * strides[i]
  BY <1>1 DEF Steps
<1> HIDE DEF f
<1>5. Naturals(f)
  <2>1. IsFiniteSet(1..n)
    BY <1>1, FS_Interval
  <2>2. \A i \in DOMAIN f : f[i] \in Nat
    BY <1>1, <1>2, <1>3, <1>4
  <2>. QED
    BY <1>1, <1>4, <2>1, <2>2 DEF Naturals
<1>6. DOMAIN c \in SUBSET DOMAIN f
  BY <1>4
<1>7. Sums(f)[DOMAIN c] \in Nat
  BY <1>5, <1>6, SumFacts
<1>. QED
  BY <1>4, <1>5, <1>7 DEF f

\* A step along an axis of length 1 is never taken.
LEMMA AxisStep ==
    ASSUME NEW d \in Nat, NEW x \in 0..d - 1, NEW st \in Nat, NEW b \in Nat, d > 1 => st = b
    PROVE  x * st = x * b /\ x * b \in Nat
<1>1. CASE d > 1
  BY <1>1
<1>2. CASE ~(d > 1)
  <2>1. x = 0
    BY <1>2
  <2>. QED
    BY <2>1
<1>. QED
  BY <1>1, <1>2

LEMMA Regroup ==
    ASSUME NEW a \in Nat, NEW d \in Nat, NEW x \in Nat, NEW b \in Nat, NEW r \in Nat
    PROVE  a * (d * b) + (x * b + r) = (a * d + x) * b + r
<1>1. a * d \in Nat /\ (a * d) * b = a * (d * b) /\ a * (d * b) \in Nat /\ x * b \in Nat
  BY Associates
<1> DEFINE y == a * d
<1>2. (y + x) * b = y * b + x * b
  <2>1. y \in Nat
    BY <1>1
  <2> HIDE DEF y
  <2>. QED
    BY <2>1, Distributes
<1> DEFINE u == a * (d * b)
           v == x * b
           w == (y + x) * b
<1>3. u \in Nat /\ v \in Nat /\ w = u + v
  BY <1>1, <1>2
<1> HIDE DEF u, v, w
<1>4. u + (v + r) = w + r
  BY <1>3
<1>. QED
  BY <1>4 DEF u, v, w, y

LEMMA RowMajorSum ==
    ASSUME NEW s \in Seq(Nat), NEW c \in Places(s), NEW strides \in Seq(Nat),
           Len(strides) = Len(s), RowMajor(s, strides)
    PROVE  Sums(Steps(c, strides))[DOMAIN s] = Linear(c, s)
<1> DEFINE n == Len(s)
           f == Steps(c, strides)
<1>1. n \in Nat /\ DOMAIN s = 1..n /\ \A i \in 1..n : s[i] \in Nat
  BY ShapeFacts
<1>2. /\ c \in Seq(Nat) /\ Len(c) = n /\ DOMAIN c = 1..n
      /\ \A i \in 1..n : c[i] \in Nat /\ c[i] \in 0..s[i] - 1
  BY <1>1, PlaceFacts
<1>3. PICK A : Horner(A, c, s) /\ Linear(c, s) = A[n]
  BY <1>1, <1>2, HornerExists
<1>4. /\ \A i \in 0..n : A[i] \in Nat
      /\ A[0] = 0
      /\ \A i \in 1..n : A[i] = A[i-1] * s[i] + c[i]
  BY <1>3 DEF Horner
<1>5. Naturals(f) /\ DOMAIN f = 1..n
  BY <1>2, StepsNatural
<1>6. /\ Behind(s, n) = 1 /\ Behind(s, 0) = Numel(s)
      /\ \A i \in 0..n : Behind(s, i) \in Nat
      /\ \A i \in 1..n : Behind(s, i - 1) = s[i] * Behind(s, i)
  BY BehindFacts
<1>7. \A i \in 1..n : strides[i] \in Nat /\ (s[i] > 1 => strides[i] = Behind(s, i))
  <2>1. \A i \in 1..n : strides[i] \in Nat
    OBVIOUS
  <2>. QED
    BY <1>1, <2>1, StridesAreBehind DEF RowMajor
<1>8. \A i \in 1..n : f[i] = c[i] * strides[i]
  BY <1>2 DEF Steps
<1> HIDE DEF n, f
<1>9. \A t \in SUBSET (1..n) : Sums(f)[t] \in Nat /\ \A x \in t : Sums(f)[t] = f[x] + Sums(f)[t \ {x}]
  BY <1>5, SumFacts
<1> DEFINE S == {i \in 0..n : A[i] * Behind(s, i) + Sums(f)[i+1 .. n] = A[n]}
<1>10. n \in S
  <2>1. n + 1 .. n = {} /\ n \in 0..n
    BY <1>1
  <2>2. Sums(f)[{}] = 0
    BY <1>5, SumFacts
  <2>3. A[n] \in Nat
    BY <1>4, <2>1
  <2>. QED
    BY <1>6, <2>1, <2>2, <2>3
<1>11. ASSUME NEW i \in 0..n-1, i + 1 \in S PROVE i \in S
  <2> DEFINE j == i + 1
             D == i + 1 .. n
             E == j + 1 .. n
             a == A[i]
             d == s[j]
             x == c[j]
             b == Behind(s, j)
             r == Sums(f)[E]
             y == f[j]
  <2>1. j \in 1..n /\ j - 1 = i /\ j \in 0..n /\ i \in 0..n
        /\ D \in SUBSET (1..n) /\ E \in SUBSET (1..n) /\ j \in D /\ D \ {j} = E
    BY <1>1
  <2>2. /\ A[j] = a * d + x /\ Behind(s, i) = d * b
        /\ a \in Nat /\ d \in Nat /\ x \in Nat /\ b \in Nat /\ x \in 0..d-1
    BY <1>1, <1>2, <1>4, <1>6, <2>1
  <2>3. y = x * b
    <3> DEFINE st == strides[j]
    <3>1. st \in Nat /\ (d > 1 => st = b) /\ y = x * st
      BY <1>7, <1>8, <2>1
    <3> HIDE DEF st, d, x, b, y
    <3>. QED
      BY <2>2, <3>1, AxisStep
  <2>4. Sums(f)[D] = y + r /\ r \in Nat
    BY <1>9, <2>1
  <2>5. A[j] * b + r = A[n]
    BY <1>11
  <2>6. SUFFICES a * Behind(s, i) + Sums(f)[D] = A[n]
    BY <2>1
  <2> HIDE DEF j, D, E, a, d, x, b, r, y
  <2>7. a * (d * b) + (x * b + r) = (a * d + x) * b + r
    BY <2>2, <2>4, Regroup
  <2>. QED
    BY <2>2, <2>3, <2>4, <2>5, <2>7, Zenon
<1>12. 0 \in S
  <2> HIDE DEF S
  <2>1. \A i \in 0..n : i \in S
    BY <1>1, <1>10, <1>11, DownwardInduction
  <2>. QED
    BY <1>1, <2>1
<1>13. 0 * Behind(s, 0) + Sums(f)[1..n] = A[n]
  <2>1. 0 + 1 = 1
    OBVIOUS
  <2>. QED
    BY <1>4, <1>12, <2>1
<1>14. Sums(f)[1..n] = A[n]
  <2>1. 0 \in 0..n /\ 1..n \in SUBSET (1..n)
    BY <1>1
  <2>2. Behind(s, 0) \in Nat /\ Sums(f)[1..n] \in Nat
    BY <1>6, <1>9, <2>1
  <2> DEFINE u == Behind(s, 0)
             v == Sums(f)[1..n]
  <2>3. u \in Nat /\ v \in Nat /\ 0 * u + v = A[n]
    BY <1>13, <2>2
  <2> HIDE DEF u, v
  <2>4. v = A[n]
    BY <2>3
  <2>. QED
    BY <2>4 DEF v
<1>. QED
  BY <1>1, <1>3, <1>14 DEF f

OffsetAt(c, strides, offset) == FoldFunction(+, offset, Steps(c, strides))

LEMMA OffsetSum ==
    ASSUME NEW shape \in Seq(Nat), NEW strides \in Seq(Nat), Len(strides) = Len(shape),
           NEW offset \in Nat, NEW c \in Places(shape)
    PROVE  /\ OffsetAt(c, strides, offset) = offset + Sums(Steps(c, strides))[DOMAIN shape]
           /\ Naturals(Steps(c, strides)) /\ DOMAIN Steps(c, strides) = DOMAIN shape
           /\ Sums(Steps(c, strides))[DOMAIN shape] \in Nat
           /\ OffsetAt(c, strides, offset) \in Nat
<1>1. c \in Seq(Nat) /\ Len(c) = Len(shape) /\ DOMAIN c = DOMAIN shape
  BY PlaceFacts
<1>2. Naturals(Steps(c, strides)) /\ DOMAIN Steps(c, strides) = DOMAIN c
      /\ Sums(Steps(c, strides))[DOMAIN c] \in Nat
  BY <1>1, StepsNatural
<1>3. FoldFunction(+, offset, Steps(c, strides))
        = offset + Sums(Steps(c, strides))[DOMAIN Steps(c, strides)]
  BY <1>2, SumFromFacts
<1> DEFINE x == Sums(Steps(c, strides))[DOMAIN c]
<1>4. x \in Nat /\ OffsetAt(c, strides, offset) = offset + x
  BY <1>2, <1>3 DEF OffsetAt
<1> HIDE DEF x
<1>5. OffsetAt(c, strides, offset) \in Nat
  BY <1>4
<1>. QED
  BY <1>1, <1>2, <1>4, <1>5 DEF x

\* In a contiguous view the elements lie one after the other.
LEMMA RowMajorOffset ==
    ASSUME NEW shape \in Seq(Nat), NEW strides \in Seq(Nat), Len(strides) = Len(shape),
           RowMajor(shape, strides), NEW offset \in Nat, NEW c \in Places(shape)
    PROVE  OffsetAt(c, strides, offset) = offset + Linear(c, shape)
<1>1. Sums(Steps(c, strides))[DOMAIN shape] = Linear(c, shape)
  BY RowMajorSum
<1>2. OffsetAt(c, strides, offset) = offset + Sums(Steps(c, strides))[DOMAIN shape]
  BY OffsetSum
<1>. QED
  BY <1>1, <1>2

-----------------------------------------------------------------------------
(* A view as an array *)

Listed(shape, strides, offset, storage) ==
    [c \in Places(shape) |-> <<storage, 1 + OffsetAt(c, strides, offset)>>]

NowListed == Listed(shape_, strides_, byte_offset_, storage_)

Mapped == [c \in Cells!Coords(shape_) |-> <<storage_, 1 + Offset(c)>>]

LEMMA OffsetIsAt == \A c : Offset(c) = OffsetAt(c, strides_, byte_offset_)
BY DEF Offset, OffsetAt, Steps

LEMMA ArrayListed ==
    ASSUME shape_ \in Seq(Nat), shape_' \in Seq(Nat)
    PROVE  Mapped = NowListed /\ Mapped' = NowListed'
<1>1. Cells!Coords(shape_) = Places(shape_)
  BY CoordsArePlaces
<1>2. Cells!Coords(shape_') = Places(shape_')
  BY CoordsArePlaces
<1>3. Cells!Coords(shape_)' = Cells!Coords(shape_')
  BY DEF Cells!Coords
<1>4. \A c : Offset(c) = OffsetAt(c, strides_, byte_offset_)
  BY OffsetIsAt
<1>5. \A c : Offset(c)' = OffsetAt(c, strides_', byte_offset_')
  <2>1. (\A c : Offset(c) = OffsetAt(c, strides_, byte_offset_))'
    BY OffsetIsAt, PTL
  <2>. QED
    BY <2>1
<1>6. Mapped = NowListed
  BY <1>1, <1>4 DEF Mapped, NowListed, Listed
<1>7. Mapped' = NowListed'
  BY <1>2, <1>3, <1>5 DEF Mapped, NowListed, Listed
<1>. QED
  BY <1>6, <1>7

LEMMA ShowsReshape ==
    ASSUME shape_ \in Seq(Nat), shape_' \in Seq(Nat), Numel(shape_') = Numel(shape_),
           memory' = memory,
           \A c \in Places(shape_), d \in Places(shape_') :
              Linear(c, shape_) = Linear(d, shape_') => NowListed[c] = NowListed'[d]
    PROVE  AsArray!AReshape
<1>1. /\ AsArray!Coords(shape_) = Places(shape_)
      /\ AsArray!Cardinality(AsArray!Coords(shape_)) = Numel(shape_)
      /\ \A c \in Places(shape_) : AsArray!Rank(c, shape_) = Linear(c, shape_)
  BY CoordsCounted
<1>2. /\ AsArray!Coords(shape_') = Places(shape_')
      /\ AsArray!Cardinality(AsArray!Coords(shape_')) = Numel(shape_')
      /\ \A c \in Places(shape_') : AsArray!Rank(c, shape_') = Linear(c, shape_')
  BY CoordsCounted
<1>3. Mapped = NowListed /\ Mapped' = NowListed'
  BY ArrayListed
<1>4. AsArray!SameOrder(shape_', Mapped, Mapped')
  BY <1>1, <1>2, <1>3 DEF AsArray!SameOrder
<1>. QED
  BY <1>1, <1>2, <1>4 DEF AsArray!AReshape, Mapped

LEMMA ShowsCopy ==
    ASSUME shape_ \in Seq(Nat), shape_' \in Seq(Nat), Numel(shape_') = Numel(shape_),
           NEW values, memory \in Seq(Seq(Nat)), memory' = Append(memory, values),
           values \in Seq(Nat), storage_' = Len(memory'),
           \A c, d \in Places(shape_') : NowListed'[c] = NowListed'[d] => c = d,
           \A c \in Places(shape_), d \in Places(shape_') :
              Linear(c, shape_) = Linear(d, shape_')
                => memory[NowListed[c][1]][NowListed[c][2]]
                     = memory'[NowListed'[d][1]][NowListed'[d][2]]
    PROVE  AsArray!ACopy
<1>1. /\ AsArray!Coords(shape_) = Places(shape_)
      /\ AsArray!Cardinality(AsArray!Coords(shape_)) = Numel(shape_)
      /\ \A c \in Places(shape_) : AsArray!Rank(c, shape_) = Linear(c, shape_)
  BY CoordsCounted
<1>2. /\ AsArray!Coords(shape_') = Places(shape_')
      /\ AsArray!Cardinality(AsArray!Coords(shape_')) = Numel(shape_')
      /\ \A c \in Places(shape_') : AsArray!Rank(c, shape_') = Linear(c, shape_')
  BY CoordsCounted
<1>3. Mapped = NowListed /\ Mapped' = NowListed'
  BY ArrayListed
<1>4. DOMAIN NowListed = Places(shape_) /\ DOMAIN NowListed' = Places(shape_')
  BY DEF NowListed, Listed
<1>5. Len(memory') = Len(memory) + 1 /\ SubSeq(memory', 1, Len(memory)) = memory
  OBVIOUS
<1>6. AsArray!IsInjective(Mapped')
  BY <1>3, <1>4, Zenon DEF AsArray!IsInjective
<1>7. \A c \in DOMAIN Mapped' : Mapped'[c][1] = Len(memory')
  <2>1. \A c \in Places(shape_') : NowListed'[c][1] = storage_'
    BY DEF NowListed, Listed
  <2>. QED
    BY <1>3, <1>4, <2>1
<1>8. AsArray!SameOrder(shape_', [c \in DOMAIN Mapped |-> AsArray!Value(memory, Mapped[c])],
                        [c \in DOMAIN Mapped' |-> AsArray!Value(memory', Mapped'[c])])
  <2> DEFINE old == [c \in DOMAIN Mapped |-> AsArray!Value(memory, Mapped[c])]
             new == [c \in DOMAIN Mapped' |-> AsArray!Value(memory', Mapped'[c])]
  <2>1. \A c \in Places(shape_) : old[c] = memory[NowListed[c][1]][NowListed[c][2]]
    BY <1>3, <1>4, Zenon DEF AsArray!Value
  <2>2. \A d \in Places(shape_') : new[d] = memory'[NowListed'[d][1]][NowListed'[d][2]]
    BY <1>3, <1>4, Zenon DEF AsArray!Value
  <2> HIDE DEF old, new
  <2>3. \A c \in Places(shape_), d \in Places(shape_') :
           Linear(c, shape_) = Linear(d, shape_') => old[c] = new[d]
    <3> SUFFICES ASSUME NEW c \in Places(shape_), NEW d \in Places(shape_'),
                        Linear(c, shape_) = Linear(d, shape_')
                 PROVE  old[c] = new[d]
      OBVIOUS
    <3>1. memory[NowListed[c][1]][NowListed[c][2]]
            = memory'[NowListed'[d][1]][NowListed'[d][2]]
      OBVIOUS
    <3>2. old[c] = memory[NowListed[c][1]][NowListed[c][2]]
      BY <2>1
    <3>3. new[d] = memory'[NowListed'[d][1]][NowListed'[d][2]]
      BY <2>2
    <3>. QED
      BY <3>1, <3>2, <3>3
  <2>4. AsArray!SameOrder(shape_', old, new)
    BY <1>1, <1>2, <2>3 DEF AsArray!SameOrder
  <2>. QED
    BY <2>4 DEF old, new
<1>. QED
  BY <1>1, <1>2, <1>5, <1>6, <1>7, <1>8 DEF AsArray!ACopy, Mapped

LEMMA ShowsTranspose ==
    ASSUME shape_ \in Seq(Nat), shape_' \in Seq(Nat), memory' = memory, NEW perm,
           DOMAIN perm = DOMAIN shape_,
           shape_' = [i \in DOMAIN shape_ |-> shape_[perm[i]]],
           NowListed' = [c \in Places(shape_') |->
              NowListed[[i \in DOMAIN shape_ |-> c[CHOOSE j \in DOMAIN perm : perm[j] = i]]]]
    PROVE  AsArray!ATranspose(perm)
<1>1. AsArray!Coords(shape_') = Places(shape_')
  BY CoordsCounted
<1>2. Mapped = NowListed /\ Mapped' = NowListed'
  BY ArrayListed
<1>3. Mapped' = [c \in AsArray!Coords(shape_') |->
              Mapped[[i \in DOMAIN shape_ |-> c[CHOOSE j \in DOMAIN perm : perm[j] = i]]]]
  BY <1>1, <1>2
<1>. QED
  BY <1>3, Zenon DEF AsArray!ATranspose, AsArray!View, Mapped

\* The k-th of the chosen numbers.
Nth(chosen, k) == CHOOSE x \in chosen : AsArray!Cardinality({y \in chosen : y < x}) = k

LEMMA ShowsSlice ==
    ASSUME shape_ \in Seq(Nat), shape_' \in Seq(Nat), memory' = memory,
           NEW axis \in DOMAIN shape_, NEW start, NEW end, NEW step,
           shape_' = [shape_ EXCEPT ![axis] =
              AsArray!Cardinality(AsArray!Selected(start, end, step, shape_[axis]))],
           NowListed' = [c \in Places(shape_') |-> NowListed[[c EXCEPT ![axis] =
              Nth(AsArray!Selected(start, end, step, shape_[axis]), c[axis])]]]
    PROVE  AsArray!ASlice(axis, start, end, step)
<1>1. AsArray!Coords(shape_') = Places(shape_')
  BY CoordsCounted
<1>2. Mapped = NowListed /\ Mapped' = NowListed'
  BY ArrayListed
<1>4. Mapped' = [c \in AsArray!Coords(shape_') |-> Mapped[[c EXCEPT ![axis] =
              Nth(AsArray!Selected(start, end, step, shape_[axis]), c[axis])]]]
  BY <1>1, <1>2
<1>. QED
  BY <1>4, Zenon DEF AsArray!ASlice, AsArray!View, Mapped, Nth

LEMMA ShowsFill ==
    ASSUME shape_ \in Seq(Nat), shape_' = shape_, strides_' = strides_,
           byte_offset_' = byte_offset_, storage_' = storage_,
           memory' = [s \in DOMAIN memory |-> [p \in DOMAIN memory[s] |->
              IF \E c \in Places(shape_) : NowListed[c] = <<s, p>> THEN 0 ELSE memory[s][p]]]
    PROVE  AsArray!AFill
<1>1. shape_' \in Seq(Nat)
  OBVIOUS
<1>2. Mapped = NowListed /\ Mapped' = NowListed'
  BY <1>1, ArrayListed
<1>3. NowListed' = NowListed
  BY DEF NowListed
<1>4. DOMAIN NowListed = Places(shape_)
  BY DEF NowListed, Listed
<1>5. \A s, p : <<s, p>> \in AsArray!Range(Mapped)
                  <=> \E c \in Places(shape_) : NowListed[c] = <<s, p>>
  BY <1>2, <1>4 DEF AsArray!Range
<1>6. memory' = [s \in DOMAIN memory |-> [p \in DOMAIN memory[s] |->
              IF <<s, p>> \in AsArray!Range(Mapped) THEN 0 ELSE memory[s][p]]]
  BY <1>5
<1>. QED
  BY <1>2, <1>3, <1>6, Zenon DEF AsArray!AFill, Mapped

-----------------------------------------------------------------------------
(* Every operation on a view is one on the array *)

LEMMA ListedAt ==
    ASSUME NEW shape, NEW strides, NEW offset, NEW storage, NEW c \in Places(shape)
    PROVE  /\ Listed(shape, strides, offset, storage)[c]
                = <<storage, 1 + OffsetAt(c, strides, offset)>>
           /\ Listed(shape, strides, offset, storage)[c][1] = storage
           /\ Listed(shape, strides, offset, storage)[c][2] = 1 + OffsetAt(c, strides, offset)
BY DEF Listed

LEMMA LinearDistinct ==
    ASSUME NEW s \in Seq(Nat), NEW c \in Places(s), NEW d \in Places(s),
           Linear(c, s) = Linear(d, s)
    PROVE  c = d
BY PlaceNumber

\* The elements of the view, in its order.
LEMMA PositionsListed ==
    ASSUME Typed
    PROVE  \A k \in 1..Numel(shape_) :
              /\ Digits(shape_, k - 1) \in Places(shape_)
              /\ Linear(Digits(shape_, k - 1), shape_) = k - 1
              /\ Positions[k] = OffsetAt(Digits(shape_, k - 1), strides_, byte_offset_)
              /\ IsContiguous => byte_offset_ + k - 1
                                   = OffsetAt(Digits(shape_, k - 1), strides_, byte_offset_)
<1> TAKE k \in 1..Numel(shape_)
<1>1. /\ shape_ \in Seq(Nat) /\ strides_ \in Seq(Nat) /\ Len(strides_) = Len(shape_)
      /\ byte_offset_ \in Nat
  BY DEF Typed
<1>2. Numel(shape_) \in Nat
  BY <1>1, BehindFacts, ShapeFacts
<1> DEFINE m == k - 1
<1>3. m \in 0..Numel(shape_) - 1 /\ byte_offset_ + k - 1 = byte_offset_ + m
  BY <1>1, <1>2
<1> HIDE DEF m
<1>4. Digits(shape_, m) \in Places(shape_) /\ Linear(Digits(shape_, m), shape_) = m
  BY <1>1, <1>3, NumberPlace
<1>5. Positions[k] = OffsetAt(Digits(shape_, m), strides_, byte_offset_)
  BY <1>1, PositionsFacts, OffsetIsAt DEF m
<1>6. ASSUME IsContiguous
      PROVE  byte_offset_ + m = OffsetAt(Digits(shape_, m), strides_, byte_offset_)
  <2>1. RowMajor(shape_, strides_)
    BY <1>6 DEF RowMajor, IsContiguous
  <2>2. OffsetAt(Digits(shape_, m), strides_, byte_offset_)
          = byte_offset_ + Linear(Digits(shape_, m), shape_)
    BY <1>1, <1>4, <2>1, RowMajorOffset
  <2>. QED
    BY <1>4, <2>2
<1>. QED
  BY <1>3, <1>4, <1>5, <1>6 DEF m

LEMMA NewIsCopy ==
    ASSUME VInv, NEW shape \in Seq(Nat), Numel(shape) = Numel(shape_),
           NEW values \in Seq(Nat), NewTensor(shape, values),
           \A k \in 1..Numel(shape_) :
              values[k] = memory[storage_][1 + OffsetAt(Digits(shape_, k - 1), strides_, byte_offset_)]
    PROVE  AsArray!ACopy
<1>1. /\ shape_ \in Seq(Nat) /\ memory \in Seq(Seq(Nat))
  BY DEF VInv, Typed
<1>2. /\ shape_' = shape /\ strides_' = ContiguousStrides(shape) /\ byte_offset_' = 0
      /\ memory' = Append(memory, values) /\ storage_' = Len(memory')
  BY DEF NewTensor
<1> DEFINE strides == ContiguousStrides(shape)
           size == Len(memory')
           new == Listed(shape, strides, 0, size)
<1>3. NowListed' = new
  BY <1>2 DEF NowListed
<1>4. strides \in Seq(Nat) /\ Len(strides) = Len(shape) /\ RowMajor(shape, strides)
  BY StridesAreBehind DEF RowMajor
<1>5. memory'[size] = values
  BY <1>1, <1>2
<1> HIDE DEF strides, size
<1>6. ASSUME NEW d \in Places(shape)
      PROVE  /\ new[d] = <<size, 1 + Linear(d, shape)>>
             /\ new[d][1] = size /\ new[d][2] = 1 + Linear(d, shape)
             /\ Linear(d, shape) \in 0..Numel(shape) - 1
  <2>1. OffsetAt(d, strides, 0) = 0 + Linear(d, shape)
    BY <1>4, RowMajorOffset
  <2>2. Linear(d, shape) \in 0..Numel(shape) - 1
    BY PlaceNumber
  <2>3. 0 + Linear(d, shape) = Linear(d, shape)
    BY <2>2
  <2>. QED
    BY <2>1, <2>2, <2>3, ListedAt
<1> HIDE DEF new
<1>7. ASSUME NEW c \in Places(shape), NEW d \in Places(shape), new[c] = new[d]
      PROVE  c = d
  <2>1. 1 + Linear(c, shape) = 1 + Linear(d, shape)
    BY <1>6, <1>7
  <2>2. Linear(c, shape) \in Nat /\ Linear(d, shape) \in Nat
    BY <1>6
  <2>3. Linear(c, shape) = Linear(d, shape)
    BY <2>1, <2>2
  <2>. QED
    BY <2>3, LinearDistinct
<1>8. ASSUME NEW c \in Places(shape_), NEW d \in Places(shape),
             Linear(c, shape_) = Linear(d, shape)
      PROVE  memory[NowListed[c][1]][NowListed[c][2]] = memory'[new[d][1]][new[d][2]]
  <2> DEFINE m == Linear(d, shape)
             k == 1 + m
  <2>1. memory'[new[d][1]][new[d][2]] = values[k]
    BY <1>5, <1>6
  <2>2. k \in 1..Numel(shape_) /\ k - 1 = m
    <3>1. m \in 0..Numel(shape) - 1 /\ Numel(shape) \in Nat
      BY <1>6, BehindFacts, ShapeFacts
    <3> HIDE DEF m
    <3>. QED
      BY <3>1
  <2>3. Digits(shape_, m) = c
    BY <1>1, <1>8, PlaceNumber
  <2>4. values[k] = memory[storage_][1 + OffsetAt(c, strides_, byte_offset_)]
    BY <2>2, <2>3
  <2>5. memory[NowListed[c][1]][NowListed[c][2]]
          = memory[storage_][1 + OffsetAt(c, strides_, byte_offset_)]
    BY ListedAt DEF NowListed
  <2>. QED
    BY <2>1, <2>4, <2>5
<1>9. \A c, d \in Places(shape_') : NowListed'[c] = NowListed'[d] => c = d
  BY <1>2, <1>3, <1>7
<1>10. \A c \in Places(shape_), d \in Places(shape_') :
          Linear(c, shape_) = Linear(d, shape_')
            => memory[NowListed[c][1]][NowListed[c][2]]
                 = memory'[NowListed'[d][1]][NowListed'[d][2]]
  BY <1>2, <1>3, <1>8
<1>. QED
  BY <1>1, <1>2, <1>9, <1>10, ShowsCopy

LEMMA CloneIsCopy ==
    ASSUME VInv, CloneContiguous
    PROVE  AsArray!ACopy
<1>1. NewTensor(shape_, CopyOut)
  BY DEF CloneContiguous
<1>2. shape_ \in Seq(Nat) /\ CopyOut \in Seq(Nat) /\ Typed
  BY CopiesAreValues DEF VInv, Typed
<1>3. \A k \in 1..Numel(shape_) : CopyOut[k] =
        memory[storage_][1 + IF IsContiguous THEN byte_offset_ + k - 1 ELSE Positions[k]]
  BY DEF CopyOut
<1>4. \A k \in 1..Numel(shape_) : CopyOut[k] =
        memory[storage_][1 + OffsetAt(Digits(shape_, k - 1), strides_, byte_offset_)]
  <2> TAKE k \in 1..Numel(shape_)
  <2>1. (IF IsContiguous THEN byte_offset_ + k - 1 ELSE Positions[k])
           = OffsetAt(Digits(shape_, k - 1), strides_, byte_offset_)
    BY <1>2, PositionsListed
  <2>. QED
    BY <1>3, <2>1
<1>. QED
  BY <1>1, <1>2, <1>4, NewIsCopy

LEMMA ReshapeIsReshape ==
    ASSUME VInv, VInv', NEW target \in Targets, Reshape(target)
    PROVE  AsArray!AReshape \/ AsArray!ACopy
<1>1. target \in Seq(Nat) /\ Numel(target) = Numel(shape_)
  BY ViewsAssumption DEF Reshape
<1>2. /\ shape_ \in Seq(Nat) /\ strides_ \in Seq(Nat) /\ Len(strides_) = Len(shape_)
      /\ byte_offset_ \in Nat /\ Typed
  BY DEF VInv, Typed
<1>3. CASE IsContiguous
  <2>1. /\ shape_' = target /\ strides_' = ContiguousStrides(target)
        /\ byte_offset_' = byte_offset_ /\ storage_' = storage_ /\ memory' = memory
    BY <1>3 DEF Reshape
  <2> DEFINE strides == ContiguousStrides(target)
  <2>2. strides \in Seq(Nat) /\ Len(strides) = Len(target) /\ RowMajor(target, strides)
    BY <1>1, StridesAreBehind DEF RowMajor
  <2>3. RowMajor(shape_, strides_)
    BY <1>3 DEF RowMajor, IsContiguous
  <2>4. NowListed' = Listed(target, strides, byte_offset_, storage_)
    BY <2>1 DEF NowListed
  <2> HIDE DEF strides
  <2>5. ASSUME NEW c \in Places(shape_), NEW d \in Places(target),
               Linear(c, shape_) = Linear(d, target)
        PROVE  NowListed[c] = Listed(target, strides, byte_offset_, storage_)[d]
    <3>1. OffsetAt(c, strides_, byte_offset_) = byte_offset_ + Linear(c, shape_)
      BY <1>2, <2>3, RowMajorOffset
    <3>2. OffsetAt(d, strides, byte_offset_) = byte_offset_ + Linear(d, target)
      BY <1>1, <1>2, <2>2, RowMajorOffset
    <3>3. NowListed[c] = <<storage_, 1 + OffsetAt(c, strides_, byte_offset_)>>
      BY ListedAt DEF NowListed
    <3>4. Listed(target, strides, byte_offset_, storage_)[d]
            = <<storage_, 1 + OffsetAt(d, strides, byte_offset_)>>
      BY ListedAt
    <3>. QED
      BY <2>5, <3>1, <3>2, <3>3, <3>4
  <2>6. \A c \in Places(shape_), d \in Places(shape_') :
           Linear(c, shape_) = Linear(d, shape_') => NowListed[c] = NowListed'[d]
    BY <2>1, <2>4, <2>5
  <2>7. shape_' \in Seq(Nat) /\ Numel(shape_') = Numel(shape_)
    BY <1>1, <2>1
  <2>. QED
    BY <1>2, <2>1, <2>6, <2>7, ShowsReshape
<1>4. CASE ~IsContiguous
  <2> DEFINE f == [k \in 1..Numel(shape_) |-> memory[storage_][1 + Positions[k]]]
  <2>1. NewTensor(target, f)
    BY <1>4 DEF Reshape
  <2>2. f \in Seq(Nat)
    BY CopiesAreValues
  <2>3. \A k \in 1..Numel(shape_) : f[k] =
          memory[storage_][1 + OffsetAt(Digits(shape_, k - 1), strides_, byte_offset_)]
    BY <1>2, PositionsListed
  <2> HIDE DEF f
  <2>. QED
    BY <1>1, <2>1, <2>2, <2>3, NewIsCopy
<1>. QED
  BY <1>3, <1>4

LEMMA FillIsFill ==
    ASSUME VInv, FillZeros
    PROVE  AsArray!AFill
<1>1. /\ shape_ \in Seq(Nat) /\ strides_ \in Seq(Nat) /\ Len(strides_) = Len(shape_)
      /\ byte_offset_ \in Nat /\ memory \in Seq(Seq(Nat)) /\ storage_ \in DOMAIN memory /\ Typed
  BY DEF VInv, Typed
<1> DEFINE N == Numel(shape_)
           zeroed == IF IsContiguous
                     THEN byte_offset_ .. byte_offset_ + N - 1
                     ELSE Range(Positions)
           Spot(c) == OffsetAt(c, strides_, byte_offset_)
<1>2. N \in Nat
  BY <1>1, BehindFacts, ShapeFacts
<1>3. \A c \in Places(shape_) : \E k \in 1..N : Digits(shape_, k - 1) = c
  <2> TAKE c \in Places(shape_)
  <2> DEFINE m == Linear(c, shape_)
  <2>1. m \in 0..N - 1 /\ Digits(shape_, m) = c
    BY <1>1, PlaceNumber
  <2> HIDE DEF m, N
  <2>2. m + 1 \in 1..N /\ (m + 1) - 1 = m
    BY <1>2, <2>1
  <2>. QED
    BY <2>1, <2>2
<1>4. \A k \in 1..N : /\ Digits(shape_, k - 1) \in Places(shape_)
                      /\ Positions[k] = Spot(Digits(shape_, k - 1))
                      /\ IsContiguous => byte_offset_ + k - 1 = Spot(Digits(shape_, k - 1))
  BY <1>1, PositionsListed
<1>5. DOMAIN Positions = 1..N
  BY <1>1, PositionsFacts
<1> HIDE DEF Spot, N
<1>6. \A x : x \in zeroed <=> \E c \in Places(shape_) : Spot(c) = x
  <2>1. CASE IsContiguous
    <3>1. zeroed = byte_offset_ .. byte_offset_ + N - 1
      BY <2>1
    <3> HIDE DEF zeroed
    <3>2. ASSUME NEW x \in zeroed PROVE \E c \in Places(shape_) : Spot(c) = x
      <4> DEFINE k == (x - byte_offset_) + 1
      <4>1. k \in 1..N /\ byte_offset_ + k - 1 = x
        BY <1>1, <1>2, <3>1
      <4> HIDE DEF k
      <4>. QED
        BY <1>4, <2>1, <4>1
    <3>3. ASSUME NEW c \in Places(shape_) PROVE Spot(c) \in zeroed
      <4>1. PICK k \in 1..N : Digits(shape_, k - 1) = c
        BY <1>3
      <4>2. Spot(c) = byte_offset_ + k - 1
        BY <1>4, <2>1, <4>1
      <4>. QED
        BY <1>1, <1>2, <3>1, <4>2
    <3>. QED
      BY <3>2, <3>3
  <2>2. CASE ~IsContiguous
    <3>1. \A x : x \in zeroed <=> \E k \in 1..N : Positions[k] = x
      BY <1>5, <2>2 DEF Range
    <3> HIDE DEF zeroed
    <3>. QED
      BY <1>3, <1>4, <3>1
  <2>. QED
    BY <2>1, <2>2
<1>7. /\ memory' = [memory EXCEPT ![storage_] =
                      [p \in DOMAIN @ |-> IF p - 1 \in zeroed THEN 0 ELSE @[p]]]
      /\ shape_' = shape_ /\ strides_' = strides_
      /\ byte_offset_' = byte_offset_ /\ storage_' = storage_
  BY DEF FillZeros, N
<1> HIDE DEF zeroed
<1>8. ASSUME NEW s \in DOMAIN memory, NEW p \in DOMAIN memory[s]
      PROVE  (\E c \in Places(shape_) : NowListed[c] = <<s, p>>)
               <=> s = storage_ /\ p - 1 \in zeroed
  <2>1. p \in Nat
    BY <1>1
  <2>2. \A c \in Places(shape_) : Spot(c) \in Nat
    BY <1>1, OffsetSum DEF Spot
  <2>3. \A c \in Places(shape_) : NowListed[c] = <<storage_, 1 + Spot(c)>>
    BY ListedAt DEF NowListed, Spot
  <2>4. \A c \in Places(shape_) : 1 + Spot(c) = p <=> Spot(c) = p - 1
    BY <2>1, <2>2
  <2>. QED
    BY <1>6, <2>3, <2>4
<1>9. memory' = [s \in DOMAIN memory |-> [p \in DOMAIN memory[s] |->
         IF \E c \in Places(shape_) : NowListed[c] = <<s, p>> THEN 0 ELSE memory[s][p]]]
  <2> DEFINE New(s) == [p \in DOMAIN memory[s] |->
         IF \E c \in Places(shape_) : NowListed[c] = <<s, p>> THEN 0 ELSE memory[s][p]]
  <2>1. New(storage_) = [p \in DOMAIN memory[storage_] |->
                           IF p - 1 \in zeroed THEN 0 ELSE memory[storage_][p]]
    BY <1>1, <1>8
  <2>2. ASSUME NEW s \in DOMAIN memory, s # storage_ PROVE New(s) = memory[s]
    <3>1. New(s) = [p \in DOMAIN memory[s] |-> memory[s][p]]
      BY <1>8, <2>2
    <3>2. memory[s] \in Seq(Nat)
      BY <1>1
    <3> HIDE DEF New
    <3>. QED
      BY <3>1, <3>2
  <2>3. memory' = [memory EXCEPT ![storage_] = New(storage_)]
    BY <1>7, <2>1
  <2> HIDE DEF New
  <2>4. memory' = [s \in DOMAIN memory |-> New(s)]
    BY <1>1, <2>2, <2>3
  <2>. QED
    BY <2>4 DEF New
<1>. QED
  BY <1>1, <1>7, <1>9, ShowsFill

Permutes(perm, D) == IsFiniteSet(D) /\ perm \in [D -> D] /\ IsInjective(perm)

\* Every axis comes from some axis.
LEMMA AxisFound ==
    ASSUME NEW D, NEW perm, Permutes(perm, D), NEW i \in D
    PROVE  (CHOOSE j \in DOMAIN perm : perm[j] = i) \in D
           /\ perm[CHOOSE j \in DOMAIN perm : perm[j] = i] = i
<1>1. perm \in Injection(D, D) /\ IsFiniteSet(D) /\ DOMAIN perm = D
  BY DEF Injection, IsInjective, Permutes
<1>2. perm \in Surjection(D, D)
  BY <1>1, FS_Injection
<1>3. \E j \in DOMAIN perm : perm[j] = i
  BY <1>1, <1>2 DEF Surjection
<1>4. DOMAIN perm = D
  BY <1>1
<1>. QED
  BY <1>3, <1>4, Zenon

\* h has the values of f at the places that p says.
Renamed(f, h, D, p) ==
    /\ Naturals(f) /\ DOMAIN f = D /\ DOMAIN h = D
    /\ Permutes(p, D) /\ \A i \in D : h[i] = f[p[i]]

\* The summands of one table in the order of another.
LEMMA SumsRenamed ==
    ASSUME NEW f, NEW h, NEW D, NEW p, Renamed(f, h, D, p)
    PROVE  Sums(h)[D] = Sums(f)[D]
<1>0. /\ Naturals(f) /\ DOMAIN f = D /\ DOMAIN h = D /\ IsFiniteSet(D)
      /\ p \in [D -> D] /\ IsInjective(p) /\ \A i \in D : h[i] = f[p[i]]
  BY DEF Renamed, Permutes
<1>1. \A s \in SUBSET DOMAIN h : Sums(h)[s] = Sums(f)[Image(p, s)]
  <2>1. IsFiniteSet(DOMAIN h) /\ p \in [DOMAIN h -> DOMAIN f]
        /\ \A i \in DOMAIN h : h[i] = f[p[i]]
    BY <1>0
  <2>. QED
    BY <1>0, <2>1, SumsMapped
<1>2. Sums(h)[D] = Sums(f)[Image(p, D)]
  BY <1>0, <1>1
<1>3. p \in Injection(D, D)
  BY <1>0 DEF Injection, IsInjective
<1>4. p \in Surjection(D, D)
  BY <1>0, <1>3, FS_Injection
<1>5. Image(p, D) = D
  BY <1>4 DEF Image, Surjection
<1>. QED
  BY <1>2, <1>5

\* The coordinates before the axes were permuted.
Unpermuted(c, perm, D) == [i \in D |-> c[CHOOSE j \in DOMAIN perm : perm[j] = i]]

\* shape2 and strides2 have the axes in the order of perm.
Permuted(shape, strides, shape2, strides2, perm) ==
    /\ perm \in [DOMAIN shape -> DOMAIN shape] /\ IsInjective(perm)
    /\ DOMAIN shape2 = DOMAIN shape
    /\ \A i \in DOMAIN shape : shape2[i] = shape[perm[i]] /\ strides2[i] = strides[perm[i]]

\* The coordinates b, permuted, are c.
Undoes(b, c, perm, D) ==
    /\ DOMAIN b = D
    /\ \A i \in D : \E j \in D : perm[j] = i /\ b[i] = c[j]
    /\ \A j \in D : b[perm[j]] = c[j]

LEMMA UnpermutedFacts ==
    ASSUME NEW D, NEW perm, Permutes(perm, D), NEW c
    PROVE  Undoes(Unpermuted(c, perm, D), c, perm, D)
<1> DEFINE b == Unpermuted(c, perm, D)
<1>0. DOMAIN perm = D /\ IsInjective(perm) /\ \A j \in D : perm[j] \in D
  BY DEF Permutes
<1>1. DOMAIN b = D
  BY DEF Unpermuted
<1>2. ASSUME NEW i \in D PROVE \E j \in D : perm[j] = i /\ b[i] = c[j]
  <2> DEFINE j == CHOOSE j \in DOMAIN perm : perm[j] = i
  <2>1. j \in D /\ perm[j] = i
    BY AxisFound
  <2>2. b[i] = c[j]
    BY DEF Unpermuted
  <2> HIDE DEF j
  <2>. QED
    BY <2>1, <2>2
<1> HIDE DEF b
<1>3. \A j \in D : b[perm[j]] = c[j]
  <2> TAKE j \in D
  <2>1. perm[j] \in D
    BY <1>0
  <2>2. PICK l \in D : perm[l] = perm[j] /\ b[perm[j]] = c[l]
    BY <1>2, <2>1
  <2>3. l = j
    BY <1>0, <2>2 DEF IsInjective
  <2>. QED
    BY <2>2, <2>3
<1>4. \A i \in D : \E j \in D : perm[j] = i /\ b[i] = c[j]
  BY <1>2
<1>. QED
  BY <1>1, <1>3, <1>4 DEF b, Undoes

LEMMA UnpermutedPlace ==
    ASSUME NEW shape \in Seq(Nat), NEW strides, NEW shape2 \in Seq(Nat), NEW strides2,
           NEW perm, Permuted(shape, strides, shape2, strides2, perm), NEW c \in Places(shape2)
    PROVE  Unpermuted(c, perm, DOMAIN shape) \in Places(shape)
<1> DEFINE n == Len(shape)
           D == DOMAIN shape
           b == Unpermuted(c, perm, D)
<1>1. n \in Nat /\ D = 1..n
  BY ShapeFacts
<1>2. IsFiniteSet(D)
  BY <1>1, FS_Interval
<1>3. Permutes(perm, D)
  BY <1>2 DEF Permuted, Permutes
<1>9. DOMAIN shape2 = D /\ \A i \in D : shape2[i] = shape[perm[i]]
  BY DEF Permuted
<1>4. \A i \in DOMAIN shape2 : c[i] \in Nat /\ c[i] \in 0..shape2[i] - 1
  BY PlaceFacts
<1>5. DOMAIN b = D /\ \A i \in D : \E j \in D : perm[j] = i /\ b[i] = c[j]
  <2>1. Undoes(b, c, perm, D)
    BY <1>3, UnpermutedFacts, Zenon
  <2>. QED
    BY <2>1, Zenon DEF Undoes
<1>10. b = [i \in D |-> b[i]]
  BY DEF Unpermuted
<1> HIDE DEF b, D, n
<1>6. ASSUME NEW i \in D PROVE b[i] \in Nat /\ b[i] \in 0..shape[i] - 1
  <2>1. PICK j \in D : perm[j] = i /\ b[i] = c[j]
    BY <1>5
  <2>2. shape2[j] = shape[i] /\ c[j] \in Nat /\ c[j] \in 0..shape2[j] - 1
    BY <1>4, <1>9, <2>1
  <2>. QED
    BY <2>1, <2>2, Zenon
<1>7. b \in Seq(Nat) /\ Len(b) = n
  <2>1. b = [i \in 1..n |-> b[i]] /\ \A i \in 1..n : b[i] \in Nat
    BY <1>1, <1>10, <1>6, Zenon
  <2>. QED
    BY <1>1, <2>1, TableOfNats
<1>8. DOMAIN b = DOMAIN shape /\ \A i \in DOMAIN shape : b[i] \in 0..shape[i] - 1
  BY <1>5, <1>6 DEF D
<1>. QED
  BY <1>7, <1>8, Zenon DEF Places, Inside, b, D, n

LEMMA TransposedOffset ==
    ASSUME NEW shape \in Seq(Nat), NEW strides \in Seq(Nat), Len(strides) = Len(shape),
           NEW shape2 \in Seq(Nat), NEW strides2 \in Seq(Nat), Len(strides2) = Len(shape2),
           NEW perm, Permuted(shape, strides, shape2, strides2, perm),
           NEW offset \in Nat, NEW c \in Places(shape2)
    PROVE  OffsetAt(c, strides2, offset)
             = OffsetAt(Unpermuted(c, perm, DOMAIN shape), strides, offset)
<1> DEFINE D == DOMAIN shape
           b == Unpermuted(c, perm, D)
           f == Steps(b, strides)
           h == Steps(c, strides2)
<1>1. b \in Places(shape)
  BY UnpermutedPlace
<1> HIDE DEF b
<1>2. /\ OffsetAt(c, strides2, offset) = offset + Sums(h)[DOMAIN shape2]
      /\ Naturals(h) /\ DOMAIN h = DOMAIN shape2
  BY OffsetSum
<1>3. /\ OffsetAt(b, strides, offset) = offset + Sums(f)[D]
      /\ Naturals(f) /\ DOMAIN f = D
  BY <1>1, OffsetSum
<1>4. DOMAIN shape2 = D /\ \A i \in D : strides2[i] = strides[perm[i]]
  BY DEF Permuted
<1>9. Permutes(perm, D) /\ \A i \in D : perm[i] \in D
  <2>1. IsFiniteSet(D)
    BY <1>3 DEF Naturals
  <2>. QED
    BY <2>1 DEF Permuted, Permutes
<1>5. DOMAIN c = D /\ DOMAIN b = D
  <2>2. DOMAIN c = DOMAIN shape2
    BY PlaceFacts
  <2>3. DOMAIN b = D
    BY <1>1, PlaceFacts
  <2>. QED
    BY <1>4, <2>2, <2>3
<1>6. \A j \in D : b[perm[j]] = c[j]
  <2>1. Undoes(b, c, perm, D)
    BY <1>9, UnpermutedFacts, Zenon DEF b
  <2>. QED
    BY <2>1, Zenon DEF Undoes
<1>7. ASSUME NEW i \in D PROVE h[i] = f[perm[i]]
  <2>1. h[i] = c[i] * strides2[i]
    BY <1>5, Zenon DEF Steps
  <2>2. perm[i] \in D
    BY <1>9
  <2>3. f[perm[i]] = b[perm[i]] * strides[perm[i]]
    BY <1>5, <2>2, Zenon DEF Steps
  <2>. QED
    BY <1>4, <1>6, <2>1, <2>3, Zenon
<1> HIDE DEF f, h, D
<1>8. Sums(h)[D] = Sums(f)[D]
  <2>1. DOMAIN h = D
    BY <1>2, <1>4
  <2>2. Renamed(f, h, D, perm)
    BY <1>3, <1>7, <1>9, <2>1, Zenon DEF Renamed
  <2>. QED
    BY <2>2, SumsRenamed
<1>. QED
  BY <1>2, <1>3, <1>4, <1>8, Zenon DEF b, D

LEMMA TransposeIsTranspose ==
    ASSUME VInv, VInv', NEW perm \in [DOMAIN shape_ -> DOMAIN shape_], Transpose(perm)
    PROVE  AsArray!ATranspose(perm)
<1> DEFINE D == DOMAIN shape_
<1>1. /\ shape_ \in Seq(Nat) /\ strides_ \in Seq(Nat) /\ Len(strides_) = Len(shape_)
      /\ byte_offset_ \in Nat
      /\ shape_' \in Seq(Nat) /\ strides_' \in Seq(Nat) /\ Len(strides_') = Len(shape_')
  BY DEF VInv, Typed
<1>2. /\ IsInjective(perm) /\ DOMAIN perm = D
      /\ shape_' = [i \in D |-> shape_[perm[i]]]
      /\ strides_' = [i \in D |-> strides_[perm[i]]]
      /\ byte_offset_' = byte_offset_ /\ storage_' = storage_ /\ memory' = memory
  BY DEF Transpose
<1>3. NowListed' = Listed(shape_', strides_', byte_offset_, storage_)
  BY <1>2 DEF NowListed
<1>4. Permuted(shape_, strides_, shape_', strides_', perm)
  BY <1>2 DEF Permuted
<1>5. ASSUME NEW c \in Places(shape_')
      PROVE  Listed(shape_', strides_', byte_offset_, storage_)[c]
                = NowListed[Unpermuted(c, perm, D)]
  <2>1. Unpermuted(c, perm, D) \in Places(shape_)
    BY <1>1, <1>4, UnpermutedPlace
  <2>2. OffsetAt(c, strides_', byte_offset_)
          = OffsetAt(Unpermuted(c, perm, D), strides_, byte_offset_)
    BY <1>1, <1>4, TransposedOffset
  <2>3. NowListed[Unpermuted(c, perm, D)]
          = <<storage_, 1 + OffsetAt(Unpermuted(c, perm, D), strides_, byte_offset_)>>
    BY <2>1, ListedAt DEF NowListed
  <2>4. Listed(shape_', strides_', byte_offset_, storage_)[c]
          = <<storage_, 1 + OffsetAt(c, strides_', byte_offset_)>>
    BY ListedAt
  <2>. QED
    BY <2>2, <2>3, <2>4, Zenon
<1>6. NowListed' = [c \in Places(shape_') |-> NowListed[Unpermuted(c, perm, D)]]
  <2> DEFINE new == Listed(shape_', strides_', byte_offset_, storage_)
  <2>1. new = [c \in Places(shape_') |-> new[c]]
    BY DEF Listed
  <2> HIDE DEF new
  <2>2. \A c \in Places(shape_') : new[c] = NowListed[Unpermuted(c, perm, D)]
    BY <1>5 DEF new
  <2>3. new = [c \in Places(shape_') |-> NowListed[Unpermuted(c, perm, D)]]
    BY <2>1, <2>2
  <2>. QED
    BY <1>3, <2>3 DEF new
<1>7. NowListed' = [c \in Places(shape_') |->
         NowListed[[i \in DOMAIN shape_ |-> c[CHOOSE j \in DOMAIN perm : perm[j] = i]]]]
  BY <1>6, Zenon DEF Unpermuted
<1>. QED
  BY <1>1, <1>2, <1>7, ShowsTranspose

\* first + k * step stays below last for Length many k.
LEMMA LengthCounts ==
    ASSUME NEW first \in Nat, NEW last \in Nat, NEW step \in Nat \ {0}, NEW k \in Nat
    PROVE  first + k * step < last <=> k < Length(first, last, step)
<1>0. k * step \in Nat
  OBVIOUS
<1>1. CASE ~(last > first)
  <2>1. Length(first, last, step) = 0
    BY <1>1, Zenon DEF Length
  <2> DEFINE x == k * step
  <2>2. x \in Nat
    BY <1>0
  <2> HIDE DEF x
  <2>3. ~(first + x < last)
    BY <1>1, <2>2
  <2>. QED
    BY <2>1, <2>3 DEF x
<1>2. CASE last > first
  <2> DEFINE a == last - first + step - 1
             q == a \div step
             r == a % step
             x == k * step
             y == q * step
  <2>1. Length(first, last, step) = q
    BY <1>2, Zenon DEF Length
  <2>2. a \in Nat
    BY <1>2
  <2>3. q \in Nat /\ r \in 0..step - 1 /\ a = step * q + r
    <3> HIDE DEF a
    <3>. QED
      BY <2>2, Division
  <2> HIDE DEF q, r
  <2>4. y \in Nat /\ a = y + r /\ x \in Nat
    BY <2>3
  <2>5. CASE k < q
    <3>1. (k + 1) * step <= q * step
      BY <2>3, <2>5, Scaled
    <3>2. (k + 1) * step = x + step
      BY Distributes
    <3>3. x + step <= y
      BY <3>1, <3>2
    <3> HIDE DEF x, y
    <3>4. first + x < last
      BY <1>2, <2>3, <2>4, <3>3
    <3>. QED
      BY <2>1, <2>5, <3>4 DEF x
  <2>6. CASE ~(k < q)
    <3>1. q * step <= k * step
      BY <2>3, <2>6, Scaled
    <3>2. y <= x
      BY <3>1
    <3> HIDE DEF x, y
    <3>3. ~(first + x < last)
      BY <1>2, <2>3, <2>4, <3>2
    <3>. QED
      BY <2>1, <2>6, <3>3 DEF x
  <2>. QED
    BY <2>5, <2>6
<1>. QED
  BY <1>1, <1>2

LEMMA Stepped ==
    ASSUME NEW first \in Nat, NEW step \in Nat \ {0}, NEW j \in Nat, NEW k \in Nat
    PROVE  /\ first + j * step < first + k * step <=> j < k
           /\ first + j * step \in Nat /\ k <= first + k * step
<1> DEFINE x == j * step
           y == k * step
<1>1. x \in Nat /\ y \in Nat
  OBVIOUS
<1>2. k <= y
  <2>1. 1 <= step /\ k * 1 = k
    OBVIOUS
  <2>2. 1 * k <= step * k
    BY <2>1, Scaled
  <2>3. step * k = k * step /\ 1 * k = k
    OBVIOUS
  <2>. QED
    BY <2>2, <2>3
<1>3. ASSUME j < k PROVE x < y
  <2>1. (j + 1) * step <= k * step
    BY <1>3, Scaled
  <2>2. (j + 1) * step = x + step
    BY Distributes
  <2>3. x + step <= y
    BY <2>1, <2>2
  <2> HIDE DEF x, y
  <2>. QED
    BY <1>1, <2>3
<1>4. ASSUME ~(j < k) PROVE y <= x
  BY <1>4, Scaled
<1> HIDE DEF x, y
<1>5. (first + x < first + y <=> j < k) /\ first + x \in Nat /\ k <= first + y
  BY <1>1, <1>2, <1>3, <1>4
<1>. QED
  BY <1>5 DEF x, y

\* Exactly n numbers, step apart.
Progression(chosen, first, step, n) ==
    \A x : x \in chosen <=> \E k \in 0..n - 1 : x = first + k * step

\* What Selected selects: first, first + step, and so on, Length many.
LEMMA SelectedFacts ==
    ASSUME NEW dim \in Nat, NEW start \in Int, NEW end \in Int, NEW step \in Nat \ {0},
           NEW first, first = Bound(start, dim), NEW last, last = Bound(end, dim),
           NEW n, n = Length(first, last, step)
    PROVE  /\ first \in 0..dim /\ last \in 0..dim /\ n \in Nat
           /\ Progression(AsArray!Selected(start, end, step, dim), first, step, n)
<1> DEFINE S == AsArray!FromEnd(start, dim)
           E == AsArray!FromEnd(end, dim)
           base == IF S < 0 THEN 0 ELSE S
           chosen == AsArray!Selected(start, end, step, dim)
<1>1. first \in 0..dim /\ last \in 0..dim
  BY BoundFacts
<1>2. n \in Nat
  BY <1>1, SliceBounds
<1>3. S \in Int /\ E \in Int
  BY DEF AsArray!FromEnd
<1>4. /\ first = IF S < 0 THEN 0 ELSE IF S > dim THEN dim ELSE S
      /\ last = IF E < 0 THEN 0 ELSE IF E > dim THEN dim ELSE E
  BY DEF Bound, Clamp, AsArray!FromEnd
<1>5. \A x : x \in chosen <=> /\ x \in 0..dim - 1 /\ S <= x /\ x < E
                              /\ \E k \in 0..dim : x = base + k * step
  BY Zenon DEF AsArray!Selected
<1> HIDE DEF S, E
<1>6. base \in Nat
  BY <1>3
<1> HIDE DEF chosen
<1>7. ASSUME NEW x \in chosen PROVE \E k \in 0..n - 1 : x = first + k * step
  <2>1. PICK k \in 0..dim : x = base + k * step
    BY <1>5
  <2>2. x \in 0..dim - 1 /\ S <= x /\ x < E
    BY <1>5
  <2>3. base <= x
    <3> DEFINE y == k * step
    <3>1. y \in Nat /\ x = base + y
      BY <2>1
    <3> HIDE DEF y, base
    <3>. QED
      BY <1>6, <3>1
  <2>4. first = base /\ x < last
    BY <1>3, <1>4, <2>2, <2>3
  <2> HIDE DEF base
  <2>5. first + k * step < last
    BY <2>1, <2>4
  <2>6. first \in Nat /\ last \in Nat /\ k \in Nat
    BY <1>1
  <2>7. k < n
    BY <2>5, <2>6, LengthCounts
  <2>8. k \in 0..n - 1
    BY <1>2, <2>6, <2>7
  <2>. QED
    BY <2>1, <2>4, <2>8
<1>8. ASSUME NEW k \in 0..n - 1 PROVE first + k * step \in chosen
  <2> DEFINE x == first + k * step
  <2>1. first \in Nat /\ last \in Nat /\ k \in Nat /\ k < n
    BY <1>1, <1>2
  <2>2. x < last /\ x \in Nat /\ k <= x
    BY <2>1, LengthCounts, Stepped
  <2>3. first <= x
    <3> DEFINE y == k * step
    <3>1. y \in Nat
      BY <2>1
    <3> HIDE DEF y
    <3>2. first <= first + y
      BY <2>1, <3>1
    <3>. QED
      BY <3>2 DEF y
  <2>4. x = first + k * step
    OBVIOUS
  <2> HIDE DEF x
  <2>5. first = base /\ x < E /\ S <= x /\ x \in 0..dim - 1 /\ k \in 0..dim
    BY <1>1, <1>3, <1>4, <2>1, <2>2, <2>3
  <2>6. x = base + k * step
    BY <2>4, <2>5
  <2> HIDE DEF base
  <2>7. x \in chosen
    BY <1>5, <2>5, <2>6 DEF base
  <2>. QED
    BY <2>4, <2>7
<1>9. \A x : x \in chosen <=> \E k \in 0..n - 1 : x = first + k * step
  BY <1>7, <1>8
<1>. QED
  BY <1>1, <1>2, <1>9 DEF chosen, Progression

LEMMA ChosenBelow ==
    ASSUME NEW first \in Nat, NEW step \in Nat \ {0}, NEW n \in Nat, NEW chosen,
           Progression(chosen, first, step, n), NEW m \in 0..n
    PROVE  Cardinality({y \in chosen : y < first + m * step}) = m
<1> DEFINE T == {y \in chosen : y < first + m * step}
           f == [i \in 1..m |-> first + (i - 1) * step]
<1>0. \A x : x \in chosen <=> \E k \in 0..n - 1 : x = first + k * step
  BY DEF Progression
<1>1. ASSUME NEW i \in 1..m PROVE first + (i - 1) * step \in T
  <2> DEFINE k == i - 1
  <2>1. k \in 0..n - 1 /\ k \in Nat /\ m \in Nat /\ k < m
    OBVIOUS
  <2> HIDE DEF k
  <2>2. first + k * step < first + m * step
    BY <2>1, Stepped
  <2>3. first + k * step \in chosen
    BY <1>0, <2>1
  <2>. QED
    BY <2>2, <2>3 DEF k
<1>2. f \in [1..m -> T]
  <2>1. \A i \in 1..m : f[i] \in T
    BY <1>1
  <2>2. f = [i \in 1..m |-> f[i]]
    OBVIOUS
  <2> HIDE DEF f, T
  <2>. QED
    BY <2>1, <2>2
<1>3. ASSUME NEW i \in 1..m, NEW j \in 1..m, f[i] = f[j] PROVE i = j
  <2> DEFINE k == i - 1
             l == j - 1
  <2>1. k \in Nat /\ l \in Nat /\ k + 1 = i /\ l + 1 = j
    OBVIOUS
  <2>2. first + k * step = first + l * step
    BY <1>3
  <2> HIDE DEF k, l, f
  <2>3. ~(k < l) /\ ~(l < k)
    <3>1. (first + k * step < first + l * step <=> k < l) /\ first + k * step \in Nat
      BY <2>1, Stepped
    <3>2. (first + l * step < first + k * step <=> l < k) /\ first + l * step \in Nat
      BY <2>1, Stepped
    <3> DEFINE u == first + k * step
               v == first + l * step
    <3>3. u = v /\ u \in Nat /\ (u < v <=> k < l) /\ (v < u <=> l < k)
      BY <2>2, <3>1, <3>2
    <3> HIDE DEF u, v
    <3>. QED
      BY <3>3
  <2>. QED
    BY <2>1, <2>3
<1>4. ASSUME NEW x \in T PROVE \E i \in 1..m : f[i] = x
  <2>1. PICK k \in 0..n - 1 : x = first + k * step
    BY <1>0
  <2>2. k \in Nat /\ m \in Nat
    OBVIOUS
  <2>3. first + k * step < first + m * step
    BY <2>1
  <2>4. k < m
    BY <2>2, <2>3, Stepped
  <2>5. k + 1 \in 1..m /\ (k + 1) - 1 = k
    BY <2>2, <2>4
  <2>. QED
    BY <2>1, <2>5
<1>5. m \in Nat
  OBVIOUS
<1> HIDE DEF f, T
<1>6. Cardinality(T) = m
  BY <1>2, <1>3, <1>4, <1>5, CountedByNumbers
<1>. QED
  BY <1>6 DEF T

LEMMA NthChosen ==
    ASSUME NEW first \in Nat, NEW step \in Nat \ {0}, NEW n \in Nat, NEW chosen,
           Progression(chosen, first, step, n)
    PROVE  /\ AsArray!Cardinality(chosen) = n
           /\ \A k \in 0..n - 1 : Nth(chosen, k) = first + k * step
<1>0. \A x : x \in chosen <=> \E k \in 0..n - 1 : x = first + k * step
  BY DEF Progression
<1>1. \A S : AsArray!Cardinality(S) = Cardinality(S)
  BY SameCoords
<1>2. \A m \in 0..n : Cardinality({y \in chosen : y < first + m * step}) = m
  BY ChosenBelow
<1>3. {y \in chosen : y < first + n * step} = chosen
  <2>1. ASSUME NEW y \in chosen PROVE y < first + n * step
    <3>1. PICK k \in 0..n - 1 : y = first + k * step
      BY <1>0
    <3>2. k \in Nat /\ k < n
      OBVIOUS
    <3>3. first + k * step < first + n * step
      BY <3>2, Stepped
    <3>. QED
      BY <3>1, <3>3
  <2>. QED
    BY <2>1
<1>4. AsArray!Cardinality(chosen) = n
  <2>1. n \in 0..n
    OBVIOUS
  <2>2. Cardinality({y \in chosen : y < first + n * step}) = n
    BY <1>2, <2>1
  <2>. QED
    BY <1>1, <1>3, <2>2
<1>5. ASSUME NEW k \in 0..n - 1 PROVE Nth(chosen, k) = first + k * step
  <2> DEFINE P(x) == AsArray!Cardinality({y \in chosen : y < x}) = k
             z == first + k * step
  <2>1. z \in chosen
    BY <1>0
  <2>2. \A m \in 0..n - 1 : P(first + m * step) <=> m = k
    <3> TAKE m \in 0..n - 1
    <3>1. m \in 0..n
      OBVIOUS
    <3>2. Cardinality({y \in chosen : y < first + m * step}) = m
      BY <1>2, <3>1
    <3>. QED
      BY <1>1, <3>2
  <2>3. P(z)
    BY <2>2
  <2>4. Nth(chosen, k) = CHOOSE x \in chosen : P(x)
    BY Zenon DEF Nth
  <2> HIDE DEF P
  <2>5. \A x \in chosen : P(x) => x = z
    <3> TAKE x \in chosen
    <3>1. PICK m \in 0..n - 1 : x = first + m * step
      BY <1>0
    <3>2. P(x) => m = k
      BY <2>2, <3>1
    <3>. QED
      BY <3>1, <3>2
  <2> HIDE DEF z
  <2>6. Nth(chosen, k) = z
    BY <2>1, <2>3, <2>4, <2>5
  <2>. QED
    BY <2>6 DEF z
<1>. QED
  BY <1>4, <1>5

\* The coordinates c with another one on this axis.
Moved(c, axis, x) == [c EXCEPT ![axis] = x]

LEMMA MovedSequence ==
    ASSUME NEW c \in Seq(Nat), NEW axis \in DOMAIN c, NEW x \in Nat
    PROVE  Moved(c, axis, x) \in Seq(Nat) /\ Len(Moved(c, axis, x)) = Len(c)
BY DEF Moved

\* shape2 and strides2 have step times the stride on this axis, and the elements
\* from first on.
Sliced(shape, strides, shape2, strides2, axis, first, step, st) ==
    /\ DOMAIN shape2 = DOMAIN shape /\ axis \in DOMAIN shape
    /\ \A i \in DOMAIN shape \ {axis} : shape2[i] = shape[i] /\ strides2[i] = strides[i]
    /\ strides[axis] = st /\ strides2[axis] = st * step
    /\ \A k \in 0..shape2[axis] - 1 : first + k * step \in 0..shape[axis] - 1

\* Where the elements lie that a slice keeps of one axis.
Kept(c, axis, first, step) == Moved(c, axis, first + c[axis] * step)

\* The coordinates b differ from c on this axis only.
KeptAt(b, c, shape, axis) ==
    /\ b \in Places(shape)
    /\ DOMAIN b = DOMAIN shape /\ DOMAIN c = DOMAIN shape
    /\ c[axis] \in Nat /\ axis \in DOMAIN c
    /\ \A i \in DOMAIN shape \ {axis} : b[i] = c[i]

LEMMA KeptFacts ==
    ASSUME NEW shape \in Seq(Nat), NEW strides, NEW shape2 \in Seq(Nat), NEW strides2,
           NEW axis, NEW first \in Nat, NEW step \in Nat, NEW st,
           Sliced(shape, strides, shape2, strides2, axis, first, step, st),
           NEW c \in Places(shape2)
    PROVE  KeptAt(Kept(c, axis, first, step), c, shape, axis)
<1> DEFINE D == DOMAIN shape
           b == Kept(c, axis, first, step)
           x == c[axis]
           y == first + x * step
<1>1. /\ DOMAIN shape2 = D /\ axis \in D
      /\ \A i \in D \ {axis} : shape2[i] = shape[i]
      /\ \A k \in 0..shape2[axis] - 1 : first + k * step \in 0..shape[axis] - 1
  BY DEF Sliced
<1>2. /\ c \in Seq(Nat) /\ Len(c) = Len(shape2) /\ DOMAIN c = DOMAIN shape2
      /\ \A i \in DOMAIN shape2 : c[i] \in Nat /\ c[i] \in 0..shape2[i] - 1
  BY PlaceFacts
<1>3. Len(shape2) = Len(shape)
  <2>1. DOMAIN shape = 1..Len(shape) /\ Len(shape) \in Nat
    BY ShapeFacts
  <2>2. DOMAIN shape2 = 1..Len(shape2) /\ Len(shape2) \in Nat
    BY ShapeFacts
  <2>. QED
    BY <1>1, <2>1, <2>2
<1>4. x \in Nat /\ y \in 0..shape[axis] - 1
  BY <1>1, <1>2, Zenon
<1>5. y \in Nat
  <2> HIDE DEF y
  <2>1. \A m, z : z \in 0..m => z \in Nat
    BY SMT
  <2>. QED
    BY <1>4, <2>1, Zenon
<1>6. b = [c EXCEPT ![axis] = y]
  BY Zenon DEF Kept, Moved
<1> HIDE DEF x, y, b
<1>7. DOMAIN b = D /\ b[axis] = y /\ \A i \in D \ {axis} : b[i] = c[i]
  BY <1>1, <1>2, <1>6, Zenon
<1>8. b \in Seq(Nat) /\ Len(b) = Len(c)
  <2>1. c \in Seq(Nat) /\ axis \in DOMAIN c
    BY <1>1, <1>2
  <2>2. b = Moved(c, axis, y)
    BY <1>6, Zenon DEF Moved
  <2>. QED
    BY <1>5, <2>1, <2>2, MovedSequence, Zenon
<1>9. ASSUME NEW i \in D PROVE b[i] \in 0..shape[i] - 1
  <2>1. CASE i = axis
    BY <1>4, <1>7, <2>1, Zenon
  <2>2. CASE i # axis
    <3>1. i \in D \ {axis} /\ i \in DOMAIN shape2
      BY <1>1, <2>2
    <3>. QED
      BY <1>1, <1>2, <1>7, <3>1, Zenon
  <2>. QED
    BY <2>1, <2>2
<1>10. Inside(b, shape)
  BY <1>7, <1>9 DEF Inside
<1>11. b \in Places(shape)
  BY <1>2, <1>3, <1>8, <1>10, Zenon DEF Places
<1>12. axis \in DOMAIN c /\ DOMAIN c = D
  BY <1>1, <1>2
<1>. QED
  BY <1>4, <1>7, <1>11, <1>12, Zenon DEF x, y, b, KeptAt

LEMMA SliceTerms ==
    ASSUME NEW first \in Nat, NEW step \in Nat, NEW st \in Nat, NEW x \in Nat,
           NEW e \in Nat, NEW offset \in Nat
    PROVE  (offset + first * st) + (x * (st * step) + e) = offset + ((first + x * step) * st + e)
<1> DEFINE z == x * step
           u == z * st
           low == first * st
<1>1. z \in Nat /\ low \in Nat
  OBVIOUS
<1>2. u = x * (st * step)
  <2>1. (x * step) * st = x * (step * st)
    BY Associates
  <2>2. step * st = st * step
    OBVIOUS
  <2>. QED
    BY <2>1, <2>2, Zenon
<1> HIDE DEF z
<1>3. (first + z) * st = low + u /\ u \in Nat
  BY <1>1, Distributes
<1> HIDE DEF u, low
<1>4. (offset + low) + (u + e) = offset + ((low + u) + e)
  BY <1>1, <1>3
<1>. QED
  BY <1>2, <1>3, <1>4, Zenon DEF z, low

\* Two tables that differ at most at x.
AlikeBut(f, h, D, x) ==
    /\ Naturals(f) /\ Naturals(h) /\ DOMAIN f = D /\ DOMAIN h = D
    /\ x \in D /\ \A i \in D \ {x} : h[i] = f[i]

\* What their other summands come to.
SharedRest(f, h, D, x) ==
    \E e \in Nat : Sums(h)[D] = h[x] + e /\ Sums(f)[D] = f[x] + e

LEMMA SumsAlike ==
    ASSUME NEW f, NEW h, NEW D, NEW x, AlikeBut(f, h, D, x)
    PROVE  SharedRest(f, h, D, x)
BY SumsBut DEF AlikeBut, SharedRest

\* Two handles have the same position at these coordinates.
SameElement(c, strides2, offset2, b, strides, offset) ==
    OffsetAt(c, strides2, offset2) = OffsetAt(b, strides, offset)

LEMMA SlicedOffset ==
    ASSUME NEW shape \in Seq(Nat), NEW strides \in Seq(Nat), Len(strides) = Len(shape),
           NEW shape2 \in Seq(Nat), NEW strides2 \in Seq(Nat), Len(strides2) = Len(shape2),
           NEW axis, NEW first \in Nat, NEW step \in Nat, NEW st \in Nat,
           Sliced(shape, strides, shape2, strides2, axis, first, step, st),
           NEW offset \in Nat, NEW offset2, offset2 = offset + first * st,
           NEW c \in Places(shape2)
    PROVE  SameElement(c, strides2, offset2, Kept(c, axis, first, step), strides, offset)
<1> DEFINE D == DOMAIN shape
           b == Kept(c, axis, first, step)
           f == Steps(b, strides)
           h == Steps(c, strides2)
           x == c[axis]
           low == first * st
<1>0. /\ b \in Places(shape) /\ DOMAIN b = D /\ DOMAIN c = D
      /\ x \in Nat /\ axis \in DOMAIN c
      /\ \A i \in D \ {axis} : b[i] = c[i]
  <2>1. KeptAt(b, c, shape, axis)
    BY KeptFacts, Zenon
  <2>. QED
    BY <2>1, Zenon DEF KeptAt
<1>1. /\ b \in Places(shape) /\ DOMAIN b = D /\ DOMAIN c = D
      /\ x \in Nat /\ b[axis] = first + x * step
      /\ \A i \in D \ {axis} : b[i] = c[i]
  <2>1. b[axis] = first + x * step
    BY <1>0, Zenon DEF Kept, Moved
  <2>. QED
    BY <1>0, <2>1, Zenon
<1> HIDE DEF b
<1>10. b \in Places(shape)
  BY <1>1
<1>11. x \in Nat
  BY <1>1
<1>2. low \in Nat /\ offset + low \in Nat
  <2>1. low \in Nat
    BY Distributes
  <2> HIDE DEF low
  <2>. QED
    BY <2>1
<1>3. /\ OffsetAt(c, strides2, offset + low) = (offset + low) + Sums(h)[DOMAIN shape2]
      /\ Naturals(h) /\ DOMAIN h = DOMAIN shape2
  <2> HIDE DEF low
  <2>. QED
    BY <1>2, OffsetSum
<1>4. /\ OffsetAt(b, strides, offset) = offset + Sums(f)[D]
      /\ Naturals(f) /\ DOMAIN f = D
  BY <1>10, OffsetSum
<1>5. /\ DOMAIN shape2 = D /\ axis \in D /\ strides2[axis] = st * step /\ strides[axis] = st
      /\ \A i \in D \ {axis} : strides2[i] = strides[i]
  BY Zenon DEF Sliced
<1>6. /\ h[axis] = x * (st * step) /\ f[axis] = (first + x * step) * st
      /\ \A i \in D \ {axis} : h[i] = f[i]
  <2>1. \A i \in D : h[i] = c[i] * strides2[i] /\ f[i] = b[i] * strides[i]
    BY <1>1, Zenon DEF Steps
  <2>2. h[axis] = x * (st * step) /\ f[axis] = (first + x * step) * st
    BY <1>1, <1>5, <2>1, Zenon
  <2>3. \A i \in D \ {axis} : h[i] = f[i]
    <3> TAKE i \in D \ {axis}
    <3>1. i \in D /\ b[i] = c[i] /\ strides2[i] = strides[i]
      BY <1>1, <1>5
    <3>. QED
      BY <2>1, <3>1, Zenon
  <2>. QED
    BY <2>2, <2>3
<1> HIDE DEF f, h, D
<1>7. PICK e \in Nat : Sums(h)[D] = h[axis] + e /\ Sums(f)[D] = f[axis] + e
  <2>1. AlikeBut(f, h, D, axis)
    BY <1>3, <1>4, <1>5, <1>6, Zenon DEF AlikeBut
  <2>2. SharedRest(f, h, D, axis)
    BY <2>1, SumsAlike, Zenon
  <2>. QED
    BY <2>2, Zenon DEF SharedRest
<1>8. /\ OffsetAt(c, strides2, offset + low) = (offset + low) + (x * (st * step) + e)
      /\ OffsetAt(b, strides, offset) = offset + ((first + x * step) * st + e)
  BY <1>3, <1>4, <1>5, <1>6, <1>7, Zenon
<1>9. (offset + low) + (x * (st * step) + e) = offset + ((first + x * step) * st + e)
  <2> HIDE DEF x
  <2>. QED
    BY <1>11, SliceTerms
<1>12. OffsetAt(c, strides2, offset + low) = OffsetAt(b, strides, offset)
  BY <1>8, <1>9, Zenon
<1>. QED
  BY <1>12, Zenon DEF b, SameElement

\* g is f with v at x.
ChangedAt(g, f, x, v) ==
    DOMAIN g = DOMAIN f /\ g[x] = v /\ \A i \in DOMAIN f \ {x} : g[i] = f[i]

LEMMA ChangedByExcept ==
    ASSUME NEW f, NEW x \in DOMAIN f, NEW v, NEW g, g = [f EXCEPT ![x] = v]
    PROVE  ChangedAt(g, f, x, v)
BY DEF ChangedAt

LEMMA SlicedBySlice ==
    ASSUME NEW shape \in Seq(Nat), NEW strides \in Seq(Nat), Len(strides) = Len(shape),
           NEW axis \in DOMAIN shape, NEW first, NEW last, NEW step \in Nat \ {0},
           first \in 0..shape[axis], last \in 0..shape[axis],
           NEW shape2, shape2 = [shape EXCEPT ![axis] = Length(first, last, step)],
           NEW strides2, strides2 = [strides EXCEPT ![axis] = @ * step]
    PROVE  Sliced(shape, strides, shape2, strides2, axis, first, step, strides[axis])
<1> DEFINE dim == shape[axis]
           n == Length(first, last, step)
<1>1. dim \in Nat /\ DOMAIN strides = DOMAIN shape
  BY AxisFacts
<1>2. DOMAIN shape2 = DOMAIN shape /\ shape2[axis] = n
      /\ \A i \in DOMAIN shape \ {axis} : shape2[i] = shape[i]
  <2> HIDE DEF n
  <2>1. shape2 = [shape EXCEPT ![axis] = n]
    BY Zenon DEF n
  <2>2. ChangedAt(shape2, shape, axis, n)
    BY <2>1, ChangedByExcept, Zenon
  <2>. QED
    BY <2>2, Zenon DEF ChangedAt
<1>3. strides2[axis] = strides[axis] * step
      /\ \A i \in DOMAIN shape \ {axis} : strides2[i] = strides[i]
  BY <1>1
<1> HIDE DEF dim, n
<1>4. first \in 0..dim /\ last \in 0..dim
  BY DEF dim
<1>5. n \in Nat
  BY <1>1, <1>4, SliceBounds DEF n
<1>6. ASSUME NEW k \in 0..n - 1 PROVE first + k * step \in 0..dim - 1
  <2>1. first \in Nat /\ last \in Nat /\ k \in Nat /\ k < n /\ last <= dim
    BY <1>1, <1>4, <1>5
  <2>2. first + k * step < last
    BY <2>1, LengthCounts DEF n
  <2>3. first + k * step \in Nat
    BY <2>1, Stepped
  <2> DEFINE y == first + k * step
  <2>4. y < last /\ y \in Nat
    BY <2>2, <2>3
  <2> HIDE DEF y
  <2>5. y \in 0..dim - 1
    BY <1>1, <2>1, <2>4
  <2>. QED
    BY <2>5 DEF y
<1>7. \A k \in 0..shape2[axis] - 1 : first + k * step \in 0..shape[axis] - 1
  BY <1>2, <1>6 DEF dim
<1>. QED
  BY <1>2, <1>3, <1>7, Zenon DEF Sliced

LEMMA SliceIsSlice ==
    ASSUME VInv, VInv', NEW axis \in DOMAIN shape_, NEW s \in Slices,
           Slice(axis, s[1], s[2], s[3])
    PROVE  AsArray!ASlice(axis, s[1], s[2], s[3])
<1> DEFINE dim == shape_[axis]
           first == Bound(s[1], dim)
           last == Bound(s[2], dim)
           step == s[3]
           st == strides_[axis]
           n == Length(first, last, step)
           chosen == AsArray!Selected(s[1], s[2], step, dim)
           offset == byte_offset_ + first * st
           new == Listed(shape_', strides_', offset, storage_)
<1>1. /\ shape_ \in Seq(Nat) /\ strides_ \in Seq(Nat) /\ Len(strides_) = Len(shape_)
      /\ byte_offset_ \in Nat
      /\ shape_' \in Seq(Nat) /\ strides_' \in Seq(Nat) /\ Len(strides_') = Len(shape_')
  BY DEF VInv, Typed
<1>2. dim \in Nat /\ axis \in DOMAIN strides_ /\ st \in Nat
  BY <1>1, AxisFacts
<1>3. s[1] \in Int /\ s[2] \in Int /\ step \in Nat \ {0}
  BY ViewsAssumption
<1>4. /\ shape_' = [shape_ EXCEPT ![axis] = n]
      /\ strides_' = [strides_ EXCEPT ![axis] = @ * step]
      /\ byte_offset_' = offset
      /\ storage_' = storage_ /\ memory' = memory
  BY DEF Slice
<1>5. NowListed' = new
  BY <1>4 DEF NowListed
<1>6. /\ first \in 0..dim /\ last \in 0..dim /\ n \in Nat
      /\ Progression(chosen, first, step, n)
  BY <1>2, <1>3, SelectedFacts
<1> HIDE DEF first, last, step, n, chosen
<1>7. Sliced(shape_, strides_, shape_', strides_', axis, first, step, st)
  BY <1>1, <1>3, <1>4, <1>6, SlicedBySlice DEF n
<1>8. first \in Nat /\ step \in Nat
  BY <1>2, <1>3, <1>6
<1>9. /\ AsArray!Cardinality(chosen) = n
      /\ \A k \in 0..n - 1 : Nth(chosen, k) = first + k * step
  BY <1>3, <1>6, <1>8, NthChosen
<1> HIDE DEF st
<1>10. ASSUME NEW c \in Places(shape_')
       PROVE  new[c] = NowListed[Kept(c, axis, first, step)]
  <2>1. Kept(c, axis, first, step) \in Places(shape_)
    <3>1. KeptAt(Kept(c, axis, first, step), c, shape_, axis)
      BY <1>1, <1>2, <1>7, <1>8, KeptFacts, Zenon
    <3>. QED
      BY <3>1, Zenon DEF KeptAt
  <2>2. OffsetAt(c, strides_', offset)
          = OffsetAt(Kept(c, axis, first, step), strides_, byte_offset_)
    <3>1. SameElement(c, strides_', offset, Kept(c, axis, first, step), strides_, byte_offset_)
      BY <1>1, <1>2, <1>7, <1>8, SlicedOffset, Zenon
    <3>. QED
      BY <3>1, Zenon DEF SameElement
  <2>3. NowListed[Kept(c, axis, first, step)]
          = <<storage_, 1 + OffsetAt(Kept(c, axis, first, step), strides_, byte_offset_)>>
    BY <2>1, ListedAt DEF NowListed
  <2> HIDE DEF offset
  <2>4. Listed(shape_', strides_', offset, storage_)[c]
          = <<storage_, 1 + OffsetAt(c, strides_', offset)>>
    BY ListedAt
  <2>. QED
    BY <2>2, <2>3, <2>4, Zenon
<1>11. ASSUME NEW c \in Places(shape_')
       PROVE  Kept(c, axis, first, step) = [c EXCEPT ![axis] = Nth(chosen, c[axis])]
  <2>1. c[axis] \in 0..shape_'[axis] - 1
    <3>1. axis \in DOMAIN shape_'
      BY <1>4
    <3>. QED
      BY <1>1, <3>1, PlaceFacts
  <2>2. shape_'[axis] = n
    BY <1>4
  <2>3. Nth(chosen, c[axis]) = first + c[axis] * step
    BY <1>9, <2>1, <2>2, Zenon
  <2>. QED
    BY <2>3, Zenon DEF Kept, Moved
<1>12. new = [c \in Places(shape_') |-> NowListed[[c EXCEPT ![axis] = Nth(chosen, c[axis])]]]
  <2>1. new = [c \in Places(shape_') |-> new[c]]
    BY Zenon DEF Listed
  <2> HIDE DEF new
  <2>2. \A c \in Places(shape_') :
           new[c] = NowListed[[c EXCEPT ![axis] = Nth(chosen, c[axis])]]
    BY <1>10, <1>11, Zenon
  <2>. QED
    BY <2>1, <2>2, Zenon
<1>13. NowListed' = [c \in Places(shape_') |->
                        NowListed[[c EXCEPT ![axis] = Nth(chosen, c[axis])]]]
  BY <1>5, <1>12, Zenon
<1>14. shape_' = [shape_ EXCEPT ![axis] = AsArray!Cardinality(chosen)]
  BY <1>4, <1>9, Zenon
<1>. QED
  BY <1>1, <1>4, <1>13, <1>14, ShowsSlice DEF chosen, step

-----------------------------------------------------------------------------
(* The refinement *)

LEMMA InitIsArray == Init => AsArray!AInit
<1> SUFFICES ASSUME Init PROVE AsArray!AInit
  OBVIOUS
<1>1. /\ shape_ \in Seq(Nat) /\ strides_ = ContiguousStrides(shape_)
      /\ byte_offset_ = 0 /\ Len(memory) = 1
  BY ViewsAssumption DEF Init
<1>2. strides_ \in Seq(Nat) /\ Len(strides_) = Len(shape_) /\ RowMajor(shape_, strides_)
  BY <1>1, StridesAreBehind DEF RowMajor
<1>3. AsArray!Coords(shape_) = Places(shape_) /\ Cells!Coords(shape_) = Places(shape_)
  BY <1>1, CoordsCounted, CoordsArePlaces
<1>4. ASSUME NEW c \in Places(shape_)
      PROVE  /\ Mapped[c] = <<storage_, 1 + Linear(c, shape_)>>
             /\ Linear(c, shape_) \in Nat
  <2>1. OffsetAt(c, strides_, 0) = 0 + Linear(c, shape_)
    BY <1>1, <1>2, RowMajorOffset
  <2>2. Linear(c, shape_) \in 0..Numel(shape_) - 1
    BY <1>1, PlaceNumber
  <2>3. Linear(c, shape_) \in Nat /\ 0 + Linear(c, shape_) = Linear(c, shape_)
    BY <2>2
  <2>4. Offset(c) = OffsetAt(c, strides_, byte_offset_)
    BY OffsetIsAt
  <2>5. Mapped[c] = <<storage_, 1 + Offset(c)>>
    BY <1>3, Zenon DEF Mapped
  <2>. QED
    BY <1>1, <2>1, <2>3, <2>4, <2>5, Zenon
<1>5. DOMAIN Mapped = Places(shape_)
  BY <1>3, Zenon DEF Mapped
<1>6. ASSUME NEW c \in Places(shape_), NEW d \in Places(shape_), Mapped[c] = Mapped[d]
      PROVE  c = d
  <2>1. 1 + Linear(c, shape_) = 1 + Linear(d, shape_)
    BY <1>4, <1>6
  <2>2. Linear(c, shape_) \in Nat /\ Linear(d, shape_) \in Nat
    BY <1>4
  <2>3. Linear(c, shape_) = Linear(d, shape_)
    BY <2>1, <2>2
  <2>. QED
    BY <1>1, <2>3, LinearDistinct
<1>7. AsArray!IsInjective(Mapped)
  BY <1>5, <1>6, Zenon DEF AsArray!IsInjective
<1>8. DOMAIN Mapped = AsArray!Coords(shape_)
  BY <1>3, <1>5
<1>. QED
  BY <1>1, <1>7, <1>8, Zenon DEF AsArray!AInit, Mapped

LEMMA StutterIsStutter == UNCHANGED vars => UNCHANGED AsArray!avars
<1> SUFFICES ASSUME UNCHANGED vars PROVE UNCHANGED AsArray!avars
  OBVIOUS
<1>1. /\ shape_' = shape_ /\ strides_' = strides_ /\ byte_offset_' = byte_offset_
      /\ storage_' = storage_ /\ memory' = memory
  BY DEF vars
<1>2. Cells!Coords(shape_)' = Cells!Coords(shape_)
  BY <1>1 DEF Cells!Coords
<1>3. \A c : Offset(c)' = Offset(c)
  <2>1. \A c : Offset(c) = OffsetAt(c, strides_, byte_offset_)
    BY OffsetIsAt
  <2>2. (\A c : Offset(c) = OffsetAt(c, strides_, byte_offset_))'
    BY OffsetIsAt, PTL
  <2>. QED
    BY <1>1, <2>1, <2>2
<1>4. Mapped' = Mapped
  BY <1>1, <1>2, <1>3 DEF Mapped
<1>. QED
  BY <1>1, <1>4, Zenon DEF AsArray!avars, Mapped

LEMMA StepIsStep == VInv /\ [Next]_vars => [AsArray!ANext]_(AsArray!avars)
<1> SUFFICES ASSUME VInv, [Next]_vars PROVE [AsArray!ANext]_(AsArray!avars)
  OBVIOUS
<1>1. VInv'
  BY ViewsStep
<1>2. CASE UNCHANGED vars
  BY <1>2, StutterIsStutter
<1>3. CASE \E target \in Targets : Reshape(target)
  <2>1. AsArray!AReshape \/ AsArray!ACopy
    BY <1>1, <1>3, ReshapeIsReshape
  <2>. QED
    BY <2>1, Zenon DEF AsArray!ANext
<1>4. CASE \E perm \in [DOMAIN shape_ -> DOMAIN shape_] : Transpose(perm)
  <2>1. PICK perm \in [DOMAIN shape_ -> DOMAIN shape_] : Transpose(perm)
    BY <1>4
  <2>2. AsArray!ATranspose(perm)
    BY <1>1, <2>1, TransposeIsTranspose
  <2>3. AsArray!IsInjective(perm)
    BY <2>1, Zenon DEF Transpose, IsInjective, AsArray!IsInjective
  <2>. QED
    BY <2>2, <2>3, Zenon DEF AsArray!ANext
<1>5. CASE \E axis \in DOMAIN shape_, s \in Slices : Slice(axis, s[1], s[2], s[3])
  <2>1. PICK axis \in DOMAIN shape_, s \in Slices : Slice(axis, s[1], s[2], s[3])
    BY <1>5
  <2>2. AsArray!ASlice(axis, s[1], s[2], s[3])
    BY <1>1, <2>1, SliceIsSlice
  <2>. QED
    BY <2>2, Zenon DEF AsArray!ANext
<1>6. CASE FillZeros
  <2>1. AsArray!AFill
    BY <1>6, FillIsFill
  <2>. QED
    BY <2>1, Zenon DEF AsArray!ANext
<1>7. CASE CloneContiguous
  <2>1. AsArray!ACopy
    BY <1>7, CloneIsCopy
  <2>. QED
    BY <2>1, Zenon DEF AsArray!ANext
<1>. QED
  BY <1>2, <1>3, <1>4, <1>5, <1>6, <1>7 DEF Next

\* Shape, strides and offset over a shared storage, with the fast paths for
\* contiguous tensors, implement an n-dimensional array: reshape keeps the
\* elements and their order, transpose and slice show those that the definition
\* of the array says, a copy has the values and shares nothing, and fill_zeros
\* writes the elements of its tensor and nothing else.
THEOREM ViewsImplementArray == Spec => ImplementsArray
<1>1. VInv /\ [Next]_vars => [AsArray!ANext]_(AsArray!avars)
  BY StepIsStep
<1>. QED
  BY <1>1, InitIsArray, ViewsKeep, PTL DEF Spec, ImplementsArray, AsArray!ASpec

\* The same with the kernels, which leave the tensor alone.
THEOREM CallsImplementArray == CallSpec => ImplementsArray
<1>1. CallInit => AsArray!AInit
  BY InitIsArray DEF CallInit
<1>2. VInv /\ [CallNext]_call_vars => [AsArray!ANext]_(AsArray!avars)
  <2> SUFFICES ASSUME VInv, [CallNext]_call_vars PROVE [AsArray!ANext]_(AsArray!avars)
    OBVIOUS
  <2>1. [Next]_vars
    BY DEF CallNext, ViewStep, Execute, call_vars, vars
  <2>. QED
    BY <2>1, StepIsStep
<1>. QED
  BY <1>1, <1>2, CallsKeep, PTL DEF CallSpec, ImplementsArray, AsArray!ASpec
=============================================================================
