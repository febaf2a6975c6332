------------------------ MODULE BatchedProductProofs ------------------------
(***************************************************************************)
(* Proofs about BatchedProduct and Gemm: for matrices, micro-kernels and   *)
(* thread counts of any size the threads share out the elements of C, each *)
(* element is stored once, and every batch of the output is the product of *)
(* that batch.                                                             *)
(***************************************************************************)
EXTENDS BatchedProduct, TLAPS

\* The sums over row counts in gemm() stay below INT_MAX.  matmul checks M
\* alone, which is not enough.
RowsFit == \A p \in Problems : p.M > IntMax \/ 3 * p.M <= IntMax

-----------------------------------------------------------------------------
(* The inductive invariant *)

InCall == {"start", "spawn", "join", "return"}

Threaded == pc \in {"spawn", "join"}

WorkerState == [begin : Nat, end : Nat, m : Nat, n : Nat]

Typed ==
    /\ problem \in Problems
    /\ args.M = problem.M /\ args.N = problem.N /\ args.K = problem.K
    /\ args.plain = TRUE
    /\ use_avx \in BOOLEAN
    /\ pc \in InCall \cup {"loop", "done", "thrown"}
    /\ pc # "thrown" => problem.M <= IntMax
    /\ batch \in 1..problem.batches + 1
    /\ output \in Seq([Elements -> Value])
    /\ Len(output) = batch - 1
    /\ C \in [Elements -> Value]
    /\ stores \in [Elements -> 0..1]
    /\ pc \in InCall => batch <= problem.batches /\ args.sum = Sum(batch)

\* A thread is within its rows; in the cleanup columns it stays at the top.
InRange(w) ==
    /\ w.begin < w.end /\ w.end <= args.M
    /\ w.m < w.end - w.begin /\ w.n <= args.N
    /\ w.n + Panel > args.N => w.m = 0

WorkersInv ==
    /\ workers \in Seq(WorkerState)
    /\ \A i \in DOMAIN workers : InRange(workers[i])
    /\ \A i, j \in DOMAIN workers : i < j => workers[i].end <= workers[j].begin
    /\ ~Threaded => \A i \in DOMAIN workers : ~Running(workers[i])
    /\ pc = "start" => workers = <<>>

\* How many rows the threads that have been started take together.
Covered == IF workers = <<>> THEN 0 ELSE workers[Len(workers)].end

CoverInv ==
    Threaded =>
        /\ \A i \in DOMAIN workers : workers[i].end <= Covered
        /\ \A r \in 1..Covered : \E i \in DOMAIN workers :
              workers[i].begin < r /\ r <= workers[i].end
        /\ pc = "join" => Covered = args.M

\* The next thread begins where the last one ends, and there are enough.
SplitInv ==
    pc = "spawn" =>
        /\ thread_count \in Nat /\ rows_per_thread \in Nat \ {0} /\ index \in Nat
        /\ rows_per_thread < args.M /\ thread_count * rows_per_thread >= args.M
        /\ index <= thread_count
        /\ index * rows_per_thread < 2 * args.M
        /\ Covered = Smaller(args.M, index * rows_per_thread)

\* What a thread has stored so far: the panels to the left of n and the top of
\* the current one.
DoneBy(w) ==
    {e \in Elements :
        /\ w.begin < e[1] /\ e[1] <= w.end
        /\ \/ e[2] <= w.n
           \/ e[2] <= w.n + Width(w) /\ e[1] <= w.begin + w.m}

StoresInv ==
    /\ pc = "start" => \A e \in Elements : stores[e] = 0
    /\ Threaded =>
          /\ Vectorized
          /\ \A e \in Elements :
                /\ stores[e] = 1 <=> \E i \in DOMAIN workers : e \in DoneBy(workers[i])
                /\ stores[e] = 1 => C[e] = Sum(batch)[e]
    /\ pc = "return" => \A e \in Elements : stores[e] = 1

Exact == problem.nonfinite = {} \/ Vectorized

ValuesInv ==
    /\ problem.nonfinite = {} => \A e \in Elements : C[e].finite = TRUE
    /\ Exact /\ pc = "return" => C = Sum(batch)
    /\ Exact => \A b \in DOMAIN output : output[b] = Sum(b)

IInv == Typed /\ WorkersInv /\ CoverInv /\ SplitInv /\ StoresInv /\ ValuesInv
-----------------------------------------------------------------------------
(* Arithmetic of the split *)

LEMMA DivisionBounds ==
    ASSUME NEW a \in Nat, NEW b \in Nat \ {0}
    PROVE  /\ a \div b \in Nat
           /\ b * (a \div b) <= a /\ a < b * (a \div b) + b
BY SMTT(20)

\* Rows divided over t threads, rounded up twice.
LEMMA RoundedShares ==
    ASSUME NEW M \in Nat, NEW t \in Nat, t > 1, NEW T \in Nat \ {0}, t * T <= M,
           NEW q \in Nat, t * q <= M + t - 1, M + t - 1 < t * q + t,
           NEW k \in Nat, T * k <= q + T - 1, q + T - 1 < T * k + T
    PROVE  /\ k * T \in Nat \ {0}
           /\ t * (k * T) >= M
           /\ k * T < M
<1>1. /\ k * T \in Nat
      /\ k * T >= q /\ k * T <= q + T - 1
  BY SMT
<1>2. PICK r \in Nat : r = k * T
  BY <1>1
<1>3. t * q >= M
  BY SMT
<1>4. t * r >= t * q /\ t * r <= t * (q + T - 1)
  BY <1>1, <1>2, SMT
<1>5. t * (q + T - 1) = t * q + t * T - t
  BY SMT
<1>6. 2 * r <= t * r /\ t * r <= 2 * M - 1
  BY <1>4, <1>5, SMT
<1>7. t * r > 0
  <2>1. M > 0
    BY <1>6, SMT
  <2>2. QED
    BY <2>1, <1>3, <1>4, SMT
<1>8. r # 0
  BY <1>7, SMT
<1> QED
  BY <1>2, <1>3, <1>4, <1>6, <1>8, SMT

LEMMA IntValuesFit ==
    ASSUME NEW x \in Int, x <= IntMax
    PROVE  IntValues(x) = {x}
BY GemmAssumption DEF IntValues

LEMMA RowsPerThreadFits ==
    ASSUME args.M \in Nat, 3 * args.M <= IntMax,
           NEW t \in Nat, t > 1, t <= args.M \div Tile,
           NEW r \in RowsPerThread(t)
    PROVE  /\ r \in Nat \ {0}
           /\ t * r >= args.M
           /\ r < args.M
<1>1. Tile \in Nat \ {0} /\ IntMax \in Nat
  BY GemmAssumption
<1> DEFINE M == args.M
           x == M + t - 1
           q == x \div t
           y == q + Tile - 1
           k == y \div Tile
<1>2. M \in Nat /\ x \in Nat /\ 3 * M <= IntMax
  BY SMT
<1> HIDE DEF M
<1>3. /\ q \in Nat
      /\ t * q <= x /\ x < t * q + t
  BY <1>2, DivisionBounds
<1>4. y \in Nat
  BY <1>1, <1>3
<1> HIDE DEF q
<1>5. /\ k \in Nat
      /\ Tile * k <= y /\ y < Tile * k + Tile
  BY <1>1, <1>4, DivisionBounds
<1> HIDE DEF k
<1>6. t * Tile <= M
  <2>1. /\ M \div Tile \in Nat
        /\ Tile * (M \div Tile) <= M
    BY <1>1, <1>2, DivisionBounds
  <2>2. PICK d \in Nat : d = M \div Tile
    BY <2>1
  <2>3. t <= d
    BY <2>2 DEF M
  <2>4. Tile * t <= Tile * d
    BY <1>1, <2>3, SMT
  <2> QED
    BY <1>1, <1>2, <2>1, <2>2, <2>4, SMT
<1>7. /\ k * Tile \in Nat \ {0}
      /\ t * (k * Tile) >= M
      /\ k * Tile < M
  BY <1>1, <1>2, <1>3, <1>5, <1>6, RoundedShares
<1>8. t <= M /\ Tile <= M
  BY <1>1, <1>2, <1>6, SMT
<1>9. q <= M
  <2>1. t * q < t * (M + 1)
    BY <1>2, <1>3, <1>8, SMT
  <2> QED
    BY <1>2, <1>3, <2>1, SMT
<1>10. IntValues(x) = {x} /\ IntValues(y) = {y}
  BY <1>1, <1>2, <1>3, <1>4, <1>8, <1>9, IntValuesFit
<1>11. Quotient(x, t) = q /\ Quotient(y, Tile) = k
  BY <1>1, <1>2, <1>4 DEF Quotient, q, k
<1>12. RowsPerThread(t) = {k * Tile}
  BY <1>10, <1>11 DEF RowsPerThread, M
<1> QED
  BY <1>7, <1>12 DEF M

-----------------------------------------------------------------------------
(* Facts about states and workers *)

LEMMA Naturals ==
    ASSUME Typed
    PROVE  /\ problem.M \in Nat /\ problem.N \in Nat /\ problem.K \in Nat
           /\ problem.batches \in Nat /\ batch \in Nat
           /\ Tile \in Nat \ {0} /\ Panel \in Nat \ {0}
           /\ Elements = (1..problem.M) \X (1..problem.N)
BY ProblemsAssumption, GemmAssumption DEF Typed, Elements

LEMMA SumIsAValue ==
    ASSUME Typed, batch <= problem.batches
    PROVE  Sum(batch) \in [Elements -> Value]
<1>1. batch \in 0..problem.batches
  BY Naturals DEF Typed
<1>2. ASSUME NEW e \in Elements
      PROVE  [batch |-> batch, finite |-> <<batch, e[1]>> \notin problem.nonfinite] \in Value
  BY <1>1 DEF Value
<1> QED
  BY <1>2 DEF Sum

LEMMA SumIsFinite ==
    ASSUME problem.nonfinite = {}, NEW b, NEW e \in Elements
    PROVE  Sum(b)[e].finite = TRUE
BY DEF Sum

LEMMA VectorizedPositive ==
    ASSUME Typed, Vectorized
    PROVE  problem.M > 0 /\ problem.N > 0
<1>1. problem.M * problem.N * problem.K > 0
  <2>1. args.M * args.N * args.K > FastWork
    BY DEF Vectorized, Work
  <2>2. problem.M * problem.N * problem.K > FastWork
    BY <2>1 DEF Typed
  <2>3. problem.M * problem.N * problem.K \in Nat
    BY Naturals, SMT
  <2> QED
    BY <2>2, <2>3, GemmAssumption
<1>2. CASE problem.M = 0
  BY <1>1, <1>2, Naturals, SMT
<1>3. CASE problem.N = 0
  BY <1>1, <1>3, Naturals, SMT
<1> QED
  BY <1>2, <1>3, Naturals

LEMMA NothingDoneYet ==
    ASSUME Typed, NEW begin \in Nat, NEW end \in Nat
    PROVE  DoneBy(Worker(begin, end)) = {}
BY Naturals, SMT DEF DoneBy, Worker, Width, Elements, Typed

\* A thread that has come to the right edge has stored all of its rows.
LEMMA AllDone ==
    ASSUME Typed, NEW w \in WorkerState, InRange(w), ~Running(w)
    PROVE  DoneBy(w) = {e \in Elements : w.begin < e[1] /\ e[1] <= w.end}
<1>1. /\ Elements = (1..problem.M) \X (1..problem.N)
      /\ problem.N \in Nat /\ args.N = problem.N
  BY Naturals DEF Typed
<1>2. w.n = problem.N
  BY <1>1 DEF WorkerState, InRange, Running
<1>3. ASSUME NEW e \in Elements
      PROVE  e[2] <= w.n
  BY <1>1, <1>2, <1>3
<1> QED
  BY <1>3 DEF DoneBy

\* The next tile is new, lies in the thread's rows, and is done after the step.
LEMMA TileIsNew ==
    ASSUME Typed, NEW w \in WorkerState, InRange(w), Running(w)
    PROVE  /\ Stored(w) \cap DoneBy(w) = {}
           /\ DoneBy(Advance(w)) = DoneBy(w) \cup Stored(w)
           /\ Advance(w) \in WorkerState /\ InRange(Advance(w))
           /\ Advance(w).begin = w.begin /\ Advance(w).end = w.end
<1> DEFINE h == Height(w)
           l == Width(w)
<1>1. /\ args.M \in Nat /\ args.N \in Nat
      /\ Elements = (1..args.M) \X (1..args.N)
      /\ Tile \in Nat \ {0} /\ Panel \in Nat \ {0}
  BY Naturals DEF Typed
<1>2. /\ w.begin \in Nat /\ w.end \in Nat /\ w.m \in Nat /\ w.n \in Nat
      /\ w = [begin |-> w.begin, end |-> w.end, m |-> w.m, n |-> w.n]
  BY DEF WorkerState
<1>3. /\ h \in Nat \ {0} /\ w.m + h <= w.end - w.begin
      /\ l \in Nat \ {0} /\ w.n + l <= args.N
  BY <1>1, <1>2 DEF Height, Width, Rows, InRange, Running
<1>4. w.n + l + Panel > args.N \/ w.n + Panel <= args.N
  BY <1>1, <1>2, <1>3 DEF Width
<1>5. Stored(w) = {e \in Elements : /\ w.begin + w.m < e[1] /\ e[1] <= w.begin + w.m + h
                                    /\ w.n < e[2] /\ e[2] <= w.n + l}
  BY <1>1, <1>2, <1>3 DEF Stored
<1>6. DoneBy(w) = {e \in Elements : /\ w.begin < e[1] /\ e[1] <= w.end
                                    /\ \/ e[2] <= w.n
                                       \/ e[2] <= w.n + l /\ e[1] <= w.begin + w.m}
  BY DEF DoneBy
<1> HIDE DEF h, l
<1>7. Stored(w) \cap DoneBy(w) = {}
  BY <1>1, <1>2, <1>3, <1>5, <1>6
<1>8. CASE w.m + h < w.end - w.begin
  <2>1. Advance(w) = [begin |-> w.begin, end |-> w.end, m |-> w.m + h, n |-> w.n]
    <3>1. Advance(w) = [w EXCEPT !.m = w.m + h]
      BY <1>8 DEF Advance, Rows, h
    <3> QED
      BY <1>2, <1>3, <3>1 DEF WorkerState
  <2>2. w.n + Panel <= args.N
    BY <1>1, <1>2, <1>8 DEF h, Height, Rows, InRange
  <2>3. Width(Advance(w)) = l
    BY <2>1 DEF Width, l
  <2>4. DoneBy(Advance(w)) =
          {e \in Elements : /\ w.begin < e[1] /\ e[1] <= w.end
                            /\ \/ e[2] <= w.n
                               \/ e[2] <= w.n + l /\ e[1] <= w.begin + w.m + h}
    BY <1>2, <1>3, <2>1, <2>3 DEF DoneBy
  <2>5. DoneBy(Advance(w)) = DoneBy(w) \cup Stored(w)
    BY <1>1, <1>2, <1>3, <1>5, <1>6, <2>4
  <2> QED
    BY <1>1, <1>2, <1>3, <1>7, <1>8, <2>1, <2>2, <2>5 DEF WorkerState, InRange
<1>9. CASE w.m + h = w.end - w.begin
  <2>1. Advance(w) = [begin |-> w.begin, end |-> w.end, m |-> 0, n |-> w.n + l]
    <3>1. ~(w.m + h < w.end - w.begin)
      BY <1>2, <1>3, <1>9
    <3>2. Advance(w) = [w EXCEPT !.m = 0, !.n = w.n + l]
      BY <3>1 DEF Advance, Rows, h, l
    <3> QED
      BY <1>2, <1>3, <3>2 DEF WorkerState
  <2>2. Width(Advance(w)) \in Nat
    BY <1>1 DEF Width
  <2>3. DoneBy(Advance(w)) =
          {e \in Elements : w.begin < e[1] /\ e[1] <= w.end /\ e[2] <= w.n + l}
    BY <1>1, <1>2, <1>3, <2>1, <2>2 DEF DoneBy
  <2>4. DoneBy(Advance(w)) = DoneBy(w) \cup Stored(w)
    BY <1>1, <1>2, <1>3, <1>5, <1>6, <1>9, <2>3
  <2> QED
    BY <1>1, <1>2, <1>3, <1>7, <2>1, <2>4 DEF WorkerState, InRange
<1> QED
  BY <1>2, <1>3, <1>8, <1>9

-----------------------------------------------------------------------------
(* The first state *)

LEMMA InitInv == Init => IInv
<1> SUFFICES ASSUME Init
             PROVE  IInv
  OBVIOUS
<1>1. /\ problem.M \in Nat /\ problem.N \in Nat /\ problem.batches \in Nat
      /\ args.M = problem.M /\ args.N = problem.N /\ args.K = problem.K
      /\ workers = <<>> /\ output = <<>> /\ batch = 1
      /\ IntMax \in Nat
  BY ProblemsAssumption, GemmAssumption DEF Init
<1>2. pc = IF problem.M > IntMax \/ problem.N > IntMax \/ problem.K > IntMax
           THEN "thrown" ELSE "loop"
  BY DEF Init, Throws
<1>3. Zero \in Value
  BY <1>1 DEF Zero, Value
<1>4. C \in [Elements -> Value] /\ \A e \in Elements : C[e].finite = TRUE
  BY <1>3 DEF Init, Zero
<1>5. stores \in [Elements -> 0..1]
  BY DEF Init
<1>6. output \in Seq([Elements -> Value]) /\ Len(output) = batch - 1 /\ DOMAIN output = {}
  BY <1>1
<1>7. Typed
  BY <1>1, <1>2, <1>4, <1>5, <1>6 DEF Init, Typed, InCall
<1>8. WorkersInv
  BY <1>1 DEF WorkersInv
<1>9. CoverInv /\ SplitInv /\ StoresInv
  BY <1>2 DEF CoverInv, SplitInv, StoresInv, Threaded
<1>10. ValuesInv
  BY <1>2, <1>4, <1>6 DEF ValuesInv
<1> QED
  BY <1>7, <1>8, <1>9, <1>10 DEF IInv

-----------------------------------------------------------------------------
(* The steps *)

\* What a step of gemm() leaves alone, and what keeps its meaning with it.
LEMMA SameProblem ==
    ASSUME Typed, UNCHANGED <<problem, batch, args, use_avx>>
    PROVE  /\ Elements' = Elements /\ Value' = Value /\ Sum(batch)' = Sum(batch)
           /\ Vectorized' = Vectorized /\ Exact' = Exact
           /\ \A b : Sum(b)' = Sum(b)
BY DEF Elements, Value, Sum, Vectorized, Work, Exact

LEMMA CallGemmStep == ASSUME IInv, CallGemm PROVE IInv'
<1>1. /\ args' = Args(batch) /\ stores' = [e \in Elements |-> 0] /\ workers' = <<>>
      /\ pc' = "start" /\ pc = "loop" /\ batch <= problem.batches
      /\ UNCHANGED <<problem, batch, output, use_avx, C>>
  BY DEF CallGemm
<1>2. Typed /\ ValuesInv
  BY DEF IInv
<1>3. /\ args'.M = problem.M /\ args'.N = problem.N /\ args'.K = problem.K
      /\ args'.plain = TRUE /\ args'.sum = Sum(batch)
  BY <1>1 DEF Args
<1>4. /\ Elements' = Elements /\ Value' = Value
      /\ \A b : Sum(b)' = Sum(b)
      /\ Vectorized' = Vectorized
  BY <1>1, <1>2, <1>3 DEF Elements, Value, Sum, Vectorized, Work, Typed
<1>5. Typed'
  <2>1. stores' \in [Elements' -> 0..1]
    BY <1>1, <1>4
  <2>2. args'.sum = Sum(batch)'
    BY <1>1, <1>3, <1>4
  <2> QED
    BY <1>1, <1>2, <1>3, <1>4, <2>1, <2>2 DEF Typed, InCall
<1>6. WorkersInv'
  BY <1>1 DEF WorkersInv
<1>7. CoverInv' /\ SplitInv'
  BY <1>1 DEF CoverInv, SplitInv, Threaded
<1>8. StoresInv'
  BY <1>1, <1>4 DEF StoresInv, Threaded
<1>9. ValuesInv'
  BY <1>1, <1>2, <1>4 DEF ValuesInv, Exact
<1> QED
  BY <1>5, <1>6, <1>7, <1>8, <1>9 DEF IInv

LEMMA GemmScalarStep ==
    ASSUME IInv, GemmScalar, UNCHANGED <<problem, batch, output>>
    PROVE  IInv'
<1>1. /\ pc = "start" /\ pc' = "return" /\ ~Vectorized
      /\ C' = [e \in Elements |-> Accumulate(args.sum[e], C[e])]
      /\ stores' = [e \in Elements |-> stores[e] + 1]
      /\ UNCHANGED <<problem, batch, output, args, use_avx, workers>>
  BY DEF GemmScalar
<1>2. Typed /\ WorkersInv /\ StoresInv /\ ValuesInv
  BY DEF IInv
<1>3. /\ Elements' = Elements /\ Value' = Value /\ Vectorized' = Vectorized
      /\ \A b : Sum(b)' = Sum(b)
  BY <1>1, <1>2, SameProblem
<1>4. batch <= problem.batches /\ args.sum = Sum(batch)
  BY <1>1, <1>2 DEF Typed, InCall
<1>5. Sum(batch) \in [Elements -> Value]
  BY <1>2, <1>4, SumIsAValue
<1>6. \A e \in Elements : stores[e] = 0
  BY <1>1, <1>2 DEF StoresInv
<1>7. C' \in [Elements -> Value]
  BY <1>1, <1>2, <1>4, <1>5 DEF Accumulate, Typed
<1>8. Typed'
  <2>1. stores' \in [Elements -> 0..1]
    BY <1>1, <1>6
  <2> QED
    BY <1>1, <1>2, <1>3, <1>4, <1>7, <2>1 DEF Typed, InCall
<1>9. WorkersInv'
  BY <1>1, <1>2 DEF WorkersInv
<1>10. CoverInv' /\ SplitInv'
  BY <1>1 DEF CoverInv, SplitInv, Threaded
<1>11. StoresInv'
  BY <1>1, <1>3, <1>6 DEF StoresInv, Threaded
<1>12. ASSUME problem.nonfinite = {}
       PROVE  C' = Sum(batch) /\ \A e \in Elements : C'[e].finite = TRUE
  <2>1. ASSUME NEW e \in Elements
        PROVE  C'[e] = Sum(batch)[e] /\ C'[e].finite = TRUE
    BY <1>1, <1>2, <1>4, <1>12, SumIsFinite DEF Accumulate, ValuesInv
  <2>2. /\ Sum(batch) = [e \in Elements |-> Sum(batch)[e]]
        /\ C' = [e \in Elements |-> C'[e]]
    BY <1>5, <1>7
  <2>3. C' = Sum(batch)
    BY <2>1, <2>2
  <2> QED
    BY <2>1, <2>3
<1>13. ValuesInv'
  BY <1>1, <1>2, <1>3, <1>12 DEF ValuesInv, Exact
<1> QED
  BY <1>8, <1>9, <1>10, <1>11, <1>13 DEF IInv

LEMMA OneThreadStep ==
    ASSUME IInv, OneThread, UNCHANGED <<problem, batch, output>>
    PROVE  IInv'
<1>1. /\ pc = "start" /\ pc' = "join" /\ Vectorized
      /\ workers' = <<Worker(0, args.M)>>
      /\ UNCHANGED <<problem, batch, output, args, use_avx, C, stores>>
  BY DEF OneThread
<1>2. Typed /\ StoresInv /\ ValuesInv
  BY DEF IInv
<1>3. /\ Elements' = Elements /\ Value' = Value /\ Vectorized' = Vectorized
      /\ \A b : Sum(b)' = Sum(b)
  BY <1>1, <1>2, SameProblem
<1>4. args.M \in Nat /\ args.M > 0 /\ args.N \in Nat /\ args.M = problem.M
  BY <1>1, <1>2, Naturals, VectorizedPositive DEF Typed
<1>5. /\ workers'[1] = Worker(0, args.M) /\ DOMAIN workers' = {1} /\ Len(workers') = 1
      /\ workers' # <<>>
      /\ Worker(0, args.M) = [begin |-> 0, end |-> args.M, m |-> 0, n |-> 0]
  BY <1>1 DEF Worker
<1>6. Typed'
  BY <1>1, <1>2, <1>3 DEF Typed, InCall
<1>7. WorkersInv'
  <2>1. workers' \in Seq(WorkerState)
    BY <1>1, <1>4, <1>5 DEF WorkerState
  <2>2. InRange(workers[1])'
    BY <1>1, <1>4, <1>5 DEF InRange
  <2> QED
    BY <1>1, <1>5, <2>1, <2>2 DEF WorkersInv, Threaded
<1>8. CoverInv'
  <2>1. Covered' = args.M
    BY <1>5 DEF Covered
  <2>2. workers'[1].begin = 0 /\ workers'[1].end = args.M
    BY <1>5
  <2> QED
    BY <1>1, <1>4, <1>5, <2>1, <2>2 DEF CoverInv
<1>9. SplitInv'
  BY <1>1 DEF SplitInv
<1>10. StoresInv'
  <2>1. DoneBy(Worker(0, args.M)) = {}
    BY <1>2, <1>4, NothingDoneYet
  <2>2. DoneBy(workers[1])' = {}
    BY <1>1, <1>3, <1>5, <2>1 DEF DoneBy, Width
  <2>3. \A e \in Elements : stores[e] = 0
    BY <1>1, <1>2 DEF StoresInv
  <2> QED
    BY <1>1, <1>3, <1>5, <2>2, <2>3 DEF StoresInv, Threaded
<1>11. ValuesInv'
  BY <1>1, <1>2, <1>3 DEF ValuesInv, Exact
<1> QED
  BY <1>6, <1>7, <1>8, <1>9, <1>10, <1>11 DEF IInv

LEMMA RowsOfTheProblem ==
    ASSUME RowsFit, Typed, pc # "thrown"
    PROVE  3 * args.M <= IntMax
<1>1. problem \in Problems /\ problem.M <= IntMax /\ args.M = problem.M
  BY DEF Typed
<1>2. problem.M > IntMax \/ 3 * problem.M <= IntMax
  BY <1>1 DEF RowsFit
<1> QED
  BY <1>1, <1>2, GemmAssumption, Naturals

LEMMA SplitRowsStep ==
    ASSUME RowsFit, IInv, SplitRows, UNCHANGED <<problem, batch, output>>
    PROVE  IInv'
<1>1. /\ pc = "start" /\ pc' = "spawn" /\ Vectorized /\ index' = 0
      /\ UNCHANGED <<problem, batch, output, args, use_avx, C, workers, stores>>
  BY DEF SplitRows
<1>2. Typed /\ WorkersInv /\ StoresInv /\ ValuesInv
  BY DEF IInv
<1>3. /\ Elements' = Elements /\ Value' = Value /\ Vectorized' = Vectorized
      /\ \A b : Sum(b)' = Sum(b)
  BY <1>1, <1>2, SameProblem
<1>4. args.M \in Nat /\ args.M > 0 /\ 3 * args.M <= IntMax
  BY <1>1, <1>2, Naturals, VectorizedPositive, RowsOfTheProblem DEF Typed
<1>5. workers = <<>> /\ workers' = <<>> /\ Covered' = 0
  BY <1>1, <1>2 DEF WorkersInv, Covered
<1>6. Typed'
  BY <1>1, <1>2, <1>3 DEF Typed, InCall
<1>7. WorkersInv'
  BY <1>5 DEF WorkersInv
<1>8. CoverInv'
  BY <1>1, <1>5 DEF CoverInv
<1>9. SplitInv'
  <2>1. PICK h \in Hardware, s \in Settings :
          /\ ThreadCount(h, s) > 1
          /\ thread_count' = ThreadCount(h, s)
          /\ rows_per_thread' \in RowsPerThread(ThreadCount(h, s))
    BY DEF SplitRows
  <2>2. Tile \in Nat \ {0} /\ MaxThreads \in Nat \ {0} /\ h \in Nat /\ s \in Int
    BY GemmAssumption
  <2>3. args.M \div Tile \in Nat
    BY <1>4, <2>2, DivisionBounds
  <2>4. ThreadCount(h, s) \in Nat /\ ThreadCount(h, s) <= args.M \div Tile
    BY <2>1, <2>2, <2>3 DEF ThreadCount, Smaller, Larger
  <2>5. /\ rows_per_thread' \in Nat \ {0}
        /\ thread_count' * rows_per_thread' >= args.M
        /\ rows_per_thread' < args.M
    BY <1>4, <2>1, <2>4, RowsPerThreadFits
  <2>6. index' * rows_per_thread' = 0
    <3>1. \A r \in Nat : 0 * r = 0
      BY SMT
    <3> QED
      BY <1>1, <2>5, <3>1
  <2>7. /\ thread_count' \in Nat /\ index' <= thread_count'
        /\ 0 < 2 * args.M /\ Smaller(args.M, 0) = 0
    BY <1>1, <1>4, <2>1, <2>4 DEF Smaller
  <2>8. args' = args
    BY <1>1
  <2>9. index' \in Nat
    BY <1>1
  <2> QED
    BY <1>5, <2>5, <2>6, <2>7, <2>8, <2>9, Zenon DEF SplitInv, Smaller
<1>10. StoresInv'
  BY <1>1, <1>2, <1>3, <1>5 DEF StoresInv, Threaded
<1>11. ValuesInv'
  BY <1>1, <1>2, <1>3 DEF ValuesInv, Exact
<1> QED
  BY <1>6, <1>7, <1>8, <1>9, <1>10, <1>11 DEF IInv

\* The next range, as long as it is computed without overflow.
LEMMA NextRangeFits ==
    ASSUME RowsFit, Typed, SplitInv, pc = "spawn"
    PROVE  /\ index * rows_per_thread \in Nat
           /\ NextRange = {<<index * rows_per_thread,
                             Smaller(args.M, index * rows_per_thread + rows_per_thread)>>}
<1>1. /\ args.M \in Nat /\ IntMax \in Nat /\ 3 * args.M <= IntMax
  BY GemmAssumption, Naturals, RowsOfTheProblem DEF Typed
<1>2. /\ rows_per_thread \in Nat /\ index \in Nat /\ rows_per_thread < args.M
      /\ index * rows_per_thread < 2 * args.M
  BY DEF SplitInv
<1>3. PICK p \in Nat : p = index * rows_per_thread
  BY <1>2, SMT
<1>4. p <= IntMax /\ p + rows_per_thread <= IntMax
  BY <1>1, <1>2, <1>3
<1>5. IntValues(p) = {p} /\ IntValues(p + rows_per_thread) = {p + rows_per_thread}
  BY <1>2, <1>4, IntValuesFit
<1>6. NextRange = {<<p, Smaller(args.M, p + rows_per_thread)>>}
  BY <1>3, <1>5 DEF NextRange
<1> QED
  BY <1>3, <1>6

LEMMA SameDone ==
    ASSUME Typed, UNCHANGED args
    PROVE  \A w : DoneBy(w)' = DoneBy(w)
BY DEF DoneBy, Elements, Width

LEMMA SpawnWorkerStep ==
    ASSUME RowsFit, IInv, SpawnWorker, UNCHANGED <<problem, batch, output>>
    PROVE  IInv'
<1>1. /\ pc = "spawn" /\ pc' = "spawn" /\ index < thread_count /\ index' = index + 1
      /\ UNCHANGED <<problem, batch, output, args, use_avx, C, thread_count,
                     rows_per_thread, stores>>
  BY DEF SpawnWorker
<1>2. Typed /\ WorkersInv /\ CoverInv /\ SplitInv /\ StoresInv /\ ValuesInv
  BY DEF IInv
<1>3. /\ Elements' = Elements /\ Value' = Value /\ Vectorized' = Vectorized
      /\ \A b : Sum(b)' = Sum(b)
  BY <1>1, <1>2, SameProblem
<1>4. /\ args.M \in Nat /\ args.N \in Nat /\ Panel \in Nat
      /\ thread_count \in Nat /\ rows_per_thread \in Nat \ {0} /\ index \in Nat
      /\ rows_per_thread < args.M /\ thread_count * rows_per_thread >= args.M
      /\ Covered = Smaller(args.M, index * rows_per_thread)
  BY <1>1, <1>2, Naturals DEF SplitInv, Typed
<1>5. PICK p \in Nat : p = index * rows_per_thread
  BY <1>1, <1>2, NextRangeFits
<1> DEFINE e == Smaller(args.M, p + rows_per_thread)
           new == Worker(p, e)
<1>6. p < e /\ workers' = Append(workers, new)
  BY <1>1, <1>2, <1>5, NextRangeFits DEF SpawnWorker
<1>7. /\ e \in Nat /\ e <= args.M /\ p < args.M /\ Covered = p
      /\ e <= p + rows_per_thread /\ e = Smaller(args.M, p + rows_per_thread)
  BY <1>4, <1>5, <1>6 DEF Smaller
<1> HIDE DEF e
<1>8. new = [begin |-> p, end |-> e, m |-> 0, n |-> 0]
  BY DEF Worker
<1>9. new \in WorkerState
  BY <1>7, <1>8 DEF WorkerState
<1> HIDE DEF new
<1>10. PICK k \in Nat : k = Len(workers)
  BY <1>2 DEF WorkersInv
<1>11. /\ DOMAIN workers = 1..k /\ DOMAIN workers' = 1..k + 1 /\ Len(workers') = k + 1
       /\ \A i \in 1..k : workers'[i] = workers[i]
       /\ workers'[k + 1] = new /\ workers' \in Seq(WorkerState) /\ workers' # <<>>
  BY <1>2, <1>6, <1>9, <1>10 DEF WorkersInv
<1>12. \A i \in 1..k : workers[i] \in WorkerState /\ workers[i].end <= p
  BY <1>1, <1>2, <1>7, <1>10, <1>11 DEF WorkersInv, CoverInv, Threaded
<1>13. Typed'
  BY <1>1, <1>2, <1>3 DEF Typed, InCall
<1>14. WorkersInv'
  <2>1. InRange(new)
    BY <1>4, <1>6, <1>7, <1>8 DEF InRange
  <2>2. \A w : InRange(w)' = InRange(w)
    BY <1>1 DEF InRange
  <2>3. \A i \in 1..k + 1 : InRange(workers'[i])
    BY <1>2, <1>10, <1>11, <2>1 DEF WorkersInv
  <2>4. \A i \in DOMAIN workers' : InRange(workers[i])'
    BY <1>11, <2>2, <2>3
  <2>5. \A i, j \in DOMAIN workers' : i < j => workers'[i].end <= workers'[j].begin
    <3>1. SUFFICES ASSUME NEW i \in 1..k + 1, NEW j \in 1..k + 1, i < j
                   PROVE  workers'[i].end <= workers'[j].begin
      BY <1>11
    <3>2. CASE j = k + 1
      BY <1>8, <1>10, <1>11, <1>12, <3>1, <3>2
    <3>3. CASE j # k + 1
      <4>1. i \in 1..k /\ j \in 1..k
        BY <1>10, <3>1, <3>3
      <4> QED
        BY <1>2, <1>11, <3>1, <4>1 DEF WorkersInv
    <3> QED
      BY <3>2, <3>3
  <2> QED
    BY <1>1, <1>11, <2>4, <2>5 DEF WorkersInv, Threaded
<1>15. Covered' = e
  BY <1>8, <1>11 DEF Covered
<1>16. CoverInv'
  <2>1. \A i \in DOMAIN workers' : workers'[i].end <= e
    <3>1. ASSUME NEW i \in 1..k
          PROVE  workers'[i].end <= e
      <4>1. workers[i].end \in Nat /\ workers[i].end <= p
        BY <1>12 DEF WorkerState
      <4> QED
        BY <1>6, <1>7, <1>11, <4>1
    <3>2. workers'[k + 1].end <= e
      BY <1>7, <1>8, <1>11
    <3> QED
      BY <1>10, <1>11, <3>1, <3>2
  <2>2. ASSUME NEW r \in 1..e
        PROVE  \E i \in DOMAIN workers' : workers'[i].begin < r /\ r <= workers'[i].end
    <3>1. CASE r > p
      BY <1>8, <1>10, <1>11, <3>1
    <3>2. CASE r <= p
      <4>1. PICK i \in DOMAIN workers : workers[i].begin < r /\ r <= workers[i].end
        BY <1>1, <1>2, <1>7, <2>2, <3>2 DEF CoverInv, Threaded
      <4> QED
        BY <1>10, <1>11, <4>1
    <3> QED
      BY <1>7, <2>2, <3>1, <3>2
  <2> QED
    BY <1>1, <1>15, <2>1, <2>2 DEF CoverInv
<1>17. SplitInv'
  <2>1. index' * rows_per_thread' = p + rows_per_thread
    <3>1. \A a, r \in Nat : (a + 1) * r = a * r + r
      BY SMT
    <3> QED
      BY <1>1, <1>4, <1>5, <3>1
  <2>2. p + rows_per_thread < 2 * args.M
    BY <1>4, <1>7
  <2>3. index' \in Nat /\ index' <= thread_count
    BY <1>1, <1>4
  <2> QED
    BY <1>1, <1>4, <1>7, <1>15, <2>1, <2>2, <2>3, Zenon DEF SplitInv, Smaller
<1>18. StoresInv'
  <2>1. \A w : DoneBy(w)' = DoneBy(w)
    BY <1>1, <1>2, SameDone
  <2>2. DoneBy(new) = {}
    BY <1>2, <1>7, NothingDoneYet DEF new
  <2>3. ASSUME NEW x
        PROVE  (\E i \in DOMAIN workers' : x \in DoneBy(workers'[i])) <=>
               (\E i \in DOMAIN workers : x \in DoneBy(workers[i]))
    BY <1>10, <1>11, <2>2
  <2> QED
    BY <1>1, <1>2, <1>3, <2>1, <2>3 DEF StoresInv, Threaded
<1>19. ValuesInv'
  BY <1>1, <1>2, <1>3 DEF ValuesInv, Exact
<1> QED
  BY <1>13, <1>14, <1>16, <1>17, <1>18, <1>19 DEF IInv

LEMMA SpawnDoneStep ==
    ASSUME RowsFit, IInv, SpawnDone, UNCHANGED <<problem, batch, output>>
    PROVE  IInv'
<1>1. /\ pc = "spawn" /\ pc' = "join"
      /\ UNCHANGED <<problem, batch, output, args, use_avx, C, workers, stores>>
  BY DEF SpawnDone
<1>2. Typed /\ WorkersInv /\ CoverInv /\ SplitInv /\ StoresInv /\ ValuesInv
  BY DEF IInv
<1>3. /\ Elements' = Elements /\ Value' = Value /\ Vectorized' = Vectorized
      /\ \A b : Sum(b)' = Sum(b)
  BY <1>1, <1>2, SameProblem
<1>4. /\ args.M \in Nat
      /\ rows_per_thread \in Nat \ {0} /\ thread_count * rows_per_thread >= args.M
      /\ Covered = Smaller(args.M, index * rows_per_thread)
  BY <1>1, <1>2, Naturals DEF SplitInv, Typed
<1>5. PICK p \in Nat : p = index * rows_per_thread
  BY <1>1, <1>2, NextRangeFits
<1>6. p >= args.M
  <2>1. CASE index = thread_count
    BY <1>4, <1>5, <2>1
  <2>2. CASE \E range \in NextRange : range[1] >= range[2]
    BY <1>1, <1>2, <1>4, <1>5, <2>2, NextRangeFits DEF Smaller
  <2> QED
    BY <2>1, <2>2 DEF SpawnDone
<1>7. Covered = args.M /\ Covered' = Covered
  BY <1>1, <1>4, <1>5, <1>6 DEF Smaller, Covered
<1>8. Typed'
  BY <1>1, <1>2, <1>3 DEF Typed, InCall
<1>9. WorkersInv'
  BY <1>1, <1>2 DEF WorkersInv, Threaded, InRange
<1>10. CoverInv' /\ SplitInv'
  BY <1>1, <1>2, <1>7 DEF CoverInv, SplitInv, Threaded
<1>11. StoresInv'
  <2>1. \A w : DoneBy(w)' = DoneBy(w)
    BY <1>1, <1>2, SameDone
  <2> QED
    BY <1>1, <1>2, <1>3, <2>1 DEF StoresInv, Threaded
<1>12. ValuesInv'
  BY <1>1, <1>2, <1>3 DEF ValuesInv, Exact
<1> QED
  BY <1>8, <1>9, <1>10, <1>11, <1>12 DEF IInv

LEMMA StoreTileStep ==
    ASSUME IInv, NEW i \in DOMAIN workers, StoreTile(i), UNCHANGED <<problem, batch, output>>
    PROVE  IInv'
<1> DEFINE w == workers[i]
           tile == Stored(w)
<1>1. /\ Running(w)
      /\ C' = [e \in Elements |-> IF e \in tile THEN args.sum[e] ELSE C[e]]
      /\ stores' = [e \in Elements |-> IF e \in tile THEN stores[e] + 1 ELSE stores[e]]
      /\ workers' = [workers EXCEPT ![i] = Advance(w)]
      /\ UNCHANGED <<problem, batch, output, args, use_avx, pc, thread_count,
                     rows_per_thread, index>>
  BY DEF StoreTile
<1>2. Typed /\ WorkersInv /\ CoverInv /\ SplitInv /\ StoresInv /\ ValuesInv
  BY DEF IInv
<1>3. /\ Elements' = Elements /\ Value' = Value /\ Vectorized' = Vectorized
      /\ \A b : Sum(b)' = Sum(b)
  BY <1>1, <1>2, SameProblem
<1>4. w \in WorkerState /\ InRange(w)
  BY <1>2 DEF WorkersInv
<1>5. Threaded /\ Vectorized
  BY <1>1, <1>2 DEF WorkersInv, StoresInv
<1>6. /\ pc \in InCall /\ pc # "return" /\ pc # "start" /\ batch <= problem.batches
      /\ args.sum = Sum(batch)
  BY <1>2, <1>5 DEF Threaded, Typed, InCall
<1>7. Sum(batch) \in [Elements -> Value]
  BY <1>2, <1>6, SumIsAValue
<1> DEFINE next == Advance(w)
<1>8. /\ tile \cap DoneBy(w) = {}
      /\ DoneBy(next) = DoneBy(w) \cup tile
      /\ next \in WorkerState /\ InRange(next)
      /\ next.begin = w.begin /\ next.end = w.end
  BY <1>1, <1>2, <1>4, TileIsNew
<1>9. tile \subseteq Elements /\ tile \subseteq DoneBy(next)
  BY <1>8 DEF Stored
<1> HIDE DEF tile, next
<1>10. /\ DOMAIN workers' = DOMAIN workers /\ Len(workers') = Len(workers)
       /\ workers' \in Seq(WorkerState) /\ (workers' = <<>> <=> workers = <<>>)
       /\ workers'[i] = next
       /\ \A j \in DOMAIN workers \ {i} : workers'[j] = workers[j]
  <2>1. workers \in Seq(WorkerState)
    BY <1>2 DEF WorkersInv
  <2>2. workers' = [workers EXCEPT ![i] = next]
    BY <1>1 DEF next
  <2> QED
    BY <1>8, <2>1, <2>2
<1>11. \A j \in DOMAIN workers : /\ workers'[j].begin = workers[j].begin
                                 /\ workers'[j].end = workers[j].end
  BY <1>8, <1>10
<1>12. ASSUME NEW e \in tile
       PROVE  ~ \E j \in DOMAIN workers : e \in DoneBy(workers[j])
  <2>1. SUFFICES ASSUME NEW j \in DOMAIN workers, e \in DoneBy(workers[j]), j # i
                 PROVE  FALSE
    BY <1>8, <1>12
  <2>2. /\ w.begin < e[1] /\ e[1] <= w.end
        /\ workers[j].begin < e[1] /\ e[1] <= workers[j].end
    BY <1>8, <1>9, <1>12, <2>1 DEF DoneBy
  <2>3. /\ i \in Int /\ j \in Int /\ e[1] \in Int
        /\ w.begin \in Int /\ w.end \in Int
        /\ workers[j].begin \in Int /\ workers[j].end \in Int
    <3>1. e \in Elements
      BY <1>9, <1>12
    <3>2. e[1] \in Int
      BY <1>2, <3>1, Naturals
    <3>3. workers \in Seq(WorkerState)
      BY <1>2 DEF WorkersInv
    <3>4. i \in Int /\ j \in Int /\ workers[j] \in WorkerState
      BY <3>3
    <3> QED
      BY <1>4, <3>2, <3>4 DEF WorkerState
  <2>4. i < j \/ j < i
    BY <2>1, <2>3
  <2>5. w.end <= workers[j].begin \/ workers[j].end <= w.begin
    BY <1>2, <2>4 DEF WorkersInv
  <2> QED
    BY <2>2, <2>3, <2>5
<1>13. \A e \in tile : stores[e] = 0
  <2>1. \A e \in Elements : stores[e] \in 0..1
    BY <1>2 DEF Typed
  <2>2. \A e \in Elements : stores[e] = 1 => \E j \in DOMAIN workers : e \in DoneBy(workers[j])
    BY <1>2, <1>5 DEF StoresInv
  <2> QED
    BY <1>9, <1>12, <2>1, <2>2
<1>14. Typed'
  <2>1. C' \in [Elements -> Value]
    BY <1>1, <1>2, <1>6, <1>7 DEF Typed
  <2>2. stores' \in [Elements -> 0..1]
    BY <1>1, <1>2, <1>13 DEF Typed
  <2> QED
    BY <1>1, <1>2, <1>3, <1>6, <2>1, <2>2 DEF Typed, InCall
<1>15. WorkersInv'
  <2>1. \A x : InRange(x)' = InRange(x)
    BY <1>1 DEF InRange
  <2>2. \A j \in DOMAIN workers : InRange(workers'[j])
    BY <1>2, <1>8, <1>10 DEF WorkersInv
  <2>3. \A j \in DOMAIN workers' : InRange(workers[j])'
    BY <1>10, <2>1, <2>2
  <2>4. \A j, k \in DOMAIN workers' : j < k => workers'[j].end <= workers'[k].begin
    BY <1>2, <1>10, <1>11 DEF WorkersInv
  <2> QED
    BY <1>1, <1>5, <1>6, <1>10, <2>3, <2>4 DEF WorkersInv, Threaded
<1>16. Covered' = Covered
  <2>1. workers # <<>> => Len(workers) \in DOMAIN workers
    BY <1>2 DEF WorkersInv
  <2> QED
    BY <1>10, <1>11, <2>1 DEF Covered
<1>17. CoverInv'
  <2>1. \A j \in DOMAIN workers' : workers'[j].end <= Covered
    BY <1>2, <1>5, <1>10, <1>11 DEF CoverInv
  <2>2. \A r \in 1..Covered : \E j \in DOMAIN workers' :
           workers'[j].begin < r /\ r <= workers'[j].end
    BY <1>2, <1>5, <1>10, <1>11 DEF CoverInv
  <2> QED
    BY <1>1, <1>2, <1>5, <1>16, <2>1, <2>2 DEF CoverInv
<1>18. SplitInv'
  BY <1>1, <1>2, <1>16 DEF SplitInv, Smaller
<1>19. StoresInv'
  <2>1. \A x : DoneBy(x)' = DoneBy(x)
    BY <1>1, <1>2, SameDone
  <2>2. ASSUME NEW e \in Elements
        PROVE  /\ stores'[e] = 1 <=> \E j \in DOMAIN workers' : e \in DoneBy(workers'[j])
               /\ stores'[e] = 1 => C'[e] = Sum(batch)[e]
    <3>1. CASE e \in tile
      <4>1. stores'[e] = 1 /\ C'[e] = Sum(batch)[e]
        BY <1>1, <1>6, <1>13, <3>1
      <4>2. e \in DoneBy(workers'[i])
        BY <1>9, <1>10, <3>1
      <4> QED
        BY <1>10, <4>1, <4>2
    <3>2. CASE e \notin tile
      <4>1. stores'[e] = stores[e] /\ C'[e] = C[e]
        BY <1>1, <3>2
      <4>2. \A j \in DOMAIN workers : e \in DoneBy(workers'[j]) <=> e \in DoneBy(workers[j])
        BY <1>8, <1>10, <3>2
      <4> QED
        BY <1>2, <1>5, <1>10, <4>1, <4>2 DEF StoresInv
    <3> QED
      BY <3>1, <3>2
  <2> QED
    BY <1>1, <1>3, <1>5, <1>6, <2>1, <2>2 DEF StoresInv, Threaded
<1>20. ValuesInv'
  <2>1. ASSUME problem.nonfinite = {}, NEW e \in Elements
        PROVE  C'[e].finite = TRUE
    BY <1>1, <1>2, <1>6, <2>1, SumIsFinite DEF ValuesInv
  <2> QED
    BY <1>1, <1>2, <1>3, <1>6, <2>1 DEF ValuesInv, Exact
<1> QED
  BY <1>14, <1>15, <1>17, <1>18, <1>19, <1>20 DEF IInv

LEMMA JoinWorkersStep ==
    ASSUME IInv, JoinWorkers, UNCHANGED <<problem, batch, output>>
    PROVE  IInv'
<1>1. /\ pc = "join" /\ pc' = "return"
      /\ \A i \in DOMAIN workers : ~Running(workers[i])
      /\ UNCHANGED <<problem, batch, output, args, use_avx, C, workers, stores>>
  BY DEF JoinWorkers
<1>2. Typed /\ WorkersInv /\ CoverInv /\ StoresInv /\ ValuesInv
  BY DEF IInv
<1>3. /\ Elements' = Elements /\ Value' = Value /\ Vectorized' = Vectorized
      /\ \A b : Sum(b)' = Sum(b)
  BY <1>1, <1>2, SameProblem
<1>4. Typed'
  BY <1>1, <1>2, <1>3 DEF Typed, InCall
<1>5. WorkersInv'
  BY <1>1, <1>2 DEF WorkersInv, Threaded, InRange, Running
<1>6. CoverInv' /\ SplitInv'
  BY <1>1 DEF CoverInv, SplitInv, Threaded
<1>7. ASSUME NEW e \in Elements
      PROVE  stores[e] = 1 /\ C[e] = Sum(batch)[e]
  <2>1. e[1] \in 1..Covered
    <3>1. Covered = problem.M
      BY <1>1, <1>2 DEF CoverInv, Threaded, Typed
    <3>2. e[1] \in 1..problem.M
      BY <1>2, <1>7, Naturals
    <3> QED
      BY <3>1, <3>2
  <2>2. PICK i \in DOMAIN workers : workers[i].begin < e[1] /\ e[1] <= workers[i].end
    BY <1>1, <1>2, <2>1 DEF CoverInv, Threaded
  <2>3. workers[i] \in WorkerState /\ InRange(workers[i]) /\ ~Running(workers[i])
    BY <1>1, <1>2 DEF WorkersInv
  <2>4. e \in DoneBy(workers[i])
    BY <1>2, <2>2, <2>3, AllDone
  <2> QED
    BY <1>1, <1>2, <2>4 DEF StoresInv, Threaded
<1>8. StoresInv'
  BY <1>1, <1>3, <1>7 DEF StoresInv, Threaded
<1>9. C = Sum(batch)
  <2>1. batch <= problem.batches
    BY <1>1, <1>2 DEF Typed, InCall
  <2>2. Sum(batch) \in [Elements -> Value]
    BY <1>2, <2>1, SumIsAValue
  <2>3. /\ Sum(batch) = [e \in Elements |-> Sum(batch)[e]]
        /\ C = [e \in Elements |-> C[e]]
    BY <1>2, <2>2 DEF Typed
  <2> QED
    BY <1>7, <2>3
<1>10. ValuesInv'
  BY <1>1, <1>2, <1>3, <1>9 DEF ValuesInv, Exact
<1> QED
  BY <1>4, <1>5, <1>6, <1>8, <1>10 DEF IInv

LEMMA CopyResultStep == ASSUME IInv, CopyResult PROVE IInv'
<1>1. /\ pc = "return" /\ pc' = "loop" /\ output' = Append(output, C) /\ batch' = batch + 1
      /\ UNCHANGED <<problem, args, use_avx, C, workers, stores>>
  BY DEF CopyResult
<1>2. Typed /\ WorkersInv /\ ValuesInv
  BY DEF IInv
<1>3. /\ Elements' = Elements /\ Value' = Value /\ Vectorized' = Vectorized
      /\ \A b : Sum(b)' = Sum(b)
  BY <1>1, <1>2 DEF Elements, Value, Sum, Vectorized, Work
<1>4. /\ output \in Seq([Elements -> Value]) /\ Len(output) = batch - 1
      /\ batch \in Nat /\ batch <= problem.batches /\ problem.batches \in Nat /\ batch >= 1
      /\ C \in [Elements -> Value]
  <2>1. output \in Seq([Elements -> Value]) /\ Len(output) = batch - 1
    BY <1>2 DEF Typed
  <2>2. batch \in 1..problem.batches + 1 /\ C \in [Elements -> Value]
    BY <1>2 DEF Typed
  <2>3. batch <= problem.batches
    BY <1>1, <1>2 DEF Typed, InCall
  <2> QED
    BY <1>2, <2>1, <2>2, <2>3, Naturals
<1>5. /\ output' \in Seq([Elements -> Value]) /\ Len(output') = batch
      /\ DOMAIN output' = 1..batch /\ DOMAIN output = 1..batch - 1
      /\ output'[batch] = C /\ \A b \in 1..batch - 1 : output'[b] = output[b]
  BY <1>1, <1>4
<1>6. Typed'
  BY <1>1, <1>2, <1>3, <1>4, <1>5 DEF Typed, InCall
<1>7. WorkersInv'
  BY <1>1, <1>2 DEF WorkersInv, Threaded, InRange, Running
<1>8. CoverInv' /\ SplitInv' /\ StoresInv'
  BY <1>1 DEF CoverInv, SplitInv, StoresInv, Threaded
<1>9. ValuesInv'
  <2>1. ASSUME Exact, NEW b \in DOMAIN output'
        PROVE  output'[b] = Sum(b)
    <3>1. CASE b = batch
      BY <1>1, <1>2, <1>5, <2>1, <3>1 DEF ValuesInv
    <3>2. CASE b # batch
      <4>1. b \in 1..batch - 1
        BY <1>4, <1>5, <3>2
      <4> QED
        BY <1>2, <1>5, <2>1, <4>1 DEF ValuesInv
    <3> QED
      BY <3>1, <3>2
  <2> QED
    BY <1>1, <1>2, <1>3, <2>1 DEF ValuesInv, Exact
<1> QED
  BY <1>6, <1>7, <1>8, <1>9 DEF IInv

LEMMA DoneStep == ASSUME IInv, Done PROVE IInv'
<1>1. /\ pc = "loop" /\ pc' = "done"
      /\ UNCHANGED <<problem, batch, output, args, use_avx, C, workers, stores>>
  BY DEF Done
<1>2. Typed /\ WorkersInv /\ ValuesInv
  BY DEF IInv
<1>3. /\ Elements' = Elements /\ Value' = Value /\ Vectorized' = Vectorized
      /\ \A b : Sum(b)' = Sum(b)
  BY <1>1, <1>2, SameProblem
<1>4. Typed'
  BY <1>1, <1>2, <1>3 DEF Typed, InCall
<1>5. WorkersInv'
  BY <1>1, <1>2 DEF WorkersInv, Threaded, InRange, Running
<1>6. CoverInv' /\ SplitInv' /\ StoresInv'
  BY <1>1 DEF CoverInv, SplitInv, StoresInv, Threaded
<1>7. ValuesInv'
  BY <1>1, <1>2, <1>3 DEF ValuesInv, Exact
<1> QED
  BY <1>4, <1>5, <1>6, <1>7 DEF IInv

LEMMA StutterStep == ASSUME IInv, UNCHANGED vars PROVE IInv'
<1>1. UNCHANGED <<problem, batch, output, args, use_avx, C, pc, thread_count,
                  rows_per_thread, index, workers, stores>>
  BY DEF vars, gemm_vars
<1>2. Typed /\ WorkersInv /\ CoverInv /\ SplitInv /\ StoresInv /\ ValuesInv
  BY DEF IInv
<1>3. /\ Elements' = Elements /\ Value' = Value /\ Vectorized' = Vectorized
      /\ \A b : Sum(b)' = Sum(b)
  BY <1>1, <1>2, SameProblem
<1>4. Typed'
  BY <1>1, <1>2, <1>3 DEF Typed
<1>5. WorkersInv' /\ CoverInv' /\ SplitInv'
  BY <1>1, <1>2 DEF WorkersInv, CoverInv, SplitInv, Threaded, InRange, Running, Covered
<1>6. StoresInv'
  <2>1. \A w : DoneBy(w)' = DoneBy(w)
    BY <1>1, <1>2, SameDone
  <2> QED
    BY <1>1, <1>2, <1>3, <2>1 DEF StoresInv, Threaded
<1>7. ValuesInv'
  BY <1>1, <1>2, <1>3 DEF ValuesInv, Exact
<1> QED
  BY <1>4, <1>5, <1>6, <1>7 DEF IInv

-----------------------------------------------------------------------------
(* The theorems *)

LEMMA StepInv ==
    ASSUME RowsFit, IInv, [Next]_vars
    PROVE  IInv'
<1>1. CASE CallGemm
  BY <1>1, CallGemmStep
<1>2. CASE GemmStep
  <2>1. GemmNext /\ UNCHANGED <<problem, batch, output>>
    BY <1>2 DEF GemmStep
  <2> QED
    BY <2>1, GemmScalarStep, OneThreadStep, SplitRowsStep, SpawnWorkerStep,
       SpawnDoneStep, StoreTileStep, JoinWorkersStep DEF GemmNext
<1>3. CASE CopyResult
  BY <1>3, CopyResultStep
<1>4. CASE Done
  BY <1>4, DoneStep
<1>5. CASE UNCHANGED vars
  BY <1>5, StutterStep
<1> QED
  BY <1>1, <1>2, <1>3, <1>4, <1>5 DEF Next

LEMMA Invariance == ASSUME RowsFit PROVE Spec => []IInv
<1>1. IInv /\ [Next]_vars => IInv'
  BY StepInv
<1> QED
  BY <1>1, InitInv, PTL DEF Spec

\* Matrices keep their shape, and threads stay within the rows and columns of
\* the matrix, for every size of matrix, tile and panel and any thread count
\* that hardware or environment give.
THEOREM ProductTypeCorrect == ASSUME RowsFit PROVE Spec => []TypeOK
<1>1. IInv => TypeOK
  <2> SUFFICES ASSUME IInv
               PROVE  TypeOK
    OBVIOUS
  <2>1. Typed /\ WorkersInv
    BY DEF IInv
  <2>2. ASSUME NEW i \in DOMAIN workers
        PROVE  /\ 0 <= workers[i].begin /\ workers[i].begin < workers[i].end
               /\ workers[i].end <= problem.M
               /\ workers[i].m \in 0..workers[i].end - workers[i].begin
               /\ workers[i].n \in 0..problem.N
    <3>1. /\ workers[i] \in WorkerState /\ InRange(workers[i])
          /\ args.M = problem.M /\ args.N = problem.N
      BY <2>1 DEF WorkersInv, Typed
    <3> QED
      BY <2>1, <3>1, Naturals DEF WorkerState, InRange
  <2>3. stores \in [Elements -> Nat]
    BY <2>1 DEF Typed
  <2> QED
    BY <2>1, <2>2, <2>3 DEF TypeOK, Typed, InCall
<1> QED
  BY <1>1, Invariance, PTL

\* Whatever the split and the schedule, each element of C is stored once: the
\* ranges of the threads and the tiles and cleanup loops within a range cut C
\* into parts that neither overlap nor leave anything out.
THEOREM ElementsStoredOnce == ASSUME RowsFit PROVE Spec => []EachElementOnce
<1>1. IInv => EachElementOnce
  BY DEF IInv, Typed, StoresInv, EachElementOnce
<1> QED
  BY <1>1, Invariance, PTL

\* The scratch matrix that all batches share does not mix them up: no thread
\* of an earlier batch is left when the next one begins, and nothing is copied
\* before it is complete.
THEOREM EveryBatchCorrect == ASSUME RowsFit PROVE Spec => []ProductsCorrect
<1>1. IInv => ProductsCorrect
  BY DEF IInv, ValuesInv, Exact, ProductsCorrect
<1> QED
  BY <1>1, Invariance, PTL
=============================================================================
