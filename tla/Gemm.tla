-------------------------------- MODULE Gemm --------------------------------
(***************************************************************************)
(* gemm of src/src/ops/gemm_avx2.cpp: the choice between the scalar and    *)
(* the vector kernel, the split of the rows over std::threads, and the     *)
(* order in which the threads store the tiles of C.                        *)
(*                                                                         *)
(* The arithmetic is the caller's: args.sum[e] stands for the sum of       *)
(* products of element e, a record whose field finite says whether it is a *)
(* finite float.  C is the caller's memory.                                *)
(***************************************************************************)
EXTENDS Integers, Sequences

CONSTANTS
    FastWork,       \* 1000000: more work than this goes to the vector kernel
    ParallelWork,   \* 100000000: from here on rows may be split
    MinRows,        \* 12: so may they
    MaxThreads,     \* 6
    Tile,           \* 6, the rows of the micro-kernel
    Panel,          \* 16, its columns
    IntMax,         \* INT_MAX
    Hardware,       \* what hardware_concurrency() may return
    Settings        \* std::atoi(NN_GEMM_THREADS), 0 if it is not set

ASSUME GemmAssumption ==
    /\ Tile \in Nat \ {0} /\ Panel \in Nat \ {0} /\ MaxThreads \in Nat \ {0}
    /\ IntMax \in Nat /\ FastWork \in Nat /\ ParallelWork \in Nat
    /\ MinRows \in Nat /\ MinRows >= Tile
    /\ Hardware \subseteq Nat /\ Settings \subseteq Int

VARIABLES
    args,       \* [M, N, K, plain, sum]; plain: alpha = 1, beta = 0, nothing
                \* transposed
    use_avx,    \* what the CPU has
    C,
    pc,         \* where in gemm() the caller's thread is
    thread_count, rows_per_thread,
    index,      \* of the next thread
    workers,    \* [begin, end, m, n], the loop variables of the kernel
    stores      \* how often each element was stored in this call (history)

gemm_vars == <<args, use_avx, C, pc, thread_count, rows_per_thread, index,
               workers, stores>>

Elements == (1..args.M) \X (1..args.N)

Smaller(a, b) == IF a < b THEN a ELSE b
Larger(a, b) == IF a > b THEN a ELSE b

\* Signed overflow is undefined: a build may wrap around, or compute in a
\* wider register and not notice.
IntValues(x) == IF x <= IntMax THEN {x} ELSE {x, x - 2 * (IntMax + 1)}

\* Division of ints goes towards zero.
Quotient(a, b) == IF a >= 0 THEN a \div b ELSE -((-a) \div b)

-----------------------------------------------------------------------------

Work == args.M * args.N * args.K

Vectorized == args.plain /\ Work > FastWork /\ use_avx

ThreadCount(hardware, setting) ==
    IF Work >= ParallelWork /\ args.M >= MinRows
    THEN Smaller(IF setting > 0 THEN setting
                 ELSE Smaller(MaxThreads, Larger(1, hardware)),
                 args.M \div Tile)
    ELSE 1

\* Fault: rounded down.
RowsRoundedDown(threads) == {Quotient(args.M \div threads, Tile) * Tile}

RowsPerThread(threads) ==
    UNION {{(Quotient(y, Tile)) * Tile :
              y \in IntValues(Quotient(x, threads) + Tile - 1)} :
           x \in IntValues(args.M + threads - 1)}

\* alpha * sum + beta * C[index], also where beta is 0: if what C held is
\* infinite or NaN, the product with 0 is NaN and so is the sum.
Accumulate(sum, old) == IF old.finite THEN sum ELSE old

Worker(begin, end) == [begin |-> begin, end |-> end, m |-> 0, n |-> 0]

GemmScalar ==
    /\ pc = "start"
    /\ ~Vectorized
    /\ C' = [e \in Elements |-> Accumulate(args.sum[e], C[e])]
    /\ stores' = [e \in Elements |-> stores[e] + 1]
    /\ pc' = "return"
    /\ UNCHANGED <<args, use_avx, thread_count, rows_per_thread, index, workers>>

\* The caller's own thread runs the kernel: the only worker.
OneThread ==
    /\ pc = "start"
    /\ Vectorized
    /\ \E h \in Hardware, s \in Settings : ThreadCount(h, s) <= 1
    /\ workers' = <<Worker(0, args.M)>>
    /\ pc' = "join"
    /\ UNCHANGED <<args, use_avx, C, thread_count, rows_per_thread, index, stores>>

SplitRows ==
    /\ pc = "start"
    /\ Vectorized
    /\ \E h \in Hardware, s \in Settings :
         /\ ThreadCount(h, s) > 1
         /\ thread_count' = ThreadCount(h, s)
         /\ rows_per_thread' \in RowsPerThread(ThreadCount(h, s))
    /\ index' = 0
    /\ pc' = "spawn"
    /\ UNCHANGED <<args, use_avx, C, workers, stores>>

\* Fault: the last thread is not cut off at M.
RangePastEnd ==
    UNION {{<<begin, e>> : e \in IntValues(begin + rows_per_thread)} :
           begin \in IntValues(index * rows_per_thread)}

\* The ranges [begin, end) the next thread may get.
NextRange ==
    UNION {{<<begin, Smaller(args.M, e)>> : e \in IntValues(begin + rows_per_thread)} :
           begin \in IntValues(index * rows_per_thread)}

SpawnWorker ==
    /\ pc = "spawn"
    /\ index < thread_count
    /\ \E range \in NextRange :
         /\ range[1] < range[2]
         /\ workers' = Append(workers, Worker(range[1], range[2]))
    /\ index' = index + 1
    /\ UNCHANGED <<args, use_avx, C, pc, thread_count, rows_per_thread, stores>>

SpawnDone ==
    /\ pc = "spawn"
    /\ index = thread_count \/ \E range \in NextRange : range[1] >= range[2]
    /\ pc' = "join"
    /\ UNCHANGED <<args, use_avx, C, thread_count, rows_per_thread, index,
                   workers, stores>>

-----------------------------------------------------------------------------
(* gemm_avx2 (gemm_avx has the same loops), one action for each store *)

Rows(w) == w.end - w.begin
Running(w) == w.n < args.N

\* A full tile, a single row of a panel, or a whole column.
Height(w) ==
    IF w.n + Panel > args.N THEN Rows(w)
    ELSE IF w.m + Tile <= Rows(w) THEN Tile ELSE 1

Width(w) == IF w.n + Panel <= args.N THEN Panel ELSE 1

Stored(w) ==
    {e \in Elements : /\ e[1] \in w.begin + w.m + 1 .. w.begin + w.m + Height(w)
                      /\ e[2] \in w.n + 1 .. w.n + Width(w)}

\* The tiles of a panel from top to bottom, then the next panel.
Advance(w) ==
    IF w.m + Height(w) < Rows(w)
    THEN [w EXCEPT !.m = @ + Height(w)]
    ELSE [w EXCEPT !.m = 0, !.n = @ + Width(w)]

StoreTile(i) ==
    /\ Running(workers[i])
    /\ LET tile == Stored(workers[i]) IN
         /\ C' = [e \in Elements |-> IF e \in tile THEN args.sum[e] ELSE C[e]]
         /\ stores' = [e \in Elements |-> IF e \in tile THEN stores[e] + 1 ELSE stores[e]]
    /\ workers' = [workers EXCEPT ![i] = Advance(@)]
    /\ UNCHANGED <<args, use_avx, pc, thread_count, rows_per_thread, index>>

\* Fault: the threads are detached.
JoinNobody ==
    /\ pc = "join"
    /\ pc' = "return"
    /\ UNCHANGED <<args, use_avx, C, thread_count, rows_per_thread, index,
                   workers, stores>>

\* Fault: as many threads are expected as were asked for.
JoinCount ==
    /\ pc = "join"
    /\ \A i \in 1..thread_count : i \in DOMAIN workers /\ ~Running(workers[i])
    /\ pc' = "return"
    /\ UNCHANGED <<args, use_avx, C, thread_count, rows_per_thread, index,
                   workers, stores>>

JoinWorkers ==
    /\ pc = "join"
    /\ \A i \in DOMAIN workers : ~Running(workers[i])
    /\ pc' = "return"
    /\ UNCHANGED <<args, use_avx, C, thread_count, rows_per_thread, index,
                   workers, stores>>

GemmNext ==
    \/ GemmScalar
    \/ OneThread
    \/ SplitRows
    \/ SpawnWorker
    \/ SpawnDone
    \/ \E i \in DOMAIN workers : StoreTile(i)
    \/ JoinWorkers
=============================================================================
