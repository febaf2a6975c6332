--------------------------- MODULE BatchedProduct ---------------------------
(***************************************************************************)
(* The loop that matmul (src/src/ops/bert.cpp) has over the batches and    *)
(* conv2d (src/src/ops/conv2d.cpp) over the groups: pack the operands, let *)
(* gemm() write their product to one scratch matrix that all iterations    *)
(* share, copy it to the output.                                           *)
(***************************************************************************)
EXTENDS Gemm

CONSTANT
    Problems    \* what the kernels are called with: [M, N, K, batches,
                \* nonfinite], where nonfinite holds the <<batch, row>> whose
                \* sums of products overflow or are NaN

ASSUME ProblemsAssumption ==
    \A p \in Problems : p.M \in Nat /\ p.N \in Nat /\ p.K \in Nat /\ p.batches \in Nat

VARIABLES
    problem,
    batch,      \* the loop variable
    output      \* batch -> element -> value

\* C of Gemm is result in matmul and product in conv2d.
vars == <<problem, batch, output, gemm_vars>>

Sum(b) == [e \in Elements |->
             [batch |-> b, finite |-> <<b, e[1]>> \notin problem.nonfinite]]

\* std::vector<float> starts with zeros.
Zero == [batch |-> 0, finite |-> TRUE]

\* int64 dimensions that do not fit an int throw before anything is packed.
Throws == problem.M > IntMax \/ problem.N > IntMax \/ problem.K > IntMax

Args(b) == [M |-> problem.M, N |-> problem.N, K |-> problem.K, plain |-> TRUE,
            sum |-> Sum(b)]

Init ==
    /\ problem \in Problems
    /\ batch = 1
    /\ output = <<>>
    /\ args = [M |-> problem.M, N |-> problem.N, K |-> problem.K, plain |-> TRUE,
               sum |-> <<>>]
    /\ use_avx \in BOOLEAN
    /\ C = [e \in Elements |-> Zero]
    /\ pc = IF Throws THEN "thrown" ELSE "loop"
    /\ thread_count = 1 /\ rows_per_thread = 0 /\ index = 0 /\ workers = <<>>
    /\ stores = [e \in Elements |-> 0]

CallGemm ==
    /\ pc = "loop"
    /\ batch <= problem.batches
    /\ args' = Args(batch)
    /\ stores' = [e \in Elements |-> 0]
    /\ workers' = <<>>
    /\ thread_count' = 1 /\ rows_per_thread' = 0 /\ index' = 0
    /\ pc' = "start"
    /\ UNCHANGED <<problem, batch, output, use_avx, C>>

GemmStep == GemmNext /\ UNCHANGED <<problem, batch, output>>

CopyResult ==
    /\ pc = "return"
    /\ output' = Append(output, C)
    /\ batch' = batch + 1
    /\ pc' = "loop"
    /\ UNCHANGED <<problem, args, use_avx, C, thread_count, rows_per_thread,
                   index, workers, stores>>

Done ==
    /\ pc = "loop"
    /\ batch > problem.batches
    /\ pc' = "done"
    /\ UNCHANGED <<problem, batch, output, args, use_avx, C, thread_count,
                   rows_per_thread, index, workers, stores>>

Next ==
    \/ CallGemm
    \/ GemmStep
    \/ CopyResult
    \/ Done

Spec == Init /\ [][Next]_vars

\* The operating system goes on with the thread that called the kernel when it
\* can run, and with some worker while one is left.
Caller ==
    \/ CallGemm
    \/ (GemmScalar \/ OneThread \/ SplitRows \/ SpawnWorker
        \/ SpawnDone \/ JoinWorkers) /\ UNCHANGED <<problem, batch, output>>
    \/ CopyResult
    \/ Done

WorkerStep ==
    /\ \E i \in DOMAIN workers : StoreTile(i)
    /\ UNCHANGED <<problem, batch, output>>

FairSpec == Spec /\ WF_vars(Caller) /\ WF_vars(WorkerStep)

-----------------------------------------------------------------------------
(* Properties *)

Value == [batch : 0..problem.batches, finite : BOOLEAN]

\* Matrices keep their shape, and workers stay within the matrix.
TypeOK ==
    /\ pc \in {"loop", "start", "spawn", "join", "return", "done", "thrown"}
    /\ batch \in 1..problem.batches + 1
    /\ Len(output) = batch - 1
    /\ C \in [Elements -> Value]
    /\ stores \in [Elements -> Nat]
    /\ \A i \in DOMAIN workers :
         LET w == workers[i] IN
           /\ 0 <= w.begin /\ w.begin < w.end /\ w.end <= problem.M
           /\ w.m \in 0..w.end - w.begin /\ w.n \in 0..problem.N

\* However the rows are split and the threads are scheduled, no element of C
\* is stored twice (by two threads that would race, or by a tile and the
\* cleanup loop), and when gemm() returns each has been stored once.
EachElementOnce ==
    /\ \A e \in Elements : stores[e] <= 1
    /\ pc = "return" => \A e \in Elements : stores[e] = 1

\* Each batch of the output is the product of that batch, if the vector
\* kernel ran or all sums are finite.
ProductsCorrect ==
    problem.nonfinite = {} \/ Vectorized =>
        \A b \in DOMAIN output : output[b] = Sum(b)

\* The kernel always comes back.
KernelReturns == <>(pc \in {"done", "thrown"})

\* The product of a batch does not depend on the other batches.
BatchesIndependent == \A b \in DOMAIN output : output[b] = Sum(b)
=============================================================================
