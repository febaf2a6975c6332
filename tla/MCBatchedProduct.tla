-------------------------- MODULE MCBatchedProduct --------------------------
(***************************************************************************)
(* Instances of BatchedProduct for TLC: a micro-kernel of 2 by 2 and small *)
(* thresholds, so that all the paths meet at matrices of a few elements.   *)
(***************************************************************************)
EXTENDS BatchedProduct

Problem(m, n, batches, nonfinite) ==
    [M |-> m, N |-> n, K |-> 1, batches |-> batches, nonfinite |-> nonfinite]

\* All shapes from nothing to several tiles and panels with a rest; one batch
\* with a row that overflows, before or after a finite one; an M no int holds.
MCProblems ==
    {Problem(m, n, 1, {}) : m \in {0, 1, 2, 3, 4, 6, 7, 8, 9}, n \in {0, 1, 2, 3, 4}}
    \cup {Problem(m, n, 2, {<<b, 1>>}) : m \in {1, 3, 5}, n \in {1, 3}, b \in {1, 2}}
    \cup {Problem(IntMax + 1, 1, 1, {})}

MCHardware == {0, 1, 2, 8}
MCSettings == {-1, 0, 2, 5}
=============================================================================
