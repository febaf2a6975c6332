---------------------------- MODULE Coordinates ----------------------------
(***************************************************************************)
(* Coordinates of n-dimensional arrays and the selections that NumPy and   *)
(* ONNX share, for the specifications Array and Onnx.                      *)
(***************************************************************************)
EXTENDS Integers, FiniteSets, Sequences

Coords(shape) ==
    LET upTo[n \in 0..Len(shape)] ==
          IF n = 0 THEN {<<>>}
          ELSE {Append(c, x) : c \in upTo[n-1], x \in 0..shape[n] - 1}
    IN  upTo[Len(shape)]

Before(c, d) ==
    \E i \in DOMAIN c : c[i] < d[i] /\ \A j \in 1..i-1 : c[j] = d[j]

\* How many elements come before c, the last axis running fastest.
Rank(c, shape) == Cardinality({d \in Coords(shape) : Before(d, c)})

\* Negative bounds count from the end.
FromEnd(x, dim) == IF x < 0 THEN x + dim ELSE x

\* a[start:end:step]
Selected(start, end, step, dim) ==
    {x \in 0..dim - 1 :
        /\ FromEnd(start, dim) <= x /\ x < FromEnd(end, dim)
        /\ \E k \in 0..dim : x = (IF FromEnd(start, dim) < 0 THEN 0
                                   ELSE FromEnd(start, dim)) + k * step}
=============================================================================
