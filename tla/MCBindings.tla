----------------------------- MODULE MCBindings -----------------------------
(* Three threads on two engines, and a model of two nodes, for TLC. *)
EXTENDS Bindings, TLC

CONSTANTS t1, t2, t3

MCThread == {t1, t2, t3}
Pair == {t1, t2}

\* t1 and t2 share an engine, t3 has its own.
MCEngineOf == t1 :> 1 @@ t2 :> 1 @@ t3 :> 2
OneEngine == t1 :> 1 @@ t2 :> 1
MCEndless == {t3}

MCModel ==
    [nodes |-> <<[op |-> "Relu", inputs |-> <<"x">>, outputs |-> <<"a">>],
                 [op |-> "Add", inputs |-> <<"x", "a">>, outputs |-> <<"y">>]>>,
     input_names |-> <<"x">>,
     initializers |-> <<>>,
     output_names |-> {"y"}]

Array(dtype, value) == "x" :> [dtype |-> dtype, value |-> value]

\* Two that are served, one that NumPy has but Tensor has not, one that the
\* engine refuses.
MCRequests == {Array("FLOAT32", "a"), Array("FLOAT32", "b"), Array("float64", "a"), <<>>}
Accepting == {Array("FLOAT32", "a"), Array("FLOAT32", "b")}
=============================================================================
