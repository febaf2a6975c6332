---------------------------- MODULE MCOnnxParser ----------------------------
(***************************************************************************)
(* An instance of OnnxParser for TLC: every combination of the lists below, *)
(* of which each holds sound entries and each way an entry can be wrong.   *)
(***************************************************************************)
EXTENDS OnnxParser

MCTensor == {"x", "w", "t", "y"}

Raw(name, dtype, numel, bytes) ==
    [name |-> name, external |-> FALSE, dtype |-> dtype, numel |-> numel,
     raw_data |-> bytes, field |-> "float_data", data |-> <<>>]

Typed(name, dtype, numel, field_, data_) ==
    [Raw(name, dtype, numel, 0) EXCEPT !.field = field_, !.data = data_]

\* Tensors as they come from an exporter, and tensors that do not fit.
Tensors ==
    {Raw("w", dtype, 2, bytes) : dtype \in {"FLOAT32", "INT64", "BOOL"}, bytes \in {2, 8, 16}}
    \cup {Typed("w", dtype, 2, field, data) :
            dtype \in {"FLOAT32", "INT64", "INT32", "BOOL", "UINT8", "DOUBLE"},
            field \in {"int32_data", "int64_data"},
            data \in {<<0>>, <<1, 0>>, <<2, 255>>, <<1, 256>>, <<-1, 0>>}}
    \cup {Raw("w", "UINT8", 0, 0), Raw("w", "FLOAT32", -1, 0), [Raw("w", "BOOL", 2, 2) EXCEPT !.data = <<0, 0>>],
          [Raw("w", "FLOAT32", 2, 8) EXCEPT !.external = TRUE]}

W == Raw("w", "FLOAT32", 2, 8)
AnotherW == Typed("w", "INT64", 1, "int64_data", <<7>>)
X == Raw("x", "BOOL", 1, 1)

InitializerLists ==
    {<<>>, <<W>>, <<W, AnotherW>>, <<AnotherW, X, W>>, <<W, Raw("", "BOOL", 1, 1)>>}

Dim(kind, value, param) == [kind |-> kind, value |-> value, param |-> param]

Value(name, dtype, dims) ==
    [name |-> name, tensor |-> TRUE, dtype |-> dtype, has_shape |-> dims # <<>>, dims |-> dims]

InX == Value("x", "FLOAT32", <<Dim("param", 0, "batch"), Dim("value", 2, "")>>)
InW == Value("w", "FLOAT32", <<Dim("value", 2, "")>>)
OutY == Value("y", "FLOAT32", <<>>)

\* inputs, value_infos and outputs; the last two cannot be described.
ValueLists ==
    {<< <<InX>>, <<>>, <<OutY>> >>,
     << <<InX, InW>>, <<Value("t", "INT64", <<Dim("none", 0, "")>>)>>, <<OutY>> >>,
     << <<InW, InX, InX>>, <<Value("x", "INT64", <<>>), OutY>>, <<Value("y", "BOOL", <<>>), InX>> >>,
     << <<InX>>, <<Value("t", "DOUBLE", <<>>)>>, <<OutY>> >>,
     << <<InX>>, <<>>, <<[OutY EXCEPT !.tensor = FALSE]>> >>}

OpsetLists ==
    {<<>>, << <<"ml", 3>>, <<"", 17>>, <<"ai.onnx", 18>> >>, << <<"ai.onnx", 18>>, <<"", 17>> >>}

Attribute(name, type, tensor) == [name |-> name, type |-> type, tensor |-> tensor]

Node(inputs_, outputs_, attributes_) ==
    [inputs |-> inputs_, outputs |-> outputs_, attributes |-> attributes_]

Axis == Attribute("axis", "INT", X)
A == Node(<<"x", "w">>, <<"t">>, <<Axis, Attribute("value", "TENSOR", AnotherW)>>)
B == Node(<<"t">>, <<"y">>, <<>>)

\* In order, out of order, waiting for each other, with a tensor produced
\* twice, with a graph and with an attribute given twice.
ModelNodes ==
    {<<A, B>>, <<B, A>>, <<Node(<<>>, <<"w">>, <<Axis>>), B, A>>,
     <<A, Node(<<"y">>, <<"x">>, <<>>), B>>,
     <<A, B, Node(<<"x">>, <<"t">>, <<>>)>>,
     <<A, Node(<<"t">>, <<"y">>, <<Attribute("body", "GRAPH", X)>>)>>,
     <<A, Node(<<"t">>, <<"y">>, <<Axis, Axis>>)>>}

Model(opsets_, initializers_, values_, nodes_) ==
    [opsets |-> opsets_, initializers |-> initializers_, inputs |-> values_[1],
     value_infos |-> values_[2], outputs |-> values_[3], nodes |-> nodes_]

Simple == << <<InX>>, <<>>, <<OutY>> >>

\* The same tensors as initializers and as attributes.
MCModels ==
    {Model(o, i, v, n) :
        o \in OpsetLists, i \in InitializerLists, v \in ValueLists, n \in ModelNodes}
    \cup {Model(<<>>, <<X, t>>, Simple, <<B>>) : t \in Tensors}
    \cup {Model(<<>>, <<>>, Simple, <<B, Node(<<"x">>, <<"t">>, <<Attribute("value", "TENSOR", t)>>)>>) :
            t \in Tensors}

MCNodeLists ==
    {[k \in DOMAIN n |-> [inputs |-> n[k].inputs, outputs |-> n[k].outputs]] : n \in ModelNodes}
=============================================================================
