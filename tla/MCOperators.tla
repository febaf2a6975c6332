---------------------------- MODULE MCOperators ----------------------------
(* Small shapes and calls for TLC, with axes of length 1 and 0. *)
EXTENDS Operators

MCShapes == {<<2, 3>>, <<3, 1, 2>>, <<2, 2, 2>>, <<4>>, <<1, 2>>, <<2, 0>>, <<1, 2, 2, 3>>}
MCTargets == {<<>>, <<6>>, <<3, 2>>, <<2, 1, 3>>, <<4>>, <<2, 2>>, <<8>>, <<1, 2>>,
              <<2>>, <<1>>, <<0, 3>>}
MCSlices == {<<0, 2, 1>>, <<1, 9, 1>>, <<0, 3, 2>>, <<-2, -1, 1>>, <<-9, 9, 2>>,
             <<1, 4, 3>>, <<2, 1, 1>>}

\* By rank: views of rank 4 are many.
MCMaxOps == [rank \in 0..3 |-> 4] @@ 4 :> 1

-----------------------------------------------------------------------------
(* The current view alone, as first operand or in another place. *)

Call(op, attrs, rest) ==
    [op |-> op, attrs |-> attrs, dtype |-> "FLOAT32", view |-> 1, rest |-> rest,
     indices |-> FALSE]

CallAt(op, attrs, view, rest) == [Call(op, attrs, rest) EXCEPT !.view = view]

CallOf(dtype, op, attrs, rest) == [Call(op, attrs, rest) EXCEPT !.dtype = dtype]

None == <<>>

Ints(values) == Dense("INT64", <<Len(values)>>, values)

Floats(shape) == Dense("FLOAT32", shape, [p \in 1..Numel(shape) |-> p])

Bools(shape) == Dense("BOOL", shape, [p \in 1..Numel(shape) |-> p % 2])

Shaping ==
    {Call("Unary", None, <<>>), CallOf("INT64", "Unary", None, <<>>)}
    \cup {Call("Cast", "to" :> to, <<>>) : to \in {1, 2, 6, 7, 9, 11}}
    \cup {Call("Shape", a, <<>>) :
            a \in {None, "start" :> -1, "start" :> 1 @@ "end" :> -9, "start" :> 1 @@ "end" :> 9}}
    \cup {Call("Flatten", a, <<>>) : a \in {None, "axis" :> 0, "axis" :> -1, "axis" :> 3}}
    \cup {Call("Reshape", None, <<Ints(v)>>) :
            v \in {<<-1>>, <<2, -1>>, <<0, -1>>, <<-1, 0>>, <<-1, -1>>, <<3, 2>>, <<>>, <<-2, 3>>,
                   <<0, 0, 0>>, <<4, -1>>}}
    \cup {Call("Reshape", "allowzero" :> 1, <<Ints(v)>>) : v \in {<<0, 3>>, <<0, -1>>}}
    \cup {Call("Reshape", None, <<r>>) : r \in {Floats(<<1>>), Dense("INT64", <<>>, <<6>>)}}
    \cup {Call("Squeeze", a, <<>>) : a \in {None, "axes" :> <<0>>, "axes" :> <<-2>>, "axes" :> <<1, -2>>}}
    \cup {Call("Squeeze", None, <<Ints(v)>>) : v \in {<<>>, <<1>>, <<-3, 1>>}}
    \cup {Call("Unsqueeze", a, <<>>) :
            a \in {None, "axes" :> <<0, -1>>, "axes" :> <<1, 2>>, "axes" :> <<5>>, "axes" :> <<1, -3>>}}
    \cup {Call("Unsqueeze", None, <<Ints(<<2, 0>>)>>)}
    \cup {Call("Constant", a, <<>>) :
            a \in {None} \cup {"value" :> [type |-> t, tensor |-> Dense("INT64", <<2, 2>>, <<4, 3, 2, 1>>)] :
                                t \in {"TENSOR", "INT"}}}

Copying ==
    {Call("Gather", a, <<i>>) :
        a \in {None, "axis" :> -1, "axis" :> 2},
        i \in {Dense("INT64", <<>>, <<1>>), Ints(<<0, -1>>), Ints(<<2>>), Ints(<<>>),
               Dense("INT64", <<2, 1>>, <<-2, 0>>), Floats(<<1>>)}}
    \cup {[CallAt("Gather", None, 2, <<Floats(<<5, 2>>)>>) EXCEPT !.dtype = "INT64"]}
    \cup {Call("Concat", "axis" :> x, r) :
            x \in {0, 1, -1}, r \in {<<>>, <<Floats(<<2, 3>>)>>, <<Floats(<<1, 2>>), Floats(<<0, 2>>)>>,
                                     <<Ints(<<1>>)>>}}
    \cup {CallAt("Concat", "axis" :> -2, 2, <<Floats(<<3, 2, 2>>), Floats(<<3, 1, 2>>)>>)}
    \cup {Call("Slice", None, r) :
            r \in {<<Ints(<<1>>), Ints(<<9>>)>>,
                   <<Ints(<<-2, 0>>), Ints(<<3, -1>>)>>,
                   <<Ints(<<0>>), Ints(<<3>>), Ints(<<-1>>), Ints(<<2>>)>>,
                   <<Ints(<<1, 0>>), Ints(<<-9, 2>>), Ints(<<1, 0>>), <<>> >>,
                   <<Ints(<<0>>), Ints(<<2>>), <<>>, Ints(<<2>>)>>,
                   <<Ints(<<2>>), Ints(<<0>>), Ints(<<0>>), Ints(<<-1>>)>>,
                   <<Ints(<<0>>), Ints(<<2, 2>>)>>, <<Ints(<<0>>), Ints(<<2>>), Ints(<<-4>>)>>}}
    \cup {Call("Expand", None, <<Ints(v)>>) : v \in {<<2, 3>>, <<3, 2, 2>>, <<2, 1, 2>>, <<3, 1>>, <<-1, 2>>}}
    \cup {CallOf("BOOL", "Where", None, <<Floats(<<3>>), Floats(<<>>)>>),
          CallAt("Where", None, 2, <<Bools(<<2, 1>>), Floats(<<1>>)>>),
          CallAt("Where", None, 3, <<Bools(<<2>>), Floats(<<3, 1, 1>>)>>),
          CallAt("Where", None, 3, <<Bools(<<2>>), Ints(<<1>>)>>)}

Computing ==
    {Call("Binary", None, <<t>>) :
        t \in {Floats(<<>>), Floats(<<3>>), Floats(<<2, 1>>), Floats(<<3, 1, 1>>), Floats(<<0>>), Ints(<<1>>)}}
    \cup {CallAt("Binary", None, 2, <<Floats(<<2, 2>>)>>)}
    \cup {Call("ReduceMean", a, <<>>) :
            a \in {None, "axes" :> <<-1>>, "axes" :> <<0>> @@ "keepdims" :> 0, "axes" :> <<1, -1>>,
                   "axes" :> <<2>> @@ "keepdims" :> 0, "keepdims" :> 0}}
    \cup {Call("Softmax", a, <<>>) : a \in {None, "axis" :> 0, "axis" :> 1, "axis" :> -3}}
    \cup {Call("MatMul", None, <<Floats(s)>>) : 
            s \in {<<2, 2>>, <<3, 1>>, <<2, 1, 2, 1>>, <<3, 2, 2>>, <<2>>, <<>>, <<2, 9>>, <<9, 9>>}}
    \cup {CallAt("MatMul", None, 2, <<Floats(s)>>) : s \in {<<1, 2>>, <<3, 1, 1, 2>>, <<2>>, <<9, 2>>}}
    \cup {Call("LayerNorm", None, <<Floats(<<w>>), Floats(<<v>>)>>) : w \in 2..3, v \in 2..3}
    \cup {CallAt("LayerNorm", None, 2, <<Floats(<<2, 3>>), Floats(<<3>>)>>)}
    \cup {Call("Gemm", a, r) :
            a \in {None, "transA" :> 1, "transB" :> 1, "transA" :> 1 @@ "transB" :> 1},
            r \in {<<Floats(<<3, 2>>)>>, <<Floats(<<3, 9>>)>>, <<Floats(<<2, 2>>), Floats(<<2, 1>>)>>,
                   <<Floats(<<2, 3>>), Floats(<<1, 3>>)>>, <<Floats(<<2, 2>>), Floats(<<1, 2, 2>>)>>}}

Vectors(n) == [i \in 1..4 |-> Floats(<<n>>)]

NoVariance == [Vectors(2) EXCEPT ![4] = Dense("FLOAT32", <<2>>, <<1, -1>>)]

\* For views of rank 4.
Windowed ==
    {Call("GlobalAveragePool", None, <<>>),
     Call("BatchNorm", None, Vectors(2)), Call("BatchNorm", None, Vectors(3)),
     Call("BatchNorm", None, NoVariance), Call("BatchNorm", "epsilon" :> 2, NoVariance),
     Call("BatchNorm", "epsilon" :> -1, Vectors(2))}
    \cup {Call("MaxPool", "kernel_shape" :> <<2, 2>> @@ a, <<>>) :
            a \in {None, "strides" :> <<2, 2>> @@ "ceil_mode" :> 1,
                   "pads" :> <<1, 0, 1, 1>> @@ "ceil_mode" :> 1 @@ "strides" :> <<2, 3>>,
                   "pads" :> <<1, 1, 1, 1>> @@ "strides" :> <<2, 2>>,
                   "dilations" :> <<1, 2>> @@ "pads" :> <<0, 1, 1, 0>>,
                   "pads" :> <<0, 1, 0, 1>> @@ "strides" :> <<1, 3>> @@ "ceil_mode" :> 1,
                   "pads" :> <<0, 0, 0, -1>>, "strides" :> <<0, 1>>, "storage_order" :> 1,
                   "dilations" :> <<2>>}}
    \cup {[Call("MaxPool", "kernel_shape" :> <<1, 1>>, <<>>) EXCEPT !.indices = TRUE]}
    \cup {Call("MaxPool", "kernel_shape" :> k, <<>>) : k \in {<<>>, <<1, 3>>, <<4, 1>>}}
    \cup {Call("Conv", a, r) :
            a \in {None, "group" :> 2, "pads" :> <<1, 0, 0, 1>> @@ "strides" :> <<1, 2>>,
                   "dilations" :> <<2, 1>> @@ "pads" :> <<1, 1, 1, 0>>, "group" :> 0,
                   "kernel_shape" :> <<2, 2>>},
            r \in {<<Floats(<<2, 2, 2, 1>>)>>, <<Floats(<<2, 1, 1, 2>>), Floats(<<2>>)>>,
                   <<Floats(<<4, 1, 2, 2>>), Floats(<<2>>)>>, <<Floats(<<1, 2, 3, 2>>)>>, <<Floats(<<1, 2, 2, 2>>)>>}}

\* Operands that are omitted, and an operator without a kernel.
Partial ==
    {Call(op, None, <<>>) : op \in {"Binary", "MatMul", "Where", "Gelu"}}
    \cup {Call("Slice", None, <<Ints(<<1>>), None, Ints(<<0>>)>>),
          Call("Concat", "axis" :> 0, <<None>>),
          Call("LayerNorm", None, <<Floats(<<2>>), None>>),
          CallAt("Unary", None, 2, <<None>>)}

MCCalls == Partial \cup Shaping \cup Copying \cup Computing \cup Windowed
=============================================================================
