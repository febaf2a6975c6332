------------------------- MODULE MCExecutionEngine -------------------------
(***************************************************************************)
(* Instances of ExecutionEngine for TLC: all models of three nodes over a  *)
(* small set of operators, with and without metadata, and a few models and *)
(* requests that must be refused.                                          *)
(***************************************************************************)
EXTENDS ExecutionEngine, TLC

MCTensor == 0..5     \* 0 is an initializer, 1 the input, 2.. the outputs

Info(dtype, shape, dim_params) ==
    [dtype |-> dtype, shape |-> shape, dim_params |-> dim_params, shape_known |-> TRUE]

\* The input is a batch of rows of 16 elements, of any or of one known size.
Batch == Info("FLOAT32", <<-1, 16>>, <<"batch", "">>)
FixedBatch == Info("FLOAT32", <<2, 16>>, <<"", "">>)

\* Cast goes from FLOAT32 to UINT8 and back.
Other(info) == IF info.dtype = "FLOAT32" THEN "UINT8" ELSE "FLOAT32"

Infer(op, in) ==
    CASE op = "Cast" -> [in EXCEPT !.dtype = Other(in)]
      [] op = "Transpose" -> [in EXCEPT !.shape = Reverse(@), !.dim_params = Reverse(@)]
      [] op = "Reshape" -> Info(in.dtype, <<Planner!Elements(in.shape)>>, <<"">>)
      [] OTHER -> in

\* Relu reads FLOAT32 only.
Fresh(op, in) == IF op = "Relu" /\ in.dtype # "FLOAT32" THEN "Cast" ELSE op

Node(op, in, outs) == [op |-> op, inputs |-> in, outputs |-> outs, to |-> "UINT8"]
NodeTo(op, in, outs, to) == [Node(op, in, outs) EXCEPT !.to = to]

Model(base, nodes, infos, outs) ==
    [nodes |-> nodes,
     input_names |-> <<1>>,
     initializers |-> (0 :> [dtype |-> "FLOAT32", shape |-> <<2, 16>>]),
     value_info |-> (1 :> base @@ infos),
     output_names |-> outs]

\* Node k produces tensor k + 1; the tensors in planned have metadata.
ThreeNodes(base, ops, in, planned, outs) ==
    LET i2 == Infer(ops[1], base)
        r3 == IF in[2][1] = 1 THEN base ELSE i2
        op3 == Fresh(ops[2], r3)
        i3 == Infer(op3, r3)
        r4 == CASE in[3][1] = 2 -> i2 [] in[3][1] = 3 -> i3 [] OTHER -> base
        op4 == Fresh(ops[3], r4)
        infos == 2 :> i2 @@ 3 :> i3 @@ 4 :> Infer(op4, r4)
    IN  Model(base,
              <<NodeTo(ops[1], in[1], <<2>>, Other(base)),
                NodeTo(op3, in[2], <<3>>, Other(r3)),
                NodeTo(op4, in[3], <<4>>, Other(r4))>>,
              [t \in planned |-> infos[t]], outs)

Ends == {<<"Relu", <<1>>>>, <<"Relu", <<3>>>>, <<"Transpose", <<2>>>>,
         <<"Transpose", <<3>>>>, <<"Add", <<2, 3>>>>}

\* Add is kept to FLOAT32 operands of one shape.
Endings(a) ==
    {x \in {"Relu", "Transpose"} \X Ends :
        x[2][1] = "Add" => x[1] = "Relu" /\ a = "Relu"}

ModelsFrom(a, plans) ==
    {ThreeNodes(Batch, <<a, bc[1], bc[2][1]>>, <<<<1>>, <<r>>, bc[2][2]>>, plan, outs) :
        r \in {1, 2}, bc \in Endings(a), plan \in plans, outs \in {{4}, {3, 4}}}

\* A view of a contiguous tensor, and the copy Reshape makes of any other.
ReshapeModels(plans) ==
    {ThreeNodes(FixedBatch, <<"Relu", ops[1], ops[2]>>, <<<<1>>, <<2>>, <<3>>>>, plan, {4}) :
        ops \in {<<"Reshape", "Relu">>, <<"Transpose", "Reshape">>,
                 <<"Reshape", "Transpose">>},
        plan \in plans}

ViewsPlanned(m) ==
    \A k \in DOMAIN m.nodes :
        m.nodes[k].op \in Views => m.nodes[k].outputs[1] \in DOMAIN m.value_info

MCModels ==
    LET plans == {{2, 3, 4}, {2, 4}, {3}, {}} IN
    ModelsFrom("Relu", plans) \cup ModelsFrom("Cast", plans) \cup ReshapeModels(plans)

SafeModels == {m \in MCModels : ViewsPlanned(m)}
UnsafeModels == MCModels \ SafeModels

Relu(in, out) == Node("Relu", <<in>>, <<out>>)

\* A view without metadata that is returned, and after it a node whose output
\* may have the slot of the viewed tensor and differs from it.
StrayModels ==
    {Model(base, <<Relu(1, 2), Node(view, <<2>>, <<3>>), Node("Sqrt", <<1>>, <<4>>)>>,
           2 :> base @@ 4 :> base, {3, 4}) :
        base \in {Batch, FixedBatch}, view \in Views}

\* A row of which the plan is a size_t and its arena is not.
LongRow == Info("FLOAT32", <<1, (SizeMax - 16) \div 4>>, <<"", "">>)

\* An unsupported operator; metadata that is wrong; a batch of one against an
\* initializer of two; an output the kernel does not write; nodes out of
\* order; an output nobody produces; a tensor whose size does not fit; a plan
\* that does not fit; one that no vector holds; one whose arena does not fit; a
\* batch of fixed size; two inputs with one symbol.
OddModels ==
    LET two == <<Relu(1, 2), Relu(2, 3)>> IN
    {Model(Batch, <<Relu(1, 2), Node("Softplus", <<2>>, <<3>>)>>, 2 :> Batch, {3}),
     Model(Batch, two, 3 :> Info("INT64", <<2, 16>>, <<"", "">>), {3}),
     Model(Batch, <<Node("Add", <<1, 0>>, <<2>>)>>, 2 :> Batch, {2}),
     Model(Batch, <<Relu(1, 2), Node("Relu", <<2>>, <<3, 5>>)>>,
           3 :> Batch @@ 5 :> Batch, {3}),
     Model(Batch, <<Relu(2, 3), Relu(1, 2)>>, 2 :> Batch @@ 3 :> Batch, {3}),
     Model(Batch, two, 2 :> Batch, {3, 5}),
     Model(Batch, two, 2 :> Info("UINT8", <<SizeMax>>, <<"">>)
                       @@ 3 :> Info("UINT8", <<SizeMax, 2>>, <<"", "">>), {3}),
     Model(Batch, two, 2 :> Info("UINT8", <<SizeMax - 9>>, <<"">>)
                       @@ 3 :> Info("UINT8", <<16>>, <<"">>), {2, 3}),
     Model(Batch, two, 2 :> Info("UINT8", <<MaxVector + 99>>, <<"">>), {3}),
     Model(LongRow, <<Relu(1, 2), Relu(1, 3)>>, 2 :> LongRow, {3}),
     Model(FixedBatch, two, 2 :> Info("FLOAT32", <<2, 16>>, <<>>), {3}),
     [Model(Batch, <<Node("Add", <<1, 5>>, <<2>>)>>, 5 :> Batch, {2}) EXCEPT
         !.input_names = <<1, 5>>]}

\* The models that Inference describes: those above with every view planned or
\* nothing planned at all, and the odd ones.
SoundModels ==
    SafeModels \cup {m \in UnsafeModels : DOMAIN m.value_info = {1}} \cup OddModels

Value(shape, value) == [dtype |-> "FLOAT32", shape |-> shape, value |-> value]

\* Two batches of two and one of one row; what a model refuses: a missing
\* input, a wrong dtype, a wrong rank, two different values for "batch".
Good == {1 :> Value(<<2, 16>>, "a"), 1 :> Value(<<1, 16>>, "b")}
Refused == {<<>>, 1 :> [dtype |-> "INT64", shape |-> <<2, 16>>, value |-> "a"],
            1 :> Value(<<16>>, "a"),
            1 :> Value(<<2, 16>>, "a") @@ 5 :> Value(<<1, 16>>, "b"),
            1 :> Value(<<2, 16>>, "a") @@ 5 :> Value(<<2, 16>>, "b")}
AllRequests == Good \cup Refused \cup {1 :> Value(LongRow.shape, "c")}

\* A run throws only for a reason: on a model of known operators with true
\* metadata, a batch of FLOAT32 rows always gets its outputs, unless there is no
\* memory for the arena.
WellFormedRunsReturn ==
    /\ graph_ \in SafeModels
    /\ inputs \in Good
    /\ graph_.value_info[1].shape[1] \in {-1, inputs[1].shape[1]}
    /\ result.status = "thrown"
    => memory_plan_.total_bytes # 0 /\ memory_plan_.total_bytes + 63 > arena_.capacity
=============================================================================
