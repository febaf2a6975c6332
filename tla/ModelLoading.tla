---------------------------- MODULE ModelLoading ----------------------------
(***************************************************************************)
(* What load_onnx promises: a model is turned into its graph or refused as *)
(* a whole.  Sections, loops and the sort do not exist here.               *)
(*                                                                         *)
(* A model (onnx::ModelProto) is a record of sequences: opsets, <<domain,  *)
(* version>>; initializers; inputs, value_infos and outputs, of value      *)
(* infos; nodes, [inputs, outputs, attributes].  Names left empty are "".  *)
(***************************************************************************)
EXTENDS Integers, Sequences, FiniteSets, Functions

VARIABLES
    model,
    outcome     \* <<>>, then Thrown or the graph

lvars == <<model, outcome>>

Thrown == [status |-> "thrown"]

Sizes == [FLOAT32 |-> 4, INT64 |-> 8, INT32 |-> 4, BOOL |-> 1, UINT8 |-> 1]

Fields == [FLOAT32 |-> "float_data", INT64 |-> "int64_data", INT32 |-> "int32_data",
           BOOL |-> "int32_data", UINT8 |-> "int32_data"]

Limits == [BOOL |-> 0..1, UINT8 |-> 0..255]

\* The elements are in raw_data, as many bytes as they need, or else one by
\* one in the field of the type.
Sound(tensor) ==
    /\ ~tensor.external /\ tensor.numel >= 0
    /\ tensor.dtype \in DOMAIN Sizes
    /\ IF tensor.raw_data > 0
       THEN tensor.raw_data = tensor.numel * Sizes[tensor.dtype]
       ELSE /\ tensor.numel = IF tensor.field = Fields[tensor.dtype] THEN Len(tensor.data) ELSE 0
            /\ tensor.numel > 0 /\ tensor.dtype \in DOMAIN Limits =>
                  Range(tensor.data) \subseteq Limits[tensor.dtype]

Kinds == {"INT", "FLOAT", "STRING", "INTS", "FLOATS", "TENSOR"}

SoundNode(node) ==
    \A i, j \in DOMAIN node.attributes :
        /\ node.attributes[i].type \in Kinds
        /\ node.attributes[i].type = "TENSOR" => Sound(node.attributes[i].tensor)
        /\ node.attributes[i].name = node.attributes[j].name => i = j

Infos(m) == m.inputs \o m.value_infos \o m.outputs

Reads(nodes, i, p) == p # i /\ Range(nodes[p].outputs) \cap Range(nodes[i].inputs) # {}

\* The orders in which every node comes after those it reads from.
ValidOrders(nodes) ==
    {order \in Bijection(DOMAIN nodes, DOMAIN nodes) :
        \A a, b \in DOMAIN order : Reads(nodes, order[a], order[b]) => b < a}

Earlier(order, other) ==
    \E k \in DOMAIN order : order[k] < other[k] /\ \A j \in 1..k-1 : order[j] = other[j]

\* Of the valid orders the one closest to the model's.
Sorted(nodes) ==
    LET first == CHOOSE order \in ValidOrders(nodes) :
                   \A other \in ValidOrders(nodes) \ {order} : Earlier(order, other)
    IN  [k \in DOMAIN nodes |-> nodes[first[k]]]

ProducedOnce(nodes) ==
    \A p, q \in DOMAIN nodes : \A a \in DOMAIN nodes[p].outputs, b \in DOMAIN nodes[q].outputs :
        nodes[p].outputs[a] = nodes[q].outputs[b] => p = q /\ a = b

Loadable(m) ==
    /\ \A i \in DOMAIN m.initializers : m.initializers[i].name # "" /\ Sound(m.initializers[i])
    /\ \A i \in DOMAIN Infos(m) : Infos(m)[i].tensor /\ Infos(m)[i].dtype \in DOMAIN Sizes
    /\ \A i \in DOMAIN m.nodes : SoundNode(m.nodes[i])
    /\ ProducedOnce(m.nodes)
    /\ ValidOrders(m.nodes) # {}

Named(seq, name) == {i \in DOMAIN seq : seq[i].name = name}

Names(seq) == {seq[i].name : i \in DOMAIN seq}

\* Bytes, where there are some, or elements.
Content(tensor) ==
    [dtype |-> tensor.dtype, numel |-> tensor.numel,
     storage |-> IF tensor.raw_data = 0 THEN <<"elements", tensor.data>>
                 ELSE <<"raw", tensor.raw_data>>]

\* A dimension is a number, a symbol or neither.
Info(value) ==
    [dtype |-> value.dtype,
     shape_known |-> value.has_shape,
     shape |-> [i \in DOMAIN value.dims |->
                  IF value.dims[i].kind = "value" THEN value.dims[i].value ELSE -1],
     dim_params |-> [i \in DOMAIN value.dims |->
                       IF value.dims[i].kind = "param" THEN value.dims[i].param ELSE ""]]

\* The first import of the default domain, if there is one.
OpsetVersion(m) ==
    LET default == {i \in DOMAIN m.opsets : m.opsets[i][1] \in {"", "ai.onnx"}}
    IN  IF default = {} THEN 0
        ELSE m.opsets[CHOOSE i \in default : \A j \in default : i <= j][2]

\* The first of two initializers of one name counts.
Initializers(m) ==
    [name \in Names(m.initializers) |->
        Content(m.initializers[CHOOSE i \in Named(m.initializers, name) :
                                  \A j \in Named(m.initializers, name) : i <= j])]

\* The last of two value infos counts, those of the outputs being the last.
ValueInfo(m) ==
    [name \in Names(Infos(m)) |->
        Info(Infos(m)[CHOOSE i \in Named(Infos(m), name) :
                         \A j \in Named(Infos(m), name) : i >= j])]

\* The k-th of a set of places.
Nth(places, k) == CHOOSE i \in places : Cardinality({j \in places : j <= i}) = k

\* A default value is not an input.
InputNames(m) ==
    LET given == {i \in DOMAIN m.inputs : m.inputs[i].name \notin Names(m.initializers)}
    IN  [k \in 1..Cardinality(given) |-> m.inputs[Nth(given, k)].name]

Loaded(m) ==
    [status |-> "ok",
     opset_version |-> OpsetVersion(m),
     initializers |-> Initializers(m),
     value_info |-> ValueInfo(m),
     input_names |-> InputNames(m),
     output_names |-> [k \in DOMAIN m.outputs |-> m.outputs[k].name],
     nodes |-> LET sorted == Sorted(m.nodes)
               IN  [k \in DOMAIN sorted |-> [inputs |-> sorted[k].inputs,
                                             outputs |-> sorted[k].outputs]]]

LInit == outcome = <<>>

Load ==
    /\ outcome = <<>>
    /\ outcome' = IF Loadable(model) THEN Loaded(model) ELSE Thrown
    /\ UNCHANGED model

LSpec == LInit /\ [][Load]_lvars /\ WF_lvars(Load)
=============================================================================
