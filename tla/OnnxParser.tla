----------------------------- MODULE OnnxParser -----------------------------
(***************************************************************************)
(* load_onnx of src/src/onnx_parser.cpp once the file is deserialized: the *)
(* message is read section by section, one action for each iteration, and  *)
(* the nodes are handed to sort_topologically, which is the module Graph.  *)
(* Models have the form that ModelLoading gives; of a tensor its element   *)
(* count stands for the shape, and of a node its inputs and outputs stay.  *)
(***************************************************************************)
EXTENDS Graph

CONSTANT Models

IsSequence(list) == list \in Seq(Range(list))

\* The element count is -1 where checked_numel refuses the dims.
IsTensorProto(tensor) ==
    tensor.numel \in Nat \cup {-1} /\ tensor.raw_data \in Nat /\ IsSequence(tensor.data)

\* The repeated fields of a message are sequences, and nodes name tensors.
ASSUME ModelsAssumption ==
    \A m \in Models :
        /\ IsSequence(m.opsets) /\ IsSequence(m.initializers) /\ IsSequence(m.inputs)
        /\ IsSequence(m.value_infos) /\ IsSequence(m.outputs) /\ IsSequence(m.nodes)
        /\ \A i \in DOMAIN m.initializers : IsTensorProto(m.initializers[i])
        /\ \A list \in {m.inputs, m.value_infos, m.outputs} :
              \A i \in DOMAIN list : IsSequence(list[i].dims)
        /\ \A i \in DOMAIN m.nodes :
              /\ m.nodes[i].inputs \in Seq(Tensor) /\ m.nodes[i].outputs \in Seq(Tensor)
              /\ IsSequence(m.nodes[i].attributes)
              /\ \A j \in DOMAIN m.nodes[i].attributes :
                    m.nodes[i].attributes[j].type = "TENSOR" =>
                        IsTensorProto(m.nodes[i].attributes[j].tensor)

VARIABLES
    model,          \* the message
    section,        \* which loop of load_onnx is running
    position,       \* its loop variable
    opset_version, initializers, value_info, input_names, output_names

sort_vars == <<phase, index, producer, indegree, consumers, ready, sorted>>
graph_vars == <<opset_version, initializers, value_info, input_names, output_names, nodes>>
load_vars == <<model, section, position, graph_vars, sort_vars>>

Loading == INSTANCE ModelLoading
             WITH outcome <-
               IF section = "thrown" \/ phase = "thrown" THEN [status |-> "thrown"]
               ELSE IF phase # "sorted" THEN <<>>
               ELSE [status |-> "ok", opset_version |-> opset_version,
                     initializers |-> initializers, value_info |-> value_info,
                     input_names |-> input_names, output_names |-> output_names,
                     nodes |-> nodes]

\* The fields of the message in the order they are read, inputs twice.
Sections == <<"opsets", "initializers", "inputs", "value_infos", "outputs", "names", "nodes">>

Listed ==
    IF section = "names" THEN model.inputs
    ELSE IF section = "opsets" THEN model.opsets
    ELSE IF section = "initializers" THEN model.initializers
    ELSE IF section = "inputs" THEN model.inputs
    ELSE IF section = "value_infos" THEN model.value_infos
    ELSE IF section = "outputs" THEN model.outputs
    ELSE model.nodes

LoadInit ==
    /\ model \in Models
    /\ section = "opsets" /\ position = 1
    /\ opset_version = 0
    /\ initializers = <<>> /\ value_info = <<>>
    /\ input_names = <<>> /\ output_names = <<>> /\ nodes = <<>>
    /\ phase = "idle" /\ index = 1
    /\ producer = <<>> /\ indegree = <<>> /\ consumers = <<>>
    /\ ready = {} /\ sorted = <<>>

\* The loop of this section at its next iteration.
In(name) == section = name /\ position \in DOMAIN Listed

Advance == position' = position + 1 /\ UNCHANGED <<model, section, sort_vars>>

ThrowLoading ==
    /\ section' = "thrown"
    /\ UNCHANGED <<model, position, graph_vars, sort_vars>>

-----------------------------------------------------------------------------
(* Tensors, value infos and attributes *)

Size(dtype) ==
    CASE dtype \in {"FLOAT32", "INT32"} -> 4
      [] dtype = "INT64" -> 8
      [] dtype \in {"BOOL", "UINT8"} -> 1

\* data_type
Supported(dtype) == dtype \in {"FLOAT32", "INT64", "INT32", "BOOL", "UINT8"}

\* How many elements the field holds that parse_tensor reads for the dtype.
FieldSize(proto) ==
    LET read == CASE proto.dtype = "FLOAT32" -> "float_data"
                  [] proto.dtype = "INT64" -> "int64_data"
                  [] proto.dtype \in {"INT32", "BOOL", "UINT8"} -> "int32_data"
    IN  IF proto.field = read THEN Len(proto.data) ELSE 0

\* raw_data has the size of the tensor, or else the field has, whose bytes and
\* booleans are checked one by one.
HoldsElements(proto) ==
    IF proto.raw_data > 0
    THEN proto.raw_data = proto.numel * Size(proto.dtype)
    ELSE /\ FieldSize(proto) = proto.numel
         /\ \A k \in 1..FieldSize(proto) :
              /\ proto.dtype = "BOOL" => proto.data[k] \in {0, 1}
              /\ proto.dtype \in {"BOOL", "UINT8"} => proto.data[k] \in 0..255

\* parse_tensor
TensorThrows(proto) ==
    proto.external \/ proto.numel < 0 \/ ~(Supported(proto.dtype) /\ HoldsElements(proto))

\* The tensor that parse_tensor returns; raw_data is copied as it is and goes
\* before a field.
ParseTensor(proto) ==
    [dtype |-> proto.dtype, numel |-> proto.numel,
     storage |-> IF proto.raw_data > 0 THEN <<"raw", proto.raw_data>>
                 ELSE <<"elements", proto.data>>]

\* parse_value_info
ParseInfo(value) ==
    [dtype |-> value.dtype,
     shape_known |-> value.has_shape,
     shape |-> FoldLeft(LAMBDA shape, dim :
                          Append(shape, IF dim.kind = "value" THEN dim.value ELSE -1),
                        <<>>, value.dims),
     dim_params |-> FoldLeft(LAMBDA params, dim :
                               Append(params, IF dim.kind = "param" THEN dim.param ELSE ""),
                             <<>>, value.dims)]

InfoThrows(value) == ~value.tensor \/ ~Supported(value.dtype)

\* parse_attribute
AttributeThrows(attribute) ==
    CASE attribute.type \in {"INT", "FLOAT", "STRING", "INTS", "FLOATS"} -> FALSE
      [] attribute.type = "TENSOR" -> TensorThrows(attribute.tensor)
      [] OTHER -> TRUE

\* emplace finds the name of an earlier attribute.
DuplicateAttribute(attributes, i) ==
    \E j \in 1..i-1 : attributes[j].name = attributes[i].name

-----------------------------------------------------------------------------
(* The loops *)

DefaultDomain(import) == import[1] \in {"", "ai.onnx"}

\* The loop breaks at the first import of the default domain.
ReadOpset ==
    /\ In("opsets")
    /\ IF DefaultDomain(Listed[position])
       THEN /\ opset_version' = Listed[position][2]
            /\ position' = Len(Listed) + 1
       ELSE position' = position + 1 /\ UNCHANGED opset_version
    /\ UNCHANGED <<model, section, initializers, value_info, input_names, output_names,
                   nodes, sort_vars>>

\* emplace keeps an initializer of the same name.
AddInitializer ==
    /\ In("initializers")
    /\ LET proto == Listed[position] IN
         /\ proto.name # "" /\ ~TensorThrows(proto)
         /\ initializers' = [name \in DOMAIN initializers \cup {proto.name} |->
                               IF name \in DOMAIN initializers THEN initializers[name] ELSE ParseTensor(proto)]
    /\ Advance
    /\ UNCHANGED <<opset_version, value_info, input_names, output_names, nodes>>

InitializerThrows ==
    /\ In("initializers")
    /\ Listed[position].name = "" \/ TensorThrows(Listed[position])
    /\ ThrowLoading

\* Fault: what is there stays.
MergeInfoKeeping(infos, value) ==
    [name \in DOMAIN infos \cup {value.name} |->
        IF name \in DOMAIN infos THEN infos[name] ELSE ParseInfo(value)]

\* The assignment of add_value_info.
MergeInfo(infos, value) ==
    [name \in DOMAIN infos \cup {value.name} |->
        IF name = value.name THEN ParseInfo(value) ELSE infos[name]]

AddValueInfo ==
    /\ In("inputs") \/ In("value_infos") \/ In("outputs")
    /\ ~InfoThrows(Listed[position])
    /\ value_info' = MergeInfo(value_info, Listed[position])
    /\ Advance
    /\ UNCHANGED <<opset_version, initializers, input_names, output_names, nodes>>

ValueInfoThrows ==
    /\ In("inputs") \/ In("value_infos") \/ In("outputs")
    /\ InfoThrows(Listed[position])
    /\ ThrowLoading

\* Fault: initializers are asked for as well.
IsExternalAlways(name) == TRUE

\* An input with an initializer has a default value.
IsExternal(name) == name \notin DOMAIN initializers

CollectInput ==
    /\ In("names")
    /\ input_names' = IF IsExternal(Listed[position].name)
                      THEN Append(input_names, Listed[position].name) ELSE input_names
    /\ Advance
    /\ UNCHANGED <<opset_version, initializers, value_info, output_names, nodes>>

AddNode ==
    /\ In("nodes")
    /\ LET node == Listed[position] IN
         /\ \A i \in DOMAIN node.attributes :
               ~AttributeThrows(node.attributes[i]) /\ ~DuplicateAttribute(node.attributes, i)
         /\ nodes' = Append(nodes, [inputs |-> node.inputs, outputs |-> node.outputs])
    /\ Advance
    /\ UNCHANGED <<opset_version, initializers, value_info, input_names, output_names>>

NodeThrows ==
    /\ In("nodes")
    /\ \E i \in DOMAIN Listed[position].attributes :
          \/ AttributeThrows(Listed[position].attributes[i])
          \/ DuplicateAttribute(Listed[position].attributes, i)
    /\ ThrowLoading

\* Fault: the loop variable goes on.
NextSectionAt(s) == section' = s /\ UNCHANGED position

NextSection(s) == section' = s /\ position' = 1

\* The names of the outputs are copied before the nodes are read.
EndSection ==
    /\ \E k \in 1..Len(Sections) - 1 :
         /\ section = Sections[k]
         /\ NextSection(Sections[k + 1])
    /\ position \notin DOMAIN Listed
    /\ output_names' = IF section = "names"
                       THEN [k \in DOMAIN model.outputs |-> model.outputs[k].name]
                       ELSE output_names
    /\ UNCHANGED <<model, opset_version, initializers, value_info, input_names, nodes, sort_vars>>

CallSort ==
    /\ section = "nodes"
    /\ position \notin DOMAIN Listed
    /\ NextSection("sort")
    /\ phase' = "producers"
    /\ indegree' = [i \in Nodes |-> 0]
    /\ consumers' = [i \in Nodes |-> {}]
    /\ UNCHANGED <<model, graph_vars, index, producer, ready, sorted>>

Sort ==
    /\ section = "sort"
    /\ Next
    /\ UNCHANGED <<model, section, position, opset_version, initializers, value_info,
                   input_names, output_names>>

LoadNext ==
    \/ ReadOpset
    \/ AddInitializer
    \/ InitializerThrows
    \/ AddValueInfo
    \/ ValueInfoThrows
    \/ CollectInput
    \/ AddNode
    \/ NodeThrows
    \/ EndSection
    \/ CallSort
    \/ Sort

\* A plain function: once called it runs to its end.
LoadSpec == LoadInit /\ [][LoadNext]_load_vars /\ WF_load_vars(LoadNext)

-----------------------------------------------------------------------------
(* Properties *)

\* Whatever is wrong with a model, wherever in the message, loading refuses it;
\* otherwise the graph is the one that the definition gives, with the first of
\* two initializers, the last of two value infos and the nodes in the valid
\* order closest to the model's.
ImplementsLoading == Loading!LSpec

\* What the engine and the planner take for granted of a graph: its inputs
\* have no default value and are described, every tensor has one producer, and
\* producers come first.
GraphReady ==
    phase = "sorted" =>
        /\ Range(input_names) \cap DOMAIN initializers = {}
        /\ Range(input_names) \cup Range(output_names) \subseteq DOMAIN value_info
        /\ \A i, p \in Nodes : Order!DependsOn(nodes, i, p) => p < i
        /\ ~Order!ProducedTwice(nodes)

\* The sections are read whole, one after the other: the sort runs on the
\* complete list of nodes and only then, and a refused model has no later part.
LoadTypeOK ==
    /\ section \in Range(Sections) \cup {"sort", "thrown"}
    /\ section # "thrown" => position \in 1..Len(Listed) + 1
    /\ phase # "idle" <=> section = "sort"
    /\ section = "nodes" => Len(nodes) = position - 1
    /\ section = "sort" => Len(nodes) = Len(model.nodes)
    /\ nodes # <<>> => Len(output_names) = Len(model.outputs)
=============================================================================
