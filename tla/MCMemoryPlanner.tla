-------------------------- MODULE MCMemoryPlanner --------------------------
(***************************************************************************)
(* Instances of MemoryPlanner for TLC: every graph of a few nodes, given   *)
(* by the producer, the last reader and the size of each tensor.           *)
(***************************************************************************)
EXTENDS MemoryPlanner, TLC

CONSTANT Nodes  \* nodes of the generated graphs, at most 4

MCTensor == 1..4

Info(dtype, shape, known) ==
    [dtype |-> dtype, shape |-> shape, shape_known |-> known]

\* 32 bytes, 64, and 100: less than, equal to and no multiple of the alignment.
Sizes == {Info("FLOAT32", <<2, 4>>, TRUE), Info("INT64", <<8>>, TRUE),
          Info("UINT8", <<10, 10>>, TRUE)}

Sorted(S) == SelectSeq(<<1, 2, 3, 4>>, LAMBDA t : t \in S)

\* Tensor t is produced by node producer[t] and read last by node last[t];
\* last[t] = producer[t] says that nobody reads t, Nodes + 1 that t is a
\* graph output.
MakeGraph(producer, last, infos) ==
    LET Node(n) ==
          [inputs |-> Sorted({t \in DOMAIN infos : last[t] = n /\ producer[t] < n}),
           outputs |-> Sorted({t \in DOMAIN infos : producer[t] = n})]
    IN  [nodes |-> SubSeq(<<Node(1), Node(2), Node(3), Node(4)>>, 1, Nodes),
         value_info |-> infos,
         initializers |-> {},
         output_names |-> {t \in DOMAIN infos : last[t] > Nodes}]

LastReaders(producer, tensors) ==
    {last \in [tensors -> 1..Nodes + 1] : \A t \in tensors : producer[t] <= last[t]}

\* One tensor for each node, all lifetimes and all sizes.
ChainGraphs ==
    {MakeGraph([t \in 1..Nodes |-> t], last, infos) :
        last \in LastReaders([t \in 1..Nodes |-> t], 1..Nodes),
        infos \in [1..Nodes -> Sizes]}

\* Three tensors, two of which have the same producer.
MultiOutputGraphs ==
    {MakeGraph(<<1, 2, 2>>, last, infos) :
        last \in LastReaders(<<1, 2, 2>>, 1..3), infos \in [1..3 -> Sizes]}

\* The ways a produced tensor stays out of the plan, sizes that do not fit
\* size_t, a tensor with two producers, a smaller tensor that comes first.
OddInfos == {Info("FLOAT32", <<-1, 4>>, TRUE), Info("FLOAT32", <<>>, FALSE),
             Info("FLOAT32", <<2, 0>>, TRUE), Info("FLOAT32", <<2, 4>>, TRUE),
             Info("UINT8", <<SizeMax, 2, 0>>, TRUE),
             Info("INT32", <<SizeMax>>, TRUE), Info("BOOL", <<960>>, TRUE)}

OddGraph(info, inits, second) ==
    [nodes |-> <<[inputs |-> <<>>, outputs |-> <<1>>],
                 [inputs |-> <<1>>, outputs |-> <<2>>],
                 [inputs |-> <<2>>, outputs |-> second]>>,
     value_info |-> (1 :> info @@ 2 :> Info("UINT8", <<10, 10>>, TRUE)
                     @@ 3 :> Info("BOOL", <<64>>, TRUE)),
     initializers |-> inits,
     output_names |-> {3}]

OddGraphs == {OddGraph(info, inits, second) :
                 info \in OddInfos, inits \in {{}, {1}},
                 second \in {<<3>>, <<2>>, <<3, 3>>, <<3, 1>>}}

MCGraphs == OddGraphs \cup MultiOutputGraphs \cup ChainGraphs

\* Four tensors that all stay alive.
OutputGraphs ==
    {MakeGraph(<<1, 2, 3, 4>>, [t \in 1..4 |-> Nodes + 1], infos) :
        infos \in [1..4 -> Sizes]}
=============================================================================
