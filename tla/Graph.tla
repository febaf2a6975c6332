------------------------------- MODULE Graph -------------------------------
(***************************************************************************)
(* sort_topologically of src/src/graph.cpp, the stable Kahn sort the loader *)
(* applies to the nodes of a model before an engine sees them.  One action *)
(* for each iteration of its loops.  An empty name (an omitted optional    *)
(* input or output) is left out of the sequences.                          *)
(***************************************************************************)
EXTENDS Integers, FiniteSets, SequencesExt

CONSTANTS
    Tensor,     \* the names
    NodeLists   \* graph.nodes as load_onnx may fill it: sequences of
                \* [inputs, outputs], themselves sequences of tensors

ASSUME NodeListsAssumption ==
    \A list \in NodeLists : list \in Seq([inputs : Seq(Tensor), outputs : Seq(Tensor)])

VARIABLES
    nodes,      \* graph.nodes
    phase,      \* which loop is running
    index,      \* its loop variable
    producer,   \* tensor -> index of the node that produces it
    indegree,   \* for each node, how many of its producers are not sorted
    consumers,  \* for each node, the nodes that wait for it
    ready,      \* the priority queue
    sorted      \* indices of the nodes moved to the result

vars == <<nodes, phase, index, producer, indegree, consumers, ready, sorted>>

Nodes == DOMAIN nodes

Order == INSTANCE TopologicalOrder
           WITH order <- sorted,
                outcome <- IF phase \in {"sorted", "thrown"} THEN phase ELSE "running"

Init ==
    /\ nodes \in NodeLists
    /\ phase = "producers"
    /\ index = 1
    /\ producer = <<>>
    /\ indegree = [i \in Nodes |-> 0]
    /\ consumers = [i \in Nodes |-> {}]
    /\ ready = {}
    /\ sorted = <<>>

Throw ==
    /\ phase' = "thrown"
    /\ UNCHANGED <<nodes, index, producer, indegree, consumers, ready, sorted>>

\* Fault: a node may list an output twice.
DuplicateElsewhere(i) == Range(nodes[i].outputs) \cap DOMAIN producer # {}

\* emplace fails for a name that is there, from this node or an earlier one.
Duplicate(i) ==
    \/ Range(nodes[i].outputs) \cap DOMAIN producer # {}
    \/ ~IsInjective(nodes[i].outputs)

IndexOutputs ==
    /\ phase = "producers"
    /\ index \in Nodes
    /\ ~Duplicate(index)
    /\ producer' =
         [t \in DOMAIN producer \cup Range(nodes[index].outputs) |->
            IF t \in DOMAIN producer THEN producer[t] ELSE index]
    /\ index' = index + 1
    /\ UNCHANGED <<nodes, phase, indegree, consumers, ready, sorted>>

DuplicateThrows ==
    /\ phase = "producers"
    /\ index \in Nodes
    /\ Duplicate(index)
    /\ Throw

ProducersDone ==
    /\ phase = "producers"
    /\ index \notin Nodes
    /\ phase' = "dependencies"
    /\ index' = 1
    /\ UNCHANGED <<nodes, producer, indegree, consumers, ready, sorted>>

\* Fault: producers are looked up in what has been seen so far.
DependenciesBefore(i) ==
    {producer[t] : t \in Range(nodes[i].inputs) \cap DOMAIN producer} \cap 1..i-1

\* A set: a node that reads two outputs of one producer waits for it once.
Dependencies(i) ==
    {producer[t] : t \in Range(nodes[i].inputs) \cap DOMAIN producer} \ {i}

\* Fault: one count for each input.
InputCount(i) ==
    Cardinality({t \in Range(nodes[i].inputs) \cap DOMAIN producer : producer[t] # i})

Indegree(i) == Cardinality(Dependencies(i))

CountDependencies ==
    /\ phase = "dependencies"
    /\ index \in Nodes
    /\ indegree' = [indegree EXCEPT ![index] = Indegree(index)]
    /\ consumers' = [i \in Nodes |-> IF i \in Dependencies(index)
                                     THEN consumers[i] \cup {index}
                                     ELSE consumers[i]]
    /\ index' = index + 1
    /\ UNCHANGED <<nodes, phase, producer, ready, sorted>>

\* Fault: <= 1 for == 0.
SeedTooMany ==
    /\ phase = "dependencies"
    /\ index \notin Nodes
    /\ ready' = {i \in Nodes : indegree[i] <= 1}
    /\ phase' = "sorting"
    /\ UNCHANGED <<nodes, index, producer, indegree, consumers, sorted>>

SeedReady ==
    /\ phase = "dependencies"
    /\ index \notin Nodes
    /\ ready' = {i \in Nodes : indegree[i] = 0}
    /\ phase' = "sorting"
    /\ UNCHANGED <<nodes, index, producer, indegree, consumers, sorted>>

\* Fault: std::less, which makes it a queue of the largest.
LargestReady == Max(ready)

Top == Min(ready)

Pop ==
    /\ phase = "sorting"
    /\ ready # {}
    /\ sorted' = Append(sorted, Top)
    /\ indegree' = [i \in Nodes |-> IF i \in consumers[Top]
                                    THEN indegree[i] - 1
                                    ELSE indegree[i]]
    /\ ready' = (ready \ {Top}) \cup {i \in consumers[Top] : indegree[i] = 1}
    /\ UNCHANGED <<nodes, phase, index, producer, consumers>>

\* The nodes in sorted have left graph.nodes by then; the loader, the only
\* caller, gives up the graph with the exception.
CycleThrows ==
    /\ phase = "sorting"
    /\ ready = {}
    /\ Len(sorted) # Len(nodes)
    /\ Throw

ReplaceNodes ==
    /\ phase = "sorting"
    /\ ready = {}
    /\ Len(sorted) = Len(nodes)
    /\ nodes' = [k \in DOMAIN sorted |-> nodes[sorted[k]]]
    /\ phase' = "sorted"
    /\ UNCHANGED <<index, producer, indegree, consumers, ready, sorted>>

Next ==
    \/ IndexOutputs
    \/ DuplicateThrows
    \/ ProducersDone
    \/ CountDependencies
    \/ SeedReady
    \/ Pop
    \/ CycleThrows
    \/ ReplaceNodes

Spec == Init /\ [][Next]_vars

\* A plain function: once called it runs to its end.
FairSpec == Spec /\ WF_vars(Next)

-----------------------------------------------------------------------------
(* Properties *)

\* The counters stay natural numbers, no node is sorted twice, and none is
\* queued that is sorted already.
TypeOK ==
    /\ phase \in {"producers", "dependencies", "sorting", "sorted", "thrown"}
    /\ index \in 1..Len(nodes) + 1
    /\ DOMAIN producer \subseteq Tensor
    /\ \A t \in DOMAIN producer : producer[t] \in Nodes
    /\ indegree \in [Nodes -> Nat]
    /\ consumers \in [Nodes -> SUBSET Nodes]
    /\ ready \subseteq Nodes
    /\ Range(sorted) \subseteq Nodes
    /\ IsInjective(sorted)
    /\ ready \cap Range(sorted) = {}

\* What the planner and the engine rely on: in a sorted graph a node comes
\* after every other node whose output it reads.
ProducersFirst ==
    phase = "sorted" => \A i, p \in Nodes : Order!DependsOn(nodes, i, p) => p < i

\* The sort is stable: nodes that come in a valid order keep it.
KeepsValidOrder ==
    [][phase' = "sorted" /\ (\A i, p \in Nodes : Order!DependsOn(nodes, i, p) => p < i)
         => nodes' = nodes]_vars

\* Node i needs the output of node p, directly or through other nodes.
Needs(i, p) ==
    LET from[k \in Nat] ==
          IF k = 0 THEN Order!Producers(nodes, i)
          ELSE from[k-1] \cup UNION {Order!Producers(nodes, q) : q \in from[k-1]}
    IN  p \in from[Len(nodes)]

HasCycle == \E i \in Nodes : Needs(i, i)

\* The sort throws for a reason and for every reason: a tensor with two
\* producers, or nodes that wait for each other.
ThrowsExactlyIfInvalid ==
    /\ phase = "thrown" => Order!ProducedTwice(nodes) \/ HasCycle
    /\ phase = "sorted" => ~Order!ProducedTwice(nodes) /\ ~HasCycle

\* Queue and counters do what the definition says: each node moved is the
\* first one whose producers are out, and the sort always comes to an end.
ImplementsOrder == Order!TSpec

\* "Graph construction rejects dependency cycles": a node that reads its own
\* output is one, too.
SelfDependencyThrows ==
    phase = "sorted" =>
        \A i \in Nodes : Range(nodes[i].inputs) \cap Range(nodes[i].outputs) = {}
=============================================================================
