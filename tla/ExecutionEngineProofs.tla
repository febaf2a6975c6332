------------------------ MODULE ExecutionEngineProofs ------------------------
(***************************************************************************)
(* Proofs about ExecutionEngine, for every set of models in single         *)
(* assignment form, all shapes, every width of size_t and any number of    *)
(* runs.                                                                   *)
(***************************************************************************)
EXTENDS ExecutionEngine, RecursionProofs

PlannerProofs == INSTANCE MemoryPlannerProofs
                   WITH Graphs <- {}, graph <- resolved

-----------------------------------------------------------------------------
(* The inductive invariant *)

Nodes == graph_.nodes
NodeOutput(m, k) == m.nodes[k].outputs[1]

\* How many nodes have been dispatched, while the nodes run.
Dispatched == IF pc = "materialize" THEN node ELSE node - 1

\* The tensors that exist once the first k nodes of m have run.
Known(m, k) == Given(m) \cup {NodeOutput(m, j) : j \in 1..k}

\* None of the first k nodes reads what comes later.
InOrder(m, k) == \A j \in 1..k : Range(m.nodes[j].inputs) \subseteq Known(m, j - 1)

Running == pc \in {"dispatch", "materialize"}

ControlInv ==
    /\ graph_ \in Models
    /\ memory_planner_enabled_ \in BOOLEAN /\ profiling_ \in BOOLEAN
    /\ runs \in 0..MaxRuns
    /\ pc \in {"idle", "rejected", "symbols", "planning", "dispatch", "materialize"}
    /\ pc = "idle" <=> result.status # "running"
    /\ phase = "none" <=> pc # "planning"
    /\ pc # "idle" \/ result.status = "ok" => inputs \in Requests
    /\ pc \in {"symbols", "planning", "dispatch", "materialize"} \/ result.status = "ok" =>
         Range(graph_.input_names) \subseteq DOMAIN inputs
    /\ ~Running => node = 0
    /\ pc = "dispatch" => node \in 1..Len(Nodes) + 1
    /\ pc = "materialize" => node \in 1..Len(Nodes) /\ output \in 1..Len(Nodes[node].outputs) + 1

PlannerIdle ==
    /\ phase = "none"
    /\ lifetimes = <<>>
    /\ pending = {}
    /\ slots = <<>>
    /\ tensor_slots = <<>>
    /\ total_bytes = 0

\* The planner works on the nodes of the model, and past the lifetimes only if
\* it is enabled.
PlanningInv ==
    /\ pc = "planning" =>
          /\ PlannerProofs!IInv
          /\ resolved.nodes = graph_.nodes
          /\ resolved.output_names = graph_.output_names
          /\ phase = "done" => memory_planner_enabled_
    /\ pc # "planning" => PlannerIdle

Placed(dtype, shape, strides, offset, generation, views) ==
    [in_arena |-> TRUE, dtype |-> dtype, shape |-> shape, strides |-> strides,
     offset |-> offset, generation |-> generation, views |-> views]

\* A tensor owns its bytes or shows a part of the arena of this generation.
TensorTyped(generation, x) ==
    /\ Shaped(x)
    /\ x.in_arena \in BOOLEAN
    /\ ~x.in_arena => x = Owned(x.dtype, x.shape, x.content)
    /\ x.in_arena =>
         /\ x = Placed(x.dtype, x.shape, x.strides, x.offset, generation, x.views)
         /\ x.offset \in Nat

\* Before the nodes run, every tensor owns its bytes; arena tensors come from a
\* plan only.
MapInv ==
    /\ DOMAIN tensor_map_ \subseteq Tensor
    /\ \A t \in DOMAIN tensor_map_ :
          /\ TensorTyped(arena_.generation, tensor_map_[t])
          /\ tensor_map_[t].in_arena =>
               /\ pc \notin {"rejected", "symbols", "planning"}
               /\ DOMAIN memory_plan_.tensor_slots # {}

ArenaTyped ==
    /\ DOMAIN arena_ = {"generation", "capacity", "content"}
    /\ arena_.capacity \in Nat
    /\ DOMAIN arena_.content \subseteq Nat
    /\ \A o \in DOMAIN arena_.content :
          /\ DOMAIN arena_.content[o] = {"size", "content"}
          /\ arena_.content[o].size \in Nat

PlanInv ==
    /\ memory_plan_.tensor_slots \in
         [DOMAIN memory_plan_.tensor_slots -> [offset : Nat, size : 1..SizeMax]]
    /\ DOMAIN memory_plan_.tensor_slots \subseteq Tensor
    /\ DOMAIN memory_plan_.tensor_slots = {} => arena_.content = <<>>
    /\ Running /\ DOMAIN memory_plan_.tensor_slots # {} => memory_planner_enabled_
    /\ ArenaTyped

\* What is bound to the inputs and the initializers.
BoundInv ==
    pc \in {"symbols", "planning"} =>
        /\ DOMAIN tensor_map_ = Given(graph_)
        /\ \A t \in DOMAIN tensor_map_ :
              tensor_map_[t].content = Abstract!Given(graph_, inputs)[t]

\* The output of the current node on its way from the kernel to its slot.
Fresh(t) == pc = "materialize" /\ output = 1 /\ t = NodeOutput(graph_, node)

\* While the nodes run, the map has the tensors of the nodes dispatched, and
\* what lies in the arena and has a slot lies there.
OrderInv ==
    Running =>
        /\ InOrder(graph_, Dispatched)
        /\ DOMAIN tensor_map_ = Known(graph_, Dispatched)
        /\ \A t \in DOMAIN tensor_map_ :
              /\ tensor_map_[t].in_arena
              /\ t \in DOMAIN memory_plan_.tensor_slots
              /\ ~Fresh(t)
              => /\ tensor_map_[t].offset = memory_plan_.tensor_slots[t].offset
                 /\ tensor_map_[t].views = <<>>
                 /\ \E d \in 1..Dispatched : t = NodeOutput(graph_, d)

\* A later node or the caller reads t.
Live(t) ==
    \/ \E k \in Dispatched + 1..Len(Nodes) : t \in Range(Nodes[k].inputs)
    \/ t \in graph_.output_names

Apart(t, u) ==
    LET a == memory_plan_.tensor_slots[t]
        b == memory_plan_.tensor_slots[u]
    IN  a.offset + a.size <= b.offset \/ b.offset + b.size <= a.offset

\* The installed plan lies within the arena and keeps a tensor that is still
\* read apart from what a node writes.
PlanSafe ==
    /\ \A t \in DOMAIN memory_plan_.tensor_slots :
          memory_plan_.tensor_slots[t].offset + memory_plan_.tensor_slots[t].size
            <= arena_.capacity
    /\ \A t, u \in DOMAIN memory_plan_.tensor_slots : \A d, e \in 1..Len(Nodes) :
          /\ t \in Range(Nodes[d].outputs)
          /\ u \in Range(Nodes[e].outputs)
          /\ d < e
          /\ \/ t \in graph_.output_names
             \/ \E k \in 1..Len(Nodes) : t \in Range(Nodes[k].inputs) /\ e < k
          => Apart(t, u)

\* The bytes of t are those written for it.
Written(t) ==
    LET slot == memory_plan_.tensor_slots[t] IN
    /\ slot.offset \in DOMAIN arena_.content
    /\ arena_.content[slot.offset].size = slot.size

\* The views of what was written.
Shown(base, views) ==
    FoldLeft(LAMBDA acc, v : Abstract!Apply(v, <<acc>>), base, views)

\* What lies at the place of x in the arena a.
ContentIn(a, x) ==
    IF ~x.in_arena THEN x.content
    ELSE IF x.generation # a.generation \/ x.offset \notin DOMAIN a.content
         THEN Garbage
         ELSE Shown(a.content[x.offset].content, x.views)

\* Under such a plan, and without stray views, what is still read has the value
\* that the graph gives it.
ValueInv ==
    Running /\ PlanSafe /\ ~StrayView =>
        \A t \in DOMAIN tensor_map_ :
            Live(t) \/ Fresh(t) =>
                /\ ContentIn(arena_, tensor_map_[t]) = Abstract!Values(graph_, inputs)[t]
                /\ tensor_map_[t].in_arena /\ ~Fresh(t) => Written(t)

ResultInv ==
    result.status = "ok" =>
        /\ graph_.output_names \subseteq DOMAIN Abstract!Values(graph_, inputs)
        /\ PlanSafe /\ ~StrayView => result.outputs = Abstract!Meaning(graph_, inputs)

\* Every node that has run is counted once, if it is profiled.
TimesInv ==
    /\ Naturals(op_times_ms_)
    /\ pc \in {"rejected", "symbols", "planning"} => op_times_ms_ = <<>>
    /\ Running => Total(op_times_ms_) = IF profiling_ THEN node - 1 ELSE 0
    /\ result.status = "ok" => Total(op_times_ms_) \in {0, Len(Nodes)}

\* As long as no plan wraps around and the size of the arena does not either,
\* the plan the nodes run by is safe and nothing reaches out of the arena.  A
\* plan whose arena could not be had stays behind, for no node.
SafeInv ==
    /\ (Running \/ result.status = "ok") /\ ArenaFits => PlanSafe
    /\ Running /\ memory_plan_.total_bytes # 0 /\ ArenaFits =>
         memory_plan_.total_bytes + 63 <= arena_.capacity
    /\ \A t \in DOMAIN tensor_map_ :
          tensor_map_[t].in_arena /\ ArenaFits =>
            tensor_map_[t].offset + NBytes(tensor_map_[t]) <= arena_.capacity

EInv ==
    /\ ControlInv /\ PlanningInv /\ MapInv /\ PlanInv
    /\ BoundInv /\ OrderInv /\ ValueInv /\ ResultInv /\ TimesInv

-----------------------------------------------------------------------------
(* The planner of this module and that of the proofs are the same *)

LEMMA PlannerOperators ==
    /\ \A s : Planner!Elements(s) = Product(s)
    /\ \A s : PlannerProofs!Elements(s) = Product(s)
    /\ Planner!DtypeSize = PlannerProofs!DtypeSize
BY DEF Planner!Elements, PlannerProofs!Elements, Product, Planner!DtypeSize,
       PlannerProofs!DtypeSize, FoldFunction, FoldFunctionOnSet, MapThenFoldSet,
       Planner!FoldFunction, Planner!FoldFunctionOnSet, Planner!MapThenFoldSet,
       PlannerProofs!FoldFunction, PlannerProofs!FoldFunctionOnSet,
       PlannerProofs!MapThenFoldSet

LEMMA PlannerValues ==
    /\ \A s : Planner!Range(s) = Range(s)
    /\ \A s : PlannerProofs!Range(s) = Range(s)
    /\ \A info : Planner!TensorBytes(info) = PlannerProofs!TensorBytes(info)
    /\ \A info : Planner!TensorOverflows(info) = PlannerProofs!TensorOverflows(info)
    /\ \A v : Planner!AlignUp(v) = PlannerProofs!AlignUp(v)
    /\ \A v : Planner!AlignOverflows(v) = PlannerProofs!AlignOverflows(v)
    /\ \A v : Planner!Wrap(v) = PlannerProofs!Wrap(v)
<1>1. \A s : Planner!Range(s) = Range(s) /\ PlannerProofs!Range(s) = Range(s)
  BY DEF Range, Planner!Range, PlannerProofs!Range
<1>2. \A info : Planner!TensorBytes(info) = PlannerProofs!TensorBytes(info)
  BY PlannerOperators
     DEF Planner!TensorBytes, PlannerProofs!TensorBytes, Planner!Concrete,
         PlannerProofs!Concrete
<1>3. \A info : Planner!TensorOverflows(info) = PlannerProofs!TensorOverflows(info)
  BY <1>2, PlannerOperators, Zenon
     DEF Planner!TensorOverflows, PlannerProofs!TensorOverflows
<1>4. \A v : /\ Planner!AlignUp(v) = PlannerProofs!AlignUp(v)
             /\ Planner!AlignOverflows(v) = PlannerProofs!AlignOverflows(v)
             /\ Planner!Wrap(v) = PlannerProofs!Wrap(v)
  BY DEF Planner!AlignUp, PlannerProofs!AlignUp, Planner!AlignOverflows,
         PlannerProofs!AlignOverflows, Planner!Wrap, PlannerProofs!Wrap,
         Planner!Alignment, PlannerProofs!Alignment
<1>. QED
  BY <1>1, <1>2, <1>3, <1>4

LEMMA PlannerScan ==
    /\ Planner!NodeCount = PlannerProofs!NodeCount
    /\ \A n : /\ Planner!Inputs(n) = PlannerProofs!Inputs(n)
              /\ Planner!Outputs(n) = PlannerProofs!Outputs(n)
              /\ Planner!Plannable(n) = PlannerProofs!Plannable(n)
              /\ Planner!ScanFails(n) = PlannerProofs!ScanFails(n)
<1>1. Planner!NodeCount = PlannerProofs!NodeCount
  BY DEF Planner!NodeCount, PlannerProofs!NodeCount
<1>2. \A n : /\ Planner!Inputs(n) = PlannerProofs!Inputs(n)
             /\ Planner!Outputs(n) = PlannerProofs!Outputs(n)
  BY PlannerValues
     DEF Planner!Inputs, PlannerProofs!Inputs, Planner!Outputs, PlannerProofs!Outputs
<1>3. \A n : Planner!Described(n) = PlannerProofs!Described(n)
  BY <1>2 DEF Planner!Described, PlannerProofs!Described
<1>4. \A n : Planner!Plannable(n) = PlannerProofs!Plannable(n)
  BY <1>3, PlannerValues DEF Planner!Plannable, PlannerProofs!Plannable
<1>5. \A n : Planner!ProducedTwice(n) = PlannerProofs!ProducedTwice(n)
  BY <1>4, Zenon DEF Planner!ProducedTwice, PlannerProofs!ProducedTwice
<1>6. \A n : Planner!ScanFails(n) = PlannerProofs!ScanFails(n)
  BY <1>3, <1>5, PlannerValues, Zenon DEF Planner!ScanFails, PlannerProofs!ScanFails
<1>. QED
  BY <1>1, <1>2, <1>4, <1>6

LEMMA PlannerPlaces ==
    \A t : /\ Planner!NextInOrder(t) = PlannerProofs!NextInOrder(t)
           /\ Planner!Candidates(t) = PlannerProofs!Candidates(t)
           /\ \A i : Planner!BestFit(t, i) = PlannerProofs!BestFit(t, i)
           /\ \A o : Planner!Assign(t, o) = PlannerProofs!Assign(t, o)
<1>1. \A t : Planner!NextInOrder(t) = PlannerProofs!NextInOrder(t)
  <2>1. \A t, u : Planner!Before(t, u) = PlannerProofs!Before(t, u)
    BY Zenon DEF Planner!Before, PlannerProofs!Before
  <2>. QED
    BY <2>1, Zenon DEF Planner!NextInOrder, PlannerProofs!NextInOrder
<1>2. \A t : Planner!Candidates(t) = PlannerProofs!Candidates(t)
  <2>1. \A a, b : Planner!Overlaps(a, b) = PlannerProofs!Overlaps(a, b)
    BY Zenon DEF Planner!Overlaps, PlannerProofs!Overlaps
  <2>. QED
    BY <2>1 DEF Planner!Candidates, PlannerProofs!Candidates
<1>3. \A t, i : Planner!BestFit(t, i) = PlannerProofs!BestFit(t, i)
  BY <1>2, Zenon DEF Planner!BestFit, PlannerProofs!BestFit
<1>4. \A t, o : Planner!Assign(t, o) = PlannerProofs!Assign(t, o)
  BY Zenon DEF Planner!Assign, PlannerProofs!Assign
<1>. QED
  BY <1>1, <1>2, <1>3, <1>4, Zenon

LEMMA PlannerNext == Planner!Next => PlannerProofs!Next
<1>1. Planner!ScanProducer => PlannerProofs!ScanProducer
  BY PlannerScan, PlannerValues DEF Planner!ScanProducer, PlannerProofs!ScanProducer
<1>2. Planner!ScanThrows => PlannerProofs!ScanThrows
  BY PlannerScan DEF Planner!ScanThrows, PlannerProofs!ScanThrows, Planner!Throw,
                     PlannerProofs!Throw
<1>3. Planner!ProducersDone => PlannerProofs!ProducersDone
  BY PlannerScan DEF Planner!ProducersDone, PlannerProofs!ProducersDone
<1>4. Planner!ScanConsumer => PlannerProofs!ScanConsumer
  BY PlannerScan DEF Planner!ScanConsumer, PlannerProofs!ScanConsumer,
                     Planner!Extend, PlannerProofs!Extend
<1>5. Planner!KeepOutputs => PlannerProofs!KeepOutputs
  BY PlannerScan DEF Planner!KeepOutputs, PlannerProofs!KeepOutputs
<1>6. \A t : Planner!PlaceInNewSlot(t) => PlannerProofs!PlaceInNewSlot(t)
  BY PlannerPlaces, PlannerValues
     DEF Planner!PlaceInNewSlot, PlannerProofs!PlaceInNewSlot
<1>7. \A t : Planner!ReuseSlot(t) => PlannerProofs!ReuseSlot(t)
  BY PlannerPlaces DEF Planner!ReuseSlot, PlannerProofs!ReuseSlot
<1>8. \A t : Planner!AlignThrows(t) => PlannerProofs!AlignThrows(t)
  BY PlannerPlaces, PlannerValues
     DEF Planner!AlignThrows, PlannerProofs!AlignThrows, Planner!Throw,
         PlannerProofs!Throw
<1>9. Planner!ReturnPlan => PlannerProofs!ReturnPlan
  BY DEF Planner!ReturnPlan, PlannerProofs!ReturnPlan
<1>. QED
  BY <1>1, <1>2, <1>3, <1>4, <1>5, <1>6, <1>7, <1>8, <1>9, Zenon
     DEF Planner!Next, PlannerProofs!Next

LEMMA PlannerContinues == PlannerProofs!IInv /\ Planner!Next => PlannerProofs!IInv'
<1>1. PlannerProofs!IInv /\ PlannerProofs!Next => PlannerProofs!IInv'
  BY PlannerProofs!Continues, TensorAssumption, BoundsAssumption
<1>. QED
  BY <1>1, PlannerNext

LEMMA PlannerStarts ==
    PlannerProofs!WellFormed' /\ PlannerProofs!Started' => PlannerProofs!IInv'
<1>1. PlannerProofs!WellFormed /\ PlannerProofs!Started => PlannerProofs!IInv
  BY PlannerProofs!Starts, TensorAssumption, BoundsAssumption
<1>. QED
  BY <1>1, PTL

\* What the engine relies on when it takes over a plan.
LEMMA PlannerPromises ==
    PlannerProofs!IInv =>
        /\ phase \in {"producers", "consumers", "placing", "done", "thrown"}
        /\ DOMAIN tensor_slots \subseteq Tensor
        /\ tensor_slots \in [DOMAIN tensor_slots -> [offset : Nat, size : 1..SizeMax]]
        /\ total_bytes \in Nat
        /\ DOMAIN tensor_slots = {} => total_bytes = 0
        /\ Planner!NoWrap =>
             \A t \in DOMAIN tensor_slots :
                tensor_slots[t].offset + tensor_slots[t].size <= total_bytes
<1> SUFFICES ASSUME PlannerProofs!IInv PROVE
        /\ phase \in {"producers", "consumers", "placing", "done", "thrown"}
        /\ DOMAIN tensor_slots \subseteq Tensor
        /\ tensor_slots \in [DOMAIN tensor_slots -> [offset : Nat, size : 1..SizeMax]]
        /\ total_bytes \in Nat
        /\ DOMAIN tensor_slots = {} => total_bytes = 0
        /\ Planner!NoWrap =>
             \A t \in DOMAIN tensor_slots :
                tensor_slots[t].offset + tensor_slots[t].size <= total_bytes
  OBVIOUS
<1>1. PlannerProofs!TypeOK /\ PlannerProofs!PlacedInv
  BY DEF PlannerProofs!IInv, PlannerProofs!Typed, PlannerProofs!PlanInv
<1>2. /\ phase \in {"producers", "consumers", "placing", "done", "thrown"}
      /\ DOMAIN tensor_slots \subseteq Tensor
      /\ tensor_slots \in [DOMAIN tensor_slots -> [offset : Nat, size : 1..SizeMax]]
      /\ total_bytes \in Nat
  BY <1>1, BoundsAssumption DEF PlannerProofs!TypeOK
<1>3. DOMAIN tensor_slots = {} => total_bytes = 0
  BY <1>1 DEF PlannerProofs!PlacedInv
<1>4. Planner!NoWrap => PlannerProofs!NoWrap
  BY DEF Planner!NoWrap, PlannerProofs!NoWrap
<1>5. PlannerProofs!WithinArena
  BY PlannerProofs!PlanFitsArena, TensorAssumption, BoundsAssumption
<1>. QED
  BY <1>2, <1>3, <1>4, <1>5 DEF PlannerProofs!WithinArena

LEMMA PlannerKeepsReads ==
    ASSUME PlannerProofs!IInv, phase = "done", Planner!NoWrap,
           NEW t \in DOMAIN tensor_slots, NEW u \in DOMAIN tensor_slots,
           NEW d \in 1..Len(resolved.nodes), NEW e \in 1..Len(resolved.nodes),
           t \in Range(resolved.nodes[d].outputs),
           u \in Range(resolved.nodes[e].outputs),
           d < e,
           \/ t \in resolved.output_names
           \/ \E k \in 1..Len(resolved.nodes) :
                 t \in Range(resolved.nodes[k].inputs) /\ e < k
    PROVE  \/ tensor_slots[t].offset + tensor_slots[t].size <= tensor_slots[u].offset
           \/ tensor_slots[u].offset + tensor_slots[u].size <= tensor_slots[t].offset
<1>1. PlannerProofs!ReadsIntact
  BY PlannerProofs!PlanKeepsReads, TensorAssumption, BoundsAssumption
<1>2. PlannerProofs!NoWrap
  BY DEF Planner!NoWrap, PlannerProofs!NoWrap
<1>3. PlannerProofs!NodeCount = Len(resolved.nodes)
  BY DEF PlannerProofs!NodeCount
<1>4. /\ t \in PlannerProofs!Outputs(d) /\ u \in PlannerProofs!Outputs(e)
      /\ \A k : Range(resolved.nodes[k].inputs) = PlannerProofs!Inputs(k)
  BY PlannerValues DEF PlannerProofs!Outputs, PlannerProofs!Inputs
<1>. QED
  BY <1>1, <1>2, <1>3, <1>4 DEF PlannerProofs!ReadsIntact, PlannerProofs!SlotsDisjoint

-----------------------------------------------------------------------------
(* The values that Inference gives to the tensors of a model *)

LEMMA SameValues ==
    /\ \A n, args : Infer!Apply(n, args) = Abstract!Apply(n, args)
    /\ \A m, r : /\ Infer!Given(m, r) = Abstract!Given(m, r)
                 /\ Infer!Values(m, r) = Abstract!Values(m, r)
BY DEF Infer!Apply, Abstract!Apply, Infer!Given, Abstract!Given, Infer!Values, Abstract!Values,
       Infer!InputTerm, Abstract!InputTerm, Infer!InitializerTerm, Abstract!InitializerTerm,
       Infer!Range, Abstract!Range

-----------------------------------------------------------------------------
(* Models in single assignment form *)

LEMMA ModelFacts ==
    ASSUME NEW m \in Models
    PROVE  /\ Len(m.nodes) \in Nat /\ DOMAIN m.nodes = 1..Len(m.nodes)
           /\ Given(m) \subseteq Tensor
           /\ Len(m.input_names) \in Nat
           /\ DOMAIN m.input_names = 1..Len(m.input_names)
           /\ \A t \in DOMAIN m.initializers : Shaped(m.initializers[t])
           /\ \A k \in 1..Len(m.nodes) :
                 /\ WellFormedNode(m.nodes[k])
                 /\ 1 \in DOMAIN m.nodes[k].outputs
                 /\ Range(m.nodes[k].outputs) \subseteq Tensor
                 /\ NodeOutput(m, k) \in Range(m.nodes[k].outputs)
                 /\ NodeOutput(m, k) \in Tensor
<1>1. ASSUME NEW k \in 1..Len(m.nodes)
      PROVE  /\ WellFormedNode(m.nodes[k])
             /\ 1 \in DOMAIN m.nodes[k].outputs
             /\ Range(m.nodes[k].outputs) \subseteq Tensor
             /\ NodeOutput(m, k) \in Range(m.nodes[k].outputs)
             /\ NodeOutput(m, k) \in Tensor
  <2> DEFINE outs == m.nodes[k].outputs
  <2>1. WellFormedNode(m.nodes[k])
    BY ModelsAssumption
  <2>2. outs \in Seq(Tensor) /\ outs # <<>>
    BY <2>1 DEF WellFormedNode
  <2> HIDE DEF outs
  <2>3. 1 \in DOMAIN outs /\ outs[1] \in Tensor /\ \A i \in DOMAIN outs : outs[i] \in Tensor
    BY <2>2
  <2>. QED
    BY <2>1, <2>3 DEF outs, NodeOutput, Range
<1>. QED
  BY <1>1, ModelsAssumption

LEMMA ProducedOnce ==
    ASSUME NEW m \in Models, NEW k \in 1..Len(m.nodes),
           NEW o \in DOMAIN m.nodes[k].outputs
    PROVE  /\ m.nodes[k].outputs[o] \notin Given(m)
           /\ \A j \in 1..Len(m.nodes) :
                 m.nodes[k].outputs[o] = NodeOutput(m, j) => k = j /\ o = 1
<1>1. SingleAssignment(m) /\ DOMAIN m.nodes = 1..Len(m.nodes)
  BY ModelsAssumption
<1>2. \A j \in 1..Len(m.nodes) : 1 \in DOMAIN m.nodes[j].outputs
  BY ModelFacts
<1>. QED
  BY <1>1, <1>2 DEF SingleAssignment, NodeOutput

\* The first output of a node, the one its kernel writes, is new.
LEMMA OutputIsNew ==
    ASSUME NEW m \in Models, NEW k \in 1..Len(m.nodes)
    PROVE  /\ NodeOutput(m, k) \notin Given(m)
           /\ \A j \in 1..Len(m.nodes) : NodeOutput(m, k) = NodeOutput(m, j) => k = j
           /\ NodeOutput(m, k) \notin Known(m, k - 1)
           /\ Known(m, k) = Known(m, k - 1) \cup {NodeOutput(m, k)}
<1>1. /\ NodeOutput(m, k) \notin Given(m)
      /\ \A j \in 1..Len(m.nodes) : NodeOutput(m, k) = NodeOutput(m, j) => k = j
  BY ModelFacts, ProducedOnce DEF NodeOutput
<1>2. Len(m.nodes) \in Nat
  BY ModelFacts
<1>3. NodeOutput(m, k) \notin Known(m, k - 1)
  BY <1>1, <1>2 DEF Known
<1>4. 1..k = 1..k-1 \cup {k}
  OBVIOUS
<1>5. Known(m, k) = Known(m, k - 1) \cup {NodeOutput(m, k)}
  BY <1>4 DEF Known
<1>. QED
  BY <1>1, <1>3, <1>5

\* The other outputs of a node come to nothing: no tensor has their name.
LEMMA OtherOutputs ==
    ASSUME NEW m \in Models, NEW k \in 1..Len(m.nodes), NEW j \in 0..Len(m.nodes),
           NEW o \in DOMAIN m.nodes[k].outputs, o # 1
    PROVE  m.nodes[k].outputs[o] \notin Known(m, j)
<1>1. Len(m.nodes) \in Nat
  BY ModelFacts
<1>. QED
  BY <1>1, ProducedOnce DEF Known

LEMMA KnownGrows ==
    ASSUME NEW m, NEW k \in Nat, NEW j \in 0..k
    PROVE  Known(m, j) \subseteq Known(m, k)
<1>1. 1..j \subseteq 1..k
  OBVIOUS
<1>. QED
  BY <1>1 DEF Known

LEMMA KnownAreTensors ==
    ASSUME NEW m \in Models, NEW k \in 0..Len(m.nodes)
    PROVE  Known(m, k) \subseteq Tensor
<1>1. 1..k \subseteq 1..Len(m.nodes)
  BY ModelFacts
<1>. QED
  BY <1>1, ModelFacts DEF Known

LEMMA GivenDomain ==
    ASSUME NEW m, NEW r
    PROVE  DOMAIN Abstract!Given(m, r) = Given(m)
BY DEF Abstract!Given, Given, Range, Abstract!Range

LEMMA StepDomain ==
    ASSUME NEW m, NEW known, NEW k, NEW t \in DOMAIN known
    PROVE  /\ t \in DOMAIN ValuesStep(m, known, k)
           /\ t # NodeOutput(m, k) => ValuesStep(m, known, k)[t] = known[t]
BY DEF ValuesStep, NodeOutput

Arguments(n, values) == [i \in DOMAIN n.inputs |-> values[n.inputs[i]]]

LEMMA StepDefines ==
    ASSUME NEW m, NEW known, NEW k, Range(m.nodes[k].inputs) \subseteq DOMAIN known
    PROVE  /\ DOMAIN ValuesStep(m, known, k) = DOMAIN known \cup {NodeOutput(m, k)}
           /\ ValuesStep(m, known, k)[NodeOutput(m, k)] =
                Abstract!Apply(m.nodes[k], Arguments(m.nodes[k], known))
<1>1. /\ DOMAIN ValuesStep(m, known, k) = DOMAIN known \cup {NodeOutput(m, k)}
      /\ ValuesStep(m, known, k)[NodeOutput(m, k)] =
           Infer!Apply(m.nodes[k], Arguments(m.nodes[k], known))
  BY DEF ValuesStep, NodeOutput, Arguments
<1>. QED
  BY <1>1, SameValues

LEMMA StepWithin ==
    ASSUME NEW m, NEW known, NEW k
    PROVE  DOMAIN ValuesStep(m, known, k) \subseteq DOMAIN known \cup {NodeOutput(m, k)}
BY DEF ValuesStep, NodeOutput

\* After k nodes there are values for tensors known by then only.
LEMMA EvaluationWithin ==
    ASSUME NEW m \in Models, NEW r, NEW v, Evaluates(v, m, r, Len(m.nodes))
    PROVE  \A k \in 0..Len(m.nodes) : DOMAIN v[k] \subseteq Known(m, k)
<1> DEFINE n == Len(m.nodes)
           S == {k \in Nat : DOMAIN v[k] \subseteq Known(m, k)}
<1>1. n \in Nat
  BY ModelFacts
<1>2. 0 \in S
  <2>1. v[0] = Abstract!Given(m, r)
    BY SameValues DEF Evaluates
  <2>2. DOMAIN v[0] = Given(m)
    BY <2>1, GivenDomain
  <2>. QED
    BY <2>2 DEF Known
<1>3. ASSUME NEW k \in 0..n-1, k \in S PROVE k + 1 \in S
  <2>1. k + 1 \in 1..n /\ (k + 1) - 1 = k
    BY <1>1
  <2>2. v[k+1] = ValuesStep(m, v[k], k + 1)
    <3> HIDE DEF n
    <3>1. \A j \in 1..n : v[j] = ValuesStep(m, v[j-1], j)
      BY DEF Evaluates, n
    <3>. QED
      BY <2>1, <3>1
  <2>3. DOMAIN v[k+1] \subseteq DOMAIN v[k] \cup {NodeOutput(m, k + 1)}
    BY <2>2, StepWithin
  <2>4. Known(m, k + 1) = Known(m, k) \cup {NodeOutput(m, k + 1)}
    BY <2>1, OutputIsNew
  <2>. QED
    BY <1>3, <2>3, <2>4
<1>4. \A k \in 0..n : k \in S
  <2> HIDE DEF S, n
  <2>. QED
    BY <1>1, <1>2, <1>3, NaturalInduction
<1>. QED
  BY <1>4

\* What has a value keeps it.
LEMMA EvaluationStable ==
    ASSUME NEW m \in Models, NEW r, NEW v, Evaluates(v, m, r, Len(m.nodes)),
           NEW k \in 0..Len(m.nodes), NEW t \in DOMAIN v[k]
    PROVE  t \in DOMAIN v[Len(m.nodes)] /\ v[Len(m.nodes)][t] = v[k][t]
<1> DEFINE n == Len(m.nodes)
           S == {j \in Nat : j < k \/ (t \in DOMAIN v[j] /\ v[j][t] = v[k][t])}
<1>1. n \in Nat
  BY ModelFacts
<1>2. 0 \in S
  <2>1. k = 0 \/ 0 < k
    BY <1>1
  <2>. QED
    BY <2>1
<1>3. ASSUME NEW j \in 0..n-1, j \in S PROVE j + 1 \in S
  <2>1. j + 1 \in 1..n /\ (j + 1) - 1 = j /\ j \in 0..n /\ j + 1 \in Nat /\ k \in Nat
    BY <1>1
  <2>2. v[j+1] = ValuesStep(m, v[j], j + 1)
    <3> HIDE DEF n
    <3>1. \A i \in 1..n : v[i] = ValuesStep(m, v[i-1], i)
      BY DEF Evaluates, n
    <3>. QED
      BY <2>1, <3>1
  <2>3. CASE j < k
    <3>1. j + 1 < k \/ j + 1 = k
      BY <2>1, <2>3
    <3>. QED
      BY <2>1, <3>1
  <2>4. CASE ~(j < k)
    <3>1. t \in DOMAIN v[j] /\ v[j][t] = v[k][t]
      BY <1>3, <2>4
    <3>2. t \in Known(m, j)
      BY <2>1, <3>1, EvaluationWithin
    <3>3. t # NodeOutput(m, j + 1)
      BY <2>1, <3>2, OutputIsNew
    <3>4. t \in DOMAIN v[j+1] /\ v[j+1][t] = v[j][t]
      BY <2>2, <3>1, <3>3, StepDomain
    <3>. QED
      BY <2>1, <3>1, <3>4
  <2>. QED
    BY <2>3, <2>4
<1>4. \A j \in 0..n : j \in S
  <2> HIDE DEF S, n
  <2>. QED
    BY <1>1, <1>2, <1>3, NaturalInduction
<1>5. n \in 0..n /\ ~(n < k)
  BY <1>1
<1>. QED
  BY <1>4, <1>5

\* As long as the nodes come in order, each of them has a value.
LEMMA EvaluationInOrder ==
    ASSUME NEW m \in Models, NEW r, NEW v, Evaluates(v, m, r, Len(m.nodes)),
           NEW n \in 0..Len(m.nodes), InOrder(m, n)
    PROVE  \A k \in 0..n : DOMAIN v[k] = Known(m, k)
<1> DEFINE S == {k \in Nat : DOMAIN v[k] = Known(m, k)}
<1>1. Len(m.nodes) \in Nat /\ n \in Nat
  BY ModelFacts
<1>2. 0 \in S
  <2>1. v[0] = Abstract!Given(m, r)
    BY SameValues DEF Evaluates
  <2>2. DOMAIN v[0] = Given(m)
    BY <2>1, GivenDomain
  <2>. QED
    BY <2>2 DEF Known
<1>3. ASSUME NEW k \in 0..n-1, k \in S PROVE k + 1 \in S
  <2>1. k + 1 \in 1..n /\ (k + 1) - 1 = k /\ k + 1 \in 1..Len(m.nodes)
    BY <1>1
  <2>2. v[k+1] = ValuesStep(m, v[k], k + 1)
    <3>1. \A j \in 1..Len(m.nodes) : v[j] = ValuesStep(m, v[j-1], j)
      BY DEF Evaluates
    <3>. QED
      BY <2>1, <3>1
  <2>3. Range(m.nodes[k+1].inputs) \subseteq DOMAIN v[k]
    BY <1>3, <2>1 DEF InOrder
  <2>4. DOMAIN v[k+1] = DOMAIN v[k] \cup {NodeOutput(m, k + 1)}
    BY <2>2, <2>3, StepDefines
  <2>5. Known(m, k + 1) = Known(m, k) \cup {NodeOutput(m, k + 1)}
    BY <2>1, OutputIsNew
  <2>6. DOMAIN v[k] = Known(m, k)
    BY <1>3
  <2>7. DOMAIN v[k+1] = Known(m, k + 1)
    BY <2>4, <2>5, <2>6
  <2>8. k + 1 \in Nat
    BY <1>1
  <2>. QED
    BY <2>7, <2>8
<1>4. \A k \in 0..n : k \in S
  <2> HIDE DEF S
  <2>. QED
    BY <1>1, <1>2, <1>3, NaturalInduction
<1>. QED
  BY <1>4

LEMMA ValuesGiven ==
    ASSUME NEW m \in Models, NEW r, NEW t \in Given(m)
    PROVE  /\ t \in DOMAIN Abstract!Values(m, r)
           /\ Abstract!Values(m, r)[t] = Abstract!Given(m, r)[t]
<1>1. Len(m.nodes) \in Nat
  BY ModelFacts
<1>2. PICK v : /\ Evaluates(v, m, r, Len(m.nodes))
               /\ Abstract!Values(m, r) = v[Len(m.nodes)]
  BY <1>1, ValuesEvaluate, SameValues
<1>3. v[0] = Abstract!Given(m, r) /\ t \in DOMAIN v[0]
  BY <1>2, GivenDomain, SameValues DEF Evaluates
<1>. QED
  BY <1>1, <1>2, <1>3, EvaluationStable

\* The value of a node whose inputs are known is its operator applied to the
\* values of its inputs.
LEMMA ValuesApply ==
    ASSUME NEW m \in Models, NEW r, NEW k \in 1..Len(m.nodes), InOrder(m, k)
    PROVE  Abstract!Values(m, r)[NodeOutput(m, k)] =
             Abstract!Apply(m.nodes[k], Arguments(m.nodes[k], Abstract!Values(m, r)))
<1> DEFINE values == Abstract!Values(m, r)
           n == m.nodes[k]
<1>1. Len(m.nodes) \in Nat
  BY ModelFacts
<1>2. PICK v : Evaluates(v, m, r, Len(m.nodes)) /\ values = v[Len(m.nodes)]
  BY <1>1, ValuesEvaluate, SameValues
<1>3. k \in 0..Len(m.nodes) /\ k - 1 \in 0..k /\ k - 1 \in 0..Len(m.nodes)
  BY <1>1
<1>4. DOMAIN v[k-1] = Known(m, k - 1)
  BY <1>2, <1>3, EvaluationInOrder
<1>5. Range(n.inputs) \subseteq DOMAIN v[k-1]
  BY <1>3, <1>4 DEF InOrder
<1>6. v[k] = ValuesStep(m, v[k-1], k)
  BY <1>2 DEF Evaluates
<1>7. /\ NodeOutput(m, k) \in DOMAIN v[k]
      /\ v[k][NodeOutput(m, k)] = Abstract!Apply(n, Arguments(n, v[k-1]))
  <2> DEFINE known == v[k-1]
  <2>1. Range(m.nodes[k].inputs) \subseteq DOMAIN known
    BY <1>5
  <2> HIDE DEF known
  <2>2. /\ DOMAIN ValuesStep(m, known, k) = DOMAIN known \cup {NodeOutput(m, k)}
        /\ ValuesStep(m, known, k)[NodeOutput(m, k)] =
             Abstract!Apply(m.nodes[k], Arguments(m.nodes[k], known))
    BY <2>1, StepDefines
  <2>. QED
    BY <1>6, <2>2 DEF known
<1> HIDE DEF n, values
<1>8. values[NodeOutput(m, k)] = v[k][NodeOutput(m, k)]
  <2>1. Evaluates(v, m, r, Len(m.nodes))
    BY <1>2
  <2>2. k \in 0..Len(m.nodes)
    BY <1>3
  <2>3. NodeOutput(m, k) \in DOMAIN v[k]
    BY <1>7
  <2>4. v[Len(m.nodes)][NodeOutput(m, k)] = v[k][NodeOutput(m, k)]
    BY <2>1, <2>2, <2>3, EvaluationStable
  <2>. QED
    BY <1>2, <2>4
<1>9. \A t \in DOMAIN v[k-1] : values[t] = v[k-1][t]
  <2>1. Evaluates(v, m, r, Len(m.nodes))
    BY <1>2
  <2>2. PICK j \in 0..Len(m.nodes) : j = k - 1
    BY <1>3
  <2>3. ASSUME NEW t \in DOMAIN v[j] PROVE v[Len(m.nodes)][t] = v[j][t]
    BY <2>1, EvaluationStable, Z3
  <2>. QED
    BY <1>2, <2>2, <2>3
<1>10. Arguments(n, values) = Arguments(n, v[k-1])
  BY <1>5, <1>9 DEF Arguments, Range
<1>. QED
  BY <1>7, <1>8, <1>10 DEF n, values

LEMMA ValuesKnown ==
    ASSUME NEW m \in Models, NEW r, InOrder(m, Len(m.nodes))
    PROVE  DOMAIN Abstract!Values(m, r) = Known(m, Len(m.nodes))
<1>1. Len(m.nodes) \in Nat
  BY ModelFacts
<1>2. PICK v : /\ Evaluates(v, m, r, Len(m.nodes))
               /\ Abstract!Values(m, r) = v[Len(m.nodes)]
  BY <1>1, ValuesEvaluate, SameValues
<1>3. Len(m.nodes) \in 0..Len(m.nodes)
  BY <1>1
<1>. QED
  BY <1>2, <1>3, EvaluationInOrder

-----------------------------------------------------------------------------
(* What a tensor shows *)

\* The recursion of FoldLeft over the views.
ShownStep(w, base, views) ==
    [s \in SUBSET DOMAIN views |->
        IF s = {} THEN base
        ELSE Abstract!Apply(views[Max(s)], <<w[s \ {Max(s)}]>>)]

LEMMA ShownIsLast ==
    ASSUME NEW base, NEW views
    PROVE  Shown(base, views) =
             (CHOOSE w : w = ShownStep(w, base, views))[DOMAIN views]
BY DEF Shown, ShownStep, FoldLeft, MapThenFoldSet

LEMMA NoView == ASSUME NEW base PROVE Shown(base, <<>>) = base
<1> DEFINE w == CHOOSE w : w = ShownStep(w, base, <<>>)
<1>1. DOMAIN <<>> = {}
  OBVIOUS
<1>2. w = ShownStep(w, base, <<>>)
  <2> DEFINE v == [s \in SUBSET {} |-> base]
  <2>1. v = ShownStep(v, base, <<>>)
    BY <1>1 DEF ShownStep
  <2> HIDE DEF v
  <2>. QED
    BY <2>1
<1> HIDE DEF w
<1>3. w[{}] = base
  BY <1>1, <1>2 DEF ShownStep
<1>. QED
  BY <1>1, <1>3, ShownIsLast DEF w

LEMMA OneView ==
    ASSUME NEW base, NEW view
    PROVE  Shown(base, <<view>>) = Abstract!Apply(view, <<base>>)
<1> DEFINE views == <<view>>
           w == CHOOSE w : w = ShownStep(w, base, views)
<1>1. DOMAIN views = {1} /\ views[1] = view
  OBVIOUS
<1> HIDE DEF views
<1>2. Max({1}) = 1 /\ {1} \ {1} = {} /\ \A s \in SUBSET {1} : s = {} \/ s = {1}
  <2>1. Max({1}) = 1
    BY DEF Max
  <2>. QED
    BY <2>1
<1>3. w = ShownStep(w, base, views)
  <2> DEFINE shown == Abstract!Apply(view, <<base>>)
             v == [s \in SUBSET {1} |-> IF s = {} THEN base ELSE shown]
  <2> HIDE DEF shown
  <2>1. v[{}] = base /\ v[{1}] = shown
    OBVIOUS
  <2>2. v = ShownStep(v, base, views)
    <3>1. ASSUME NEW s \in SUBSET {1}, s # {}
          PROVE  Abstract!Apply(views[Max(s)], <<v[s \ {Max(s)}]>>) = shown
      <4>1. s = {1}
        BY <3>1
      <4>2. views[Max(s)] = view /\ v[s \ {Max(s)}] = base
        <5> HIDE DEF v
        <5>. QED
          BY <1>1, <1>2, <2>1, <4>1
      <4> HIDE DEF v
      <4>. QED
        BY <4>2 DEF shown
    <3>. QED
      BY <3>1, <1>1 DEF ShownStep
  <2> HIDE DEF v
  <2>. QED
    BY <2>2
<1> HIDE DEF w
<1>4. /\ w[{}] = base
      /\ w[{1}] = Abstract!Apply(views[Max({1})], <<w[{1} \ {Max({1})}]>>)
  <2>1. {} \in SUBSET {1} /\ {1} \in SUBSET {1} /\ {1} # {}
    OBVIOUS
  <2> DEFINE v == ShownStep(w, base, views)
  <2>2. /\ v[{}] = base
        /\ v[{1}] = Abstract!Apply(views[Max({1})], <<w[{1} \ {Max({1})}]>>)
    BY <1>1, <2>1 DEF ShownStep
  <2> HIDE DEF v
  <2>3. w = v
    BY <1>3 DEF v
  <2>. QED
    BY <2>2, <2>3
<1>5. w[{1}] = Abstract!Apply(view, <<base>>)
  BY <1>1, <1>2, <1>4
<1>. QED
  BY <1>1, <1>5, ShownIsLast DEF w, views

LEMMA ContentNow == ASSUME NEW x PROVE Content(x) = ContentIn(arena_, x)
BY DEF Content, ContentIn, Shown, FoldLeft, MapThenFoldSet

-----------------------------------------------------------------------------
(* Kernels *)

LEMMA ShapeNaturals == ASSUME NEW s \in Seq(Nat) PROVE Naturals(s)
<1>1. DOMAIN s = 1..Len(s) /\ Len(s) \in Nat /\ \A i \in DOMAIN s : s[i] \in Nat
  OBVIOUS
<1>2. IsFiniteSet(DOMAIN s)
  BY <1>1, FS_Interval
<1>. QED
  BY <1>1, <1>2 DEF Naturals

LEMMA ElementsFacts ==
    ASSUME NEW s \in Seq(Nat)
    PROVE  /\ Planner!Elements(s) \in Nat
           /\ <<Planner!Elements(s)>> \in Seq(Nat)
           /\ Planner!Elements(<<Planner!Elements(s)>>) = Planner!Elements(s)
           /\ Reverse(s) \in Seq(Nat)
           /\ Planner!Elements(Reverse(s)) = Planner!Elements(s)
<1>1. Product(s) \in Nat
  BY ShapeNaturals, ProductFacts
<1>2. <<Product(s)>> \in Seq(Nat) /\ Product(<<Product(s)>>) = Product(s)
  BY <1>1, SmallProducts
<1>3. Reverse(s) \in Seq(Nat) /\ Product(Reverse(s)) = Product(s)
  BY ProductReversed
<1>. QED
  BY <1>1, <1>2, <1>3, PlannerOperators

LEMMA DtypeSizes ==
    \A d \in DOMAIN Planner!DtypeSize : Planner!DtypeSize[d] \in Nat
BY DEF Planner!DtypeSize

LEMMA NBytesNatural == ASSUME NEW x, Shaped(x) PROVE NBytes(x) \in Nat
<1>1. Planner!Elements(x.shape) \in Nat /\ Planner!DtypeSize[x.dtype] \in Nat
  BY ElementsFacts, DtypeSizes DEF Shaped
<1> HIDE DEF Planner!Elements, Planner!DtypeSize
<1>. QED
  BY <1>1 DEF NBytes, Bytes

LEMMA BroadcastTyped ==
    ASSUME NEW a \in Seq(Nat), NEW b \in Seq(Nat)
    PROVE  Broadcast(a, b) \in Seq(Nat)
<1> DEFINE rank == Rank(a, b)
<1>1. Len(a) \in Nat /\ Len(b) \in Nat
  OBVIOUS
<1>2. rank \in Nat /\ Len(a) <= rank /\ Len(b) <= rank
  <2>1. \E x \in {Len(a), Len(b)} : \A y \in {Len(a), Len(b)} : x >= y
    BY <1>1
  <2>2. /\ Max({Len(a), Len(b)}) \in {Len(a), Len(b)}
        /\ \A y \in {Len(a), Len(b)} : Max({Len(a), Len(b)}) >= y
    BY <2>1 DEF Max
  <2>. QED
    BY <1>1, <2>2 DEF Rank
<1> HIDE DEF rank
<1>3. \A i \in 1..rank : Dim(a, rank, i) \in Nat /\ Dim(b, rank, i) \in Nat
  <2>1. ASSUME NEW s \in Seq(Nat), Len(s) <= rank, NEW i \in 1..rank
        PROVE  Dim(s, rank, i) \in Nat
    <3>1. CASE i <= rank - Len(s)
      BY <3>1 DEF Dim
    <3>2. CASE ~(i <= rank - Len(s))
      <4>1. i - (rank - Len(s)) \in 1..Len(s)
        BY <3>2, <2>1, <1>2
      <4>2. s[i - (rank - Len(s))] \in Nat
        BY <4>1
      <4>. QED
        BY <3>2, <4>2 DEF Dim
    <3>. QED
      BY <3>1, <3>2
  <2>. QED
    BY <2>1, <1>2
<1>4. Broadcast(a, b) = [i \in 1..rank |-> IF Dim(a, rank, i) = 1 THEN Dim(b, rank, i)
                                                                ELSE Dim(a, rank, i)]
  BY DEF Broadcast, rank
<1>5. Broadcast(a, b) \in [1..rank -> Nat]
  BY <1>3, <1>4
<1>. QED
  BY <1>2, <1>5

LEMMA InputsOfNode ==
    ASSUME NEW n, WellFormedNode(n), KernelRuns(n)
    PROVE  /\ n.op \in Supported
           /\ 1 \in DOMAIN n.inputs
           /\ n.inputs[1] \in Range(n.inputs) /\ n.inputs[1] \in DOMAIN tensor_map_
           /\ n.op = "Add" => n.inputs[2] \in DOMAIN tensor_map_
           /\ n.op # "Add" => DOMAIN n.inputs = {1}
<1>1. n.op \in Supported /\ Range(n.inputs) \subseteq DOMAIN tensor_map_
  BY DEF KernelRuns
<1>2. n.inputs \in Seq(Tensor) /\ Len(n.inputs) = IF n.op = "Add" THEN 2 ELSE 1
  BY <1>1 DEF WellFormedNode
<1>3. DOMAIN n.inputs = 1..Len(n.inputs)
  BY <1>2
<1>. QED
  BY <1>1, <1>2, <1>3 DEF Range

\* A kernel gives a tensor of its own or, if it shares the storage of its
\* input, one of as many bytes at the same place.
LEMMA KernelFacts ==
    ASSUME NEW n, WellFormedNode(n), KernelRuns(n),
           \A t \in DOMAIN tensor_map_ : TensorTyped(arena_.generation, tensor_map_[t])
    PROVE  LET arg == tensor_map_[n.inputs[1]]
               made == KernelResult(n)
           IN  /\ Shaped(made)
               /\ SharesStorage(n, arg) =>
                    /\ arg.in_arena
                    /\ n.op # "Add"
                    /\ NBytes(made) = NBytes(arg)
                    /\ made = InArena(made.dtype, made.shape, made.strides, arg.offset,
                                      Append(arg.views, ViewOp(n)))
               /\ ~SharesStorage(n, arg) =>
                    made = Owned(made.dtype, made.shape,
                                 Abstract!Apply(n, [i \in DOMAIN n.inputs |->
                                                      Content(tensor_map_[n.inputs[i]])]))
<1> DEFINE arg == tensor_map_[n.inputs[1]]
           shape == ResultShape(n, arg)
           made == KernelResult(n)
<1>1. TensorTyped(arena_.generation, arg)
  BY InputsOfNode
<1>2. arg.shape \in Seq(Nat) /\ arg.dtype \in DOMAIN Planner!DtypeSize
  BY <1>1 DEF TensorTyped, Shaped
<1>3. shape \in Seq(Nat)
  <2>1. CASE n.op = "Reshape"
    BY <2>1, <1>2, ElementsFacts DEF ResultShape
  <2>2. CASE n.op = "Transpose"
    BY <2>2, <1>2, ElementsFacts DEF ResultShape
  <2>3. CASE n.op = "Add"
    <3>1. tensor_map_[n.inputs[2]].shape \in Seq(Nat)
      BY <2>3, InputsOfNode DEF TensorTyped, Shaped
    <3>. QED
      BY <2>3, <3>1, <1>2, BroadcastTyped DEF ResultShape
  <2>4. CASE n.op \notin {"Reshape", "Transpose", "Add"}
    BY <2>4, <1>2 DEF ResultShape
  <2>. QED
    BY <2>1, <2>2, <2>3, <2>4
<1>4. ASSUME SharesStorage(n, arg)
      PROVE  /\ Shaped(made)
             /\ arg.in_arena
             /\ n.op # "Add"
             /\ NBytes(made) = NBytes(arg)
             /\ made = InArena(made.dtype, made.shape, made.strides, arg.offset,
                               Append(arg.views, ViewOp(n)))
  <2>1. arg.in_arena /\ n.op \in Views
    BY <1>4 DEF SharesStorage
  <2>2. arg = InArena(arg.dtype, arg.shape, arg.strides, arg.offset, arg.views)
    BY <2>1, <1>1 DEF TensorTyped, InArena, Placed
  <2> DEFINE strides == IF n.op = "Transpose" THEN Reverse(arg.strides)
                        ELSE ContiguousStrides(shape)
  <2>3. made = [arg EXCEPT !.shape = shape, !.views = Append(@, ViewOp(n)),
                           !.strides = IF n.op = "Transpose" THEN Reverse(@)
                                       ELSE ContiguousStrides(shape)]
    BY <1>4 DEF KernelResult
  <2> HIDE DEF shape, arg, made
  <2>4. made = InArena(arg.dtype, shape, strides, arg.offset, Append(arg.views, ViewOp(n)))
    <3> HIDE DEF ContiguousStrides, ViewOp
    <3> DEFINE views == Append(arg.views, ViewOp(n))
    <3>2. made = [arg EXCEPT !.shape = shape, !.views = views, !.strides = strides]
      BY <2>3
    <3> HIDE DEF views, strides
    <3>3. PICK d, s, st, o, v : arg = InArena(d, s, st, o, v)
      BY <2>2
    <3>4. d = arg.dtype /\ o = arg.offset
      BY <3>3 DEF InArena
    <3>5. made = InArena(d, shape, strides, o, views)
      BY <3>2, <3>3 DEF InArena
    <3>. QED
      BY <3>4, <3>5 DEF views
  <2> HIDE DEF strides
  <2>5. /\ made.dtype = arg.dtype /\ made.shape = shape /\ made.strides = strides
    BY <2>4 DEF InArena
  <2>6. Planner!Elements(shape) = Planner!Elements(arg.shape)
    <3>1. n.op = "Reshape" \/ n.op = "Transpose"
      BY <2>1 DEF Views
    <3>2. shape = IF n.op = "Reshape" THEN <<Planner!Elements(arg.shape)>>
                  ELSE Reverse(arg.shape)
      BY <3>1 DEF shape, ResultShape
    <3>. QED
      BY <3>1, <3>2, <1>2, ElementsFacts
  <2>7. NBytes(made) = NBytes(arg)
    BY <2>5, <2>6 DEF NBytes, Bytes
  <2>8. Shaped(made)
    BY <2>5, <1>2, <1>3 DEF Shaped
  <2>9. n.op # "Add"
    BY <2>1 DEF Views
  <2>. QED
    BY <2>1, <2>4, <2>5, <2>7, <2>8, <2>9
<1>5. ASSUME ~SharesStorage(n, arg)
      PROVE  /\ Shaped(made)
             /\ made = Owned(made.dtype, made.shape,
                             Abstract!Apply(n, [i \in DOMAIN n.inputs |->
                                                  Content(tensor_map_[n.inputs[i]])]))
  <2> DEFINE content == Abstract!Apply(n, [i \in DOMAIN n.inputs |->
                                             Content(tensor_map_[n.inputs[i]])])
             dtype == IF n.op = "Cast" THEN n.to ELSE arg.dtype
  <2>1. made = Owned(dtype, shape, content)
    BY <1>5 DEF KernelResult
  <2>2. dtype \in DOMAIN Planner!DtypeSize
    BY <1>2 DEF WellFormedNode
  <2> HIDE DEF dtype, content, shape, made
  <2>3. made.dtype = dtype /\ made.shape = shape
    BY <2>1 DEF Owned
  <2>4. Shaped(made)
    BY <2>2, <2>3, <1>3 DEF Shaped
  <2>. QED
    BY <2>1, <2>3, <2>4 DEF content
<1> HIDE DEF arg, made
<1>6. Shaped(made)
  BY <1>4, <1>5
<1>. QED
  BY <1>4, <1>5, <1>6 DEF arg, made

-----------------------------------------------------------------------------
(* The steps that leave the nodes alone *)

LEMMA EmptyFunction == DOMAIN <<>> = {} /\ Naturals(<<>>) /\ Total(<<>>) = 0
<1>1. DOMAIN <<>> = {}
  OBVIOUS
<1>2. Naturals(<<>>)
  BY <1>1, FS_EmptySet DEF Naturals
<1>. QED
  BY <1>1, <1>2, SumFacts, SumIsLast

LEMMA EngineInit == Init => EInv /\ SafeInv
<1> SUFFICES ASSUME Init PROVE EInv /\ SafeInv
  OBVIOUS
<1> USE DEF Init
<1>1. ControlInv
  <2>1. memory_planner_enabled_ \in BOOLEAN /\ profiling_ \in BOOLEAN
    BY Zenon
  <2>2. runs \in 0..MaxRuns
    BY BoundsAssumption
  <2>3. result.status = "none"
    OBVIOUS
  <2>. QED
    BY <2>1, <2>2, <2>3, Zenon DEF ControlInv, Running
<1>2. PlanningInv
  BY DEF PlanningInv, PlannerIdle
<1>3. /\ DOMAIN tensor_map_ = {} /\ DOMAIN memory_plan_.tensor_slots = {}
      /\ DOMAIN arena_.content = {}
  BY EmptyFunction
<1>4. MapInv
  BY <1>3 DEF MapInv
<1>5. PlanInv
  <2>1. memory_plan_.tensor_slots \in
          [DOMAIN memory_plan_.tensor_slots -> [offset : Nat, size : 1..SizeMax]]
    BY <1>3
  <2>. QED
    BY <1>3, <2>1 DEF PlanInv, ArenaTyped, Running
<1>6. BoundInv /\ OrderInv /\ ValueInv /\ ResultInv
  BY DEF BoundInv, OrderInv, ValueInv, ResultInv, Running
<1>7. TimesInv
  BY EmptyFunction DEF TimesInv, Running
<1>8. SafeInv
  BY <1>3 DEF SafeInv, Running
<1>. QED
  BY <1>1, <1>2, <1>4, <1>5, <1>6, <1>7, <1>8 DEF EInv

LEMMA PlanSafeKept ==
    UNCHANGED <<graph_, memory_plan_>> /\ arena_'.capacity = arena_.capacity
    => (PlanSafe' <=> PlanSafe)
BY DEF PlanSafe, Apart, Nodes

LEMMA StrayKept ==
    UNCHANGED <<tensor_map_, memory_plan_>> => (StrayView' <=> StrayView)
BY DEF StrayView

LEMMA OwnedTyped ==
    ASSUME NEW dtype \in DOMAIN Planner!DtypeSize, NEW shape \in Seq(Nat), NEW content,
           NEW generation
    PROVE  /\ Owned(dtype, shape, content).in_arena = FALSE
           /\ TensorTyped(generation, Owned(dtype, shape, content))
<1> DEFINE x == Owned(dtype, shape, content)
<1>1. x.in_arena = FALSE /\ x.dtype = dtype /\ x.shape = shape /\ x.content = content
  BY DEF Owned
<1> HIDE DEF x
<1>2. TensorTyped(generation, x)
  BY <1>1 DEF TensorTyped, Shaped, x
<1>. QED
  BY <1>1, <1>2 DEF x

LEMMA MapKept ==
    MapInv /\ UNCHANGED <<tensor_map_, memory_plan_>>
    /\ arena_'.generation = arena_.generation
    /\ (pc' \in {"rejected", "symbols", "planning"} =>
          pc \in {"rejected", "symbols", "planning"})
    => MapInv'
<1> SUFFICES ASSUME MapInv, UNCHANGED <<tensor_map_, memory_plan_>>,
                    arena_'.generation = arena_.generation,
                    pc' \in {"rejected", "symbols", "planning"} =>
                      pc \in {"rejected", "symbols", "planning"}
             PROVE  MapInv'
  OBVIOUS
<1>. QED
  BY DEF MapInv

\* A run that ends with an exception leaves the members as they are.
LEMMA LeaveStep ==
    EInv /\ LeaveRun(Abstract!Thrown) /\ UNCHANGED members /\ PlannerIdle' => EInv'
<1> SUFFICES ASSUME EInv, LeaveRun(Abstract!Thrown), UNCHANGED members, PlannerIdle'
             PROVE  EInv'
  OBVIOUS
<1> USE DEF LeaveRun, members, Abstract!Thrown
<1>1. ControlInv'
  BY DEF EInv, ControlInv, Running, Nodes, PlannerIdle
<1>2. PlanningInv'
  BY DEF PlanningInv
<1>3. MapInv'
  BY MapKept DEF EInv
<1>4. PlanInv'
  BY DEF EInv, PlanInv, Running, ArenaTyped
<1>5. BoundInv' /\ OrderInv' /\ ValueInv' /\ ResultInv'
  BY DEF BoundInv, OrderInv, ValueInv, ResultInv, Running
<1>6. TimesInv'
  BY DEF EInv, TimesInv, Running
<1>. QED
  BY <1>1, <1>2, <1>3, <1>4, <1>5, <1>6 DEF EInv

\* Between the runs the settings change.
LEMMA SettingsStep == EInv /\ (SetMemoryPlanner \/ SetProfiling) => EInv'
<1> SUFFICES ASSUME EInv, SetMemoryPlanner \/ SetProfiling PROVE EInv'
  OBVIOUS
<1>1. /\ pc = "idle" /\ pc' = "idle"
      /\ UNCHANGED <<graph_, op_times_ms_, tensor_map_, memory_plan_, arena_, control, planner>>
      /\ memory_planner_enabled_' \in BOOLEAN /\ profiling_' \in BOOLEAN
  BY DEF SetMemoryPlanner, SetProfiling, EInv, ControlInv, control
<1> USE DEF control, planner
<1>2. ControlInv'
  BY <1>1 DEF EInv, ControlInv, Running, Nodes
<1>3. PlanningInv'
  BY <1>1 DEF EInv, PlanningInv, PlannerIdle
<1>4. MapInv'
  BY <1>1, MapKept DEF EInv
<1>5. PlanInv'
  BY <1>1 DEF EInv, PlanInv, Running, ArenaTyped
<1>6. BoundInv' /\ OrderInv' /\ ValueInv'
  BY <1>1 DEF BoundInv, OrderInv, ValueInv, Running
<1>7. ResultInv'
  BY <1>1, PlanSafeKept, StrayKept DEF EInv, ResultInv
<1>8. TimesInv'
  BY <1>1 DEF EInv, TimesInv, Running, Nodes
<1>. QED
  BY <1>2, <1>3, <1>4, <1>5, <1>6, <1>7, <1>8 DEF EInv

LEMMA StutterStep == EInv /\ UNCHANGED vars => EInv'
<1> SUFFICES ASSUME EInv, UNCHANGED vars PROVE EInv'
  OBVIOUS
<1> USE DEF vars, members, control
<1>1. ControlInv'
  BY DEF EInv, ControlInv, Running, Nodes, planner
<1>2. PlanningInv'
  <2>1. PlannerProofs!IInv /\ UNCHANGED planner => PlannerProofs!IInv'
    <3>1. PlannerProofs!IInv /\ UNCHANGED PlannerProofs!vars => PlannerProofs!IInv'
      BY PlannerProofs!Continues, TensorAssumption, BoundsAssumption
    <3>. QED
      BY <3>1 DEF planner, PlannerProofs!vars
  <2>. QED
    BY <2>1 DEF EInv, PlanningInv, PlannerIdle, planner
<1>3. MapInv'
  BY MapKept DEF EInv
<1>4. PlanInv'
  BY DEF EInv, PlanInv, Running, ArenaTyped
<1>5. BoundInv'
  BY DEF EInv, BoundInv
<1>6. OrderInv'
  BY DEF EInv, OrderInv, Running, Dispatched, Fresh
<1>7. ValueInv'
  BY PlanSafeKept, StrayKept
     DEF EInv, ValueInv, Running, Dispatched, Fresh, Live, Written, Nodes
<1>8. ResultInv'
  BY PlanSafeKept, StrayKept DEF EInv, ResultInv
<1>9. TimesInv'
  BY DEF EInv, TimesInv, Running, Nodes
<1>. QED
  BY <1>1, <1>2, <1>3, <1>4, <1>5, <1>6, <1>7, <1>8, <1>9 DEF EInv

LEMMA BindStep ==
    ASSUME EInv, NEW args \in Requests, BindInputs(args)
    PROVE  EInv'
<1> DEFINE names == graph_.input_names
           bad == {i \in DOMAIN names : Rejected(names[i], args)}
           bound == {names[i] : i \in {j \in DOMAIN names : \A b \in bad : j < b}}
<1>1. /\ pc = "idle" /\ pc' = IF bad = {} THEN "symbols" ELSE "rejected"
      /\ runs < MaxRuns /\ runs' = runs + 1
      /\ inputs' = args /\ op_times_ms_' = <<>>
      /\ tensor_map_' = BoundTensors(args, bound)
      /\ result' = [status |-> "running"]
      /\ UNCHANGED <<graph_, memory_planner_enabled_, profiling_, memory_plan_,
                     naive_activation_bytes_, arena_, node, output, planner>>
  BY DEF BindInputs, ClearTimes, Abstract!Running
<1>2. graph_ \in Models /\ runs \in 0..MaxRuns
  BY DEF EInv, ControlInv
<1>3. /\ Given(graph_) \subseteq Tensor
      /\ Len(names) \in Nat /\ DOMAIN names = 1..Len(names)
      /\ \A t \in DOMAIN graph_.initializers : Shaped(graph_.initializers[t])
  BY <1>2, ModelFacts
<1>4. bound \subseteq Range(names) /\ bound \subseteq DOMAIN args
  <2>1. ASSUME NEW i \in DOMAIN names, \A b \in bad : i < b
        PROVE  names[i] \in Range(names) /\ names[i] \in DOMAIN args
    <3>1. i \notin bad
      BY <2>1, <1>3
    <3>. QED
      BY <3>1 DEF Rejected, Range
  <2>. QED
    BY <2>1
<1>5. bad = {} => bound = Range(names)
  BY DEF Range
<1> HIDE DEF names, bad, bound
<1>6. /\ DOMAIN tensor_map_' = DOMAIN graph_.initializers \cup bound
      /\ \A t \in bound : tensor_map_'[t] = Owned(args[t].dtype, args[t].shape,
                                               Abstract!InputTerm(t, args[t].value))
      /\ \A t \in DOMAIN graph_.initializers \ bound :
            tensor_map_'[t] = Owned(graph_.initializers[t].dtype,
                                    graph_.initializers[t].shape,
                                    Abstract!InitializerTerm(t))
  BY <1>1 DEF BoundTensors, InitializerTensors
<1>7. ControlInv'
  <2>1. pc' = "symbols" => Range(names) \subseteq DOMAIN args
    BY <1>1, <1>4, <1>5
  <2>. QED
    BY <1>1, <1>2, <2>1, BoundsAssumption DEF EInv, ControlInv, Running, Nodes, planner, names
<1>8. PlanningInv'
  BY <1>1 DEF EInv, PlanningInv, PlannerIdle, planner
<1>9. MapInv'
  <2>1. DOMAIN tensor_map_' \subseteq Tensor
    BY <1>3, <1>4, <1>6 DEF Given, names
  <2>2. ASSUME NEW t \in DOMAIN tensor_map_'
        PROVE  /\ tensor_map_'[t].in_arena = FALSE
               /\ TensorTyped(arena_'.generation, tensor_map_'[t])
    <3>1. CASE t \in bound
      <4>1. Shaped(args[t])
        BY <3>1, <1>4, RequestsAssumption
      <4>2. args[t].dtype \in DOMAIN Planner!DtypeSize /\ args[t].shape \in Seq(Nat)
        BY <4>1 DEF Shaped
      <4>3. tensor_map_'[t] = Owned(args[t].dtype, args[t].shape,
                                    Abstract!InputTerm(t, args[t].value))
        BY <3>1, <1>6
      <4>4. PICK d \in DOMAIN Planner!DtypeSize, s \in Seq(Nat) :
              \E c : tensor_map_'[t] = Owned(d, s, c)
        BY <4>2, <4>3
      <4>. QED
        BY <4>4, OwnedTyped
    <3>2. CASE t \in DOMAIN graph_.initializers \ bound
      <4> DEFINE x == graph_.initializers[t]
      <4>1. Shaped(x)
        BY <3>2, <1>3
      <4>2. x.dtype \in DOMAIN Planner!DtypeSize /\ x.shape \in Seq(Nat)
        BY <4>1 DEF Shaped
      <4>3. tensor_map_'[t] = Owned(x.dtype, x.shape, Abstract!InitializerTerm(t))
        BY <3>2, <1>6
      <4>4. PICK d \in DOMAIN Planner!DtypeSize, s \in Seq(Nat) :
              \E c : tensor_map_'[t] = Owned(d, s, c)
        BY <4>2, <4>3
      <4>. QED
        BY <4>4, OwnedTyped
    <3>. QED
      BY <3>1, <3>2, <1>6
  <2>. QED
    BY <2>1, <2>2 DEF MapInv
<1>10. PlanInv'
  BY <1>1 DEF EInv, PlanInv, Running, ArenaTyped
<1>11. BoundInv'
  <2> SUFFICES ASSUME pc' \in {"symbols", "planning"} PROVE
        /\ DOMAIN tensor_map_' = Given(graph_)
        /\ \A t \in DOMAIN tensor_map_' :
              tensor_map_'[t].content = Abstract!Given(graph_, args)[t]
    BY <1>1 DEF BoundInv
  <2>1. bound = Range(names)
    BY <1>1, <1>5
  <2>2. DOMAIN tensor_map_' = Given(graph_)
    BY <1>6, <2>1 DEF Given, names
  <2>3. ASSUME NEW t \in DOMAIN tensor_map_'
        PROVE  tensor_map_'[t].content = Abstract!Given(graph_, args)[t]
    <3>1. Abstract!Given(graph_, args)[t] =
            IF t \in bound THEN Abstract!InputTerm(t, args[t].value)
                           ELSE Abstract!InitializerTerm(t)
      <4>1. Abstract!Range(names) = bound
        BY <2>1 DEF Range, Abstract!Range
      <4>2. t \in DOMAIN graph_.initializers \cup bound
        BY <1>6
      <4>. QED
        BY <4>1, <4>2 DEF Abstract!Given, names
    <3>2. CASE t \in bound
      BY <3>1, <3>2, <1>6 DEF Owned
    <3>3. CASE t \in DOMAIN graph_.initializers \ bound
      <4>1. tensor_map_'[t] = Owned(graph_.initializers[t].dtype,
                                    graph_.initializers[t].shape,
                                    Abstract!InitializerTerm(t))
        BY <3>3, <1>6
      <4>2. tensor_map_'[t].content = Abstract!InitializerTerm(t)
        BY <4>1 DEF Owned
      <4>. QED
        BY <3>1, <3>3, <4>2
    <3>. QED
      BY <3>2, <3>3, <1>6
  <2>. QED
    BY <2>2, <2>3
<1>12. OrderInv' /\ ValueInv' /\ ResultInv'
  BY <1>1 DEF OrderInv, ValueInv, ResultInv, Running
<1>13. TimesInv'
  BY <1>1, EmptyFunction DEF TimesInv, Running
<1>. QED
  BY <1>7, <1>8, <1>9, <1>10, <1>11, <1>12, <1>13 DEF EInv

Planning == phase \in {"producers", "consumers", "placing", "done", "thrown"}

LEMMA PlannerPhase ==
    /\ PlannerProofs!IInv' => Planning'
    /\ Planner!Next => resolved' = resolved /\ (phase' = "done" => phase = "placing")
<1>1. PlannerProofs!IInv => Planning
  BY PlannerPromises DEF Planning
<1>2. PlannerProofs!IInv' => Planning'
  BY <1>1, PTL
<1>3. Planner!Next => resolved' = resolved /\ (phase' = "done" => phase = "placing")
  BY DEF Planner!Next, Planner!ScanProducer, Planner!ScanThrows, Planner!ProducersDone,
         Planner!ScanConsumer, Planner!KeepOutputs, Planner!PlaceInNewSlot,
         Planner!ReuseSlot, Planner!AlignThrows, Planner!Assign, Planner!ReturnPlan,
         Planner!Throw
<1>. QED
  BY <1>2, <1>3

\* A run that fails leaves the members where they were.
LEMMA ThrowingStep ==
    EInv /\ (RejectInputs \/ SymbolsThrow \/ PlannerThrows \/ DispatchThrows
             \/ MaterializeFails)
    => EInv'
<1> SUFFICES ASSUME EInv,
                    RejectInputs \/ SymbolsThrow \/ PlannerThrows \/ DispatchThrows
                      \/ MaterializeFails
             PROVE  EInv'
  OBVIOUS
<1>1. LeaveRun(Abstract!Thrown) /\ UNCHANGED members
  BY DEF RejectInputs, SymbolsThrow, PlannerThrows, DispatchThrows, MaterializeFails
<1>2. PlannerIdle'
  <2>1. CASE PlannerThrows
    BY <2>1 DEF PlannerThrows, EndPlanner, PlannerIdle
  <2>2. CASE ~PlannerThrows
    <3>1. pc # "planning" /\ UNCHANGED planner
      BY <2>2 DEF RejectInputs, SymbolsThrow, DispatchThrows, MaterializeFails
    <3>. QED
      BY <3>1 DEF EInv, PlanningInv, PlannerIdle, planner
  <2>. QED
    BY <2>1, <2>2
<1>. QED
  BY <1>1, <1>2, LeaveStep

LEMMA ResolveStep == EInv /\ ResolveSymbols => EInv'
<1> SUFFICES ASSUME EInv, ResolveSymbols PROVE EInv'
  OBVIOUS
<1>1. /\ pc = "symbols" /\ pc' = "planning"
      /\ resolved'.nodes = graph_.nodes
      /\ resolved'.output_names = graph_.output_names
      /\ phase' = "producers" /\ index' = 1
      /\ UNCHANGED <<lifetimes, pending, slots, tensor_slots, total_bytes>>
      /\ UNCHANGED <<graph_, memory_planner_enabled_, profiling_, op_times_ms_,
                     tensor_map_, memory_plan_, arena_, node, output, inputs, result, runs>>
  BY DEF ResolveSymbols
<1>2. result.status # "ok" /\ graph_ \in Models
  BY <1>1 DEF EInv, ControlInv
<1>3. ControlInv'
  BY <1>1 DEF EInv, ControlInv, Running, Nodes
<1>4. PlanningInv'
  <2>1. PlannerProofs!WellFormed'
    <3>1. Len(graph_.nodes) \in Nat
      BY <1>2, ModelFacts
    <3>2. \A k \in 1..Len(graph_.nodes) : Range(graph_.nodes[k].outputs) \subseteq Tensor
      BY <1>2, ModelFacts
    <3>3. PlannerProofs!NodeCount' = Len(graph_.nodes)
      BY <1>1 DEF PlannerProofs!NodeCount
    <3>4. \A k : PlannerProofs!Outputs(k)' = Range(graph_.nodes[k].outputs)
      BY <1>1 DEF PlannerProofs!Outputs, Range, PlannerProofs!Range
    <3>. QED
      BY <3>1, <3>2, <3>3, <3>4 DEF PlannerProofs!WellFormed
  <2>2. PlannerProofs!Started'
    BY <1>1 DEF PlannerProofs!Started, EInv, PlanningInv, PlannerIdle
  <2>3. PlannerProofs!IInv'
    BY <2>1, <2>2, PlannerStarts
  <2>. QED
    BY <1>1, <2>3 DEF PlanningInv
<1>5. MapInv'
  BY <1>1, MapKept DEF EInv
<1>6. PlanInv'
  BY <1>1 DEF EInv, PlanInv, Running, ArenaTyped
<1>7. BoundInv'
  BY <1>1 DEF EInv, BoundInv
<1>8. OrderInv' /\ ValueInv' /\ ResultInv'
  BY <1>1, <1>2 DEF OrderInv, ValueInv, ResultInv, Running
<1>9. TimesInv'
  BY <1>1, <1>2 DEF EInv, TimesInv, Running
<1>. QED
  BY <1>3, <1>4, <1>5, <1>6, <1>7, <1>8, <1>9 DEF EInv

LEMMA PlanningStep == EInv /\ PlannerStep => EInv'
<1> SUFFICES ASSUME EInv, PlannerStep PROVE EInv'
  OBVIOUS
<1>1. /\ pc = "planning" /\ Planner!Next
      /\ phase = "placing" => memory_planner_enabled_
      /\ UNCHANGED <<graph_, memory_planner_enabled_, profiling_, op_times_ms_,
                     tensor_map_, memory_plan_, arena_>>
      /\ UNCHANGED control
  BY DEF PlannerStep
<1> USE DEF control
<1>2. result.status # "ok" /\ graph_ \in Models
  BY <1>1 DEF EInv, ControlInv
<1>3. PlannerProofs!IInv'
  BY <1>1, PlannerContinues DEF EInv, PlanningInv
<1>4. /\ resolved' = resolved
      /\ phase' = "done" => phase = "placing"
      /\ phase' # "none"
  BY <1>1, <1>3, PlannerPhase DEF Planning
<1>5. ControlInv'
  BY <1>1, <1>4 DEF EInv, ControlInv, Running, Nodes
<1>6. PlanningInv'
  BY <1>1, <1>3, <1>4 DEF EInv, PlanningInv
<1>7. MapInv'
  BY <1>1, MapKept DEF EInv
<1>8. PlanInv'
  BY <1>1 DEF EInv, PlanInv, Running, ArenaTyped
<1>9. BoundInv'
  BY <1>1 DEF EInv, BoundInv
<1>10. OrderInv' /\ ValueInv' /\ ResultInv'
  BY <1>1, <1>2 DEF OrderInv, ValueInv, ResultInv, Running
<1>11. TimesInv'
  BY <1>1, <1>2 DEF EInv, TimesInv, Running
<1>. QED
  BY <1>5, <1>6, <1>7, <1>8, <1>9, <1>10, <1>11 DEF EInv

\* The size asked of resize is 63 more than the plan, unless that wraps around.
LEMMA ArenaBytesFacts ==
    ASSUME total_bytes \in Nat
    PROVE  /\ ArenaBytes \in Nat
           /\ total_bytes + 63 <= SizeMax => ArenaBytes = total_bytes + 63
<1> DEFINE n == total_bytes + 63
           m == SizeMax + 1
<1>1. n \in Nat /\ m \in Nat \ {0} /\ ArenaBytes = n % m /\ (n <= SizeMax => n < m)
  BY BoundsAssumption DEF ArenaBytes
<1> HIDE DEF n, m
<1>2. n % m \in Nat /\ (n < m => n % m = n)
  BY <1>1
<1>. QED
  BY <1>1, <1>2 DEF n

\* If resize throws, the plan stays without its arena: nothing in the map lies
\* there, and no node runs.
LEMMA ResizeStep == EInv /\ ResizeThrows => EInv'
<1> SUFFICES ASSUME EInv, ResizeThrows PROVE EInv'
  OBVIOUS
<1> DEFINE plan == memory_plan_'.tensor_slots
<1>1. /\ pc = "planning" /\ pc' = "idle" /\ node' = 0 /\ result' = Abstract!Thrown
      /\ phase = "done" /\ total_bytes # 0 /\ plan = tensor_slots /\ EndPlanner
      /\ UNCHANGED <<graph_, memory_planner_enabled_, profiling_, op_times_ms_,
                     tensor_map_, arena_, inputs, runs>>
  BY DEF ResizeThrows, LeaveRun, Grows
<1>2. result'.status = "thrown"
  BY <1>1 DEF Abstract!Thrown
<1>3. /\ DOMAIN plan \subseteq Tensor
      /\ plan \in [DOMAIN plan -> [offset : Nat, size : 1..SizeMax]]
      /\ DOMAIN plan # {}
  <2>1. PlannerProofs!IInv
    BY <1>1 DEF EInv, PlanningInv
  <2>. QED
    BY <1>1, <2>1, PlannerPromises
<1> HIDE DEF plan
<1>4. ControlInv'
  BY <1>1, <1>2 DEF EInv, ControlInv, Running, Nodes, EndPlanner
<1>5. PlanningInv'
  BY <1>1 DEF PlanningInv, PlannerIdle, EndPlanner
<1>6. MapInv'
  BY <1>1 DEF EInv, MapInv
<1>7. PlanInv'
  BY <1>1, <1>3 DEF EInv, PlanInv, Running, ArenaTyped, plan
<1>8. BoundInv' /\ OrderInv' /\ ValueInv' /\ ResultInv'
  BY <1>1, <1>2 DEF BoundInv, OrderInv, ValueInv, ResultInv, Running
<1>9. TimesInv'
  BY <1>1, <1>2 DEF EInv, TimesInv, Running
<1>. QED
  BY <1>4, <1>5, <1>6, <1>7, <1>8, <1>9 DEF EInv

\* The nodes start with the tensors that are given, all of them outside the
\* arena.
LEMMA StartStep == EInv /\ (RunWithoutPlan \/ InstallPlan) => EInv'
<1> SUFFICES ASSUME EInv, RunWithoutPlan \/ InstallPlan PROVE EInv'
  OBVIOUS
<1> DEFINE plan == memory_plan_'.tensor_slots
<1>1. /\ pc = "planning" /\ pc' = "dispatch" /\ node' = 1 /\ EndPlanner
      /\ UNCHANGED <<graph_, memory_planner_enabled_, profiling_, op_times_ms_,
                     tensor_map_, output, inputs, result, runs>>
  BY DEF RunWithoutPlan, InstallPlan, StartNodes
<1>2. /\ plan \in [DOMAIN plan -> [offset : Nat, size : 1..SizeMax]]
      /\ DOMAIN plan \subseteq Tensor
      /\ DOMAIN plan # {} => memory_planner_enabled_
      /\ DOMAIN plan = {} => arena_'.content = <<>>
      /\ \/ arena_' = arena_
         \/ \E g : \E c \in Nat :
               arena_' = [generation |-> g, capacity |-> c, content |-> <<>>]
  <2>1. CASE RunWithoutPlan
    <3>1. plan = <<>> /\ DOMAIN plan = {}
      BY <2>1, EmptyFunction DEF RunWithoutPlan
    <3>2. arena_' = [generation |-> arena_.generation + 1, capacity |-> 0,
                     content |-> <<>>]
      BY <2>1 DEF RunWithoutPlan, FreeArena
    <3> HIDE DEF plan
    <3>3. plan \in [DOMAIN plan -> [offset : Nat, size : 1..SizeMax]]
      BY <3>1
    <3>. QED
      BY <3>1, <3>2, <3>3
  <2>2. CASE InstallPlan
    <3>1. plan = tensor_slots /\ phase = "done"
      BY <2>2 DEF InstallPlan
    <3>2. PlannerProofs!IInv /\ memory_planner_enabled_
      BY <1>1, <3>1 DEF EInv, PlanningInv
    <3>3. /\ DOMAIN tensor_slots \subseteq Tensor
          /\ tensor_slots \in [DOMAIN tensor_slots -> [offset : Nat, size : 1..SizeMax]]
          /\ total_bytes \in Nat
          /\ DOMAIN tensor_slots = {} => total_bytes = 0
      BY <3>2, PlannerPromises
    <3>4. IF total_bytes = 0 THEN FreeArena ELSE ResizeArena(ArenaBytes)
      BY <2>2 DEF InstallPlan
    <3>5. ArenaBytes \in Nat /\ 0 \in Nat
      BY <3>3, ArenaBytesFacts
    <3>6. \/ arena_' = arena_
          \/ \E g : \E c \in Nat :
                arena_' = [generation |-> g, capacity |-> c, content |-> <<>>]
      BY <3>4, <3>5 DEF FreeArena, ResizeArena
    <3>7. total_bytes = 0 => arena_'.content = <<>>
      BY <3>4 DEF FreeArena
    <3>. QED
      BY <3>1, <3>2, <3>3, <3>6, <3>7
  <2>. QED
    BY <2>1, <2>2
<1>3. /\ graph_ \in Models /\ Len(Nodes) \in Nat
      /\ result.status # "ok"
  BY <1>1, ModelFacts DEF EInv, ControlInv, Nodes
<1>4. /\ DOMAIN tensor_map_ = Given(graph_)
      /\ \A t \in DOMAIN tensor_map_ :
            /\ tensor_map_[t].content = Abstract!Given(graph_, inputs)[t]
            /\ tensor_map_[t].in_arena = FALSE
            /\ TensorTyped(arena_.generation, tensor_map_[t])
  BY <1>1 DEF EInv, BoundInv, MapInv, TensorTyped
<1>5. ControlInv'
  BY <1>1, <1>3 DEF EInv, ControlInv, Running, Nodes, EndPlanner
<1>6. PlanningInv'
  BY <1>1 DEF PlanningInv, PlannerIdle, EndPlanner
<1>7. MapInv'
  <2>1. ASSUME NEW t \in DOMAIN tensor_map_
        PROVE  TensorTyped(arena_'.generation, tensor_map_[t])
    BY <1>4 DEF TensorTyped
  <2>. QED
    BY <1>1, <1>4, <2>1 DEF EInv, MapInv
<1>8. PlanInv'
  <2>1. ArenaTyped'
    <3>1. CASE arena_' = arena_
      BY <3>1 DEF EInv, PlanInv, ArenaTyped
    <3>2. ASSUME NEW g, NEW c \in Nat,
                 arena_' = [generation |-> g, capacity |-> c, content |-> <<>>]
          PROVE  ArenaTyped'
      BY <3>2, EmptyFunction DEF ArenaTyped
    <3>. QED
      BY <1>2, <3>1, <3>2
  <2>. QED
    BY <1>1, <1>2, <2>1 DEF PlanInv
<1>9. BoundInv'
  BY <1>1 DEF BoundInv
<1>10. Dispatched' = 0
  BY <1>1 DEF Dispatched
<1>11. OrderInv'
  <2>1. InOrder(graph_, 0)
    BY DEF InOrder
  <2>2. Known(graph_, 0) = Given(graph_)
    BY DEF Known
  <2>. QED
    BY <1>1, <1>4, <1>10, <2>1, <2>2 DEF OrderInv
<1>12. ValueInv'
  <2>1. ASSUME NEW t \in DOMAIN tensor_map_
        PROVE  ContentIn(arena_', tensor_map_[t]) = Abstract!Values(graph_, inputs)[t]
    <3>1. ContentIn(arena_', tensor_map_[t]) = Abstract!Given(graph_, inputs)[t]
      BY <1>4 DEF ContentIn
    <3>2. Abstract!Values(graph_, inputs)[t] = Abstract!Given(graph_, inputs)[t]
      BY <1>3, <1>4, ValuesGiven
    <3>. QED
      BY <3>1, <3>2
  <2>. QED
    BY <1>1, <1>4, <2>1 DEF ValueInv
<1>13. ResultInv'
  BY <1>1, <1>3 DEF ResultInv
<1>14. TimesInv'
  <2>1. op_times_ms_ = <<>> /\ Naturals(op_times_ms_) /\ Total(op_times_ms_) = 0
    BY <1>1, EmptyFunction DEF EInv, TimesInv
  <2>. QED
    BY <1>1, <1>3, <2>1 DEF TimesInv
<1>. QED
  BY <1>5, <1>6, <1>7, <1>8, <1>9, <1>11, <1>12, <1>13, <1>14 DEF EInv

-----------------------------------------------------------------------------
(* The steps of the nodes *)

InsertInto(map, name, tensor, map2) ==
    /\ DOMAIN map2 = DOMAIN map \cup {name}
    /\ map2[name] = tensor
    /\ \A t \in DOMAIN map \ {name} : map2[t] = map[t]

LEMMA InsertFacts ==
    ASSUME NEW map, NEW name, NEW tensor
    PROVE  InsertInto(map, name, tensor, Insert(map, name, tensor))
BY DEF InsertInto, Insert

\* Where the engine is when it dispatches a node.
LEMMA AtDispatch ==
    ASSUME EInv, pc = "dispatch", node <= Len(Nodes)
    PROVE  /\ graph_ \in Models /\ Len(Nodes) \in Nat
           /\ node \in 1..Len(Nodes) /\ node - 1 \in Nat
           /\ result.status = "running"
           /\ WellFormedNode(Nodes[node])
           /\ Dispatched = node - 1
           /\ DOMAIN tensor_map_ = Known(graph_, node - 1)
           /\ InOrder(graph_, node - 1)
           /\ NodeOutput(graph_, node) \in Tensor
           /\ NodeOutput(graph_, node) \notin DOMAIN tensor_map_
<1>1. graph_ \in Models /\ Len(Nodes) \in Nat
  BY ModelFacts DEF EInv, ControlInv, Nodes
<1>2. node \in 1..Len(Nodes) /\ node - 1 \in Nat /\ result.status = "running"
  BY <1>1 DEF EInv, ControlInv
<1>3. WellFormedNode(Nodes[node]) /\ NodeOutput(graph_, node) \in Tensor
  BY <1>1, <1>2, ModelFacts DEF Nodes
<1>4. Dispatched = node - 1
  BY DEF Dispatched
<1>5. DOMAIN tensor_map_ = Known(graph_, node - 1) /\ InOrder(graph_, node - 1)
  BY <1>4 DEF EInv, OrderInv, Running
<1>6. NodeOutput(graph_, node) \notin Known(graph_, node - 1)
  BY <1>1, <1>2, OutputIsNew DEF Nodes
<1>. QED
  BY <1>1, <1>2, <1>3, <1>4, <1>5, <1>6

\* The inputs of the node about to run have the values of the graph.
LEMMA InputsIntact ==
    ASSUME EInv, pc = "dispatch", node <= Len(Nodes), KernelRuns(Nodes[node]),
           PlanSafe, ~StrayView, NEW i \in DOMAIN Nodes[node].inputs
    PROVE  LET t == Nodes[node].inputs[i] IN
           /\ t \in DOMAIN tensor_map_
           /\ ContentIn(arena_, tensor_map_[t]) = Abstract!Values(graph_, inputs)[t]
           /\ tensor_map_[t].in_arena =>
                /\ tensor_map_[t].views = <<>>
                /\ tensor_map_[t].offset \in DOMAIN arena_.content
<1> DEFINE t == Nodes[node].inputs[i]
<1>1. node \in 1..Len(Nodes) /\ Dispatched = node - 1 /\ Len(Nodes) \in Nat
  BY AtDispatch
<1>2. t \in Range(Nodes[node].inputs)
  BY DEF Range
<1>3. t \in DOMAIN tensor_map_
  BY <1>2 DEF KernelRuns
<1>4. Live(t)
  BY <1>1, <1>2 DEF Live
<1>5. Running /\ ~Fresh(t)
  BY DEF Running, Fresh
<1> HIDE DEF t
<1>6. /\ ContentIn(arena_, tensor_map_[t]) = Abstract!Values(graph_, inputs)[t]
      /\ tensor_map_[t].in_arena => Written(t)
  BY <1>3, <1>4, <1>5 DEF EInv, ValueInv
<1>7. ASSUME tensor_map_[t].in_arena
      PROVE  /\ tensor_map_[t].views = <<>>
             /\ tensor_map_[t].offset \in DOMAIN arena_.content
  <2>1. t \in DOMAIN memory_plan_.tensor_slots
    BY <1>3, <1>7 DEF StrayView
  <2>2. /\ tensor_map_[t].offset = memory_plan_.tensor_slots[t].offset
        /\ tensor_map_[t].views = <<>>
    BY <1>3, <1>5, <1>7, <2>1 DEF EInv, OrderInv
  <2>3. Written(t)
    BY <1>6, <1>7
  <2>. QED
    BY <2>2, <2>3 DEF Written
<1>. QED
  BY <1>3, <1>6, <1>7 DEF t

\* So the kernel makes the value of its output.
LEMMA KernelValue ==
    ASSUME EInv, pc = "dispatch", node <= Len(Nodes), KernelRuns(Nodes[node]),
           PlanSafe, ~StrayView
    PROVE  ContentIn(arena_, KernelResult(Nodes[node])) =
             Abstract!Values(graph_, inputs)[NodeOutput(graph_, node)]
<1> DEFINE n == Nodes[node]
           arg == tensor_map_[n.inputs[1]]
           made == KernelResult(n)
           values == Abstract!Values(graph_, inputs)
<1>1. /\ graph_ \in Models /\ Len(Nodes) \in Nat /\ node \in 1..Len(Nodes)
      /\ WellFormedNode(n)
      /\ DOMAIN tensor_map_ = Known(graph_, node - 1)
      /\ InOrder(graph_, node - 1)
  BY AtDispatch
<1>2. \A t \in DOMAIN tensor_map_ : TensorTyped(arena_.generation, tensor_map_[t])
  BY DEF EInv, MapInv
<1>3. InOrder(graph_, node)
  <2>1. Range(n.inputs) \subseteq Known(graph_, node - 1)
    BY <1>1 DEF KernelRuns
  <2>2. \A j \in 1..node : j \in 1..node-1 \/ j = node
    BY <1>1
  <2>. QED
    BY <1>1, <2>1, <2>2 DEF InOrder, Nodes
<1>4. values[NodeOutput(graph_, node)] = Abstract!Apply(n, Arguments(n, values))
  BY <1>1, <1>3, ValuesApply DEF Nodes
<1>5. \A i \in DOMAIN n.inputs :
         ContentIn(arena_, tensor_map_[n.inputs[i]]) = values[n.inputs[i]]
  BY InputsIntact
<1>6. CASE ~SharesStorage(n, arg)
  <2>1. made = Owned(made.dtype, made.shape,
                     Abstract!Apply(n, [i \in DOMAIN n.inputs |->
                                          Content(tensor_map_[n.inputs[i]])]))
    BY <1>1, <1>2, <1>6, KernelFacts
  <2>2. [i \in DOMAIN n.inputs |-> Content(tensor_map_[n.inputs[i]])] = Arguments(n, values)
    BY <1>5, ContentNow DEF Arguments
  <2> HIDE DEF made, n, values
  <2>3. made = Owned(made.dtype, made.shape, Abstract!Apply(n, Arguments(n, values)))
    BY <2>1, <2>2
  <2>4. made.in_arena = FALSE /\ made.content = Abstract!Apply(n, Arguments(n, values))
    BY <2>3 DEF Owned
  <2>. QED
    BY <1>4, <2>4 DEF ContentIn, made, n, values
<1>7. CASE SharesStorage(n, arg)
  <2>1. /\ arg.in_arena
        /\ n.op # "Add"
        /\ made = InArena(made.dtype, made.shape, made.strides, arg.offset,
                          Append(arg.views, ViewOp(n)))
    BY <1>1, <1>2, <1>7, KernelFacts
  <2>2. DOMAIN n.inputs = {1} /\ n.inputs[1] \in DOMAIN tensor_map_
    BY <1>1, <2>1, InputsOfNode
  <2>3. arg.views = <<>> /\ arg.offset \in DOMAIN arena_.content
    BY <2>1, <2>2, InputsIntact
  <2>4. arg.generation = arena_.generation
    BY <1>2, <2>1, <2>2 DEF TensorTyped, Placed
  <2> DEFINE base == arena_.content[arg.offset].content
  <2>5. ContentIn(arena_, arg) = base
    BY <2>1, <2>3, <2>4, NoView DEF ContentIn
  <2> HIDE DEF made, arg
  <2>6. /\ made.in_arena /\ made.offset = arg.offset
        /\ made.generation = arena_.generation
        /\ made.views = <<ViewOp(n)>>
    BY <2>1, <2>3 DEF InArena
  <2>7. ContentIn(arena_, made) = Shown(base, <<ViewOp(n)>>)
    BY <2>3, <2>6 DEF ContentIn
  <2>8. ContentIn(arena_, made) = Abstract!Apply(ViewOp(n), <<base>>)
    BY <2>7, OneView
  <2>9. Arguments(n, values) = <<base>>
    <3>1. values[n.inputs[1]] = base
      BY <1>5, <2>2, <2>5 DEF arg
    <3> HIDE DEF n, values, base
    <3>. QED
      BY <2>2, <3>1 DEF Arguments
  <2>10. Abstract!Apply(ViewOp(n), <<base>>) = Abstract!Apply(n, <<base>>)
    <3>1. n.op # "Cast"
      BY <1>7 DEF SharesStorage, Views
    <3> HIDE DEF n, base
    <3>2. ViewOp(n).op = n.op
      BY DEF ViewOp
    <3>. QED
      BY <3>1, <3>2 DEF Abstract!Apply
  <2>. QED
    BY <1>4, <2>8, <2>9, <2>10 DEF made
<1>. QED
  BY <1>6, <1>7

LEMMA DispatchStep == EInv /\ Dispatch => EInv'
<1> SUFFICES ASSUME EInv, Dispatch PROVE EInv'
  OBVIOUS
<1> DEFINE n == Nodes[node]
           out == NodeOutput(graph_, node)
           arg == tensor_map_[n.inputs[1]]
           made == KernelResult(n)
<1>1. /\ pc = "dispatch" /\ pc' = "materialize" /\ output' = 1
      /\ node <= Len(Nodes) /\ KernelRuns(n)
      /\ InsertInto(tensor_map_, out, made, tensor_map_')
      /\ UNCHANGED <<graph_, memory_planner_enabled_, profiling_, op_times_ms_,
                     memory_plan_, naive_activation_bytes_, arena_, node, inputs,
                     result, runs, planner>>
  BY InsertFacts DEF Dispatch, CurrentNode, NodeOutput, Nodes
<1>2. /\ graph_ \in Models /\ Len(Nodes) \in Nat
      /\ node \in 1..Len(Nodes) /\ node - 1 \in Nat
      /\ result.status = "running"
      /\ WellFormedNode(n)
      /\ Dispatched = node - 1
      /\ DOMAIN tensor_map_ = Known(graph_, node - 1)
      /\ InOrder(graph_, node - 1)
      /\ out \in Tensor
      /\ out \notin DOMAIN tensor_map_
  BY <1>1, AtDispatch
<1>3. Dispatched' = node
  BY <1>1 DEF Dispatched
<1>4. /\ DOMAIN tensor_map_' = DOMAIN tensor_map_ \cup {out}
      /\ tensor_map_'[out] = made
      /\ \A t \in DOMAIN tensor_map_ : tensor_map_'[t] = tensor_map_[t]
  BY <1>1, <1>2 DEF InsertInto
<1>5. \A t \in DOMAIN tensor_map_ : TensorTyped(arena_.generation, tensor_map_[t])
  BY DEF EInv, MapInv
<1>6. n.inputs[1] \in DOMAIN tensor_map_
  BY <1>1, <1>2, InputsOfNode
<1>7. /\ TensorTyped(arena_.generation, made)
      /\ made.in_arena => arg.in_arena
  <2>1. CASE SharesStorage(n, arg)
    <3>1. /\ Shaped(made) /\ arg.in_arena
          /\ made = InArena(made.dtype, made.shape, made.strides, arg.offset,
                            Append(arg.views, ViewOp(n)))
      BY <1>1, <1>2, <1>5, <2>1, KernelFacts
    <3>2. arg.offset \in Nat
      BY <1>5, <1>6, <3>1 DEF TensorTyped
    <3> HIDE DEF made, arg, n
    <3> DEFINE views == Append(arg.views, ViewOp(n))
    <3>3. made = InArena(made.dtype, made.shape, made.strides, arg.offset, views)
      BY <3>1
    <3> HIDE DEF views
    <3>4. /\ made.in_arena = TRUE /\ made.offset = arg.offset /\ made.views = views
      BY <3>3 DEF InArena
    <3>5. made = Placed(made.dtype, made.shape, made.strides, made.offset,
                        arena_.generation, made.views)
      BY <3>3, <3>4 DEF InArena, Placed
    <3>. QED
      BY <3>1, <3>2, <3>4, <3>5 DEF TensorTyped
  <2>2. CASE ~SharesStorage(n, arg)
    <3>1. Shaped(made) /\ \E c : made = Owned(made.dtype, made.shape, c)
      BY <1>1, <1>2, <1>5, <2>2, KernelFacts
    <3> HIDE DEF made, arg, n
    <3>2. PICK c : made = Owned(made.dtype, made.shape, c)
      BY <3>1
    <3>3. made.in_arena = FALSE /\ made.content = c
      BY <3>2 DEF Owned
    <3>. QED
      BY <3>1, <3>2, <3>3 DEF TensorTyped
  <2>. QED
    BY <2>1, <2>2
<1> HIDE DEF made, arg, n, out
<1>8. ControlInv'
  <2>1. 1 \in 1..Len(Nodes[node].outputs) + 1
    <3>1. Nodes[node].outputs \in Seq(Tensor)
      BY <1>2 DEF WellFormedNode, n
    <3>2. Len(Nodes[node].outputs) \in Nat
      BY <3>1
    <3>. QED
      BY <3>2
  <2>. QED
    BY <1>1, <1>2, <2>1 DEF EInv, ControlInv, Running, Nodes, planner
<1>9. PlanningInv'
  BY <1>1 DEF EInv, PlanningInv, PlannerIdle, planner
<1>10. MapInv'
  <2>1. DOMAIN tensor_map_' \subseteq Tensor
    BY <1>2, <1>4 DEF EInv, MapInv
  <2>2. ASSUME NEW t \in DOMAIN tensor_map_'
        PROVE  /\ TensorTyped(arena_.generation, tensor_map_'[t])
               /\ tensor_map_'[t].in_arena => DOMAIN memory_plan_.tensor_slots # {}
    <3>1. CASE t = out
      <4>1. arg.in_arena => DOMAIN memory_plan_.tensor_slots # {}
        BY <1>6 DEF EInv, MapInv, arg
      <4>. QED
        BY <3>1, <1>4, <1>7, <4>1
    <3>2. CASE t \in DOMAIN tensor_map_
      BY <3>2, <1>4 DEF EInv, MapInv
    <3>. QED
      BY <3>1, <3>2, <1>4
  <2>. QED
    BY <1>1, <2>1, <2>2 DEF MapInv
<1>11. PlanInv'
  BY <1>1 DEF EInv, PlanInv, Running, ArenaTyped
<1>12. BoundInv'
  BY <1>1 DEF BoundInv
<1>13. \A t : Fresh(t)' <=> t = out
  BY <1>1 DEF Fresh, out
<1>14. OrderInv'
  <2>1. InOrder(graph_, node)
    <3>1. Range(n.inputs) \subseteq Known(graph_, node - 1)
      BY <1>1, <1>2 DEF KernelRuns
    <3>2. \A j \in 1..node : j \in 1..node-1 \/ j = node
      BY <1>2
    <3>. QED
      BY <1>2, <3>1, <3>2 DEF InOrder, Nodes, n
  <2>2. DOMAIN tensor_map_' = Known(graph_, node)
    BY <1>2, <1>4, OutputIsNew DEF out, Nodes
  <2>3. ASSUME NEW t \in DOMAIN tensor_map_', tensor_map_'[t].in_arena,
               t \in DOMAIN memory_plan_.tensor_slots, ~Fresh(t)'
        PROVE  /\ tensor_map_'[t].offset = memory_plan_.tensor_slots[t].offset
               /\ tensor_map_'[t].views = <<>>
               /\ \E d \in 1..node : t = NodeOutput(graph_, d)
    <3>0. t # out
      BY <1>13, <2>3
    <3>1. t \in DOMAIN tensor_map_ /\ tensor_map_'[t] = tensor_map_[t]
      BY <1>4, <2>3, <3>0
    <3>2. /\ tensor_map_[t].offset = memory_plan_.tensor_slots[t].offset
          /\ tensor_map_[t].views = <<>>
          /\ \E d \in 1..node-1 : t = NodeOutput(graph_, d)
      BY <1>1, <1>2, <2>3, <3>1 DEF EInv, OrderInv, Running, Fresh
    <3>3. 1..node-1 \subseteq 1..node
      BY <1>2
    <3>. QED
      BY <3>1, <3>2, <3>3
  <2>. QED
    BY <1>1, <1>3, <2>1, <2>2, <2>3 DEF OrderInv
<1>15. ValueInv'
  <2> SUFFICES ASSUME PlanSafe', ~StrayView', NEW t \in DOMAIN tensor_map_',
                      Live(t)' \/ Fresh(t)'
               PROVE  /\ ContentIn(arena_, tensor_map_'[t]) =
                           Abstract!Values(graph_, inputs)[t]
                      /\ tensor_map_'[t].in_arena /\ ~Fresh(t)' => Written(t)'
    BY <1>1 DEF ValueInv
  <2>1. PlanSafe
    BY <1>1, PlanSafeKept
  <2>2. ~StrayView
    BY <1>1, <1>4 DEF StrayView
  <2>3. CASE t = out
    <3>1. ContentIn(arena_, made) = Abstract!Values(graph_, inputs)[out]
      BY <1>1, <2>1, <2>2, KernelValue DEF made, n, out
    <3>2. Fresh(t)'
      BY <1>13, <2>3
    <3>. QED
      BY <1>4, <2>3, <3>1, <3>2
  <2>4. CASE t \in DOMAIN tensor_map_
    <3>1. ~Fresh(t)' /\ ~Fresh(t)
      BY <1>1, <1>2, <2>4 DEF Fresh, out
    <3>2. Live(t)
      <4>1. \A k \in node+1..Len(Nodes) : k \in (node-1)+1..Len(Nodes)
        BY <1>2
      <4>. QED
        BY <1>1, <1>2, <1>3, <3>1, <4>1 DEF Live, Nodes
    <3>3. /\ ContentIn(arena_, tensor_map_[t]) = Abstract!Values(graph_, inputs)[t]
          /\ tensor_map_[t].in_arena => Written(t)
      BY <1>1, <2>1, <2>2, <2>4, <3>1, <3>2 DEF EInv, ValueInv, Running
    <3>4. Written(t)' <=> Written(t)
      BY <1>1 DEF Written
    <3>. QED
      BY <1>4, <2>4, <3>3, <3>4
  <2>. QED
    BY <1>4, <2>3, <2>4
<1>16. ResultInv'
  BY <1>1, <1>2 DEF ResultInv
<1>17. TimesInv'
  BY <1>1, <1>2 DEF EInv, TimesInv, Running, Nodes
<1>. QED
  BY <1>8, <1>9, <1>10, <1>11, <1>12, <1>14, <1>15, <1>16, <1>17 DEF EInv

\* Where the engine is when it looks at the outputs of a node.
LEMMA AtMaterialize ==
    ASSUME EInv, pc = "materialize"
    PROVE  /\ graph_ \in Models /\ Len(Nodes) \in Nat
           /\ node \in 1..Len(Nodes)
           /\ Len(Nodes[node].outputs) \in Nat \ {0}
           /\ DOMAIN Nodes[node].outputs = 1..Len(Nodes[node].outputs)
           /\ output \in 1..Len(Nodes[node].outputs) + 1
           /\ result.status = "running"
           /\ Dispatched = node
           /\ DOMAIN tensor_map_ = Known(graph_, node)
           /\ InOrder(graph_, node)
<1>1. graph_ \in Models /\ Len(Nodes) \in Nat
  BY ModelFacts DEF EInv, ControlInv, Nodes
<1>2. /\ node \in 1..Len(Nodes) /\ result.status = "running"
      /\ output \in 1..Len(Nodes[node].outputs) + 1
  BY <1>1 DEF EInv, ControlInv
<1>3. /\ Len(Nodes[node].outputs) \in Nat \ {0}
      /\ DOMAIN Nodes[node].outputs = 1..Len(Nodes[node].outputs)
  <2> DEFINE outs == Nodes[node].outputs
  <2>1. outs \in Seq(Tensor) /\ outs # <<>>
    BY <1>1, <1>2, ModelFacts DEF WellFormedNode, Nodes
  <2> HIDE DEF outs
  <2>2. Len(outs) \in Nat \ {0} /\ DOMAIN outs = 1..Len(outs)
    BY <2>1
  <2>. QED
    BY <2>2 DEF outs
<1>4. Dispatched = node
  BY DEF Dispatched
<1>5. DOMAIN tensor_map_ = Known(graph_, node) /\ InOrder(graph_, node)
  BY <1>4 DEF EInv, OrderInv, Running
<1>. QED
  BY <1>1, <1>2, <1>3, <1>4, <1>5

\* What is there after content has been copied to offset.
Stored(arena, offset, size, content) ==
    [size |-> size,
     content |-> IF offset + size <= arena.capacity THEN content ELSE Garbage]

\* What copying to a slot leaves of the arena.
Overwritten(arena, offset, size, content, arena2) ==
    /\ arena2.generation = arena.generation
    /\ arena2.capacity = arena.capacity
    /\ DOMAIN arena2 = {"generation", "capacity", "content"}
    /\ DOMAIN arena2.content = DOMAIN arena.content \cup {offset}
    /\ arena2.content[offset] = Stored(arena, offset, size, content)
    /\ \A o \in DOMAIN arena.content \ {offset} :
          /\ DOMAIN arena2.content[o] = {"size", "content"}
          /\ arena2.content[o].size = arena.content[o].size
          /\ ~Intersect(o, arena.content[o].size, offset, size) =>
               arena2.content[o] = arena.content[o]

LEMMA OverwriteFacts ==
    ASSUME ArenaTyped, NEW offset, NEW size, NEW content
    PROVE  Overwritten(arena_, offset, size, content, Overwrite(offset, size, content))
<1> DEFINE a == Overwrite(offset, size, content)
           written == [o \in DOMAIN arena_.content \cup {offset} |->
                        IF o = offset THEN Stored(arena_, offset, size, content)
                        ELSE IF Intersect(o, arena_.content[o].size, offset, size)
                             THEN [arena_.content[o] EXCEPT !.content = Garbage]
                             ELSE arena_.content[o]]
<1>1. a = [arena_ EXCEPT !.content = written]
  BY DEF Overwrite, Stored
<1>2. \A o \in DOMAIN arena_.content : DOMAIN arena_.content[o] = {"size", "content"}
  BY DEF ArenaTyped
<1>3. /\ DOMAIN written = DOMAIN arena_.content \cup {offset}
      /\ written[offset] = Stored(arena_, offset, size, content)
  OBVIOUS
<1>4. ASSUME NEW o \in DOMAIN arena_.content \ {offset}
      PROVE  /\ DOMAIN written[o] = {"size", "content"}
             /\ written[o].size = arena_.content[o].size
             /\ ~Intersect(o, arena_.content[o].size, offset, size) =>
                  written[o] = arena_.content[o]
  BY <1>2
<1> HIDE DEF written
<1>5. DOMAIN arena_ = {"generation", "capacity", "content"}
  BY DEF ArenaTyped
<1>6. /\ a.generation = arena_.generation /\ a.capacity = arena_.capacity
      /\ a.content = written
      /\ DOMAIN a = {"generation", "capacity", "content"}
  BY <1>1, <1>5
<1> HIDE DEF a
<1>. QED
  BY <1>3, <1>4, <1>6 DEF Overwritten, a

\* What goes to the slot is what the tensor shows, even where it shows a part of
\* the arena itself.
LEMMA SourceFacts ==
    ASSUME NEW x, TensorTyped(arena_.generation, x), NEW offset
    PROVE  /\ Copied(Detached(x), offset) = ContentIn(arena_, x)
           /\ Detached(x).dtype = x.dtype /\ Detached(x).shape = x.shape
<1> DEFINE source == Detached(x)
           content == ContentIn(arena_, x)
<1>1. source = Owned(x.dtype, x.shape, content)
  <2>1. CASE x.in_arena
    <3>1. Content(x) = content
      BY ContentNow
    <3>. QED
      BY <2>1, <3>1 DEF Detached, Clone
  <2>2. CASE ~x.in_arena
    <3>1. x = Owned(x.dtype, x.shape, x.content)
      BY <2>2 DEF TensorTyped
    <3>2. content = x.content
      BY <2>2 DEF ContentIn
    <3>. QED
      BY <2>2, <3>1, <3>2 DEF Detached
  <2>. QED
    BY <2>1, <2>2
<1> HIDE DEF source, content
<1>2. /\ source.in_arena = FALSE /\ source.dtype = x.dtype /\ source.shape = x.shape
      /\ source.content = content
  BY <1>1 DEF Owned
<1>3. Copied(source, offset) = Content(source)
  BY <1>2 DEF Copied
<1>4. Content(source) = content
  BY <1>2, ContentNow DEF ContentIn
<1>. QED
  BY <1>2, <1>3, <1>4 DEF source, content

\* An output without a slot stays where the kernel left it.
LEMMA LeftInPlace ==
    ASSUME EInv, MaterializeOutput, ~Planned PROVE EInv'
<1>1. /\ pc = "materialize" /\ pc' = "materialize"
      /\ output <= Len(Nodes[node].outputs) /\ output' = output + 1
      /\ UNCHANGED <<graph_, memory_planner_enabled_, profiling_, op_times_ms_,
                     tensor_map_, memory_plan_, arena_, node, inputs, result,
                     runs, planner>>
  BY DEF MaterializeOutput, CurrentNode, Nodes
<1>2. /\ graph_ \in Models /\ Len(Nodes) \in Nat /\ node \in 1..Len(Nodes)
      /\ Len(Nodes[node].outputs) \in Nat \ {0}
      /\ output \in 1..Len(Nodes[node].outputs) + 1
      /\ result.status = "running"
      /\ Dispatched = node
  BY <1>1, AtMaterialize
<1>3. Dispatched' = node /\ \A t : ~Fresh(t)'
  BY <1>1, <1>2 DEF Dispatched, Fresh
<1>4. ASSUME NEW t, Fresh(t) PROVE t \notin DOMAIN memory_plan_.tensor_slots
  <2>1. t = CurrentOutput
    BY <1>4 DEF Fresh, CurrentOutput, CurrentNode, NodeOutput
  <2>2. ~memory_planner_enabled_ => DOMAIN memory_plan_.tensor_slots = {}
    BY <1>1 DEF EInv, PlanInv, Running
  <2>. QED
    BY <2>1, <2>2 DEF Planned
<1>5. ControlInv'
  BY <1>1, <1>2 DEF EInv, ControlInv, Running, Nodes, planner
<1>6. PlanningInv'
  BY <1>1 DEF EInv, PlanningInv, PlannerIdle, planner
<1>7. MapInv'
  BY <1>1, MapKept DEF EInv
<1>8. PlanInv'
  BY <1>1 DEF EInv, PlanInv, Running, ArenaTyped
<1>9. BoundInv'
  BY <1>1 DEF BoundInv
<1>10. OrderInv'
  <2>1. ASSUME NEW t \in DOMAIN tensor_map_, tensor_map_[t].in_arena,
               t \in DOMAIN memory_plan_.tensor_slots
        PROVE  /\ tensor_map_[t].offset = memory_plan_.tensor_slots[t].offset
               /\ tensor_map_[t].views = <<>>
               /\ \E d \in 1..node : t = NodeOutput(graph_, d)
    BY <1>1, <1>2, <1>4, <2>1 DEF EInv, OrderInv, Running
  <2>2. InOrder(graph_, node) /\ DOMAIN tensor_map_ = Known(graph_, node)
    BY <1>1, AtMaterialize
  <2>. QED
    BY <1>1, <1>3, <2>1, <2>2 DEF OrderInv
<1>11. ValueInv'
  <2> SUFFICES ASSUME PlanSafe', ~StrayView', NEW t \in DOMAIN tensor_map_, Live(t)'
               PROVE  /\ ContentIn(arena_, tensor_map_[t]) =
                           Abstract!Values(graph_, inputs)[t]
                      /\ tensor_map_[t].in_arena => Written(t)'
    BY <1>1, <1>3 DEF ValueInv
  <2>1. PlanSafe /\ ~StrayView
    BY <1>1, PlanSafeKept, StrayKept
  <2>2. Live(t)
    BY <1>1, <1>2, <1>3 DEF Live, Nodes
  <2>3. /\ ContentIn(arena_, tensor_map_[t]) = Abstract!Values(graph_, inputs)[t]
        /\ tensor_map_[t].in_arena /\ ~Fresh(t) => Written(t)
    BY <1>1, <2>1, <2>2 DEF EInv, ValueInv, Running
  <2>4. tensor_map_[t].in_arena => ~Fresh(t)
    BY <1>4, <2>1 DEF StrayView
  <2>5. Written(t)' <=> Written(t)
    BY <1>1 DEF Written
  <2>. QED
    BY <2>3, <2>4, <2>5
<1>12. ResultInv'
  BY <1>1, <1>2 DEF ResultInv
<1>13. TimesInv'
  BY <1>1 DEF EInv, TimesInv, Running, Nodes
<1>. QED
  BY <1>5, <1>6, <1>7, <1>8, <1>9, <1>10, <1>11, <1>12, <1>13 DEF EInv

\* Only the first output of a node has a tensor, so it alone can go to a slot.
LEMMA MovedFacts ==
    ASSUME EInv, MaterializeOutput, Planned
    PROVE  LET out == NodeOutput(graph_, node)
               slot == memory_plan_.tensor_slots[out]
               x == tensor_map_[out]
           IN  /\ output = 1
               /\ out \in DOMAIN tensor_map_
               /\ out \in DOMAIN memory_plan_.tensor_slots
               /\ NBytes(x) = slot.size
               /\ slot.offset \in Nat /\ slot.size \in 1..SizeMax /\ slot.size \in Nat
               /\ Overwritten(arena_, slot.offset, slot.size, ContentIn(arena_, x), arena_')
               /\ InsertInto(tensor_map_, out,
                             InArena(x.dtype, x.shape, ContiguousStrides(x.shape),
                                     slot.offset, <<>>),
                             tensor_map_')
<1> DEFINE out == CurrentOutput
           slot == memory_plan_.tensor_slots[out]
           x == tensor_map_[out]
           source == Detached(x)
<1>1. /\ pc = "materialize" /\ output <= Len(Nodes[node].outputs)
      /\ out \in DOMAIN tensor_map_ /\ NBytes(x) = slot.size
      /\ out \in DOMAIN memory_plan_.tensor_slots
      /\ arena_' = Overwrite(slot.offset, slot.size, Copied(source, slot.offset))
      /\ tensor_map_' = Insert(tensor_map_, out,
                               InArena(source.dtype, source.shape,
                                       ContiguousStrides(source.shape), slot.offset,
                                       <<>>))
  BY DEF MaterializeOutput, Planned, PlanFits, CurrentNode, Nodes
<1>2. /\ graph_ \in Models /\ node \in 1..Len(Nodes) /\ Len(Nodes) \in Nat
      /\ output \in DOMAIN Nodes[node].outputs
      /\ DOMAIN tensor_map_ = Known(graph_, node)
  BY <1>1, AtMaterialize
<1>3. output = 1
  <2>1. out = Nodes[node].outputs[output] /\ node \in 0..Len(Nodes)
    BY <1>2 DEF CurrentOutput, CurrentNode, Nodes
  <2>. QED
    BY <1>1, <1>2, <2>1, OtherOutputs DEF Nodes
<1>4. out = NodeOutput(graph_, node)
  BY <1>3 DEF CurrentOutput, CurrentNode, NodeOutput
<1>5. slot \in [offset : Nat, size : 1..SizeMax]
  BY <1>1 DEF EInv, PlanInv
<1> HIDE DEF slot, out
<1>6. slot.offset \in Nat /\ slot.size \in 1..SizeMax /\ slot.size \in Nat
  BY <1>5, BoundsAssumption
<1>7. TensorTyped(arena_.generation, x) /\ ArenaTyped
  BY <1>1 DEF EInv, MapInv, PlanInv
<1> HIDE DEF x
<1>8. /\ Copied(source, slot.offset) = ContentIn(arena_, x)
      /\ source.dtype = x.dtype /\ source.shape = x.shape
  BY <1>7, SourceFacts
<1> HIDE DEF source
<1>9. Overwritten(arena_, slot.offset, slot.size, ContentIn(arena_, x), arena_')
  BY <1>1, <1>7, <1>8, OverwriteFacts
<1>10. InsertInto(tensor_map_, out, InArena(x.dtype, x.shape, ContiguousStrides(x.shape),
                                            slot.offset, <<>>), tensor_map_')
  BY <1>1, <1>8, InsertFacts
<1>. QED
  BY <1>1, <1>3, <1>4, <1>6, <1>9, <1>10 DEF slot, x

\* Moving an output to its slot leaves alone what is still read.
LEMMA OthersStay ==
    ASSUME EInv, MaterializeOutput, Planned, PlanSafe,
           NEW t \in DOMAIN tensor_map_, t # NodeOutput(graph_, node),
           tensor_map_[t].in_arena,
           t \in DOMAIN memory_plan_.tensor_slots,
           Live(t), Written(t)
    PROVE  LET o == memory_plan_.tensor_slots[t].offset IN
           /\ o \in DOMAIN arena_'.content
           /\ arena_'.content[o] = arena_.content[o]
<1> DEFINE out == NodeOutput(graph_, node)
           mine == memory_plan_.tensor_slots[t]
           slot == memory_plan_.tensor_slots[out]
<1>1. /\ out \in DOMAIN memory_plan_.tensor_slots
      /\ slot.offset \in Nat /\ slot.size \in Nat
      /\ Overwritten(arena_, slot.offset, slot.size, ContentIn(arena_, tensor_map_[out]),
                     arena_')
  BY MovedFacts
<1>2. pc = "materialize"
  BY DEF MaterializeOutput
<1>3. /\ graph_ \in Models /\ Len(Nodes) \in Nat /\ node \in 1..Len(Nodes)
      /\ Dispatched = node
  BY <1>2, AtMaterialize
<1>4. mine \in [offset : Nat, size : 1..SizeMax]
  BY DEF EInv, PlanInv
<1>5. mine.offset \in Nat /\ mine.size \in Nat /\ mine.size > 0
  BY <1>4, BoundsAssumption
<1>6. mine.offset \in DOMAIN arena_.content /\ arena_.content[mine.offset].size = mine.size
  BY DEF Written
<1>7. slot.size > 0
  <2>1. slot \in [offset : Nat, size : 1..SizeMax]
    BY <1>1 DEF EInv, PlanInv
  <2>. QED
    BY <2>1, BoundsAssumption
<1>8. Apart(t, out)
  <2>1. PICK d \in 1..node : t = NodeOutput(graph_, d)
    BY <1>2, <1>3 DEF EInv, OrderInv, Running, Fresh
  <2>2. d \in 1..Len(Nodes) /\ d < node
    BY <1>3, <2>1
  <2>3. t \in Range(Nodes[d].outputs) /\ out \in Range(Nodes[node].outputs)
    BY <1>3, <2>1, <2>2, ModelFacts DEF Nodes
  <2>4. \/ t \in graph_.output_names
        \/ \E k \in 1..Len(Nodes) : t \in Range(Nodes[k].inputs) /\ node < k
    <3>1. \A k \in node+1..Len(Nodes) : k \in 1..Len(Nodes) /\ node < k
      BY <1>3
    <3>. QED
      BY <1>3, <3>1 DEF Live
  <2>. QED
    BY <1>1, <1>3, <2>2, <2>3, <2>4 DEF PlanSafe
<1>9. \/ mine.offset + mine.size <= slot.offset
      \/ slot.offset + slot.size <= mine.offset
  BY <1>8 DEF Apart
<1> HIDE DEF mine, slot, out
<1>10. mine.offset # slot.offset /\ ~Intersect(mine.offset, mine.size, slot.offset, slot.size)
  BY <1>1, <1>5, <1>7, <1>9 DEF Intersect
<1>. QED
  BY <1>1, <1>6, <1>10 DEF Overwritten, mine

LEMMA MovedToSlot ==
    ASSUME EInv, MaterializeOutput, Planned PROVE EInv'
<1> DEFINE out == NodeOutput(graph_, node)
           slot == memory_plan_.tensor_slots[out]
           x == tensor_map_[out]
           strides == ContiguousStrides(x.shape)
           moved == InArena(x.dtype, x.shape, strides, slot.offset, <<>>)
<1>1. /\ pc = "materialize" /\ pc' = "materialize"
      /\ output <= Len(Nodes[node].outputs) /\ output' = output + 1
      /\ UNCHANGED <<graph_, memory_planner_enabled_, profiling_, op_times_ms_,
                     memory_plan_, node, inputs, result, runs, planner>>
  BY DEF MaterializeOutput, CurrentNode, Nodes
<1>2. /\ graph_ \in Models /\ Len(Nodes) \in Nat /\ node \in 1..Len(Nodes)
      /\ Len(Nodes[node].outputs) \in Nat \ {0}
      /\ output \in 1..Len(Nodes[node].outputs) + 1
      /\ result.status = "running"
      /\ Dispatched = node
      /\ DOMAIN tensor_map_ = Known(graph_, node)
      /\ InOrder(graph_, node)
  BY <1>1, AtMaterialize
<1>3. /\ output = 1
      /\ out \in DOMAIN tensor_map_
      /\ out \in DOMAIN memory_plan_.tensor_slots
      /\ slot.offset \in Nat /\ slot.size \in Nat
      /\ Overwritten(arena_, slot.offset, slot.size, ContentIn(arena_, x), arena_')
      /\ InsertInto(tensor_map_, out, moved, tensor_map_')
  BY MovedFacts
<1>4. Dispatched' = node /\ \A t : ~Fresh(t)'
  BY <1>1, <1>2 DEF Dispatched, Fresh
<1>5. \A t : Fresh(t) <=> t = out
  BY <1>1, <1>3 DEF Fresh
<1>6. /\ DOMAIN tensor_map_' = DOMAIN tensor_map_
      /\ tensor_map_'[out] = moved
      /\ \A t \in DOMAIN tensor_map_ : t # out => tensor_map_'[t] = tensor_map_[t]
  BY <1>3 DEF InsertInto
<1>7. arena_'.generation = arena_.generation /\ arena_'.capacity = arena_.capacity
  BY <1>3 DEF Overwritten
<1>8. TensorTyped(arena_.generation, x)
  BY <1>3 DEF EInv, MapInv
<1>9. x.dtype \in DOMAIN Planner!DtypeSize /\ x.shape \in Seq(Nat)
  BY <1>8 DEF TensorTyped, Shaped
<1>m. moved = Placed(x.dtype, x.shape, strides, slot.offset, arena_.generation, <<>>)
  BY DEF InArena, Placed
<1> HIDE DEF strides, slot, out, moved, x
<1>10. /\ moved.in_arena = TRUE /\ moved.dtype = x.dtype /\ moved.shape = x.shape
       /\ moved.strides = strides /\ moved.offset = slot.offset
       /\ moved.generation = arena_.generation /\ moved.views = <<>>
  BY <1>m DEF Placed
<1>11. ControlInv'
  BY <1>1, <1>2 DEF EInv, ControlInv, Running, Nodes, planner
<1>12. PlanningInv'
  BY <1>1 DEF EInv, PlanningInv, PlannerIdle, planner
<1>13. MapInv'
  <2>1. DOMAIN tensor_map_' \subseteq Tensor
    BY <1>6 DEF EInv, MapInv
  <2>2. TensorTyped(arena_.generation, moved)
    <3>1. Shaped(moved)
      BY <1>9, <1>10 DEF Shaped
    <3>2. moved = Placed(moved.dtype, moved.shape, moved.strides, moved.offset,
                         arena_.generation, moved.views)
      BY <1>m, <1>10
    <3>3. moved.offset \in Nat
      BY <1>3, <1>10
    <3>. QED
      BY <1>10, <3>1, <3>2, <3>3 DEF TensorTyped
  <2>3. ASSUME NEW t \in DOMAIN tensor_map_
        PROVE  TensorTyped(arena_.generation, tensor_map_'[t])
    BY <1>6, <2>2 DEF EInv, MapInv
  <2>4. DOMAIN memory_plan_.tensor_slots # {}
    BY <1>3
  <2>. QED
    BY <1>1, <1>6, <1>7, <2>1, <2>3, <2>4 DEF MapInv
<1>14. PlanInv'
  <2>1. ArenaTyped'
    <3>1. /\ DOMAIN arena_' = {"generation", "capacity", "content"}
          /\ DOMAIN arena_'.content = DOMAIN arena_.content \cup {slot.offset}
          /\ DOMAIN arena_'.content[slot.offset] = {"size", "content"}
          /\ arena_'.content[slot.offset].size = slot.size
          /\ \A o \in DOMAIN arena_.content \ {slot.offset} :
                /\ DOMAIN arena_'.content[o] = {"size", "content"}
                /\ arena_'.content[o].size = arena_.content[o].size
      BY <1>3 DEF Overwritten, Stored
    <3>2. ArenaTyped
      BY DEF EInv, PlanInv
    <3>3. \A o \in DOMAIN arena_'.content :
             /\ DOMAIN arena_'.content[o] = {"size", "content"}
             /\ arena_'.content[o].size \in Nat
      BY <1>3, <3>1, <3>2 DEF ArenaTyped
    <3>. QED
      BY <1>3, <1>7, <3>1, <3>2, <3>3 DEF ArenaTyped
  <2>2. DOMAIN memory_plan_.tensor_slots # {}
    BY <1>3
  <2>. QED
    BY <1>1, <2>1, <2>2 DEF EInv, PlanInv, Running
<1>15. BoundInv'
  BY <1>1 DEF BoundInv
<1>16. OrderInv'
  <2>1. ASSUME NEW t \in DOMAIN tensor_map_, tensor_map_'[t].in_arena,
               t \in DOMAIN memory_plan_.tensor_slots
        PROVE  /\ tensor_map_'[t].offset = memory_plan_.tensor_slots[t].offset
               /\ tensor_map_'[t].views = <<>>
               /\ \E d \in 1..node : t = NodeOutput(graph_, d)
    <3>1. CASE t = out
      <4>1. node \in 1..node
        BY <1>2
      <4>. QED
        BY <1>6, <1>10, <3>1, <4>1 DEF slot, out
    <3>2. CASE t # out
      BY <1>1, <1>2, <1>5, <1>6, <2>1, <3>2 DEF EInv, OrderInv, Running
    <3>. QED
      BY <3>1, <3>2
  <2>. QED
    BY <1>1, <1>2, <1>4, <1>6, <2>1 DEF OrderInv
<1>17. ValueInv'
  <2> SUFFICES ASSUME PlanSafe', ~StrayView', NEW t \in DOMAIN tensor_map_, Live(t)'
               PROVE  /\ ContentIn(arena_', tensor_map_'[t]) =
                           Abstract!Values(graph_, inputs)[t]
                      /\ tensor_map_'[t].in_arena => Written(t)'
    BY <1>1, <1>4, <1>6 DEF ValueInv
  <2>1. PlanSafe
    BY <1>1, <1>7, PlanSafeKept
  <2>2. ~StrayView
    BY <1>1, <1>3, <1>6 DEF StrayView
  <2>3. Live(t)
    BY <1>1, <1>2, <1>4 DEF Live, Nodes
  <2>4. /\ ContentIn(arena_, tensor_map_[t]) = Abstract!Values(graph_, inputs)[t]
        /\ tensor_map_[t].in_arena /\ ~Fresh(t) => Written(t)
    BY <1>1, <2>1, <2>2, <2>3 DEF EInv, ValueInv, Running
  <2>5. CASE t = out
    <3>1. /\ slot.offset \in DOMAIN arena_'.content
          /\ arena_'.content[slot.offset].size = slot.size
          /\ arena_'.content[slot.offset].content = ContentIn(arena_, x)
      <4>1. slot.offset + slot.size <= arena_.capacity
        BY <1>3, <2>1 DEF PlanSafe, slot
      <4>. QED
        BY <1>3, <4>1 DEF Overwritten, Stored
    <3>2. ContentIn(arena_', moved) = ContentIn(arena_, x)
      BY <1>7, <1>10, <3>1, NoView DEF ContentIn
    <3>3. Written(t)'
      BY <1>1, <2>5, <3>1 DEF Written, slot
    <3>. QED
      BY <1>6, <2>4, <2>5, <3>2, <3>3 DEF x
  <2>6. CASE t # out /\ ~tensor_map_[t].in_arena
    <3>1. tensor_map_'[t] = tensor_map_[t]
      BY <1>6, <2>6
    <3>. QED
      BY <2>4, <2>6, <3>1 DEF ContentIn
  <2>7. CASE t # out /\ tensor_map_[t].in_arena
    <3>1. tensor_map_'[t] = tensor_map_[t] /\ ~Fresh(t)
      BY <1>5, <1>6, <2>7
    <3>2. t \in DOMAIN memory_plan_.tensor_slots
      BY <2>2, <2>7 DEF StrayView
    <3>3. tensor_map_[t].offset = memory_plan_.tensor_slots[t].offset
      BY <1>1, <2>7, <3>1, <3>2 DEF EInv, OrderInv, Running
    <3>4. Written(t)
      BY <2>4, <2>7, <3>1
    <3> DEFINE o == memory_plan_.tensor_slots[t].offset
    <3>5. o \in DOMAIN arena_'.content /\ arena_'.content[o] = arena_.content[o]
      BY <2>1, <2>3, <2>7, <3>2, <3>4, OthersStay DEF out
    <3>6. Written(t)'
      BY <1>1, <3>4, <3>5 DEF Written
    <3>7. o \in DOMAIN arena_.content
      BY <3>4 DEF Written
    <3> HIDE DEF o
    <3>8. ContentIn(arena_', tensor_map_[t]) = ContentIn(arena_, tensor_map_[t])
      <4>1. tensor_map_[t].offset = o
        BY <3>3 DEF o
      <4>. QED
        BY <1>7, <2>7, <3>5, <3>7, <4>1 DEF ContentIn
    <3>. QED
      BY <2>4, <3>1, <3>6, <3>8
  <2>. QED
    BY <2>5, <2>6, <2>7
<1>18. ResultInv'
  BY <1>1, <1>2 DEF ResultInv
<1>19. TimesInv'
  BY <1>1 DEF EInv, TimesInv, Running, Nodes
<1>. QED
  BY <1>11, <1>12, <1>13, <1>14, <1>15, <1>16, <1>17, <1>18, <1>19 DEF EInv

LEMMA EndStep == EInv /\ EndNode => EInv'
<1> SUFFICES ASSUME EInv, EndNode PROVE EInv'
  OBVIOUS
<1>1. /\ pc = "materialize" /\ pc' = "dispatch"
      /\ output > Len(Nodes[node].outputs) /\ node' = node + 1 /\ RecordTime
      /\ UNCHANGED <<graph_, memory_planner_enabled_, profiling_, tensor_map_,
                     memory_plan_, arena_, inputs, result, runs, planner>>
  BY DEF EndNode, CurrentNode, Nodes
<1>2. /\ graph_ \in Models /\ Len(Nodes) \in Nat /\ node \in 1..Len(Nodes)
      /\ Len(Nodes[node].outputs) \in Nat \ {0}
      /\ output \in 1..Len(Nodes[node].outputs) + 1
      /\ result.status = "running"
      /\ Dispatched = node
      /\ InOrder(graph_, node)
      /\ DOMAIN tensor_map_ = Known(graph_, node)
  BY <1>1, AtMaterialize
<1>3. node + 1 \in 1..Len(Nodes) + 1 /\ output # 1 /\ (node + 1) - 1 = node
  BY <1>1, <1>2
<1>4. Dispatched' = node /\ \A t : ~Fresh(t) /\ ~Fresh(t)'
  BY <1>1, <1>3 DEF Dispatched, Fresh
<1>5. ControlInv'
  BY <1>1, <1>2, <1>3 DEF EInv, ControlInv, Running, Nodes, planner
<1>6. PlanningInv'
  BY <1>1 DEF EInv, PlanningInv, PlannerIdle, planner
<1>7. MapInv'
  BY <1>1, MapKept DEF EInv
<1>8. PlanInv'
  BY <1>1 DEF EInv, PlanInv, Running, ArenaTyped
<1>9. BoundInv'
  BY <1>1 DEF BoundInv
<1>10. OrderInv'
  BY <1>1, <1>2, <1>4 DEF EInv, OrderInv, Running
<1>11. ValueInv'
  <2> SUFFICES ASSUME PlanSafe', ~StrayView', NEW t \in DOMAIN tensor_map_, Live(t)'
               PROVE  /\ ContentIn(arena_, tensor_map_[t]) =
                           Abstract!Values(graph_, inputs)[t]
                      /\ tensor_map_[t].in_arena => Written(t)'
    BY <1>1, <1>4 DEF ValueInv
  <2>1. PlanSafe /\ ~StrayView
    BY <1>1, PlanSafeKept, StrayKept
  <2>2. Live(t)
    BY <1>1, <1>2, <1>4 DEF Live, Nodes
  <2>3. Written(t)' <=> Written(t)
    BY <1>1 DEF Written
  <2>. QED
    BY <1>1, <1>4, <2>1, <2>2, <2>3 DEF EInv, ValueInv, Running
<1>12. ResultInv'
  BY <1>1, <1>2 DEF ResultInv
<1>13. TimesInv'
  <2> DEFINE key == CurrentNode.op
             counted == [k \in DOMAIN op_times_ms_ \cup {key} |->
                           (IF k \in DOMAIN op_times_ms_ THEN op_times_ms_[k] ELSE 0)
                           + (IF k = key THEN 1 ELSE 0)]
  <2>1. Naturals(op_times_ms_) /\ Total(op_times_ms_) = IF profiling_ THEN node - 1 ELSE 0
    BY <1>1 DEF EInv, TimesInv, Running
  <2>2. Naturals(counted) /\ Total(counted) = Total(op_times_ms_) + 1
    BY <2>1, SumIncremented
  <2>3. op_times_ms_' = IF ~profiling_ THEN op_times_ms_ ELSE counted
    BY <1>1 DEF RecordTime
  <2> HIDE DEF counted
  <2>4. /\ Naturals(op_times_ms_')
        /\ Total(op_times_ms_') = IF profiling_ THEN node ELSE 0
    BY <1>2, <2>1, <2>2, <2>3
  <2>. QED
    BY <1>1, <1>2, <1>3, <2>4 DEF TimesInv
<1>. QED
  BY <1>5, <1>6, <1>7, <1>8, <1>9, <1>10, <1>11, <1>12, <1>13 DEF EInv

\* What is returned: every output has a value in the graph, and under a safe
\* plan, without stray views, that value.
LEMMA ReturnFacts ==
    ASSUME EInv, ReturnOutputs, graph_.output_names \subseteq DOMAIN tensor_map_
    PROVE  /\ graph_.output_names \subseteq DOMAIN Abstract!Values(graph_, inputs)
           /\ LeaveRun(Abstract!Returned([t \in graph_.output_names |->
                                            Content(tensor_map_[t])]))
           /\ PlanSafe /\ ~StrayView =>
                [t \in graph_.output_names |-> Content(tensor_map_[t])]
                  = Abstract!Meaning(graph_, inputs)
<1>1. /\ pc = "dispatch" /\ node > Len(Nodes)
      /\ LeaveRun(Abstract!Returned([t \in graph_.output_names |->
                                       Content(tensor_map_[t])]))
  BY DEF ReturnOutputs, Nodes
<1>2. graph_ \in Models /\ Len(Nodes) \in Nat
  BY ModelFacts DEF EInv, ControlInv, Nodes
<1>3. node = Len(Nodes) + 1
  BY <1>1, <1>2 DEF EInv, ControlInv
<1>4. Dispatched = Len(Nodes)
  BY <1>1, <1>2, <1>3 DEF Dispatched
<1>5. InOrder(graph_, Len(Nodes)) /\ DOMAIN tensor_map_ = Known(graph_, Len(Nodes))
  BY <1>1, <1>4 DEF EInv, OrderInv, Running
<1>6. DOMAIN Abstract!Values(graph_, inputs) = DOMAIN tensor_map_
  BY <1>2, <1>5, ValuesKnown DEF Nodes
<1>7. ASSUME PlanSafe, ~StrayView, NEW t \in graph_.output_names
      PROVE  Content(tensor_map_[t]) = Abstract!Values(graph_, inputs)[t]
  <2>1. Live(t)
    BY DEF Live
  <2>2. ContentIn(arena_, tensor_map_[t]) = Abstract!Values(graph_, inputs)[t]
    BY <1>1, <1>7, <2>1 DEF EInv, ValueInv, Running
  <2>. QED
    BY <2>2, ContentNow
<1>. QED
  BY <1>1, <1>6, <1>7 DEF Abstract!Meaning

LEMMA ReturnStep == EInv /\ ReturnOutputs => EInv'
<1> SUFFICES ASSUME EInv, ReturnOutputs PROVE EInv'
  OBVIOUS
<1>1. pc = "dispatch" /\ node > Len(Nodes) /\ UNCHANGED <<members, planner>>
  BY DEF ReturnOutputs, Nodes
<1>2. PlannerIdle'
  BY <1>1 DEF EInv, PlanningInv, PlannerIdle, planner
<1>3. CASE ~(graph_.output_names \subseteq DOMAIN tensor_map_)
  BY <1>1, <1>2, <1>3, LeaveStep DEF ReturnOutputs
<1>4. CASE graph_.output_names \subseteq DOMAIN tensor_map_
  <2> DEFINE outputs == [t \in graph_.output_names |-> Content(tensor_map_[t])]
  <2>1. /\ graph_.output_names \subseteq DOMAIN Abstract!Values(graph_, inputs)
        /\ LeaveRun(Abstract!Returned(outputs))
        /\ PlanSafe /\ ~StrayView => outputs = Abstract!Meaning(graph_, inputs)
    BY <1>4, ReturnFacts
  <2> HIDE DEF outputs
  <2>2. /\ pc' = "idle" /\ node' = 0 /\ output' = 0 /\ UNCHANGED <<inputs, runs>>
        /\ result'.status = "ok" /\ result'.outputs = outputs
    BY <2>1 DEF LeaveRun, Abstract!Returned
  <2> USE DEF members
  <2>3. ControlInv'
    BY <1>1, <1>2, <2>2 DEF EInv, ControlInv, Running, Nodes, PlannerIdle
  <2>4. PlanningInv'
    BY <1>2, <2>2 DEF PlanningInv
  <2>5. MapInv'
    BY <1>1, <2>2, MapKept DEF EInv
  <2>6. PlanInv'
    BY <1>1, <2>2 DEF EInv, PlanInv, Running, ArenaTyped
  <2>7. BoundInv' /\ OrderInv' /\ ValueInv'
    BY <2>2 DEF BoundInv, OrderInv, ValueInv, Running
  <2>8. ResultInv'
    BY <1>1, <2>1, <2>2, PlanSafeKept, StrayKept DEF ResultInv
  <2>9. TimesInv'
    <3>1. Len(Nodes) \in Nat
      BY ModelFacts DEF EInv, ControlInv, Nodes
    <3>2. node = Len(Nodes) + 1
      BY <1>1, <3>1 DEF EInv, ControlInv
    <3>3. Naturals(op_times_ms_) /\ Total(op_times_ms_) \in {0, Len(Nodes)}
      BY <1>1, <3>1, <3>2 DEF EInv, TimesInv, Running
    <3>. QED
      BY <1>1, <2>2, <3>3 DEF TimesInv, Running, Nodes
  <2>. QED
    BY <2>3, <2>4, <2>5, <2>6, <2>7, <2>8, <2>9 DEF EInv
<1>. QED
  BY <1>3, <1>4

LEMMA EngineStep == EInv /\ [Next]_vars => EInv'
<1> SUFFICES ASSUME EInv, [Next]_vars PROVE EInv'
  OBVIOUS
<1>1. CASE SetMemoryPlanner \/ SetProfiling
  BY <1>1, SettingsStep
<1>2. ASSUME NEW args \in Requests, BindInputs(args) PROVE EInv'
  BY <1>2, BindStep
<1>3. CASE RejectInputs \/ SymbolsThrow \/ PlannerThrows \/ DispatchThrows
             \/ MaterializeFails
  BY <1>3, ThrowingStep
<1>4. CASE ResolveSymbols
  BY <1>4, ResolveStep
<1>5. CASE PlannerStep
  BY <1>5, PlanningStep
<1>6. CASE RunWithoutPlan \/ InstallPlan
  BY <1>6, StartStep
<1>7. CASE Dispatch
  BY <1>7, DispatchStep
<1>8. CASE MaterializeOutput
  BY <1>8, LeftInPlace, MovedToSlot
<1>9. CASE EndNode
  BY <1>9, EndStep
<1>10. CASE ReturnOutputs
  BY <1>10, ReturnStep
<1>11. CASE ResizeThrows
  BY <1>11, ResizeStep
<1>12. CASE UNCHANGED vars
  BY <1>12, StutterStep
<1>. QED
  BY <1>1, <1>2, <1>3, <1>4, <1>5, <1>6, <1>7, <1>8, <1>9, <1>10, <1>11, <1>12
     DEF Next, Step

LEMMA EngineInvariant == Spec => []EInv
<1>. QED
  BY EngineInit, EngineStep, PTL DEF Spec

-----------------------------------------------------------------------------
(* Without a plan *)

\* A run that planned nothing returns what the graph defines, whatever views
\* it has, and keeps no bytes: no tensor of the map lies in the arena then.
THEOREM NoPlanNoHarm == Spec => []CorrectWithoutPlan
<1>1. EInv => CorrectWithoutPlan
  <2> SUFFICES ASSUME EInv, DOMAIN memory_plan_.tensor_slots = {}
               PROVE  OutputsCorrect /\ arena_.content = <<>>
    BY DEF CorrectWithoutPlan
  <2>1. PlanSafe
    BY DEF PlanSafe
  <2>2. ~StrayView
    BY DEF StrayView, EInv, MapInv
  <2>. QED
    BY <2>1, <2>2 DEF EInv, ResultInv, OutputsCorrect, PlanInv
<1>. QED
  BY <1>1, EngineInvariant, PTL

\* The times reported after a run that returned count each of its nodes once
\* or not at all: clearing them at the start of run() is enough, and neither
\* earlier runs nor failed ones show.
THEOREM TimesOfThisRun == Spec => []TimesOfOneRun
<1>1. EInv => TimesOfOneRun
  <2>1. FoldFunction(LAMBDA n, sum : n + sum, 0, op_times_ms_) = Total(op_times_ms_)
    BY DEF Total, FoldFunction, FoldFunctionOnSet, MapThenFoldSet
  <2>. QED
    BY <2>1, Zenon DEF EInv, TimesInv, TimesOfOneRun, Nodes
<1>. QED
  BY <1>1, EngineInvariant, PTL

-----------------------------------------------------------------------------
(* With a plan, as long as the planner's arithmetic does not wrap around *)

LEMMA InstallSafe ==
    ASSUME EInv, InstallPlan, Planner!NoWrap, ArenaFits'
    PROVE  /\ PlanSafe'
           /\ memory_plan_'.total_bytes # 0 =>
                memory_plan_'.total_bytes + 63 <= arena_'.capacity
<1> DEFINE plan == memory_plan_'.tensor_slots
<1>1. /\ pc = "planning" /\ phase = "done"
      /\ plan = tensor_slots /\ memory_plan_'.total_bytes = total_bytes
      /\ IF total_bytes = 0 THEN FreeArena ELSE ResizeArena(ArenaBytes)
      /\ graph_' = graph_
  BY DEF InstallPlan, StartNodes
<1>2. /\ PlannerProofs!IInv
      /\ resolved.nodes = Nodes /\ resolved.output_names = graph_.output_names
  BY <1>1 DEF EInv, PlanningInv, Nodes
<1>3. /\ plan \in [DOMAIN plan -> [offset : Nat, size : 1..SizeMax]]
      /\ total_bytes \in Nat
      /\ \A t \in DOMAIN plan : plan[t].offset + plan[t].size <= total_bytes
  BY <1>1, <1>2, PlannerPromises
<1>4. ASSUME NEW t \in DOMAIN plan
      PROVE  plan[t].offset + plan[t].size \in Nat \ {0}
  <2>1. plan[t] \in [offset : Nat, size : 1..SizeMax]
    BY <1>3
  <2>2. plan[t].offset \in Nat /\ plan[t].size \in 1..SizeMax
    BY <2>1
  <2>. QED
    BY <2>2, BoundsAssumption
<1>5. arena_.capacity \in Nat
  BY DEF EInv, PlanInv, ArenaTyped
<1> HIDE DEF plan
<1>r. total_bytes # 0 => total_bytes + 63 <= arena_'.capacity /\ arena_'.capacity \in Nat
  <2>1. ArenaBytes \in Nat /\ ArenaBytes = total_bytes + 63
    BY <1>1, <1>3, ArenaBytesFacts DEF ArenaFits
  <2>. QED
    BY <1>1, <1>5, <2>1 DEF ResizeArena
<1>6. ASSUME NEW t \in DOMAIN plan
      PROVE  plan[t].offset + plan[t].size <= arena_'.capacity
  <2>1. plan[t].offset + plan[t].size <= total_bytes
    BY <1>3
  <2>2. total_bytes > 0
    BY <1>3, <1>4, <2>1
  <2>. QED
    BY <1>3, <1>4, <1>r, <2>1, <2>2
<1>7. ASSUME NEW t \in DOMAIN plan, NEW u \in DOMAIN plan,
             NEW d \in 1..Len(Nodes), NEW e \in 1..Len(Nodes),
             t \in Range(Nodes[d].outputs), u \in Range(Nodes[e].outputs), d < e,
             \/ t \in graph_.output_names
             \/ \E k \in 1..Len(Nodes) : t \in Range(Nodes[k].inputs) /\ e < k
      PROVE  \/ plan[t].offset + plan[t].size <= plan[u].offset
             \/ plan[u].offset + plan[u].size <= plan[t].offset
  BY <1>1, <1>2, <1>7, PlannerKeepsReads
<1>8. PlanSafe'
  <2>1. Nodes' = Nodes
    BY <1>1 DEF Nodes
  <2>. QED
    BY <1>1, <1>6, <1>7, <2>1 DEF PlanSafe, Apart, plan
<1>. QED
  BY <1>1, <1>8, <1>r

LEMMA SafeStep == EInv /\ SafeInv /\ Planner!NoWrap /\ [Next]_vars => SafeInv'
<1> SUFFICES ASSUME EInv, SafeInv, Planner!NoWrap, [Next]_vars PROVE SafeInv'
  OBVIOUS
<1>i. EInv'
  BY EngineStep
<1>f. UNCHANGED memory_plan_ => (ArenaFits' <=> ArenaFits)
  BY DEF ArenaFits
<1>1. ASSUME UNCHANGED <<graph_, tensor_map_, memory_plan_, arena_>>,
             Running' => Running,
             result'.status = "ok" => Running \/ result.status = "ok"
      PROVE  SafeInv'
  BY <1>1, <1>f, PlanSafeKept DEF SafeInv, NBytes, Bytes
<1>2. CASE SetMemoryPlanner \/ SetProfiling
  BY <1>1, <1>2 DEF SetMemoryPlanner, SetProfiling, control, Running
<1>3. ASSUME NEW args \in Requests, BindInputs(args) PROVE SafeInv'
  <2>1. pc' \in {"symbols", "rejected"} /\ result'.status = "running"
    BY <1>3 DEF BindInputs, Abstract!Running
  <2>2. \A t \in DOMAIN tensor_map_' : ~tensor_map_'[t].in_arena
    BY <1>i, <2>1 DEF EInv, MapInv
  <2>. QED
    BY <2>1, <2>2 DEF SafeInv, Running
<1>4. CASE RejectInputs \/ SymbolsThrow \/ PlannerThrows \/ DispatchThrows
             \/ MaterializeFails \/ ReturnOutputs
  <2>1. /\ UNCHANGED <<graph_, tensor_map_, memory_plan_, arena_>> /\ pc' = "idle"
        /\ \/ result' = Abstract!Thrown
           \/ pc = "dispatch"
    BY <1>4 DEF RejectInputs, SymbolsThrow, PlannerThrows, DispatchThrows,
                MaterializeFails, ReturnOutputs, members, LeaveRun
  <2>2. Abstract!Thrown.status # "ok"
    BY DEF Abstract!Thrown
  <2>. QED
    BY <1>1, <2>1, <2>2 DEF Running
<1>5. CASE ResolveSymbols
  BY <1>1, <1>5 DEF ResolveSymbols, Running
<1>6. CASE PlannerStep
  BY <1>1, <1>6 DEF PlannerStep, control, Running
<1>7. ASSUME RunWithoutPlan \/ InstallPlan \/ ResizeThrows
      PROVE  \A t \in DOMAIN tensor_map_' : ~tensor_map_'[t].in_arena
  <2>1. pc = "planning" /\ tensor_map_' = tensor_map_
    BY <1>7 DEF RunWithoutPlan, InstallPlan, StartNodes, ResizeThrows
  <2>. QED
    BY <2>1 DEF EInv, MapInv
<1>8. CASE RunWithoutPlan
  <2>1. memory_plan_'.tensor_slots = <<>> /\ memory_plan_'.total_bytes = 0
    BY <1>8 DEF RunWithoutPlan
  <2>2. PlanSafe'
    BY <2>1, EmptyFunction DEF PlanSafe
  <2>. QED
    BY <1>7, <1>8, <2>1, <2>2 DEF SafeInv
<1>9. CASE InstallPlan
  BY <1>7, <1>9, InstallSafe DEF SafeInv
<1>t. CASE ResizeThrows
  <2>1. pc' = "idle" /\ result'.status # "ok"
    BY <1>t DEF ResizeThrows, LeaveRun, Abstract!Thrown
  <2>. QED
    BY <1>7, <1>t, <2>1 DEF SafeInv, Running
<1>10. CASE Dispatch
  <2> DEFINE n == Nodes[node]
             out == NodeOutput(graph_, node)
             arg == tensor_map_[n.inputs[1]]
             made == KernelResult(n)
  <2>1. /\ pc = "dispatch" /\ node <= Len(Nodes) /\ KernelRuns(n)
        /\ InsertInto(tensor_map_, out, made, tensor_map_')
        /\ UNCHANGED <<graph_, memory_plan_, arena_, result>>
    BY <1>10, InsertFacts DEF Dispatch, CurrentNode, NodeOutput, Nodes
  <2>2. WellFormedNode(n)
    BY <2>1, AtDispatch
  <2>3. n.inputs[1] \in DOMAIN tensor_map_
    BY <2>1, <2>2, InputsOfNode
  <2>4. \A t \in DOMAIN tensor_map_ : TensorTyped(arena_.generation, tensor_map_[t])
    BY DEF EInv, MapInv
  <2>5. made.in_arena /\ ArenaFits => made.offset + NBytes(made) <= arena_.capacity
    <3>1. CASE SharesStorage(n, arg)
      <4>1. /\ arg.in_arena /\ NBytes(made) = NBytes(arg)
            /\ made = InArena(made.dtype, made.shape, made.strides, arg.offset,
                              Append(arg.views, ViewOp(n)))
        BY <2>1, <2>2, <2>4, <3>1, KernelFacts
      <4>2. ArenaFits => arg.offset + NBytes(arg) <= arena_.capacity
        BY <2>3, <4>1 DEF SafeInv
      <4>3. made.offset = arg.offset
        <5> HIDE DEF made, arg, n
        <5>. QED
          BY <4>1 DEF InArena
      <4> HIDE DEF made, arg, n
      <4>. QED
        BY <4>1, <4>2, <4>3
    <3>2. CASE ~SharesStorage(n, arg)
      <4>1. \E c : made = Owned(made.dtype, made.shape, c)
        BY <2>1, <2>2, <2>4, <3>2, KernelFacts
      <4> HIDE DEF made
      <4>2. ~made.in_arena
        BY <4>1 DEF Owned
      <4>. QED
        BY <4>2
    <3>. QED
      BY <3>1, <3>2
  <2>6. ArenaFits => PlanSafe'
    BY <2>1, PlanSafeKept DEF SafeInv, Running
  <2> HIDE DEF made, out
  <2>7. ASSUME NEW t \in DOMAIN tensor_map_', tensor_map_'[t].in_arena, ArenaFits
        PROVE  tensor_map_'[t].offset + NBytes(tensor_map_'[t]) <= arena_.capacity
    <3>1. CASE t = out
      <4>1. tensor_map_'[t] = made
        BY <2>1, <3>1 DEF InsertInto
      <4>. QED
        BY <2>5, <2>7, <4>1
    <3>2. CASE t # out
      <4>1. t \in DOMAIN tensor_map_ /\ tensor_map_'[t] = tensor_map_[t]
        BY <2>1, <3>2 DEF InsertInto
      <4>. QED
        BY <2>7, <4>1 DEF SafeInv
    <3>. QED
      BY <3>1, <3>2
  <2>8. \A t : NBytes(tensor_map_[t])' = NBytes(tensor_map_'[t])
    BY DEF NBytes, Bytes
  <2>. QED
    BY <1>f, <2>1, <2>6, <2>7, <2>8 DEF SafeInv, Running
<1>11. CASE MaterializeOutput /\ ~Planned
  BY <1>1, <1>11 DEF MaterializeOutput, Running
<1>12. CASE MaterializeOutput /\ Planned
  <2> DEFINE out == NodeOutput(graph_, node)
             slot == memory_plan_.tensor_slots[out]
             x == tensor_map_[out]
             strides == ContiguousStrides(x.shape)
             moved == InArena(x.dtype, x.shape, strides, slot.offset, <<>>)
  <2>1. UNCHANGED <<graph_, memory_plan_, pc, result>> /\ pc = "materialize"
    BY <1>12 DEF MaterializeOutput
  <2>2. /\ out \in DOMAIN tensor_map_
        /\ out \in DOMAIN memory_plan_.tensor_slots
        /\ NBytes(x) = slot.size
        /\ slot.offset \in Nat /\ slot.size \in Nat
        /\ Overwritten(arena_, slot.offset, slot.size, ContentIn(arena_, x), arena_')
        /\ InsertInto(tensor_map_, out, moved, tensor_map_')
    BY <1>12, MovedFacts
  <2>3. ArenaFits => slot.offset + slot.size <= arena_.capacity
    BY <2>1, <2>2 DEF SafeInv, PlanSafe, Running
  <2>4. ArenaFits => moved.offset + NBytes(moved) <= arena_.capacity
    <3> HIDE DEF slot, strides, x
    <3>1. moved.offset = slot.offset /\ moved.dtype = x.dtype /\ moved.shape = x.shape
      BY DEF InArena
    <3> HIDE DEF moved
    <3>2. NBytes(moved) = NBytes(x)
      BY <3>1 DEF NBytes
    <3>. QED
      BY <2>2, <2>3, <3>1, <3>2
  <2> HIDE DEF moved, x, slot, out
  <2>5. arena_'.capacity = arena_.capacity
    BY <2>2 DEF Overwritten
  <2>6. ArenaFits => PlanSafe'
    BY <2>1, <2>5, PlanSafeKept DEF SafeInv, Running
  <2>8. ASSUME NEW t \in DOMAIN tensor_map_', tensor_map_'[t].in_arena, ArenaFits
        PROVE  tensor_map_'[t].offset + NBytes(tensor_map_'[t]) <= arena_.capacity
    <3>1. CASE t = out
      <4>1. tensor_map_'[t] = moved
        BY <2>2, <3>1 DEF InsertInto
      <4>. QED
        BY <2>4, <2>8, <4>1
    <3>2. CASE t # out
      <4>1. t \in DOMAIN tensor_map_ /\ tensor_map_'[t] = tensor_map_[t]
        BY <2>2, <3>2 DEF InsertInto
      <4>. QED
        BY <2>8, <4>1 DEF SafeInv
    <3>. QED
      BY <3>1, <3>2
  <2>9. \A t : NBytes(tensor_map_[t])' = NBytes(tensor_map_'[t])
    BY DEF NBytes, Bytes
  <2>. QED
    BY <1>f, <2>1, <2>5, <2>6, <2>8, <2>9 DEF SafeInv, Running
<1>13. CASE EndNode
  BY <1>1, <1>13 DEF EndNode, Running
<1>14. CASE UNCHANGED vars
  BY <1>1, <1>14 DEF vars, members, control, Running
<1>. QED
  BY <1>2, <1>3, <1>4, <1>5, <1>6, <1>8, <1>9, <1>t, <1>10, <1>11, <1>12, <1>13, <1>14
     DEF Next, Step

LEMMA SafetyInvariant == Spec /\ []Planner!NoWrap => [](EInv /\ SafeInv)
<1>. QED
  BY EngineInit, EngineStep, SafeStep, PTL DEF Spec

\* The engine's own state is always well formed, on every model and after any
\* failure: nodes never run on an arena too small for the plan, unless its size
\* is not a size_t.
THEOREM EngineTyped == Spec /\ []Planner!NoWrap => []TypeOK
<1>1. EInv /\ SafeInv => TypeOK
  <2> SUFFICES ASSUME EInv, SafeInv PROVE TypeOK
    OBVIOUS
  <2>1. /\ graph_ \in Models
        /\ pc \in {"idle", "rejected", "symbols", "planning", "dispatch", "materialize"}
        /\ pc = "idle" <=> result.status # "running"
        /\ phase = "none" <=> pc # "planning"
        /\ runs \in 0..MaxRuns
    BY DEF EInv, ControlInv
  <2>2. node \in 0..Len(graph_.nodes) + 1
    <3>1. Len(graph_.nodes) \in Nat
      BY <2>1, ModelFacts
    <3>. QED
      BY <2>1, <3>1 DEF EInv, ControlInv, Running, Nodes
  <2>3. /\ DOMAIN tensor_map_ \subseteq Tensor
        /\ DOMAIN memory_plan_.tensor_slots \subseteq Tensor
        /\ pc \in {"dispatch", "materialize"} /\ memory_plan_.total_bytes # 0 /\ ArenaFits
             => memory_plan_.total_bytes + 63 <= arena_.capacity
    BY DEF EInv, MapInv, PlanInv, SafeInv, Running
  <2>. QED
    BY <2>1, <2>2, <2>3 DEF TypeOK
<1>. QED
  BY <1>1, SafetyInvariant, PTL

\* No tensor the engine keeps refers to freed arena memory, nor to bytes past
\* the end of an arena whose size did not wrap, although run() leaves the
\* tensors of the last run, complete or not, in the map until the next one.
THEOREM NothingDangles == Spec /\ []Planner!NoWrap => []NoDanglingTensor
<1>1. EInv /\ SafeInv => NoDanglingTensor
  <2> SUFFICES ASSUME EInv, SafeInv, NEW t \in DOMAIN tensor_map_, tensor_map_[t].in_arena
               PROVE  /\ tensor_map_[t].generation = arena_.generation
                      /\ ArenaFits =>
                           tensor_map_[t].offset + NBytes(tensor_map_[t]) <= arena_.capacity
    BY DEF NoDanglingTensor
  <2>1. TensorTyped(arena_.generation, tensor_map_[t])
    BY DEF EInv, MapInv
  <2>2. tensor_map_[t].generation = arena_.generation
    BY <2>1 DEF TensorTyped, Placed
  <2>. QED
    BY <2>2 DEF SafeInv
<1>. QED
  BY <1>1, SafetyInvariant, PTL

\* What a later node or the caller will read has the value that the graph
\* gives it: the planner's lifetimes are right for the order in which the
\* engine runs the nodes and moves their outputs.
THEOREM ReadsAreIntact == Spec /\ []Planner!NoWrap => []LiveTensorsIntact
<1>1. EInv /\ SafeInv => LiveTensorsIntact
  <2> SUFFICES ASSUME EInv, SafeInv, pc = "dispatch", ~StrayView, ArenaFits,
                      NEW t \in DOMAIN tensor_map_,
                      \/ \E k \in node..Len(Nodes) : t \in Range(Nodes[k].inputs)
                      \/ t \in graph_.output_names
               PROVE  Content(tensor_map_[t]) = Abstract!Values(graph_, inputs)[t]
    BY Zenon DEF LiveTensorsIntact, Nodes
  <2>1. Len(Nodes) \in Nat /\ node \in Nat
    BY ModelFacts DEF EInv, ControlInv, Nodes
  <2>2. Dispatched + 1 = node
    BY <2>1 DEF Dispatched
  <2>3. Live(t)
    BY <2>2 DEF Live
  <2>4. ContentIn(arena_, tensor_map_[t]) = Abstract!Values(graph_, inputs)[t]
    BY <2>3 DEF EInv, SafeInv, ValueInv, Running
  <2>. QED
    BY <2>4, ContentNow
<1>. QED
  BY <1>1, SafetyInvariant, PTL

\* Whatever a run returns is what the graph defines for its inputs, unless a
\* view without a slot of its own is left in the map or the size of the arena
\* wrapped around.
THEOREM OutputsAsDefined ==
    Spec /\ []Planner!NoWrap => [](~StrayView /\ ArenaFits => OutputsCorrect)
<1>1. EInv /\ SafeInv => (~StrayView /\ ArenaFits => OutputsCorrect)
  BY DEF EInv, SafeInv, ResultInv, OutputsCorrect
<1>. QED
  BY <1>1, SafetyInvariant, PTL

-----------------------------------------------------------------------------
(* The engine implements Inference *)

LEMMA RefinesInit == Init => Abstract!IInit
BY DEF Init, Abstract!IInit

LEMMA RefinesStep ==
    EInv /\ SafeInv /\ ~StrayView /\ ArenaFits /\ [Next]_vars
    => [Abstract!INext]_(Abstract!ivars)
<1> SUFFICES ASSUME EInv, SafeInv, ~StrayView, ArenaFits, [Next]_vars
             PROVE  [Abstract!INext]_(Abstract!ivars)
  OBVIOUS
<1> USE DEF Abstract!ivars
<1>1. pc = "idle" <=> result.status # "running"
  BY DEF EInv, ControlInv
<1>2. ASSUME UNCHANGED <<graph_, inputs, result>> PROVE UNCHANGED Abstract!ivars
  BY <1>2
<1>3. CASE SetMemoryPlanner \/ SetProfiling
  BY <1>2, <1>3 DEF SetMemoryPlanner, SetProfiling, control
<1>4. ASSUME NEW args \in Requests, BindInputs(args) PROVE Abstract!Call
  BY <1>1, <1>4 DEF BindInputs, Abstract!Call, Abstract!Idle
<1>5. CASE RejectInputs \/ SymbolsThrow \/ PlannerThrows \/ DispatchThrows
             \/ MaterializeFails
  <2>1. pc # "idle" /\ LeaveRun(Abstract!Thrown) /\ UNCHANGED members
    BY <1>5 DEF RejectInputs, SymbolsThrow, PlannerThrows, DispatchThrows,
                MaterializeFails
  <2>2. Abstract!Throws
    BY <1>1, <2>1 DEF LeaveRun, members, Abstract!Throws, Abstract!Idle
  <2>. QED
    BY <2>2 DEF Abstract!INext
<1>t. CASE ResizeThrows
  <2>1. pc # "idle" /\ LeaveRun(Abstract!Thrown) /\ graph_' = graph_
    BY <1>t DEF ResizeThrows
  <2>2. Abstract!Throws
    BY <1>1, <2>1 DEF LeaveRun, Abstract!Throws, Abstract!Idle
  <2>. QED
    BY <2>2 DEF Abstract!INext
<1>6. CASE ResolveSymbols \/ PlannerStep \/ RunWithoutPlan \/ InstallPlan \/ Dispatch
             \/ MaterializeOutput \/ EndNode
  BY <1>2, <1>6 DEF ResolveSymbols, PlannerStep, RunWithoutPlan, InstallPlan, StartNodes,
                    Dispatch, MaterializeOutput, EndNode, control
<1>7. CASE ReturnOutputs
  <2>1. pc = "dispatch" /\ graph_' = graph_
    BY <1>7 DEF ReturnOutputs, members
  <2>2. CASE graph_.output_names \subseteq DOMAIN tensor_map_
    <3> DEFINE outputs == [t \in graph_.output_names |-> Content(tensor_map_[t])]
    <3>1. /\ graph_.output_names \subseteq DOMAIN Abstract!Values(graph_, inputs)
          /\ LeaveRun(Abstract!Returned(outputs))
          /\ outputs = Abstract!Meaning(graph_, inputs)
      BY <1>7, <2>1, <2>2, ReturnFacts DEF SafeInv, Running
    <3> HIDE DEF outputs
    <3>2. Abstract!Range(graph_.input_names) \subseteq DOMAIN inputs
      BY <2>1 DEF EInv, ControlInv, Range, Abstract!Range
    <3>3. Abstract!Returns
      BY <1>1, <2>1, <3>1, <3>2 DEF Abstract!Returns, LeaveRun, Abstract!Idle
    <3>. QED
      BY <3>3 DEF Abstract!INext
  <2>3. CASE ~(graph_.output_names \subseteq DOMAIN tensor_map_)
    <3>1. Abstract!Throws
      BY <1>1, <1>7, <2>1, <2>3
         DEF ReturnOutputs, LeaveRun, Abstract!Throws, Abstract!Idle
    <3>. QED
      BY <3>1 DEF Abstract!INext
  <2>. QED
    BY <2>2, <2>3
<1>8. CASE UNCHANGED vars
  BY <1>2, <1>8 DEF vars, members, control
<1>. QED
  BY <1>3, <1>4, <1>5, <1>6, <1>7, <1>8, <1>t DEF Next, Step, Abstract!INext

\* Each run throws, or returns what the graph defines for the inputs of that
\* very run: memory, plans, views and earlier runs do not show.
THEOREM EngineRefinesInference ==
    Spec /\ []Planner!NoWrap /\ []ArenaFits /\ []~StrayView
    => Abstract!IInit /\ [][Abstract!INext]_(Abstract!ivars)
<1>. QED
  BY RefinesInit, RefinesStep, SafetyInvariant, PTL DEF Spec

-----------------------------------------------------------------------------
(* Models that describe their views *)

InfoTyped(info) ==
    /\ {"dtype", "shape", "dim_params", "shape_known"} \subseteq DOMAIN info
    /\ info.shape \in Seq(Int)

\* The symbolic dimensions that the descriptions of the inputs name.
Symbols(m) ==
    UNION {LET info == m.value_info[t] IN
             {info.dim_params[i] : i \in {j \in DOMAIN info.shape : info.dim_params[j] # ""}} :
           t \in {u \in Range(m.input_names) :
                    /\ u \in DOMAIN m.value_info
                    /\ Len(m.value_info[u].dim_params) = Len(m.value_info[u].shape)}}

\* The shape is known once the inputs are: each dimension is a positive number
\* or a symbol of the inputs.
Sizeable(m, info) ==
    /\ info.shape_known
    /\ info.dtype \in DOMAIN Planner!DtypeSize
    /\ \A i \in DOMAIN info.shape :
          \/ info.shape[i] > 0
          \/ /\ info.shape[i] < 0
             /\ Len(info.dim_params) = Len(info.shape)
             /\ info.dim_params[i] \in Symbols(m) \ {""}

\* Every output of a Reshape or Transpose node is described that well.
ViewsDescribed ==
    \A m \in Models :
        /\ \A t \in DOMAIN m.value_info : InfoTyped(m.value_info[t])
        /\ \A k \in 1..Len(m.nodes) :
              m.nodes[k].op \in Views =>
                /\ NodeOutput(m, k) \in DOMAIN m.value_info
                /\ Sizeable(m, m.value_info[NodeOutput(m, k)])

NoEmptyInput ==
    \A r \in Requests : \A t \in DOMAIN r : \A i \in DOMAIN r[t].shape : r[t].shape[i] > 0

ViewNodes == {k \in 1..Len(Nodes) : Nodes[k].op \in Views}

\* The planner sees a size for t, not zero.
SizeSeen(t) ==
    /\ t \notin resolved.initializers
    /\ t \in DOMAIN resolved.value_info
    /\ resolved.value_info[t].shape_known
    /\ Planner!TensorBytes(resolved.value_info[t]) \in Nat \ {0}

InputsAccepted == \A t \in Range(graph_.input_names) : ~Rejected(t, inputs)

\* A view that is described gets a slot whenever anything does.
ViewInv ==
    /\ pc = "symbols" => InputsAccepted
    /\ pc = "planning" => \A k \in ViewNodes : SizeSeen(NodeOutput(graph_, k))
    /\ pc = "planning" /\ phase # "thrown" =>
         \A k \in ViewNodes \cap PlannerProofs!Scanned :
            Planner!TensorBytes(resolved.value_info[NodeOutput(graph_, k)]) <= SizeMax
    /\ Running /\ DOMAIN memory_plan_.tensor_slots # {} =>
         \A k \in ViewNodes : NodeOutput(graph_, k) \in DOMAIN memory_plan_.tensor_slots

\* A product of positive numbers is positive.
LEMMA ElementsPositive ==
    ASSUME NEW s \in Seq(Nat), \A i \in DOMAIN s : s[i] > 0
    PROVE  Planner!Elements(s) \in Nat \ {0}
<1> DEFINE P == Products(s)
           S == {u \in SUBSET DOMAIN s : P[u] # 0}
<1>1. Naturals(s)
  BY ShapeNaturals
<1>2. /\ P[{}] = 1
      /\ \A u \in SUBSET DOMAIN s : P[u] \in Nat /\ \A x \in u : P[u] = s[x] * P[u \ {x}]
  BY <1>1, ProductFacts
<1>3. \A x \in DOMAIN s : s[x] \in Nat
  BY <1>1 DEF Naturals
<1> HIDE DEF P
<1>4. \A a, b \in Nat : a > 0 /\ b # 0 => a * b # 0
  BY SMT
<1>5. ASSUME NEW u \in SUBSET DOMAIN s, \A v \in SUBSET u : v # u => v \in S
      PROVE  u \in S
  <2>1. CASE u = {}
    BY <1>2, <2>1
  <2>2. ASSUME NEW x \in u PROVE u \in S
    <3>1. u \ {x} \in SUBSET u /\ u \ {x} # u
      OBVIOUS
    <3>2. u \ {x} \in S
      BY <1>5, <3>1
    <3>3. s[x] \in Nat /\ s[x] > 0 /\ P[u \ {x}] \in Nat /\ P[u \ {x}] # 0
      BY <1>2, <1>3, <3>2
    <3>4. s[x] * P[u \ {x}] # 0
      BY <1>4, <3>3
    <3>. QED
      BY <1>2, <3>4
  <2>. QED
    BY <2>1, <2>2
<1>6. DOMAIN s \in S
  <2>1. {} \in S
    BY <1>2
  <2>2. IsFiniteSet(DOMAIN s)
    BY <1>1 DEF Naturals
  <2> HIDE DEF S
  <2>3. \A u \in SUBSET DOMAIN s : u \in S
    BY <1>5, <2>1, <2>2, SubsetInduction
  <2>. QED
    BY <2>3
<1>7. Product(s) = P[DOMAIN s]
  BY ProductIsLast DEF P
<1>. QED
  BY <1>2, <1>6, <1>7, PlannerOperators

\* What the accepted inputs say of a symbol is positive, and every symbol they
\* name is bound.
LEMMA BindingFacts ==
    ASSUME EInv, pc = "symbols", InputsAccepted, ViewsDescribed, NoEmptyInput
    PROVE  /\ \A b \in Bindings : b[2] \in Nat \ {0}
           /\ \A s \in Symbols(graph_) : \E b \in Bindings : b[1] = s
<1>1. /\ graph_ \in Models /\ inputs \in Requests
      /\ Range(graph_.input_names) \subseteq DOMAIN inputs
  BY DEF EInv, ControlInv
<1>2. ASSUME NEW b \in Bindings PROVE b[2] \in Nat \ {0}
  <2>1. PICK u \in Range(graph_.input_names) :
           /\ u \in DOMAIN graph_.value_info
           /\ \E i \in DOMAIN graph_.value_info[u].shape :
                 b = <<graph_.value_info[u].dim_params[i], inputs[u].shape[i]>>
    BY <1>2 DEF Bindings
  <2>2. PICK i \in DOMAIN graph_.value_info[u].shape :
           b = <<graph_.value_info[u].dim_params[i], inputs[u].shape[i]>>
    BY <2>1
  <2>3. Len(graph_.value_info[u].shape) = Len(inputs[u].shape)
    BY <2>1 DEF InputsAccepted, Rejected
  <2>4. graph_.value_info[u].shape \in Seq(Int)
    BY <1>1, <2>1 DEF ViewsDescribed, InfoTyped
  <2>5. inputs[u].shape \in Seq(Nat) /\ \A j \in DOMAIN inputs[u].shape : inputs[u].shape[j] > 0
    BY <1>1, RequestsAssumption DEF Shaped, NoEmptyInput
  <2> DEFINE described == graph_.value_info[u].shape
             shape == inputs[u].shape
  <2>6. i \in DOMAIN described
    BY <2>2
  <2> HIDE DEF described, shape
  <2>7. i \in DOMAIN shape
    BY <2>3, <2>4, <2>5, <2>6 DEF described, shape
  <2>8. shape[i] \in Nat /\ shape[i] > 0
    BY <2>5, <2>7 DEF shape
  <2>. QED
    BY <2>2, <2>8 DEF shape
<1>3. ASSUME NEW s \in Symbols(graph_) PROVE \E b \in Bindings : b[1] = s
  <2>1. PICK u \in Range(graph_.input_names) :
           /\ u \in DOMAIN graph_.value_info
           /\ Len(graph_.value_info[u].dim_params) = Len(graph_.value_info[u].shape)
           /\ \E i \in DOMAIN graph_.value_info[u].shape :
                 /\ graph_.value_info[u].dim_params[i] # ""
                 /\ s = graph_.value_info[u].dim_params[i]
    BY <1>3 DEF Symbols
  <2>2. PICK i \in DOMAIN graph_.value_info[u].shape :
           /\ graph_.value_info[u].dim_params[i] # ""
           /\ s = graph_.value_info[u].dim_params[i]
    BY <2>1
  <2> DEFINE pairs == {<<graph_.value_info[u].dim_params[j], inputs[u].shape[j]>> :
                         j \in {l \in DOMAIN graph_.value_info[u].shape :
                                 graph_.value_info[u].dim_params[l] # ""}}
  <2>3. <<s, inputs[u].shape[i]>> \in pairs
    BY <2>2
  <2>4. pairs \subseteq Bindings
    BY <2>1, Zenon DEF Bindings
  <2>. QED
    BY <2>3, <2>4
<1>. QED
  BY <1>2, <1>3

\* With the symbols bound, what is sizeable has a size.
LEMMA ResolvedSize ==
    ASSUME EInv, pc = "symbols", InputsAccepted, ViewsDescribed, NoEmptyInput,
           NEW info, InfoTyped(info), Sizeable(graph_, info)
    PROVE  /\ Resolve(info).shape_known
           /\ Planner!TensorBytes(Resolve(info)) \in Nat \ {0}
<1> DEFINE resolve(i) == IF info.shape[i] < 0 /\ \E b \in Bindings : b[1] = info.dim_params[i]
                         THEN (CHOOSE b \in Bindings : b[1] = info.dim_params[i])[2]
                         ELSE info.shape[i]
           shape == [i \in DOMAIN info.shape |-> resolve(i)]
<1>1. info.shape \in Seq(Int) /\ DOMAIN info.shape = 1..Len(info.shape)
      /\ Len(info.shape) \in Nat /\ \A i \in DOMAIN info.shape : info.shape[i] \in Int
  BY DEF InfoTyped
<1>2. ASSUME NEW i \in DOMAIN info.shape, Len(info.dim_params) = Len(info.shape)
      PROVE  resolve(i) \in Nat \ {0}
  <2>1. CASE info.shape[i] > 0
    BY <1>1, <2>1
  <2>2. CASE info.shape[i] < 0
    <3>0. ~(info.shape[i] > 0)
      <4>1. info.shape[i] \in Int
        BY <1>1
      <4>. QED
        BY <2>2, <4>1
    <3>1. info.dim_params[i] \in Symbols(graph_)
      BY <3>0, Zenon DEF Sizeable
    <3>2. \E b \in Bindings : b[1] = info.dim_params[i]
      BY <3>1, BindingFacts
    <3> DEFINE bound == CHOOSE b \in Bindings : b[1] = info.dim_params[i]
    <3>3. bound \in Bindings
      BY <3>2
    <3>4. resolve(i) = bound[2]
      BY <2>2, <3>2
    <3> HIDE DEF bound
    <3>. QED
      BY <3>3, <3>4, BindingFacts
  <2>. QED
    BY <2>1, <2>2 DEF Sizeable
<1>3. /\ Resolve(info).shape_known /\ Resolve(info).dtype = info.dtype
      /\ Resolve(info).shape \in Seq(Nat)
      /\ \A i \in DOMAIN Resolve(info).shape : Resolve(info).shape[i] > 0
  <2>1. CASE Len(info.dim_params) # Len(info.shape)
    <3>1. Resolve(info) = info
      BY <2>1 DEF Resolve
    <3>2. \A i \in 1..Len(info.shape) : info.shape[i] \in Nat /\ info.shape[i] > 0
      <4> TAKE i \in 1..Len(info.shape)
      <4>1. info.shape[i] > 0
        BY <1>1, <2>1, Zenon DEF Sizeable
      <4>2. info.shape[i] \in Int
        BY <1>1
      <4>. QED
        BY <4>1, <4>2
    <3>3. info.shape \in Seq(Nat)
      BY <1>1, <3>2
    <3>. QED
      BY <1>1, <3>1, <3>2, <3>3 DEF Sizeable
  <2>2. CASE Len(info.dim_params) = Len(info.shape)
    <3>1. Resolve(info) = [info EXCEPT !.shape = shape]
      BY <2>2 DEF Resolve
    <3>2. \A i \in 1..Len(info.shape) : shape[i] \in Nat /\ shape[i] > 0
      <4> TAKE i \in 1..Len(info.shape)
      <4>1. resolve(i) \in Nat \ {0} /\ i \in DOMAIN info.shape
        BY <1>1, <1>2, <2>2
      <4> HIDE DEF resolve
      <4>2. shape[i] = resolve(i)
        BY <4>1
      <4> HIDE DEF shape
      <4>. QED
        BY <4>1, <4>2
    <3>3. DOMAIN shape = 1..Len(info.shape)
      BY <1>1
    <3> HIDE DEF shape
    <3>4. Resolve(info).shape = shape /\ Resolve(info).dtype = info.dtype
          /\ Resolve(info).shape_known = info.shape_known
      BY <3>1 DEF InfoTyped
    <3>5. shape \in Seq(Nat)
      <4> DEFINE n == Len(info.shape)
      <4>1. n \in Nat /\ shape = [i \in 1..n |-> shape[i]] /\ \A i \in 1..n : shape[i] \in Nat
        BY <1>1, <3>2, <3>3 DEF shape
      <4> HIDE DEF n
      <4>2. shape \in [1..n -> Nat]
        BY <4>1
      <4>. QED
        BY <4>1, <4>2
    <3>. QED
      BY <3>2, <3>3, <3>4, <3>5 DEF Sizeable
  <2>. QED
    BY <2>1, <2>2
<1> DEFINE r == Resolve(info)
<1> HIDE DEF r, resolve, shape
<1>4. Planner!Elements(r.shape) \in Nat \ {0}
  BY <1>3, ElementsPositive DEF r
<1>5. \A i \in DOMAIN r.shape : r.shape[i] >= 0
  BY <1>3 DEF r
<1>6. Planner!Concrete(r)
  BY <1>3, <1>5 DEF Planner!Concrete, r
<1>7. Planner!DtypeSize[r.dtype] \in Nat \ {0}
  <2>1. \A d \in DOMAIN Planner!DtypeSize : Planner!DtypeSize[d] \in Nat \ {0}
    BY DEF Planner!DtypeSize
  <2>2. r.dtype \in DOMAIN Planner!DtypeSize
    BY <1>3 DEF Sizeable, r
  <2> HIDE DEF Planner!DtypeSize
  <2>. QED
    BY <2>1, <2>2
<1>8. Planner!TensorBytes(r) = Planner!Elements(r.shape) * Planner!DtypeSize[r.dtype]
  BY <1>6 DEF Planner!TensorBytes
<1> DEFINE a == Planner!Elements(r.shape)
           d == Planner!DtypeSize[r.dtype]
<1> HIDE DEF a, d
<1>9. a * d \in Nat \ {0}
  <2>1. a \in Nat /\ a # 0 /\ d \in Nat /\ d # 0
    BY <1>4, <1>7 DEF a, d
  <2>2. \A x, y \in Nat : x # 0 /\ y # 0 => x * y \in Nat /\ x * y # 0
    BY SMT
  <2>. QED
    BY <2>1, <2>2
<1>. QED
  BY <1>3, <1>8, <1>9 DEF r, a, d

\* What the scan has passed did not make it throw.
LEMMA ScanPasses ==
    ASSUME PlannerProofs!IInv, PlannerProofs!Next, phase' # "thrown"
    PROVE  /\ phase # "thrown"
           /\ \A k \in PlannerProofs!Scanned' :
                 k \in PlannerProofs!Scanned \/ ~PlannerProofs!ScanFails(k)
<1>1. /\ index \in Nat /\ PlannerProofs!NodeCount \in Nat
      /\ PlannerProofs!NodeCount' = PlannerProofs!NodeCount
  <2>1. resolved' = resolved
    BY DEF PlannerProofs!Next, PlannerProofs!ScanProducer, PlannerProofs!ScanThrows,
           PlannerProofs!ProducersDone, PlannerProofs!ScanConsumer,
           PlannerProofs!KeepOutputs, PlannerProofs!PlaceInNewSlot,
           PlannerProofs!ReuseSlot, PlannerProofs!AlignThrows, PlannerProofs!Assign,
           PlannerProofs!ReturnPlan, PlannerProofs!Throw
  <2>. QED
    BY <2>1 DEF PlannerProofs!IInv, PlannerProofs!Typed, PlannerProofs!TypeOK,
                PlannerProofs!WellFormed, PlannerProofs!NodeCount
<1>2. CASE PlannerProofs!ScanProducer
  BY <1>1, <1>2 DEF PlannerProofs!ScanProducer, PlannerProofs!Scanned
<1>3. CASE PlannerProofs!ProducersDone
  BY <1>1, <1>3 DEF PlannerProofs!ProducersDone, PlannerProofs!Scanned
<1>4. CASE PlannerProofs!ScanConsumer \/ PlannerProofs!KeepOutputs
  BY <1>1, <1>4 DEF PlannerProofs!ScanConsumer, PlannerProofs!KeepOutputs,
                    PlannerProofs!Scanned
<1>5. CASE PlannerProofs!Throw
  BY <1>5 DEF PlannerProofs!Throw
<1>6. ASSUME NEW t, PlannerProofs!PlaceInNewSlot(t) \/ PlannerProofs!ReuseSlot(t)
      PROVE  phase = "placing" /\ phase' = "placing"
  BY <1>6 DEF PlannerProofs!PlaceInNewSlot, PlannerProofs!ReuseSlot, PlannerProofs!Assign
<1>7. CASE \E t : PlannerProofs!PlaceInNewSlot(t) \/ PlannerProofs!ReuseSlot(t)
  BY <1>1, <1>6, <1>7 DEF PlannerProofs!Scanned
<1>8. CASE PlannerProofs!ReturnPlan
  BY <1>1, <1>8 DEF PlannerProofs!ReturnPlan, PlannerProofs!Scanned
<1>. QED
  BY <1>2, <1>3, <1>4, <1>5, <1>7, <1>8
     DEF PlannerProofs!Next, PlannerProofs!ScanThrows, PlannerProofs!AlignThrows

\* A node the scan passes has no output of a size that does not fit.
LEMMA SizeFits ==
    ASSUME EInv, pc = "planning", NEW k \in ViewNodes,
           SizeSeen(NodeOutput(graph_, k)), ~PlannerProofs!ScanFails(k)
    PROVE  Planner!TensorBytes(resolved.value_info[NodeOutput(graph_, k)]) <= SizeMax
<1> DEFINE t == NodeOutput(graph_, k)
           info == resolved.value_info[t]
<1>1. t \in PlannerProofs!Outputs(k)
  <2>1. resolved.nodes = graph_.nodes /\ graph_ \in Models
    BY DEF EInv, PlanningInv, ControlInv
  <2>2. t \in Range(graph_.nodes[k].outputs)
    BY <2>1, ModelFacts DEF ViewNodes, Nodes
  <2>. QED
    BY <2>1, <2>2, PlannerValues DEF PlannerProofs!Outputs
<1>2. t \in PlannerProofs!Described(k)
  BY <1>1 DEF PlannerProofs!Described, SizeSeen
<1>3. ~Planner!TensorOverflows(info)
  BY <1>2, PlannerValues DEF PlannerProofs!ScanFails
<1>4. Planner!TensorBytes(info) \in Nat /\ info.shape_known
  BY DEF SizeSeen
<1> HIDE DEF info
<1>. QED
  BY <1>3, <1>4, BoundsAssumption DEF Planner!TensorOverflows, info

\* A plan that is complete has the views that are described.
LEMMA ViewsInPlan ==
    ASSUME EInv, ViewInv, pc = "planning", phase = "done", NEW k \in ViewNodes
    PROVE  NodeOutput(graph_, k) \in DOMAIN tensor_slots
<1> DEFINE t == NodeOutput(graph_, k)
<1>1. PlannerProofs!IInv /\ resolved.nodes = graph_.nodes /\ graph_ \in Models
  BY DEF EInv, PlanningInv, ControlInv
<1>2. /\ PlannerProofs!NodeCount = Len(Nodes)
      /\ PlannerProofs!Scanned = 1..Len(Nodes)
  BY <1>1 DEF PlannerProofs!NodeCount, PlannerProofs!Scanned, Nodes
<1>3. k \in 1..Len(Nodes)
  BY DEF ViewNodes
<1>4. SizeSeen(t) /\ Planner!TensorBytes(resolved.value_info[t]) <= SizeMax
  BY <1>2, <1>3 DEF ViewInv
<1>5. Planner!TensorBytes(resolved.value_info[t]) \in 1..SizeMax
  BY <1>4, BoundsAssumption DEF SizeSeen
<1>6. t \in PlannerProofs!Outputs(k)
  <2>1. t \in Range(graph_.nodes[k].outputs)
    BY <1>1, <1>3, ModelFacts DEF Nodes
  <2>. QED
    BY <1>1, <2>1, PlannerValues DEF PlannerProofs!Outputs
<1>7. t \in PlannerProofs!Plannable(k)
  BY <1>4, <1>5, <1>6, PlannerValues
     DEF PlannerProofs!Plannable, PlannerProofs!Described, SizeSeen
<1>8. PlannerProofs!PlanComplete
  BY <1>1, PlannerProofs!PlanCovers, TensorAssumption, BoundsAssumption
<1>. QED
  BY <1>2, <1>3, <1>7, <1>8 DEF PlannerProofs!PlanComplete

LEMMA ViewInit == Init => ViewInv
BY EmptyFunction DEF Init, ViewInv, Running

LEMMA ViewResolve ==
    ASSUME ViewsDescribed, NoEmptyInput, EInv, ViewInv, ResolveSymbols
    PROVE  ViewInv'
<1>1. /\ pc = "symbols" /\ pc' = "planning" /\ phase' = "producers" /\ index' = 1
      /\ graph_' = graph_
      /\ resolved'.initializers = DOMAIN graph_.initializers
      /\ resolved'.value_info = [t \in DOMAIN graph_.value_info |->
                                   Resolve(graph_.value_info[t])]
  BY DEF ResolveSymbols
<1>2. InputsAccepted /\ graph_ \in Models
  BY <1>1 DEF ViewInv, EInv, ControlInv
<1>3. ASSUME NEW k \in ViewNodes PROVE SizeSeen(NodeOutput(graph_, k))'
  <2> DEFINE t == NodeOutput(graph_, k)
             info == graph_.value_info[t]
  <2>1. k \in 1..Len(graph_.nodes) /\ graph_.nodes[k].op \in Views
    BY DEF ViewNodes, Nodes
  <2>2. t \in DOMAIN graph_.value_info /\ Sizeable(graph_, info) /\ InfoTyped(info)
    BY <1>2, <2>1 DEF ViewsDescribed
  <2>3. t \notin DOMAIN graph_.initializers
    BY <1>2, <2>1, OutputIsNew DEF Given
  <2>4. Resolve(info).shape_known /\ Planner!TensorBytes(Resolve(info)) \in Nat \ {0}
    BY <1>1, <1>2, <2>2, ResolvedSize
  <2>5. t \in DOMAIN resolved'.value_info /\ resolved'.value_info[t] = Resolve(info)
    BY <1>1, <2>2
  <2>6. t' = t
    BY <1>1 DEF NodeOutput
  <2>7. SizeSeen(t)' <=> /\ t' \notin resolved'.initializers
                         /\ t' \in DOMAIN resolved'.value_info
                         /\ resolved'.value_info[t'].shape_known
                         /\ Planner!TensorBytes(resolved'.value_info[t']) \in Nat \ {0}
    BY DEF SizeSeen
  <2> HIDE DEF t, info
  <2>. QED
    BY <1>1, <2>3, <2>4, <2>5, <2>6, <2>7 DEF t
<1>4. ViewNodes' = ViewNodes
  BY <1>1 DEF ViewNodes, Nodes
<1>5. PlannerProofs!Scanned' = {}
  BY <1>1 DEF PlannerProofs!Scanned
<1>. QED
  BY <1>1, <1>3, <1>4, <1>5 DEF ViewInv, Running

LEMMA ViewPlanning ==
    ASSUME EInv, ViewInv, PlannerStep
    PROVE  ViewInv'
<1>1. /\ pc = "planning" /\ pc' = "planning" /\ graph_' = graph_ /\ Planner!Next
      /\ resolved' = resolved
  BY PlannerPhase DEF PlannerStep, control
<1>2. PlannerProofs!IInv /\ PlannerProofs!Next
  BY <1>1, PlannerNext DEF EInv, PlanningInv
<1>3. ViewNodes' = ViewNodes /\ \A k : NodeOutput(graph_, k)' = NodeOutput(graph_, k)
  BY <1>1 DEF ViewNodes, Nodes, NodeOutput
<1>4. ASSUME NEW k \in ViewNodes
      PROVE  SizeSeen(NodeOutput(graph_, k)) /\ SizeSeen(NodeOutput(graph_, k))'
  BY <1>1, <1>3 DEF ViewInv, SizeSeen
<1>5. ASSUME phase' # "thrown", NEW k \in ViewNodes, k \in PlannerProofs!Scanned'
      PROVE  Planner!TensorBytes(resolved.value_info[NodeOutput(graph_, k)]) <= SizeMax
  <2>1. phase # "thrown" /\ (k \in PlannerProofs!Scanned \/ ~PlannerProofs!ScanFails(k))
    BY <1>2, <1>5, ScanPasses
  <2>2. CASE k \in PlannerProofs!Scanned
    BY <1>1, <2>1, <2>2 DEF ViewInv
  <2>3. CASE ~PlannerProofs!ScanFails(k)
    BY <1>1, <1>4, <2>3, SizeFits
  <2>. QED
    BY <2>1, <2>2, <2>3
<1>. QED
  BY <1>1, <1>3, <1>4, <1>5 DEF ViewInv, Running

LEMMA ViewStep ==
    ASSUME ViewsDescribed, NoEmptyInput
    PROVE  EInv /\ ViewInv /\ [Next]_vars => ViewInv'
<1> SUFFICES ASSUME EInv, ViewInv, [Next]_vars PROVE ViewInv'
  OBVIOUS
<1>1. ASSUME pc' = "idle" \/ (pc' = "rejected" /\ graph_' = graph_) PROVE ViewInv'
  BY <1>1 DEF ViewInv, Running
<1>2. CASE SetMemoryPlanner \/ SetProfiling
  BY <1>1, <1>2 DEF SetMemoryPlanner, SetProfiling, control
<1>3. ASSUME NEW args \in Requests, BindInputs(args) PROVE ViewInv'
  <2> DEFINE names == graph_.input_names
             bad == {i \in DOMAIN names : Rejected(names[i], args)}
  <2>1. /\ inputs' = args /\ graph_' = graph_
        /\ pc' = IF bad = {} THEN "symbols" ELSE "rejected"
    BY <1>3 DEF BindInputs
  <2>2. ASSUME bad = {} PROVE InputsAccepted'
    BY <2>1, <2>2 DEF InputsAccepted, Rejected, Range
  <2> HIDE DEF bad
  <2>. QED
    BY <2>1, <2>2 DEF ViewInv, Running
<1>4. CASE RejectInputs \/ SymbolsThrow \/ PlannerThrows \/ DispatchThrows
             \/ MaterializeFails \/ ReturnOutputs \/ ResizeThrows
  <2>1. pc' = "idle"
    BY <1>4 DEF RejectInputs, SymbolsThrow, PlannerThrows, DispatchThrows,
                MaterializeFails, ReturnOutputs, ResizeThrows, LeaveRun
  <2>. QED
    BY <1>1, <2>1
<1>5. CASE ResolveSymbols
  BY <1>5, ViewResolve
<1>6. CASE PlannerStep
  BY <1>6, ViewPlanning
<1>7. CASE RunWithoutPlan
  <2>1. pc' = "dispatch" /\ DOMAIN memory_plan_'.tensor_slots = {}
    BY <1>7, EmptyFunction DEF RunWithoutPlan, StartNodes
  <2>. QED
    BY <2>1 DEF ViewInv
<1>8. CASE InstallPlan
  <2>1. /\ pc = "planning" /\ phase = "done" /\ pc' = "dispatch" /\ graph_' = graph_
        /\ memory_plan_'.tensor_slots = tensor_slots
    BY <1>8 DEF InstallPlan, StartNodes
  <2>2. \A k \in ViewNodes : NodeOutput(graph_, k) \in DOMAIN tensor_slots
    BY <2>1, ViewsInPlan
  <2>3. ViewNodes' = ViewNodes /\ \A k : NodeOutput(graph_, k)' = NodeOutput(graph_, k)
    BY <2>1 DEF ViewNodes, Nodes, NodeOutput
  <2>. QED
    BY <2>1, <2>2, <2>3 DEF ViewInv
<1>9. CASE Dispatch \/ MaterializeOutput \/ EndNode
  <2>1. /\ pc \in {"dispatch", "materialize"} /\ pc' \in {"dispatch", "materialize"}
        /\ UNCHANGED <<graph_, memory_plan_>>
    BY <1>9 DEF Dispatch, MaterializeOutput, EndNode
  <2>2. ViewNodes' = ViewNodes /\ \A k : NodeOutput(graph_, k)' = NodeOutput(graph_, k)
    BY <2>1 DEF ViewNodes, Nodes, NodeOutput
  <2>. QED
    BY <2>1, <2>2 DEF ViewInv, Running
<1>10. CASE UNCHANGED vars
  <2>1. ViewNodes' = ViewNodes /\ \A k : NodeOutput(graph_, k)' = NodeOutput(graph_, k)
    BY <1>10 DEF ViewNodes, Nodes, NodeOutput, vars, members
  <2>2. InputsAccepted' <=> InputsAccepted
    BY <1>10 DEF InputsAccepted, Rejected, vars, members, control
  <2>3. PlannerProofs!Scanned' = PlannerProofs!Scanned
    BY <1>10 DEF PlannerProofs!Scanned, PlannerProofs!NodeCount, vars, planner
  <2>4. \A k \in ViewNodes :
           SizeSeen(NodeOutput(graph_, k))' <=> SizeSeen(NodeOutput(graph_, k))
    BY <1>10, <2>1 DEF SizeSeen, vars, planner
  <2>. QED
    BY <1>10, <2>1, <2>2, <2>3, <2>4 DEF ViewInv, Running, vars, members, control, planner
<1>. QED
  BY <1>2, <1>3, <1>4, <1>5, <1>6, <1>7, <1>8, <1>9, <1>10 DEF Next, Step

LEMMA NoStrayStep == EInv /\ ViewInv /\ ~StrayView /\ [Next]_vars => ~StrayView'
<1> SUFFICES ASSUME EInv, ViewInv, ~StrayView, [Next]_vars PROVE ~StrayView'
  OBVIOUS
<1>1. ASSUME UNCHANGED <<tensor_map_, memory_plan_>> PROVE ~StrayView'
  BY <1>1, StrayKept
<1>2. CASE SetMemoryPlanner \/ SetProfiling
  BY <1>1, <1>2 DEF SetMemoryPlanner, SetProfiling
<1>3. ASSUME NEW args \in Requests, BindInputs(args) PROVE ~StrayView'
  <2>1. pc' \in {"symbols", "rejected"}
    BY <1>3 DEF BindInputs
  <2>. QED
    BY <2>1, EngineStep DEF EInv, MapInv, StrayView
<1>4. CASE RejectInputs \/ SymbolsThrow \/ PlannerThrows \/ DispatchThrows
             \/ MaterializeFails \/ ReturnOutputs
  BY <1>1, <1>4 DEF RejectInputs, SymbolsThrow, PlannerThrows, DispatchThrows,
                    MaterializeFails, ReturnOutputs, members
<1>5. CASE ResolveSymbols \/ PlannerStep \/ EndNode
  BY <1>1, <1>5 DEF ResolveSymbols, PlannerStep, EndNode
<1>6. CASE RunWithoutPlan \/ InstallPlan
  <2>1. pc = "planning" /\ tensor_map_' = tensor_map_
    BY <1>6 DEF RunWithoutPlan, InstallPlan, StartNodes
  <2>. QED
    BY <2>1 DEF EInv, MapInv, StrayView
<1>7. CASE Dispatch
  <2> DEFINE n == Nodes[node]
             out == NodeOutput(graph_, node)
             arg == tensor_map_[n.inputs[1]]
             made == KernelResult(n)
  <2>1. /\ pc = "dispatch" /\ node <= Len(Nodes) /\ KernelRuns(n)
        /\ InsertInto(tensor_map_, out, made, tensor_map_')
        /\ memory_plan_' = memory_plan_
    BY <1>7, InsertFacts DEF Dispatch, CurrentNode, NodeOutput, Nodes
  <2>2. WellFormedNode(n) /\ graph_ \in Models /\ node \in 1..Len(Nodes)
    BY <2>1, AtDispatch
  <2>3. \A t \in DOMAIN tensor_map_ : TensorTyped(arena_.generation, tensor_map_[t])
    BY DEF EInv, MapInv
  <2>4. n.inputs[1] \in DOMAIN tensor_map_
    BY <2>1, <2>2, InputsOfNode
  <2>5. CASE SharesStorage(n, arg)
    <3>1. arg.in_arena /\ n.op \in Views
      BY <2>5 DEF SharesStorage
    <3>2. DOMAIN memory_plan_.tensor_slots # {}
      BY <2>4, <3>1 DEF EInv, MapInv
    <3>3. node \in ViewNodes
      BY <2>2, <3>1 DEF ViewNodes
    <3>4. out \in DOMAIN memory_plan_.tensor_slots
      BY <2>1, <3>2, <3>3 DEF ViewInv, Running
    <3> HIDE DEF made
    <3>. QED
      BY <2>1, <3>4 DEF StrayView, InsertInto
  <2>6. CASE ~SharesStorage(n, arg)
    <3>1. \E c : made = Owned(made.dtype, made.shape, c)
      BY <2>1, <2>2, <2>3, <2>6, KernelFacts
    <3> HIDE DEF made
    <3>2. ~made.in_arena
      BY <3>1 DEF Owned
    <3>. QED
      BY <2>1, <3>2 DEF StrayView, InsertInto
  <2>. QED
    BY <2>5, <2>6
<1>8. CASE MaterializeOutput /\ ~Planned
  BY <1>1, <1>8 DEF MaterializeOutput
<1>9. CASE MaterializeOutput /\ Planned
  <2> DEFINE out == NodeOutput(graph_, node)
  <2>1. /\ out \in DOMAIN memory_plan_.tensor_slots
        /\ DOMAIN tensor_map_' = DOMAIN tensor_map_ \cup {out}
        /\ \A t \in DOMAIN tensor_map_ \ {out} : tensor_map_'[t] = tensor_map_[t]
        /\ memory_plan_' = memory_plan_
    BY <1>9, MovedFacts DEF MaterializeOutput, InsertInto
  <2> HIDE DEF out
  <2>. QED
    BY <2>1 DEF StrayView
<1>10. CASE ResizeThrows
  <2>1. pc = "planning" /\ tensor_map_' = tensor_map_
    BY <1>10 DEF ResizeThrows
  <2>. QED
    BY <2>1 DEF EInv, MapInv, StrayView
<1>11. CASE UNCHANGED vars
  BY <1>1, <1>11 DEF vars, members
<1>. QED
  BY <1>2, <1>3, <1>4, <1>5, <1>6, <1>7, <1>8, <1>9, <1>10, <1>11 DEF Next, Step

\* Views do no harm where they are described: if the size of every output of
\* a Reshape or Transpose node is known with the inputs, each such view has a
\* slot of its own and all that the engine returns is correct.
THEOREM CorrectIfViewsAreDescribed ==
    ASSUME ViewsDescribed, NoEmptyInput
    PROVE  Spec /\ []Planner!NoWrap /\ []ArenaFits => []OutputsCorrect
<1>1. Init => ~StrayView
  BY EmptyFunction DEF Init, StrayView
<1>2. Spec => []ViewInv
  BY ViewInit, ViewStep, EngineInvariant, PTL DEF Spec
<1>3. Spec => []~StrayView
  BY <1>1, <1>2, NoStrayStep, EngineInvariant, PTL DEF Spec
<1>. QED
  BY <1>3, OutputsAsDefined, PTL
=============================================================================
