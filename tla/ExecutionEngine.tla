-------------------------- MODULE ExecutionEngine --------------------------
(***************************************************************************)
(* ExecutionEngine of src/src/execution_engine.cpp: run() from the input   *)
(* checks to the cloned outputs, with the memory planner (an instance of   *)
(* MemoryPlanner, stepped in between), the arena the planned outputs are   *)
(* moved into, and the views that Reshape and Transpose return.            *)
(*                                                                         *)
(* A model is a graph as in MemoryPlanner with, in addition,               *)
(*   nodes[k].op       : the operator                                      *)
(*   nodes[k].to       : the dtype Cast converts to                        *)
(*   input_names       : sequence of tensors                               *)
(*   value_info[t]     : also dim_params, a sequence of symbols or ""      *)
(* and initializers, a function from tensors to [dtype, shape].            *)
(*                                                                         *)
(* A tensor owns its bytes, which nobody writes after the kernel that made *)
(* them, or lies in the arena.  Either way its content is a term of        *)
(* Inference; Garbage is a content that is no node's value.                *)
(***************************************************************************)
EXTENDS Integers, SequencesExt

CONSTANTS
    Tensor, Models, Requests, SizeMax,
    MaxRuns     \* bound on the calls of run()

VARIABLES
    graph_, memory_planner_enabled_, profiling_, op_times_ms_, tensor_map_,
    memory_plan_, naive_activation_bytes_,
    arena_,     \* [generation, capacity, content]: one generation for each
                \* allocation; content maps a start to what was written there
    pc,         \* where in run() the engine is
    node,       \* the loop variable over graph_.nodes
    output,     \* the loop variable over the outputs of a node
    inputs,     \* the argument of run()
    result,     \* what the latest run() returned or threw
    runs

\* Local to prepare_memory_plan.
VARIABLES
    resolved, phase, index, lifetimes, pending, slots, tensor_slots, total_bytes

members == <<graph_, memory_planner_enabled_, profiling_, op_times_ms_,
             tensor_map_, memory_plan_, naive_activation_bytes_, arena_>>
control == <<pc, node, output, inputs, result, runs>>
planner == <<resolved, phase, index, lifetimes, pending, slots, tensor_slots,
             total_bytes>>
vars == <<members, control, planner>>

Planner == INSTANCE MemoryPlanner
             WITH Graphs <- {}, graph <- resolved

Abstract == INSTANCE Inference
              WITH model <- graph_, request <- inputs, outcome <- result

-----------------------------------------------------------------------------
(* Tensors *)

Bytes(dtype, shape) == Planner!Elements(shape) * Planner!DtypeSize[dtype]
NBytes(tensor) == Bytes(tensor.dtype, tensor.shape)

Garbage == <<"garbage", 0, <<>>>>

Owned(dtype, shape, content) ==
    [in_arena |-> FALSE, dtype |-> dtype, shape |-> shape, content |-> content]

\* views are the view operators applied to what lies at offset.
InArena(dtype, shape, strides, offset, views) ==
    [in_arena |-> TRUE, dtype |-> dtype, shape |-> shape, strides |-> strides,
     offset |-> offset, generation |-> arena_.generation, views |-> views]

ContiguousStrides(shape) ==
    [i \in DOMAIN shape |-> Planner!Elements(SubSeq(shape, i + 1, Len(shape)))]

\* is_contiguous: the stride of a dimension of one does not matter.
Contiguous(tensor) ==
    \A i \in DOMAIN tensor.shape :
        tensor.shape[i] > 1 =>
            tensor.strides[i] = ContiguousStrides(tensor.shape)[i]

ViewOp(n) == [op |-> n.op]

\* What a read of the tensor finds now.
Content(tensor) ==
    IF ~tensor.in_arena THEN tensor.content
    ELSE IF tensor.generation # arena_.generation
            \/ tensor.offset \notin DOMAIN arena_.content
         THEN Garbage
         ELSE FoldLeft(LAMBDA acc, v : Abstract!Apply(v, <<acc>>),
                       arena_.content[tensor.offset].content, tensor.views)

\* clone_contiguous
Clone(tensor) == Owned(tensor.dtype, tensor.shape, Content(tensor))

-----------------------------------------------------------------------------
(* The kernels, reduced to what they read, when they throw and where their *)
(* output lies: Relu, Sqrt and Add (FLOAT32 only, a fresh output), Cast (a *)
(* fresh one of another size), Reshape to one dimension and Transpose of   *)
(* all axes (views of their input where it is contiguous or not copied).   *)

Views == {"Reshape", "Transpose"}
Supported == {"Relu", "Sqrt", "Add", "Cast"} \cup Views

\* broadcast_binary_op: shapes are aligned at their last dimension.
Rank(a, b) == Max({Len(a), Len(b)})
Dim(shape, rank, i) ==
    IF i <= rank - Len(shape) THEN 1 ELSE shape[i - (rank - Len(shape))]

Broadcastable(a, b) ==
    \A i \in 1..Rank(a, b) :
        LET x == Dim(a, Rank(a, b), i)
            y == Dim(b, Rank(a, b), i)
        IN  x = y \/ x = 1 \/ y = 1

Broadcast(a, b) ==
    [i \in 1..Rank(a, b) |->
        IF Dim(a, Rank(a, b), i) = 1 THEN Dim(b, Rank(a, b), i)
                                     ELSE Dim(a, Rank(a, b), i)]

KernelRuns(n) ==
    /\ n.op \in Supported
    /\ Range(n.inputs) \subseteq DOMAIN tensor_map_
    /\ n.op \in {"Relu", "Sqrt", "Add"} =>
         \A t \in Range(n.inputs) : tensor_map_[t].dtype = "FLOAT32"
    /\ n.op = "Add" =>
         Broadcastable(tensor_map_[n.inputs[1]].shape, tensor_map_[n.inputs[2]].shape)

ResultShape(n, arg) ==
    CASE n.op = "Reshape" -> <<Planner!Elements(arg.shape)>>
      [] n.op = "Transpose" -> Reverse(arg.shape)
      [] n.op = "Add" -> Broadcast(arg.shape, tensor_map_[n.inputs[2]].shape)
      [] OTHER -> arg.shape

\* reshape shares the storage of a contiguous tensor and copies any other.
SharesStorage(n, arg) ==
    arg.in_arena /\ n.op \in Views /\ (n.op = "Reshape" => Contiguous(arg))

KernelResult(n) ==
    LET arg == tensor_map_[n.inputs[1]]
        shape == ResultShape(n, arg)
    IN  IF SharesStorage(n, arg)
        THEN [arg EXCEPT !.shape = shape, !.views = Append(@, ViewOp(n)),
                         !.strides = IF n.op = "Transpose" THEN Reverse(@)
                                     ELSE ContiguousStrides(shape)]
        ELSE Owned(IF n.op = "Cast" THEN n.to ELSE arg.dtype, shape,
                   Abstract!Apply(n, [i \in DOMAIN n.inputs |->
                                        Content(tensor_map_[n.inputs[i]])]))

Insert(map, name, tensor) ==
    [t \in DOMAIN map \cup {name} |-> IF t = name THEN tensor ELSE map[t]]

-----------------------------------------------------------------------------
(* What the engine is given *)

Shaped(x) == x.dtype \in DOMAIN Planner!DtypeSize /\ x.shape \in Seq(Nat)

\* A node has an output, and as many inputs as its kernel reads.
WellFormedNode(n) ==
    /\ n.inputs \in Seq(Tensor)
    /\ n.outputs \in Seq(Tensor) \ {<<>>}
    /\ n.op \in Supported => Len(n.inputs) = IF n.op = "Add" THEN 2 ELSE 1
    /\ n.op = "Cast" => n.to \in DOMAIN Planner!DtypeSize

Given(m) == DOMAIN m.initializers \cup Range(m.input_names)

\* Each tensor comes from one output of one node, or is given.
SingleAssignment(m) ==
    \A k, j \in DOMAIN m.nodes :
        \A a \in DOMAIN m.nodes[k].outputs, b \in DOMAIN m.nodes[j].outputs :
            /\ m.nodes[k].outputs[a] \notin Given(m)
            /\ m.nodes[k].outputs[a] = m.nodes[j].outputs[b] => k = j /\ a = b

ASSUME TensorAssumption == Tensor \subseteq Nat
ASSUME BoundsAssumption == SizeMax \in Nat /\ MaxRuns \in Nat
ASSUME ModelsAssumption ==
    \A m \in Models :
        /\ Len(m.nodes) \in Nat /\ DOMAIN m.nodes = 1..Len(m.nodes)
        /\ \A k \in DOMAIN m.nodes : WellFormedNode(m.nodes[k])
        /\ SingleAssignment(m)
        /\ Len(m.input_names) \in Nat /\ DOMAIN m.input_names = 1..Len(m.input_names)
        /\ Given(m) \subseteq Tensor
        /\ \A t \in DOMAIN m.initializers : Shaped(m.initializers[t])
ASSUME RequestsAssumption == \A r \in Requests : \A t \in DOMAIN r : Shaped(r[t])

-----------------------------------------------------------------------------

Init ==
    /\ graph_ \in Models
    /\ memory_planner_enabled_ = TRUE
    /\ profiling_ = FALSE
    /\ op_times_ms_ = <<>>
    /\ tensor_map_ = <<>>
    /\ memory_plan_ = [tensor_slots |-> <<>>, total_bytes |-> 0]
    /\ naive_activation_bytes_ = 0
    /\ arena_ = [generation |-> 0, capacity |-> 0, content |-> <<>>]
    /\ pc = "idle"
    /\ node = 0
    /\ output = 0
    /\ inputs = <<>>
    /\ result = [status |-> "none"]
    /\ runs = 0
    /\ resolved = <<>> /\ phase = "none" /\ index = 0 /\ lifetimes = <<>>
    /\ pending = {} /\ slots = <<>> /\ tensor_slots = <<>> /\ total_bytes = 0

\* An exception leaves run(): its locals go, the members stay as they are.
LeaveRun(outcome) ==
    /\ result' = outcome
    /\ pc' = "idle"
    /\ node' = 0
    /\ output' = 0
    /\ UNCHANGED <<inputs, runs>>

EndPlanner ==
    /\ resolved' = <<>> /\ phase' = "none" /\ index' = 0 /\ lifetimes' = <<>>
    /\ pending' = {} /\ slots' = <<>> /\ tensor_slots' = <<>> /\ total_bytes' = 0

-----------------------------------------------------------------------------
(* Between the runs *)

SetMemoryPlanner ==
    /\ pc = "idle"
    /\ runs < MaxRuns
    /\ memory_planner_enabled_' = ~memory_planner_enabled_
    /\ UNCHANGED <<graph_, profiling_, op_times_ms_, tensor_map_, memory_plan_,
                   naive_activation_bytes_, arena_, control, planner>>

SetProfiling ==
    /\ pc = "idle"
    /\ runs < MaxRuns
    /\ profiling_' = ~profiling_
    /\ UNCHANGED <<graph_, memory_planner_enabled_, op_times_ms_, tensor_map_,
                   memory_plan_, naive_activation_bytes_, arena_, control, planner>>

-----------------------------------------------------------------------------
(* run(): inputs *)

InitializerTensors ==
    [t \in DOMAIN graph_.initializers |->
        Owned(graph_.initializers[t].dtype, graph_.initializers[t].shape,
              Abstract!InitializerTerm(t))]

Rejected(name, args) ==
    \/ name \notin DOMAIN args
    \/ /\ name \in DOMAIN graph_.value_info
       /\ LET info == graph_.value_info[name]
              shape == args[name].shape
          IN  \/ info.dtype # args[name].dtype
              \/ Len(info.shape) # Len(shape)
              \/ \E i \in DOMAIN shape : info.shape[i] >= 0 /\ info.shape[i] # shape[i]

\* Fault: what earlier runs produced stays in the map.
MergedTensors(args, bound) ==
    [t \in DOMAIN tensor_map_ \cup DOMAIN graph_.initializers \cup bound |->
        CASE t \in bound -> Owned(args[t].dtype, args[t].shape,
                                  Abstract!InputTerm(t, args[t].value))
          [] t \notin bound /\ t \in DOMAIN graph_.initializers -> InitializerTensors[t]
          [] OTHER -> tensor_map_[t]]

\* The initializers, and over them the inputs.
BoundTensors(args, bound) ==
    [t \in DOMAIN graph_.initializers \cup bound |->
        IF t \in bound THEN Owned(args[t].dtype, args[t].shape,
                                  Abstract!InputTerm(t, args[t].value))
                       ELSE InitializerTensors[t]]

\* Fault: the times of all runs add up.
KeepTimes == UNCHANGED op_times_ms_

ClearTimes == op_times_ms_' = <<>>

\* Initializers first, then the inputs up to the first one that is rejected.
BindInputs(args) ==
    /\ pc = "idle"
    /\ runs < MaxRuns
    /\ runs' = runs + 1
    /\ inputs' = args
    /\ ClearTimes
    /\ LET names == graph_.input_names
           bad == {i \in DOMAIN names : Rejected(names[i], args)}
           bound == {names[i] : i \in {j \in DOMAIN names : \A b \in bad : j < b}}
       IN  /\ tensor_map_' = BoundTensors(args, bound)
           /\ pc' = IF bad = {} THEN "symbols" ELSE "rejected"
    /\ result' = Abstract!Running
    /\ UNCHANGED <<graph_, memory_planner_enabled_, profiling_, memory_plan_,
                   naive_activation_bytes_, arena_, node, output, planner>>

RejectInputs ==
    /\ pc = "rejected"
    /\ LeaveRun(Abstract!Thrown)
    /\ UNCHANGED <<members, planner>>

-----------------------------------------------------------------------------
(* run(): prepare_memory_plan *)

\* What the shapes of the inputs say about the symbolic dimensions.
Bindings ==
    UNION {LET info == graph_.value_info[t] IN
             {<<info.dim_params[i], inputs[t].shape[i]>> :
                i \in {j \in DOMAIN info.shape : info.dim_params[j] # ""}} :
           t \in {u \in Range(graph_.input_names) :
                    /\ u \in DOMAIN graph_.value_info
                    /\ Len(graph_.value_info[u].dim_params)
                         = Len(graph_.value_info[u].shape)}}

Conflict == \E a, b \in Bindings : a[1] = b[1] /\ a[2] # b[2]

Resolve(info) ==
    IF Len(info.dim_params) # Len(info.shape) THEN info
    ELSE [info EXCEPT !.shape =
            [i \in DOMAIN info.shape |->
               IF info.shape[i] < 0 /\ \E b \in Bindings : b[1] = info.dim_params[i]
               THEN (CHOOSE b \in Bindings : b[1] = info.dim_params[i])[2]
               ELSE info.shape[i]]]

SymbolsThrow ==
    /\ pc = "symbols"
    /\ Conflict
    /\ LeaveRun(Abstract!Thrown)
    /\ UNCHANGED <<members, planner>>

\* naive_activation_bytes_ is zeroed before the lifetimes are computed.
ResolveSymbols ==
    /\ pc = "symbols"
    /\ ~Conflict
    /\ pc' = "planning"
    /\ naive_activation_bytes_' = 0
    /\ resolved' = [nodes |-> graph_.nodes,
                    value_info |-> [t \in DOMAIN graph_.value_info |->
                                      Resolve(graph_.value_info[t])],
                    initializers |-> DOMAIN graph_.initializers,
                    output_names |-> graph_.output_names]
    /\ phase' = "producers"
    /\ index' = 1
    /\ UNCHANGED <<lifetimes, pending, slots, tensor_slots, total_bytes>>
    /\ UNCHANGED <<graph_, memory_planner_enabled_, profiling_, op_times_ms_,
                   tensor_map_, memory_plan_, arena_, node, output, inputs, result, runs>>

\* The planner runs up to the lifetimes, and beyond them only if enabled.
\* (The code computes the lifetimes a second time for the plan: the same.)
PlannerStep ==
    /\ pc = "planning"
    /\ phase = "placing" => memory_planner_enabled_
    /\ Planner!Next
    /\ IF phase = "consumers" /\ phase' = "placing"
       THEN naive_activation_bytes_' =
              FoldFunction(LAMBDA life, sum : life.nbytes + sum, 0, lifetimes')
                % (SizeMax + 1)
       ELSE UNCHANGED naive_activation_bytes_
    /\ UNCHANGED <<graph_, memory_planner_enabled_, profiling_, op_times_ms_,
                   tensor_map_, memory_plan_, arena_, control>>

PlannerThrows ==
    /\ pc = "planning"
    /\ phase = "thrown"
    /\ LeaveRun(Abstract!Thrown)
    /\ EndPlanner
    /\ UNCHANGED members

\* swap with an empty vector
FreeArena ==
    arena_' = [generation |-> arena_.generation + 1, capacity |-> 0, content |-> <<>>]

\* Fault: the arena of the first run is taken for large enough.
ResizeOnce(bytes) ==
    IF arena_.capacity > 0
    THEN UNCHANGED arena_
    ELSE arena_' = [generation |-> arena_.generation + 1, capacity |-> bytes,
                    content |-> <<>>]

\* vector::resize keeps the allocation while the capacity suffices.
ResizeArena(bytes) ==
    IF bytes <= arena_.capacity
    THEN UNCHANGED arena_
    ELSE arena_' = [generation |-> arena_.generation + 1, capacity |-> bytes,
                    content |-> <<>>]

StartNodes ==
    /\ pc' = "dispatch"
    /\ node' = 1
    /\ EndPlanner
    /\ UNCHANGED <<graph_, memory_planner_enabled_, profiling_, op_times_ms_,
                   tensor_map_, naive_activation_bytes_, output, inputs, result, runs>>

\* Fault: the arena outlives the plan.
RunKeepingArena ==
    /\ pc = "planning"
    /\ phase = "placing"
    /\ ~memory_planner_enabled_
    /\ memory_plan_' = [tensor_slots |-> <<>>, total_bytes |-> 0]
    /\ UNCHANGED arena_
    /\ StartNodes

RunWithoutPlan ==
    /\ pc = "planning"
    /\ phase = "placing"
    /\ ~memory_planner_enabled_
    /\ memory_plan_' = [tensor_slots |-> <<>>, total_bytes |-> 0]
    /\ FreeArena
    /\ StartNodes

\* The bytes the arena is resized to, for alignment more than the plan has: a
\* sum in size_t.
ArenaBytes == (total_bytes + 63) % (SizeMax + 1)

\* max_size() of a vector of bytes.
MaxVector == SizeMax \div 2

Grows == total_bytes # 0 /\ ArenaBytes > arena_.capacity

\* Fault: the plan of the first run is kept.
InstallOnce ==
    /\ pc = "planning"
    /\ phase = "done"
    /\ memory_plan_' = IF memory_plan_.total_bytes > 0 THEN memory_plan_
                       ELSE [tensor_slots |-> tensor_slots, total_bytes |-> total_bytes]
    /\ Grows => ArenaBytes <= MaxVector
    /\ IF total_bytes = 0 THEN FreeArena ELSE ResizeArena(ArenaBytes)
    /\ StartNodes

InstallPlan ==
    /\ pc = "planning"
    /\ phase = "done"
    /\ memory_plan_' = [tensor_slots |-> tensor_slots, total_bytes |-> total_bytes]
    /\ Grows => ArenaBytes <= MaxVector
    /\ IF total_bytes = 0 THEN FreeArena ELSE ResizeArena(ArenaBytes)
    /\ StartNodes

\* resize throws length_error or bad_alloc: the plan is there, its arena is not.
ResizeThrows ==
    /\ pc = "planning"
    /\ phase = "done"
    /\ Grows
    /\ memory_plan_' = [tensor_slots |-> tensor_slots, total_bytes |-> total_bytes]
    /\ LeaveRun(Abstract!Thrown)
    /\ EndPlanner
    /\ UNCHANGED <<graph_, memory_planner_enabled_, profiling_, op_times_ms_,
                   tensor_map_, naive_activation_bytes_, arena_>>

-----------------------------------------------------------------------------
(* run(): the nodes *)

CurrentNode == graph_.nodes[node]

Dispatch ==
    /\ pc = "dispatch"
    /\ node <= Len(graph_.nodes)
    /\ KernelRuns(CurrentNode)
    /\ tensor_map_' = Insert(tensor_map_, CurrentNode.outputs[1],
                             KernelResult(CurrentNode))
    /\ pc' = "materialize"
    /\ output' = 1
    /\ UNCHANGED <<graph_, memory_planner_enabled_, profiling_, op_times_ms_,
                   memory_plan_, naive_activation_bytes_, arena_, node, inputs,
                   result, runs, planner>>

DispatchThrows ==
    /\ pc = "dispatch"
    /\ node <= Len(graph_.nodes)
    /\ ~KernelRuns(CurrentNode)
    /\ LeaveRun(Abstract!Thrown)
    /\ UNCHANGED <<members, planner>>

CurrentOutput == CurrentNode.outputs[output]

Planned ==
    memory_planner_enabled_ /\ CurrentOutput \in DOMAIN memory_plan_.tensor_slots

\* A kernel writes its first output only.
PlanFits ==
    /\ CurrentOutput \in DOMAIN tensor_map_
    /\ NBytes(tensor_map_[CurrentOutput]) = memory_plan_.tensor_slots[CurrentOutput].size

Intersect(a, sizeA, b, sizeB) == a < b + sizeB /\ b < a + sizeA

\* Copying size bytes to offset overwrites what lies there in part or whole;
\* past the end of the arena it is undefined.
Overwrite(offset, size, content) ==
    [arena_ EXCEPT !.content =
        [o \in DOMAIN @ \cup {offset} |->
           IF o = offset
           THEN [size |-> size,
                 content |-> IF offset + size <= arena_.capacity THEN content ELSE Garbage]
           ELSE IF Intersect(o, @[o].size, offset, size)
                THEN [@[o] EXCEPT !.content = Garbage]
                ELSE @[o]]]

\* Fault: no copy in between.
DetachedNever(source) == source

\* source_in_arena: the bytes are cloned before they are copied.
Detached(source) == IF source.in_arena THEN Clone(source) ELSE source

\* copy_to_bytes goes element by element in the order of the source; where
\* source and destination are the same memory, a permuted order reads elements
\* that are already overwritten.
Copied(source, offset) ==
    IF source.in_arena /\ source.offset = offset /\ ~Contiguous(source)
    THEN Garbage
    ELSE Content(source)

RecordTime ==
    op_times_ms_' =
        IF ~profiling_ THEN op_times_ms_
        ELSE LET key == CurrentNode.op IN
             [k \in DOMAIN op_times_ms_ \cup {key} |->
                (IF k \in DOMAIN op_times_ms_ THEN op_times_ms_[k] ELSE 0)
                + (IF k = key THEN 1 ELSE 0)]

\* materialize_node_outputs, one iteration: an output with a slot goes there.
MaterializeOutput ==
    /\ pc = "materialize"
    /\ output <= Len(CurrentNode.outputs)
    /\ Planned => PlanFits
    /\ IF Planned
       THEN LET slot == memory_plan_.tensor_slots[CurrentOutput]
                source == Detached(tensor_map_[CurrentOutput])
            IN  /\ arena_' = Overwrite(slot.offset, slot.size,
                                       Copied(source, slot.offset))
                /\ tensor_map_' = Insert(tensor_map_, CurrentOutput,
                                         InArena(source.dtype, source.shape,
                                                 ContiguousStrides(source.shape),
                                                 slot.offset, <<>>))
       ELSE UNCHANGED <<arena_, tensor_map_>>
    /\ output' = output + 1
    /\ UNCHANGED <<graph_, memory_planner_enabled_, profiling_, op_times_ms_,
                   memory_plan_, naive_activation_bytes_, pc, node, inputs,
                   result, runs, planner>>

\* The outputs before this one are in their slots already.
MaterializeFails ==
    /\ pc = "materialize"
    /\ output <= Len(CurrentNode.outputs)
    /\ Planned /\ ~PlanFits
    /\ LeaveRun(Abstract!Thrown)
    /\ UNCHANGED <<members, planner>>

\* The rest of the iteration.
EndNode ==
    /\ pc = "materialize"
    /\ output > Len(CurrentNode.outputs)
    /\ RecordTime
    /\ node' = node + 1
    /\ output' = 0
    /\ pc' = "dispatch"
    /\ UNCHANGED <<graph_, memory_planner_enabled_, profiling_, tensor_map_,
                   memory_plan_, naive_activation_bytes_, arena_, inputs, result,
                   runs, planner>>

\* Fault: outputs that are missing are left out.
ReturnSome ==
    /\ pc = "dispatch"
    /\ node > Len(graph_.nodes)
    /\ LeaveRun(Abstract!Returned(
           [t \in graph_.output_names \cap DOMAIN tensor_map_ |->
              Content(tensor_map_[t])]))
    /\ UNCHANGED <<members, planner>>

\* Clones of the graph outputs go to the caller.
ReturnOutputs ==
    /\ pc = "dispatch"
    /\ node > Len(graph_.nodes)
    /\ LeaveRun(IF graph_.output_names \subseteq DOMAIN tensor_map_
                THEN Abstract!Returned([t \in graph_.output_names |->
                                          Content(tensor_map_[t])])
                ELSE Abstract!Thrown)
    /\ UNCHANGED <<members, planner>>

Step ==
    \/ RejectInputs
    \/ SymbolsThrow
    \/ ResolveSymbols
    \/ PlannerStep
    \/ PlannerThrows
    \/ RunWithoutPlan
    \/ InstallPlan
    \/ ResizeThrows
    \/ Dispatch
    \/ DispatchThrows
    \/ MaterializeOutput
    \/ MaterializeFails
    \/ EndNode
    \/ ReturnOutputs

Next ==
    \/ SetMemoryPlanner
    \/ SetProfiling
    \/ \E args \in Requests : BindInputs(args)
    \/ Step

Spec == Init /\ [][Next]_vars

\* run() is one call of one thread: once entered, it goes on to its end.
FairSpec == Spec /\ WF_vars(Step)

-----------------------------------------------------------------------------
(* Properties *)

\* The size of the arena, 63 more than the plan, is a size_t.
ArenaFits == memory_plan_.total_bytes + 63 <= SizeMax

\* The states of the engine are well formed: while the nodes run the arena has
\* room for the plan at any alignment; a tensor_map_ of tensors, a known place
\* in run().
TypeOK ==
    /\ graph_ \in Models
    /\ pc \in {"idle", "rejected", "symbols", "planning", "dispatch", "materialize"}
    /\ pc = "idle" <=> result.status # "running"
    /\ phase = "none" <=> pc # "planning"
    /\ node \in 0..Len(graph_.nodes) + 1
    /\ DOMAIN tensor_map_ \subseteq Tensor
    /\ DOMAIN memory_plan_.tensor_slots \subseteq Tensor
    /\ pc \in {"dispatch", "materialize"} /\ memory_plan_.total_bytes # 0 /\ ArenaFits
         => memory_plan_.total_bytes + 63 <= arena_.capacity
    /\ runs \in 0..MaxRuns

\* No tensor the engine keeps, during a run, after it or after a failed one,
\* refers to arena memory that has been freed or reallocated, nor past the end
\* of the arena, unless its size is not a size_t.
NoDanglingTensor ==
    \A t \in DOMAIN tensor_map_ :
        tensor_map_[t].in_arena =>
            /\ tensor_map_[t].generation = arena_.generation
            /\ ArenaFits => tensor_map_[t].offset + NBytes(tensor_map_[t]) <= arena_.capacity

\* A view without a slot of its own shows arena bytes the planner may give to
\* another tensor: it knows the lifetime of the tensor it planned only.
StrayView ==
    \E t \in DOMAIN tensor_map_ :
        tensor_map_[t].in_arena /\ t \notin DOMAIN memory_plan_.tensor_slots

\* While the nodes run, every tensor that a later node or the caller will
\* still read has the value the graph gives it.
LiveTensorsIntact ==
    pc = "dispatch" /\ ~StrayView /\ ArenaFits =>
        \A t \in DOMAIN tensor_map_ :
            \/ \E k \in node..Len(graph_.nodes) : t \in Range(graph_.nodes[k].inputs)
            \/ t \in graph_.output_names
            => Content(tensor_map_[t]) = Abstract!Values(graph_, inputs)[t]

\* Whatever run() returns is what the graph defines for its inputs: memory is
\* reused only when the lifetimes of two activations do not overlap.
OutputsCorrect ==
    result.status = "ok" => result.outputs = Abstract!Meaning(graph_, inputs)

\* A run that planned nothing, because the planner is off or no size is known,
\* keeps no arena and returns correct outputs, whatever views the graph has.
CorrectWithoutPlan ==
    DOMAIN memory_plan_.tensor_slots = {} /\ pc = "idle" =>
        OutputsCorrect /\ arena_.content = <<>>

\* The times reported after a run are those of that run alone: each of its
\* nodes once, or none if it ran without profiling.
TimesOfOneRun ==
    result.status = "ok" =>
        FoldFunction(LAMBDA n, sum : n + sum, 0, op_times_ms_)
            \in {0, Len(graph_.nodes)}

\* Every run ends, with outputs or with an exception, and what it returns is
\* a function of its own inputs: the engine implements Inference.
ImplementsInference == Abstract!ISpec
=============================================================================
