# A TLA+ model of nn_inference

`nn_inference` is a CPU inference engine for ONNX models: a loader turns a
protobuf file into a graph and sorts it, an engine runs the nodes one after the
other with hand-written kernels, a planner lets activations share one arena,
a GEMM splits its rows over threads, and Python threads call the engine with
the GIL released.  This directory holds a TLA+ model of these parts, the TLC
configurations that check it, and machine-checked proofs about each of them: the
planner, the engine, the sort, the loader, the tensors, the matrix product and the
bindings.

    tlc -workers 2 -config MCEngine.cfg MCExecutionEngine
    tlapm MemoryPlannerProofs.tla       # and likewise RecursionProofs,
                                        # ExecutionEngineProofs, GraphProofs,
                                        # OnnxParserProofs, TensorProofs,
                                        # BatchedProductProofs, BindingsProofs

Paths below are relative to the root of the repository; line numbers of every
translated definition are in `PROJECT.json` under `map`.

## 1. The system

| Component (sources) | State it keeps | Operations | Modelled in |
|---|---|---|---|
| ONNX loader (`src/onnx_parser.cpp`) | none: builds an `InferenceGraph` | `load_onnx` reads opsets, initializers, descriptions, names and nodes, then sorts | `OnnxParser`, `OnnxParserProofs`, `ModelLoading` |
| Graph (`src/graph.cpp`, `include/nn/graph.hpp`) | nodes, initializers, names, `value_info` | `sort_topologically` | `Graph`, `GraphProofs`, `TopologicalOrder` |
| Memory planner (`src/memory_planner.cpp`) | none: locals of `tensor_lifetimes` and `plan_memory` | the two scans, the greedy placement | `MemoryPlanner`, `MemoryPlannerProofs` |
| Execution engine (`src/execution_engine.cpp`) | `graph_`, `tensor_map_`, `memory_plan_`, `arena_`, the planner switch, the profile | `run`, `set_memory_planner`, `set_profiling` | `ExecutionEngine`, `ExecutionEngineProofs`, `Inference` |
| Tensor (`src/tensor.cpp`) | dtype, shape, strides, offset, shared storage | `reshape`, `transpose`, `slice`, `fill_zeros`, `copy_to_bytes`, `clone_contiguous` | `TensorViews`, `TensorProofs`, `Array`, `Coordinates` |
| GEMM (`src/ops/gemm*.cpp`) | the caller's C, the worker threads | `gemm`, `gemm_scalar`, `gemm_avx`, `gemm_avx2`; the operator `gemm_op` | `Gemm`, `BatchedProductProofs`; `Operators` |
| MatMul and Conv (`src/ops/bert.cpp`, `src/ops/conv2d.cpp`) | one scratch matrix per call | loop over batches or groups; packing, im2col | `BatchedProduct`, `BatchedProductProofs`; `Operators` |
| Other kernels (`src/ops/elementwise.cpp`, `bert.cpp`, `pool.cpp`, `norm.cpp`) | none | operands and attributes to a result | `Operators`, `TensorProofs`, `Onnx`; five of them also in `ExecutionEngine` |
| Python bindings (`python/bindings.cpp`) | engines, shared by Python threads | conversion, `run` with the GIL released, `set_profiling` | `Bindings`, `BindingsProofs` |
| Scripts, tests, benchmarks | | | read for what they expect, not modelled |

How they interact.  Python threads call `run()` of engines they may share; the
GIL is released between the conversion of the inputs and that of the outputs.
The loader calls the sort once.  `run()` calls the planner
on the engine's graph with the symbolic dimensions of *this* call's inputs
filled in, resizes the arena, dispatches each node to a kernel and moves the
kernel's planned outputs into their slots.  Tensors are handles on shared
storage: `Reshape` and `Transpose` return views of their operand, and a tensor
in the arena is an unowned pointer that nothing invalidates when the arena is
reallocated or a slot is overwritten.  Kernels call `gemm`, which spawns and
joins threads that store into one matrix without synchronisation.

What is hard, component by component, and what makes the component correct:

* **Planner.**  A greedy best fit in order of *size* puts tensors of unrelated
  times into one slot.  Correct if two tensors that are both still needed never
  share a byte, slots are aligned and within the arena, every plannable tensor
  has a slot of its exact size, and no slot is opened needlessly.
* **Engine.**  Views, copies onto themselves, arenas that outlive a run, runs
  that fail half way, a switch that changes between runs.  Correct if each run
  returns what the graph means for the inputs of that run, or throws.
* **Graph sort.**  Counters and a priority queue.  Correct if producers come
  first, a valid order is kept, and it throws exactly for invalid graphs.
* **GEMM and its callers.**  Rows divided and rounded, cleanup loops that meet
  the tiles, threads in any order, a scratch matrix reused for the next batch.
  Correct if every element is stored exactly once before `gemm` returns and
  batches do not influence each other.
* **Tensor.**  Views of views with fast paths for contiguous ones.  Correct if
  a tensor behaves as a NumPy array.
* **Kernels.**  Index arithmetic of 23 operators on operands that are views,
  with axes of length 1 and 0, negative axes, broadcasting, windows and padding.
  Correct if a kernel reads only inside its operands, throws exactly where ONNX
  defines no result, and computes each element from the elements ONNX names.
* **Loader.**  Names that occur twice in a section or in several, throws in the
  middle of any loop.  Correct if a model is refused as a whole or becomes the
  one graph it describes, with what engine and planner take for granted.
* **Bindings.**  Threads that interleave inside `run()`.  Correct if each gets
  the results of its own arguments and none waits for another's run.

`PROJECT.json` lists the hazards line by line with the properties that guard
them, and those nothing guards yet.

## 2. The modules

```
ModelLoading      <= implemented by =  OnnxParser       (MCOnnxParser)  <- OnnxParserProofs
                                         |  EXTENDS
TopologicalOrder  <= implemented by =  Graph            (MCGraph)  <- GraphProofs
Inference         <= implemented by =  ExecutionEngine  (MCExecutionEngine)  <- ExecutionEngineProofs
    |                                    |  INSTANCE
    |                                  MemoryPlanner    (MCMemoryPlanner)  <- MemoryPlannerProofs
    |
    +-- once per thread: implemented by Bindings        (MCBindings)  <- BindingsProofs
Gemm  <- EXTENDS -  BatchedProduct                      (MCBatchedProduct)  <- BatchedProductProofs
Array             <= implemented by =  TensorViews  <--+
  both over Coordinates                  |  EXTENDS    +-- TensorProofs
Onnx              = reference for =    Operators  <----+   (MCOperators)
```

`RecursionProofs` has the inductions over data that the other proof modules cite.
`OnnxParserProofs` extends `GraphProofs`, `ExecutionEngineProofs` instantiates
`MemoryPlannerProofs`, as the modules they are about extend and instantiate each
other.

Operators introduced by a comment `Fault:` are not part of any specification.
Each is a definition as a plausible bug would have it, and putting it in the
place of the definition that follows it makes a property fail: they show that
the properties can tell.  `PROJECT.json` pairs them under `mutants`.

**MemoryPlanner.**  The variables are the locals of `tensor_lifetimes`
(`lifetimes`, the loop variable `index`) and `plan_memory` (`slots`,
`tensor_slots`, `total_bytes`).  `ScanProducer`, `ScanConsumer` and
`KeepOutputs` are the three loops over the nodes; the sort of the lifetimes is
the order `Before`, in which `pending` is emptied by `PlaceInNewSlot` and
`ReuseSlot`.  Each throw is an action: `ScanThrows` (a size that does not fit
`size_t`, a tensor produced twice) and `AlignThrows`.  Nodes count from 1, so
an output of the graph lives until `NodeCount + 1`.  `size_t` keeps its width:
`total_bytes` wraps around where the code adds without a check.  Tensor names
are numbers, `<` on them stands for the order of `std::string`.

**Inference** is what an engine promises, without memory: a run throws or
returns for every output the *term* the graph defines over the inputs of that
run.  A value is the term that computes it, an operator applied to the values of its
operands: two values are equal if they were computed alike, whatever the tensors are
called, and different if not.

**ExecutionEngine.**  One action per step of `run()`: `BindInputs` (the
initializers, then the inputs up to the first rejected one), `RejectInputs`,
`ResolveSymbols` or `SymbolsThrow`, `PlannerStep` (a step of the planner's own
specification, instantiated on the resolved graph), `InstallPlan` or
`RunWithoutPlan`, then `Dispatch`, `MaterializeOutput` for each
output and `EndNode` for each node, and `ReturnOutputs`.  An exception at any throw site
(`RejectInputs`, `SymbolsThrow`, `PlannerThrows`, `ResizeThrows`, `DispatchThrows`,
`MaterializeFails`, a missing output) leaves the members as they are at that point; of
the allocations only that of the arena may fail, the plan being installed by then.  The
arena is asked for `ArenaBytes`, the sum `total_bytes + 63` in the width of `size_t`:
it may wrap around for a plan that does not, and what is then written behind the end
of the arena is garbage.  The setters run
between runs.  `tensor_map_` holds tensors that own their bytes or lie in the
arena at an offset, with the strides and the view operators applied there;
`arena_.content` says what was last written at each start, and a copy spoils
everything it intersects.  A `resize` that reallocates starts a new generation.
Reading a freed generation or spoiled bytes yields `Garbage`.

**TopologicalOrder / Graph.**  The abstract module emits the first node whose
producers are all out.  `Graph` is the code: the index of producers, in-degrees
from sets of producers, consumer lists, a priority queue (`Pop` takes its
minimum) and the test of the count at the end.

**Gemm / BatchedProduct.**  `gemm` chooses the scalar kernel, one thread or a
split; `SplitRows` and `SpawnWorker` compute the row ranges in `int`
arithmetic, where an overflow is undefined and modelled as a choice between a
wrapped and an unwrapped result; `StoreTile(i)` is one store of thread `i`, a
full tile or a piece of a cleanup loop, in any interleaving; `JoinWorkers` waits
for all.  `BatchedProduct` adds the loop around it with the one scratch matrix.
The sums of products are given; what is modelled is which of them lands where.
What the CPU has, `hardware_concurrency()` and `NN_GEMM_THREADS` are chosen
freely.

**Array / TensorViews.**  The abstract array maps coordinates to memory cells.
`TensorViews` has shape, strides and offset, the odometer of the copy loops,
the fast paths for contiguous tensors, and each view or copy operation.

**Onnx / Operators.**  `Operators` extends `TensorViews`: after some operations
on the current view, `Execute` calls one kernel with that view as one of its
operands, at whatever strides and offset it has.  A kernel is an operator that
says when it throws, which dtype and shape its result has, and from which
*positions in storage* each element, in the order of the loop, is computed: a set
of terms, such as the pairs of factors that MatMul adds up, or the line of
elements that Softmax normalises together.  A call may omit operands: a kernel that
misses one it demands throws, as does an operator that there is no kernel for.  The
helpers of the code (`coordinates`,
`tensor_offset`, `broadcast_offset`, `broadcast_shape`, `normalize_axis`,
`output_size`, ...) are operators of their own.  `Onnx` gives, for each of the 23
operators, when a result is defined and which *coordinates* of the operands each
element stands for; it knows neither strides nor linear positions.  It is a
reference definition and translates no code.  Where the code supports less than
ONNX, `Onnx` follows it in these points: arithmetic is in FLOAT32, `Cast` knows five
dtypes and Gather's indices are INT64; `Expand` gives its full target; `Slice` has
positive steps and each axis once; the axes of `ReduceMean` are an attribute;
`LayerNormalization` is over the last axis, with scale and bias; windows and
`BatchNormalization` are for rank 4, `MaxPool` with `storage_order` 0.  In three points it
does not follow, and `Refused` names them: a vector as operand of `MatMul`, the
indices of a `MaxPool`, and products with a dimension above `IntMax`.  In one point
the code accepts what ONNX does not define, `Unsqueeze` without axes (`Tolerated`).

**ModelLoading / OnnxParser.**  `OnnxParser` extends `Graph`.  `section` and
`position` say which loop of `load_onnx` is at which iteration; each iteration is
an action, its throw another (`InitializerThrows`, `ValueInfoThrows`,
`NodeThrows`).  After the last node `CallSort` starts the sort, whose actions are
those of `Graph`.  `ModelLoading` says which graph a model describes, or that it
is refused, in one step.  Of an initializer the byte count, the data and the field
that holds them are kept, of an attribute its name, type and tensor.

**Bindings.**  For each Python thread `pc` is `"python"`, in one of the
conversions, inside `run()`, or waiting for the GIL.  `CallRun`, `ConvertInputs`
(which ends by releasing the GIL), `StartRun`, `StartThrows` or `PlanThrows`,
`RunNode` for each node, `FinishRun`, `AcquireGil`, `ConvertOutputs` follow each other;
`RunThrows` stands for an exception at any node, before or after its output is in the
map, and at the end: why a kernel or the arena throws is left to `ExecutionEngine` and
`Operators`, that it may throw anywhere is not.  Between
`ConvertInputs` and `AcquireGil` any other thread may take its steps.  Of the
engine it keeps what runs share, `tensor_map_` and the profile, with terms as
values; `ExecutionEngine` has the rest.  Two runs that interleave on one engine
are a data race; the model interleaves them node by node, the mildest of the
outcomes the build can produce, which is enough to violate `OwnResults`.  `Locked`
says whether the callers hold a lock of their own per engine.

## 3. What the runs check

| Run | Instance | What it shows |
|---|---|---|
| `planner` | all chains of 4 tensors with all lifetimes and 3 sizes (less than, equal to and no multiple of the alignment), nodes of 2 outputs, odd graphs; `SizeMax` 1000 | `LiveTensorsDisjoint`, `ReadsIntact`, `WithinArena`, `NoNeedlessSlot`, `PlanComplete`, and that planning ends |
| `planner_overflow` | 4 graph outputs, `SizeMax` 300 | *violated*: `total_bytes` wraps (finding) |
| `engine` | 2 runs, batches of 1 or 2 rows, setters in between; every model of 3 nodes over 5 operators whose views have metadata, models with views that have no slot, 12 models and 5 requests that must be refused, one per throw site | `LiveTensorsIntact`, `NoDanglingTensor`, `CorrectWithoutPlan`, `TimesOfOneRun`, `WellFormedRunsReturn`, refinement of `Inference` |
| `engine_stray_view` | models with views that have no slot | *violated*: `Sqrt(1)` is returned where `Relu(1)` is defined (finding) |
| `graph` | all 4096 dependency relations of 4 nodes; a second output of the first node, new or colliding | `ProducersFirst`, `ThrowsExactlyIfInvalid`, `KeepsValidOrder`, refinement of `TopologicalOrder` |
| `graph_self_loop` | 3 nodes that may read their own output | *violated*: accepted (finding) |
| `product` | 0 to 9 rows, 0 to 4 columns, 1 to 4 threads, 1 or 2 batches, tile 2 x 2, small thresholds | `EachElementOnce`, `ProductsCorrect`, and that the kernel returns |
| `product_scratch` | a batch whose sum is not finite | *violated*: later batches become NaN (finding) |
| `operators` | up to 4 operations on views of 7 shapes of rank 1 to 4, axes of length 1 and 0; after at most 2 of them one of 207 calls of 23 kernels | `ViewInStorage`, `EnumerationsAgree`, refinement of `Array`; `ReadsInStorage`, `ThrowsExactlyIfUndefined`, `ResultsAsOnnx`, `WindowsMeetInput` |
| `parser` | models with one thing wrong in each place where loading may throw, names that occur twice, default inputs, unknown dimensions, nodes in any order | `GraphReady`, refinement of `ModelLoading` |
| `bindings` | 3 threads on 2 engines, each engine under a lock; 2 calls with arguments that are served, refused or not convertible, throws while planning and at any node; the third thread's runs may never end | `OwnResults`, `RunsAreUndisturbed`, `TimesOfWholeRuns`, refinement of an `Inference` per thread, and `CallsReturn` |
| `bindings_shared` | 2 threads on one engine without a lock | *violated*: a thread gets results of the other's arguments (finding) |

Every property and its meaning is stated in the module that defines it.  Each
module has one type invariant (`TypeOK`, `LoadTypeOK`), except the abstract ones
and `TensorViews`, where `ViewInStorage` takes its place.

**Bounds, and why they are enough.**  A wrong plan needs two tensors that
conflict and one that makes the slot attractive to both; four tensors leave one
to spare, and three sizes are needed to separate `>`, `=` and alignment.  For
every larger graph the planner's properties are proved.  In the engine a wrong
read needs a value, a view or a copy of it, and a third tensor that takes its
bytes: three nodes; a second run is where an old plan, arena or map would show.
Four nodes contain every cycle length up to four and every diamond the sort's
counters could get wrong.  The tile of 6 x 16 shrinks to 2 x 2 and the work
thresholds to a few elements, so that a full tile, row rest, column rest, one
thread and several threads, and an empty last range all occur within 9 rows.
Four view operations suffice to make a view non-contiguous, slice it, reshape
(copy) it and write; two make an operand of a kernel that is strided and offset,
and the calls contain each attribute inside, at and beyond its limits.  On rank 4
one operation is allowed, because views of rank 4 are many.  A model with one
fault in each place shows that each throw is there, and names that meet across
sections take two entries.  An interference of two runs takes two threads on one
engine, and that an engine does not wait for another takes a third; a throw that
leaves something for the next run takes two calls.  In the engine `SizeMax` is 2000:
one model has a plan whose arena wraps, one a plan that no vector holds.  `IntMax` is 8
for the operators, so that calls of all three products exceed it.  The named
bounds are `MaxRuns`, `MaxOps`, `MaxBefore`, `MaxCalls`, `Nodes`, `SizeMax`,
`IntMax`; none cuts off a run in the middle: they bound the calls of a caller.

**Deadlock** is checked in the runs of `Bindings`: a thread can always go on.
Elsewhere it is not: each model is of a function that has returned or
thrown, or of a caller whose calls are bounded.  That nothing gets stuck before
is stated as liveness (`PlanningEnds`, `KernelReturns`, the fairness in
`ISpec`, `TSpec` and `LSpec`).

**Fairness.**  `plan_memory` and `sort_topologically` are plain functions of
one thread: `WF(Next)` says that a thread goes on.  In the engine it is
`WF(Step)`, without the setters and the start of a run: nothing obliges a
caller to call.  In `BatchedProduct` the operating system goes on with the
calling thread when it is not waiting in `join` (`WF(Caller)`) and with *some*
worker while one is left (`WF(WorkerStep)`); no fairness between workers is
needed or assumed.  In `Bindings` the interpreter takes the GIL from a thread
that executes bytecode (`WF(SwitchOut)`), every thread that waits for the GIL gets
it in the end (`SF(AcquireGil)`: it may be taken by others again and again), and
C++ code goes on (`WF(Convert)`, `WF(EngineStep)`), except for the runs of
`Endless` threads, of which nothing is assumed: `CallsReturn` says that these
keep nobody else waiting.

## 4. What is proved

`MemoryPlannerProofs` proves for every set of graphs, every size limit and any
number of nodes and tensors:

| Theorem | Statement |
|---|---|
| `TypeCorrect` | `Spec => []TypeOK` |
| `LiveTensorsAreDisjoint` | tensors whose lifetimes overlap share no byte |
| `PlannedReadsAreIntact` | no node between the producer and a reader of a tensor writes to its bytes |
| `PlanIsWithinArena` | slots are aligned and end within `total_bytes` |
| `NoSlotIsNeedless` | two slots exist only if some of their tensors are alive together |
| `PlanIsComplete` | a finished plan has a slot of the exact size for each plannable tensor |

Assumed are `TensorAssumption` (names are ordered as numbers are),
`SizeAssumption` (`SizeMax` is a natural number) and `GraphAssumption` (a graph
has finitely many nodes, with outputs that are tensors).  Nothing is assumed
about metadata: shapes and sizes may be anything.

The argument.  None of the properties is inductive.  The invariant is
`IInv == Typed /\ LifetimeInv /\ PlanInv`:

* `Typed` is `TypeOK` and that the graph is one of `Graphs`.
* `LifetimeInv` relates the lifetimes to the graph: after `k` nodes of the
  first scan exactly the plannable outputs of the first `k` nodes have a
  lifetime, which starts at their producer (`ProducersInv`); after `k` nodes of
  the second, it reaches to every reader among them, and in the end past the
  last node for graph outputs (`ReadersInv`).
* `PlanInv` relates the plan to the slots.  A tensor with a lifetime is either
  pending or placed, and nothing is before placing starts; a plan without slots
  has total 0 (`PlacedInv`).  Each
  placed tensor is in a slot, whose offset it has and into whose size it fits;
  tensors in one slot have pairwise disjoint lifetimes (`SlotInv`).  Slots
  follow each other without overlap and end at `total_bytes` at the latest,
  unless that has wrapped (`ArenaInv`).  Every slot is large enough for every
  pending tensor, because the larger ones come first: a slot is refused only
  for a lifetime that overlaps (`ReuseInv`).

From these, two live tensors are apart because they are in different slots,
which do not overlap; and reads are intact because a reader after a node keeps
the lifetime open beyond that node.  The theorems on memory carry the condition
`NoWrap`: without it they are false, as the run `planner_overflow` shows.

`ExecutionEngineProofs` proves for every set of models, requests and any number of
runs, with the setters between them:

| Theorem | Statement | Under |
|---|---|---|
| `EngineTyped` | `TypeOK`: members and locals stay in their types; while nodes run the arena holds the plan (if `ArenaFits`) | `[]NoWrap` |
| `NothingDangles` | no tensor in `tensor_map_`, also after a failed run, refers to freed arena memory, or (if `ArenaFits`) to bytes past its end | `[]NoWrap` |
| `ReadsAreIntact` | `LiveTensorsIntact`: what a later node or the caller reads has the value the graph gives it | `[]NoWrap`; the property itself has `~StrayView` and `ArenaFits` as conditions |
| `OutputsAsDefined` | a run returns what the graph means, or a view without a slot is left in the map, or the arena's size wrapped | `[]NoWrap` |
| `CorrectIfViewsAreDescribed` | every run returns what the graph means | `[]NoWrap`, `[]ArenaFits`, `ViewsDescribed`, `NoEmptyInput` |
| `NoPlanNoHarm` | without a plan a run returns what the graph means, and keeps no bytes | |
| `TimesOfThisRun` | the recorded times count each node of one run once, or none | |
| `EngineRefinesInference` | each step is a step of `Inference` or a stutter | `[]NoWrap`, `[]ArenaFits`, `[]~StrayView` |

The hypotheses: `NoWrap` (no plan whose `total_bytes` wraps) excludes what
`planner_overflow` shows, `~StrayView` what `engine_stray_view` shows, and `ArenaFits`
(`total_bytes + 63` is a `size_t`) an arena that is smaller than a plan that did not
wrap, which the run `engine` has among its models.  `CorrectIfViewsAreDescribed` says
when there is no stray view: if every output of a `Reshape` or `Transpose` node is in
`value_info`, with a known dtype and dimensions that are positive or symbols that the
inputs' descriptions bind (`ViewsDescribed`), and no request has an empty input
(`NoEmptyInput`), then a view is planned whenever anything is; so it is the missing
description that the finding needs.  The model takes every allocation but that of the
arena to succeed.  Of the constants is assumed
(`ModelsAssumption`, `RequestsAssumption`) that a node has at least one output and the
operands its kernel reads, that initializers and inputs have a dtype and a shape,
that no tensor is produced twice, which the sort refuses, and that none is both
produced and given: a valid ONNX model has single assignment, but the loader does
not check this part of it (section 5).  *Not* assumed is that nodes come in order,
that metadata are right or that a request fits: then a run throws.

`EInv` holds in every behaviour.  While nodes run, the map has exactly the tensors
given and those of the nodes dispatched, all their operands were there, and a
planned tensor in the arena lies at its slot without a view of it (`OrderInv`); the
planner's own invariant holds while it is at work on a graph with the nodes of this
one (`PlanningInv`); a tensor in the arena has the generation of the arena
(`MapInv`), because only binding the inputs empties the map and only installing a
plan resizes; without a plan nothing is in the arena (`PlanInv`).  `ValueInv` is the
heart: *if* the installed plan is safe and there is no stray view, every tensor
that is still read has its value, and its slot holds what was written for it.
`SafeInv` adds that plans are safe, which needs `NoWrap`, and that everything is within
the arena if its size fits.  `ViewInv` says of a described view that its size is known
once the symbols are resolved, that it has a lifetime once its node is scanned, and a
slot if the plan has any.  A plan is safe when it is installed because the planner proofs say so
(`PlannerProofs!IInv` gives `ReadsIntact` and `WithinArena` of that plan); moving an
output to its slot keeps what is live because the slots are apart.

`GraphProofs` proves for every list of nodes:

| Theorem | Statement |
|---|---|
| `SortTypeCorrect` | `Spec => []TypeOK`: no counter below zero, no node sorted twice |
| `SortedProducersFirst` | in a sorted graph each producer comes before its consumers |
| `SortIsStable` | a valid order is left as it is |
| `SortThrowsExactly` | it throws exactly if a tensor is produced twice or nodes wait for each other in a circle |
| `SortRefinesOrder` | each step is a step of `TopologicalOrder` (the first node whose producers are out) or a stutter |

Assumed is `NodeListsAssumption`: a node has a sequence of inputs and one of
outputs.  The invariant says that the index has exactly the outputs scanned so
far (`ProducerInv`), so that the dependencies the code computes are the nodes
whose outputs are read (`DependenciesMeaning`); that the second loop counts
them (`CountInv`); and that while the queue is emptied a counter is the number
of dependencies not yet sorted, the queue holds exactly the nodes that wait for
none, and what is sorted has its dependencies before it (`QueueInv`).  The
interesting step is `Pop`: decreasing the counters of the consumers of one node
is right because that node is a dependency of each of them and was not sorted
before.  For stability, `StableInv` says that the nodes of a valid order are
sorted as they come: the next one has all its dependencies behind it, so it is
in the queue, and everything else there is larger.  That a throw has a reason
(`ThrownInv`) takes a smallest set: if the queue is empty before all nodes are
sorted, each of those left waits for another one of them, and the one that needs the
fewest nodes, directly or not, needs itself, because what it waits for needs no
less.  Conversely, where producers come first, the nodes before a node have all that
they need among themselves, so none needs itself.

`OnnxParserProofs` proves for every set of messages:

| Theorem | Statement |
|---|---|
| `LoaderTyped` | `LoadTypeOK`: sections are read whole and in order, the sort is called once on all nodes |
| `LoadedGraphIsReady` | `GraphReady`: inputs and outputs are described, no input has an initializer, producers come first and are unique |
| `LoaderRefinesLoading` | each step is the one step of `ModelLoading` or a stutter: a model is refused exactly if it is not `Loadable`, and otherwise becomes the graph that it describes |

Assumed is `ModelsAssumption`: the repeated fields of a message are sequences, and
the sizes in a tensor are numbers.  The invariant `LoadInv` says what of the message has been read (`ReadInv`), that the
locals of the sort are fresh until it is called and satisfy the invariant of
`GraphProofs` from then on (`CalledInv`), and that names are described once their
section is past and collected only when no initializer can be added any more
(`NamesInv`): the loops must run in the order in which they do.

For `LoaderRefinesLoading`, `PartsInv` says of each part of the graph that it is what
`ModelLoading` makes of the entries read so far: the first initializer of each name
(`Firsts`), the last description (`Lasts`), the inputs without an initializer
(`Collected`), the nodes without their attributes (`Stripped`), and that everything
read is sound.  `GreedyInv` says of the sort that each node moved was the smallest one
whose producers were out by then.  When the sort is done, its order is a valid one
(`SortedIsValid`), and any other valid order is larger where the two first differ
(`SortedIsEarliest`), so it is *the* order that `ModelLoading` chooses.  When the sort
gives up, no valid order exists (`NoOrderLeft`): the first of the waiting nodes in such
an order would come after another one of them.

`TensorProofs` proves for tensors of every shape and every sequence of operations:

| Theorem | Statement |
|---|---|
| `ViewsStayInStorage` | `ViewInStorage`: shape, strides and offset address the tensor's own storage and nothing else (`ViewsAloneStayInStorage`: of `TensorViews` alone) |
| `EnumerationsAlwaysAgree` | `EnumerationsAgree`: the odometer of the copies and the division in `logical_offset` visit the same positions in the same order |
| `CallsImplementArray` | `ImplementsArray`: each step of a tensor is one of `Array` or a stutter (`ViewsImplementArray`: of `TensorViews` alone) |
| `OperandsAlwaysReadInStorage` | `ReadsInStorage`: none of the 23 kernels reads outside the storage of its operands |
| `WindowsAlwaysMeetInput` | `WindowsMeetInput`: no window of a `MaxPool` without dilation whose pads are smaller than its kernel lies in the padding alone |

Assumed is that shapes are sequences of naturals and slices have positive steps
(`ViewsAssumption`; the code refuses others), and that the other operands of a call
are contiguous tensors (`CallsAssumption`).  The invariant `VInv` says that the *last*
element lies in the storage: offset plus the sum of `(dim - 1) * stride`, if no axis
is empty.  `reshape` of a contiguous view keeps that sum, because the contiguous
strides of a shape add up to one less than its element count; `transpose` permutes
the terms; `slice` replaces a term by a smaller one and adds the difference at most
to the offset.  Every other position is smaller than the last.  For the two
enumerations both are shown to be the digits of the linear index in the mixed radix
of the shape: adding one with carries and dividing by the trailing products are two
ways to the same digits.  The coordinates of the kernels are these digits, too
(`CoordinatesAreDigits`), so they lie inside the result (`CoordinatesInside`); from
that, and the cut in `output_size` for `ceil_mode`, a window starts before the end of
the padded input, and reaches into the input as its pads are smaller than itself.

For `CallsImplementArray` the rank of a coordinate, which `Array` defines as the
number of coordinates before it, has to be its linear index (`CoordsCounted`): as
many coordinates precede one as there are numbers below its index, because places
and numbers below the element count correspond one to one (`PlaceNumber`,
`NumberPlace`) and the order of the coordinates is that of the numbers.  A
row-major tensor has its elements at `offset + index` (`RowMajorOffset`), whatever the
strides of its axes of length 0 or 1.  Then each operation is compared with that of
the array: `reshape` of a contiguous view shows the same elements (`ReshapeIsReshape`),
of another it copies them in the order of the odometer, which the agreement of the
enumerations makes the order of the array (`NewIsCopy`); `transpose` permutes the
terms of each offset (`TransposedOffset`), `slice` moves the coordinate of its axis to
the one that `a[start:end:step]` selects, for bounds that are negative, past the end
or crossed (`SelectedFacts`, `NthChosen`, `SlicedOffset`); and the positions that
`fill_zeros` writes are those of the elements of its view and no others
(`FillIsFill`).

For `OperandsAlwaysReadInStorage` every operand of a call fits its storage
(`OperandsFit`): the view by `VInv`, the others because they are contiguous.  Then
`TensorReads` says that coordinates inside a shape lead to a position in the storage,
and what is left is one lemma per kernel (`UnaryReads` to `ConvReads`): if it does not
throw, the coordinates at which it reads are inside the shape of the operand.  Each
check of the code is needed somewhere: that broadcast shapes conform
(`BroadcastCovers`), that an axis is in range, that Gather's indices are (its first
loop), that the pieces of Concat fill the axis (`PieceFacts`), that a group of Conv
has its share of the channels (`ChannelInside`).  Kernels that count linearly read
anywhere in a tensor without empty axes (`AtLinearStored`), and a result with an
element has none.

`RecursionProofs` has no theorem of the system, but what others cannot do without.
The library's induction theorems cannot be used here (they have an operator as a
parameter), so each induction is a search for a least counterexample: a nonempty set
of naturals has a least element (`LeastNatural`, from the well-foundedness of strict
inclusion of finite sets), hence a set that has 0 and all successors has every
number.  With it, recursive functions over the naturals are shown to exist, sums and
products of the values of a function (`FoldFunction`) to depend neither on the order
nor on the places of the values, and `Inference!Values` to be what evaluating the
nodes one by one gives.

`BatchedProductProofs` proves for matrices, tiles, thread counts and numbers of
batches of any size:

| Theorem | Statement |
|---|---|
| `ProductTypeCorrect` | `TypeOK`: row ranges are non-empty and within the matrix |
| `ElementsStoredOnce` | no element is stored twice, and each has been stored when `gemm` returns |
| `EveryBatchCorrect` | each batch of the output is the product of that batch, on the vector path or if all sums are finite |

Assumed are `GemmAssumption` (tiles are not empty, and a thread gets at least the
rows of a tile) and `ProblemsAssumption` (dimensions are natural numbers).  The theorems carry the
condition `RowsFit`: three times the row count fits an `int`, so that no sum over
row counts overflows; `matmul` and `conv2d` check the row count alone.  The
invariant: each started thread works on a non-empty range, later ranges begin
where earlier ones end (`WorkersInv`), together they reach from the first row to
`Covered` (`CoverInv`), which is the smaller of `M` and the ranges handed out, and
there are enough threads to reach `M` (`SplitInv`, from `RoundedShares`: rounding
up to whole tiles twice still leaves every thread but the last a full share).
`StoresInv` says exactly which elements a thread at row `m`, column `n` of its
range has stored (`DoneBy`): the panels to the left and the top of the current
one.  That a store of the next tile, row rest or column rest adds just what it
covers is the heart of the proof.  `ValuesInv` carries the values from `C` to the
output, and that `C` stays finite, which makes `beta * C` harmless.

`BindingsProofs` proves for any threads, engines, models and arguments:

| Theorem | Statement |
|---|---|
| `BindingsTypeCorrect` | `TypeOK`: conversions hold the GIL, runs in C++ never do |
| `LockedRunsAreUndisturbed` | `RunsAreUndisturbed`: a run finds the tensors that it reads, and none returns for arguments that are refused |
| `LockedTimesAreWhole` | `TimesOfWholeRuns`: the recorded times are those of a whole run or none, or after a throw those of the nodes before it |
| `LockedResultsAreOwn` | `OwnResults`: each thread gets what the model defines for its own arguments |
| `LockedEnginesServeEachThread` | each step is, for each thread, a step of an `Inference` of its own or nothing |

All but the first are under `Locked` (the callers lock each engine), the second and
third also under `SoundModel` (each node reads only what is given or computed
before it, which the sort and `GraphReady` provide).  That an accepted argument makes a
run return is *not* claimed: a kernel, the planner or the arena may still throw.  Without `Locked` they are false.  The invariant: at most
one thread is inside the methods of an engine (`Exclusive`), what `tensor_map_`
contains is what the run in progress has bound and computed up to its node
(`RunInv`), and the recorded times are those of the nodes before it or of the
last run (`TimesInv`).  For the
results, `OInv` says that a run at node `k` has in `tensor_map_` what `Inference`
makes of its own arguments after `k - 1` nodes, and that an answer on its way back is
one that `Inference` may give to them.

**Only model-checked:**

* `WellFormedRunsReturn` of the engine: it speaks of the instance's models.
* `ThrowsExactlyIfUndefined` and `ResultsAsOnnx` of the operators: two definitions of
  each of 23 kernels would have to be shown equal, one by one.
* Liveness: `PlanningEnds`, `KernelReturns`, `CallsReturn`, and the fairness that
  `TSpec`, `ISpec` and `LSpec` demand of `Graph`, `ExecutionEngine` and `OnnxParser`.
  The provers used here have neither liveness under fairness nor `ENABLED`; the
  theorems on refinement state initial states and steps.

## 5. Where code and documentation disagree

* **Views without a slot** (`engine_stray_view`).  The planner ends a tensor's
  lifetime at the last node that names it (`memory_planner.cpp:84`).  If that node is a
  view without metadata of its own, the view is left in the slot
  (`execution_engine.cpp:173`) and a later output overwrites it: with `Relu` of the input
  in the slot, a view of it that is returned, and `Sqrt` of the input in the same slot,
  the caller gets the square roots twice.  With metadata on every view (`engine`,
  `CorrectIfViewsAreDescribed`) and without a plan (`CorrectWithoutPlan`) this cannot
  happen.
* **Wrapping total** (`planner_overflow`).  `plan.total_bytes` is summed without
  the check that sizes and alignment have.
* **Self-dependency** (`graph_self_loop`).  A node that reads its own output is
  sorted, while the guide says that cycles are rejected.
* **Shared engines** (`bindings_shared`).  The guide calls the release of the GIL
  safe.  It is for engines used by one thread at a time (`bindings`); two threads
  on one engine get each other's results.  A lock around the methods of an engine,
  in the bindings or by the callers, is enough.
* **Scratch matrix** (`product_scratch`).  The scalar kernel computes
  `alpha * sum + beta * C` also for `beta == 0`, so a NaN or infinity in the
  scratch matrix passes from one batch or group to the next.

One more flaw of the planner has no effect yet: an output that nobody reads has
an empty lifetime and may share a slot with a live output of the *same* node.
No kernel writes a second output, so `run()` refuses such a plan when it misses
the tensor (`MaterializeFails`).  `ReadsIntact` therefore speaks of later nodes
only, and `LiveTensorsDisjoint` of lifetimes that overlap as the code has it.

One more sum is not checked: `arena_.resize(total_bytes + 63)`
(`execution_engine.cpp:155`) wraps around for a total within 63 bytes of the limit of
`size_t`, and the nodes then write behind a tiny arena.  `ArenaFits` excludes it; no
document states what should happen.  And one more document says more than the code
does: `TECHNICAL_GUIDE.md:553` has `MatMul` support "vector/matrix" products, while
`bert.cpp:583` refuses operands of rank 1.  `Onnx` defines these products, and
`ThrowsExactlyIfUndefined` holds because `Refused` lists them; there is no run of its
own for a refusal that one line states.

Points met while modelling that contradict no document: `Unsqueeze` without axes, which
ONNX demands, returns its operand (`Tolerated`); `Expand` refuses targets
that ONNX would broadcast; `Slice` with an axis given twice silently takes the
later entry; a `MaxPool` window whose taps all lie in the padding, which pads as large as the
kernel or a dilation make possible, gives minus infinity (`WindowsMeetInput` says
when this cannot happen);
`LayerNormalization` over an axis of length 0 divides by it; the sort compares
outputs of nodes only with each other, so a node may produce a name that is also an
input or initializer; the bindings compare dtype objects by identity, so an equal
dtype of another descriptor is refused.

## 6. What is not modelled

* *Arithmetic on elements.*  Kernels are reduced to what they read, when they
  throw and where they write: which operation combines the terms, rounding, and
  `Cast` through `double` are left out.  Finite against non-finite is kept where it
  decides control or passes from one batch to the next.
* *Widths of 64 bits* in shapes, strides and positions.  An overflow needs shapes
  no run could enumerate; `SizeMax` and `IntMax` stand for the widths where the
  planner, the arena and the callers of `gemm` depend on them.  Positions inside a matrix, which `gemm`
  computes in `int`, are not modelled.
* *Calls whose effect is undefined*: LayerNormalization over an axis of length 0.
* *Reading and deserializing the file*, which is the library's; of a graph the
  model's name, of a node its name, operator and attribute values.
* *The `fill_from_*` methods* of Tensor: one copy into fresh storage.
* *The planner and the arena under concurrent callers.*  `Bindings` shares tensors
  and profile; `set_memory_planner` during a run of another thread would add races
  on plan and arena to those on `tensor_map_`, which are enough for the finding.
* *Memory that runs out*, except for the arena (`ResizeThrows`) and, in `Bindings`, at
  any node (`RunThrows`); and what a write behind a wrapped arena destroys: the model
  says that such bytes are garbage when they are read, nothing of other objects.
* *NumPy's layouts*: `py::array::ensure` makes a contiguous copy.
* *A thread that cannot be started*: the process terminates, no state is left
  to say anything about.
* *Scripts, tests, benchmarks* and the empty `main.cpp`: no state of their own.

## 7. Plan

Done, in this order: the planner and its proofs; the engine and `Inference`;
the sort and its proofs; GEMM and its callers; tensors; concurrent callers; the
operators; the loader; the proofs about GEMM and the bindings; inductions over
data, and with them the proofs about the engine, the loader and its refinement, the
tensors and their refinement of `Array`, the exact throws of the sort, the results of
the bindings and the reads of the kernels.  Next:
`ThrowsExactlyIfUndefined` for the kernels whose conditions are about shapes alone.
