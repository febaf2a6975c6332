--------------------------- MODULE MemoryPlanner ---------------------------
(***************************************************************************)
(* Activation memory planning, src/src/memory_planner.cpp: the lifetime    *)
(* scan of tensor_lifetimes and the greedy slot assignment of plan_memory, *)
(* one action per iteration of their loops.                                *)
(*                                                                         *)
(* A graph is a record                                                     *)
(*   nodes        : sequence of [inputs, outputs], sequences of tensors    *)
(*   value_info   : function from some tensors to [dtype, shape,           *)
(*                  shape_known]; a negative dimension is unresolved       *)
(*   initializers : set of tensors                                         *)
(*   output_names : set of tensors                                         *)
(* Nodes are numbered from 1, so a graph output lives until node_count + 1 *)
(* (the code counts from 0 and uses node_count).  The empty name of an     *)
(* omitted optional output is left out of the sequences.                   *)
(***************************************************************************)
EXTENDS Naturals, Sequences, Functions

CONSTANTS
    Tensor,     \* tensor names; < on them stands for std::string's order
    Graphs,     \* the graphs that may be planned
    SizeMax     \* std::numeric_limits<size_t>::max()

ASSUME TensorAssumption == Tensor \subseteq Nat
ASSUME SizeAssumption == SizeMax \in Nat
ASSUME GraphAssumption ==
    \A g \in Graphs :
        /\ Len(g.nodes) \in Nat
        /\ \A n \in 1..Len(g.nodes) : Range(g.nodes[n].outputs) \subseteq Tensor

VARIABLES
    graph,          \* the argument of plan_memory
    phase,          \* which loop is running
    index,          \* the loop variable of the two scans
    lifetimes,      \* tensor -> [first_use, last_use, nbytes]
    pending,        \* lifetimes the greedy loop has still to place
    slots,          \* the physical slots
    tensor_slots,   \* plan.tensor_slots
    total_bytes     \* plan.total_bytes

vars == <<graph, phase, index, lifetimes, pending, slots, tensor_slots,
          total_bytes>>

-----------------------------------------------------------------------------
(* Sizes *)

DtypeSize == [FLOAT32 |-> 4, INT64 |-> 8, INT32 |-> 4, BOOL |-> 1, UINT8 |-> 1]

Elements(shape) == FoldFunction(LAMBDA d, acc : d * acc, 1, shape)

Concrete(info) ==
    info.shape_known /\ \A i \in DOMAIN info.shape : info.shape[i] >= 0

TensorBytes(info) ==
    IF Concrete(info) THEN Elements(info.shape) * DtypeSize[info.dtype] ELSE 0

\* The checked products throw at the first prefix that does not fit, which
\* may come before a zero or an unresolved dimension.
TensorOverflows(info) ==
    /\ info.shape_known
    /\ \/ \E i \in DOMAIN info.shape :
             /\ \A j \in 1..i : info.shape[j] >= 0
             /\ Elements(SubSeq(info.shape, 1, i)) > SizeMax
       \/ TensorBytes(info) > SizeMax

Alignment == 64

\* Fault: without the rounding term.
AlignDown(value) == (value \div Alignment) * Alignment

AlignUp(value) == ((value + Alignment - 1) \div Alignment) * Alignment

AlignOverflows(value) == value + (Alignment - 1) > SizeMax

\* size_t addition of two representable values.
Wrap(value) == IF value <= SizeMax THEN value ELSE value - (SizeMax + 1)

Overlaps(a, b) == ~(a.last_use <= b.first_use \/ b.last_use <= a.first_use)

-----------------------------------------------------------------------------
(* tensor_lifetimes *)

NodeCount == Len(graph.nodes)
Inputs(n) == Range(graph.nodes[n].inputs)
Outputs(n) == Range(graph.nodes[n].outputs)

\* Outputs the scan looks at: not an initializer, with metadata.
Described(n) ==
    {t \in Outputs(n) : t \notin graph.initializers
                        /\ t \in DOMAIN graph.value_info}

\* Fault: zero is not an unknown size.
PlannableOrEmpty(n) ==
    {t \in Described(n) : /\ Concrete(graph.value_info[t])
                          /\ TensorBytes(graph.value_info[t]) \in 0..SizeMax}

\* Those whose size is known and not zero.  One that does not fit size_t
\* makes the scan throw.
Plannable(n) ==
    {t \in Described(n) : TensorBytes(graph.value_info[t]) \in 1..SizeMax}

ProducedTwice(n) ==
    \/ Plannable(n) \cap DOMAIN lifetimes # {}
    \/ \E p, q \in DOMAIN graph.nodes[n].outputs :
          /\ p # q
          /\ graph.nodes[n].outputs[p] = graph.nodes[n].outputs[q]
          /\ graph.nodes[n].outputs[p] \in Plannable(n)

ScanFails(n) ==
    \/ \E t \in Described(n) : TensorOverflows(graph.value_info[t])
    \/ ProducedTwice(n)

Init ==
    /\ graph \in Graphs
    /\ phase = "producers"
    /\ index = 1
    /\ lifetimes = <<>>
    /\ pending = {}
    /\ slots = <<>>
    /\ tensor_slots = <<>>
    /\ total_bytes = 0

Throw ==
    /\ phase' = "thrown"
    /\ UNCHANGED <<graph, index, lifetimes, pending, slots, tensor_slots,
                   total_bytes>>

ScanProducer ==
    /\ phase = "producers"
    /\ index <= NodeCount
    /\ ~ScanFails(index)
    /\ lifetimes' =
         [t \in DOMAIN lifetimes \cup Plannable(index) |->
            IF t \in DOMAIN lifetimes
            THEN lifetimes[t]
            ELSE [first_use |-> index, last_use |-> index,
                  nbytes |-> TensorBytes(graph.value_info[t])]]
    /\ index' = index + 1
    /\ UNCHANGED <<graph, phase, pending, slots, tensor_slots, total_bytes>>

ScanThrows ==
    /\ phase = "producers"
    /\ index <= NodeCount
    /\ ScanFails(index)
    /\ Throw

ProducersDone ==
    /\ phase = "producers"
    /\ index > NodeCount
    /\ phase' = "consumers"
    /\ index' = 1
    /\ UNCHANGED <<graph, lifetimes, pending, slots, tensor_slots, total_bytes>>

Extend(life, use) ==
    [life EXCEPT !.last_use = IF use > life.last_use THEN use ELSE life.last_use]

\* Fault: a node without inputs is skipped before the increment.
ScanConsumerStuck ==
    /\ phase = "consumers"
    /\ index <= NodeCount
    /\ lifetimes' = [t \in DOMAIN lifetimes |->
                       IF t \in Inputs(index) THEN Extend(lifetimes[t], index)
                                              ELSE lifetimes[t]]
    /\ index' = IF Inputs(index) = {} THEN index ELSE index + 1
    /\ UNCHANGED <<graph, phase, pending, slots, tensor_slots, total_bytes>>

ScanConsumer ==
    /\ phase = "consumers"
    /\ index <= NodeCount
    /\ lifetimes' = [t \in DOMAIN lifetimes |->
                       IF t \in Inputs(index) THEN Extend(lifetimes[t], index)
                                              ELSE lifetimes[t]]
    /\ index' = index + 1
    /\ UNCHANGED <<graph, phase, pending, slots, tensor_slots, total_bytes>>

\* Fault: graph outputs die with their last reader.
KeepNoOutputs ==
    /\ phase = "consumers"
    /\ index > NodeCount
    /\ pending' = DOMAIN lifetimes
    /\ phase' = "placing"
    /\ UNCHANGED <<graph, index, lifetimes, slots, tensor_slots, total_bytes>>

\* Graph outputs stay alive to the end; the lifetimes then go to plan_memory.
KeepOutputs ==
    /\ phase = "consumers"
    /\ index > NodeCount
    /\ lifetimes' = [t \in DOMAIN lifetimes |->
                       IF t \in graph.output_names
                       THEN [lifetimes[t] EXCEPT !.last_use = NodeCount + 1]
                       ELSE lifetimes[t]]
    /\ pending' = DOMAIN lifetimes
    /\ phase' = "placing"
    /\ UNCHANGED <<graph, index, slots, tensor_slots, total_bytes>>

-----------------------------------------------------------------------------
(* plan_memory *)

\* The comparison of the sort: largest first, then earliest, then by name.
Before(t, u) ==
    LET a == lifetimes[t]
        b == lifetimes[u]
    IN  \/ a.nbytes > b.nbytes
        \/ a.nbytes = b.nbytes /\ a.first_use < b.first_use
        \/ a.nbytes = b.nbytes /\ a.first_use = b.first_use /\ t < u

NextInOrder(t) == t \in pending /\ \A u \in pending \ {t} : Before(t, u)

\* Fault: any_of for none_of.
CandidatesAny(t) ==
    {i \in DOMAIN slots :
        /\ slots[i].size >= lifetimes[t].nbytes
        /\ \E u \in slots[i].assignments : ~Overlaps(lifetimes[t], lifetimes[u])}

\* Fault: > for >=.
CandidatesLarger(t) ==
    {i \in DOMAIN slots :
        /\ slots[i].size > lifetimes[t].nbytes
        /\ \A u \in slots[i].assignments : ~Overlaps(lifetimes[t], lifetimes[u])}

\* Slots large enough, none of whose tensors is alive together with t.
Candidates(t) ==
    {i \in DOMAIN slots :
        /\ slots[i].size >= lifetimes[t].nbytes
        /\ \A u \in slots[i].assignments : ~Overlaps(lifetimes[t], lifetimes[u])}

\* The smallest of them, the first one if several are equally small.
BestFit(t, i) ==
    /\ i \in Candidates(t)
    /\ \A j \in Candidates(t) :
          \/ slots[i].size < slots[j].size
          \/ slots[i].size = slots[j].size /\ i <= j

\* Fault: the slot keeps the aligned size.
AssignPadded(t, offset) ==
    /\ tensor_slots' =
         [u \in DOMAIN tensor_slots \cup {t} |->
            IF u = t THEN [offset |-> offset, size |-> AlignUp(lifetimes[t].nbytes)]
                     ELSE tensor_slots[u]]
    /\ pending' = pending \ {t}
    /\ UNCHANGED <<graph, phase, index, lifetimes>>

Assign(t, offset) ==
    /\ tensor_slots' =
         [u \in DOMAIN tensor_slots \cup {t} |->
            IF u = t THEN [offset |-> offset, size |-> lifetimes[t].nbytes]
                     ELSE tensor_slots[u]]
    /\ pending' = pending \ {t}
    /\ UNCHANGED <<graph, phase, index, lifetimes>>

PlaceInNewSlot(t) ==
    /\ phase = "placing"
    /\ NextInOrder(t)
    /\ Candidates(t) = {}
    /\ ~AlignOverflows(total_bytes)
    /\ LET offset == AlignUp(total_bytes) IN
         /\ slots' = Append(slots, [offset |-> offset,
                                    size |-> lifetimes[t].nbytes,
                                    assignments |-> {t}])
         /\ total_bytes' = Wrap(offset + lifetimes[t].nbytes)
         /\ Assign(t, offset)

ReuseSlot(t) ==
    /\ phase = "placing"
    /\ NextInOrder(t)
    /\ \E i \in DOMAIN slots :
         /\ BestFit(t, i)
         /\ slots' = [slots EXCEPT ![i].assignments = @ \cup {t}]
         /\ Assign(t, slots[i].offset)
    /\ UNCHANGED total_bytes

AlignThrows(t) ==
    /\ phase = "placing"
    /\ NextInOrder(t)
    /\ Candidates(t) = {}
    /\ AlignOverflows(total_bytes)
    /\ Throw

ReturnPlan ==
    /\ phase = "placing"
    /\ pending = {}
    /\ phase' = "done"
    /\ UNCHANGED <<graph, index, lifetimes, pending, slots, tensor_slots,
                   total_bytes>>

Next ==
    \/ ScanProducer
    \/ ScanThrows
    \/ ProducersDone
    \/ ScanConsumer
    \/ KeepOutputs
    \/ \E t \in pending : PlaceInNewSlot(t) \/ ReuseSlot(t) \/ AlignThrows(t)
    \/ ReturnPlan

Spec == Init /\ [][Next]_vars

\* plan_memory is a plain function: once called it runs to its end.
FairSpec == Spec /\ WF_vars(Next)
-----------------------------------------------------------------------------
(* Properties *)

Lifetime == [first_use : Nat, last_use : Nat, nbytes : 1..SizeMax]
Slot == [offset : Nat, size : 1..SizeMax, assignments : SUBSET Tensor]

\* Every variable stays in its type: lifetimes and slots of at least one and
\* at most SizeMax bytes, and a plan that only names tensors with a lifetime.
TypeOK ==
    /\ phase \in {"producers", "consumers", "placing", "done", "thrown"}
    /\ index \in Nat \ {0}
    /\ DOMAIN lifetimes \subseteq Tensor
    /\ lifetimes \in [DOMAIN lifetimes -> Lifetime]
    /\ pending \subseteq DOMAIN lifetimes
    /\ slots \in Seq(Slot)
    /\ DOMAIN tensor_slots \subseteq DOMAIN lifetimes
    /\ tensor_slots \in [DOMAIN tensor_slots -> [offset : Nat, size : 1..SizeMax]]
    /\ total_bytes \in 0..SizeMax

\* The unchecked addition of plan_memory has not wrapped around.
NoWrap == \A i \in DOMAIN slots : slots[i].offset + slots[i].size <= SizeMax

SlotsDisjoint(t, u) ==
    LET a == tensor_slots[t]
        b == tensor_slots[u]
    IN  a.offset + a.size <= b.offset \/ b.offset + b.size <= a.offset

\* Two tensors whose lifetimes overlap never share a byte of the arena,
\* whether they are in one physical slot or in two neighbouring ones.
LiveTensorsDisjoint ==
    NoWrap => \A t, u \in DOMAIN tensor_slots :
                 t # u /\ Overlaps(lifetimes[t], lifetimes[u]) => SlotsDisjoint(t, u)

\* What the engine relies on, said of the graph and not of the lifetimes: once
\* the plan is made, a node that runs after the producer of t and before a
\* reader of t (or before the end, if t is a graph output) writes elsewhere.
ReadsIntact ==
    phase = "done" /\ NoWrap =>
        \A t, u \in DOMAIN tensor_slots : \A d, e \in 1..NodeCount :
            /\ t \in Outputs(d)
            /\ u \in Outputs(e)
            /\ d < e
            /\ \/ t \in graph.output_names
               \/ \E k \in 1..NodeCount : t \in Inputs(k) /\ e < k
            => SlotsDisjoint(t, u)

\* Every planned tensor starts at a 64-byte boundary and ends within the
\* total_bytes the engine allocates (it also takes an address below
\* total_bytes for one of the arena).
WithinArena ==
    NoWrap => \A t \in DOMAIN tensor_slots :
                 /\ tensor_slots[t].offset % Alignment = 0
                 /\ tensor_slots[t].offset + tensor_slots[t].size <= total_bytes

\* The plan reuses memory whenever it may: two slots exist only because the
\* lifetimes of some of their tensors overlap.
NoNeedlessSlot ==
    \A i, j \in DOMAIN slots :
        i # j => \E t \in slots[i].assignments, u \in slots[j].assignments :
                    Overlaps(lifetimes[t], lifetimes[u])

\* A returned plan has a slot of exactly its size for every tensor that is
\* produced, is not an initializer and has a known nonzero size.
PlanComplete ==
    phase = "done" =>
        /\ DOMAIN tensor_slots = UNION {Plannable(n) : n \in 1..NodeCount}
        /\ \A t \in DOMAIN tensor_slots :
              tensor_slots[t].size = TensorBytes(graph.value_info[t])

\* plan_memory always comes back, with a plan or with an exception.
PlanningEnds == <>(phase \in {"done", "thrown"})

\* A size that does not fit size_t ends in an exception and never in a plan.
OverflowThrows == NoWrap
=============================================================================
