------------------------ MODULE MemoryPlannerProofs ------------------------
(***************************************************************************)
(* Proofs about MemoryPlanner, for every graph, every tensor size and      *)
(* every width of size_t.                                                  *)
(***************************************************************************)
EXTENDS MemoryPlanner, SequenceTheorems, TLAPS

-----------------------------------------------------------------------------
(* Arithmetic of the arena *)

\* align_up returns the next multiple of 64: aligned, and not below its
\* argument.
LEMMA AlignUpFacts ==
    ASSUME NEW value \in Nat
    PROVE  /\ AlignUp(value) \in Nat
           /\ AlignUp(value) >= value
           /\ AlignUp(value) <= value + 63
           /\ AlignUp(value) % Alignment = 0
BY DEF AlignUp, Alignment

\* An unsigned addition of two representable values is representable, and is
\* exact unless it exceeds SizeMax.
LEMMA WrapFacts ==
    ASSUME NEW a \in 0..SizeMax, NEW b \in 0..SizeMax
    PROVE  /\ Wrap(a + b) \in 0..SizeMax
           /\ a + b <= SizeMax => Wrap(a + b) = a + b
BY SizeAssumption DEF Wrap

-----------------------------------------------------------------------------
(* Types *)

\* What GraphAssumption says of the graph being planned.
WellFormed == NodeCount \in Nat /\ \A n \in 1..NodeCount : Outputs(n) \subseteq Tensor

Typed == WellFormed /\ TypeOK

LEMMA GraphWellFormed == graph \in Graphs => WellFormed
BY GraphAssumption DEF WellFormed, NodeCount, Outputs

\* The locals of plan_memory when it is called.
Started ==
    /\ phase = "producers"
    /\ index = 1
    /\ lifetimes = <<>>
    /\ pending = {}
    /\ slots = <<>>
    /\ tensor_slots = <<>>
    /\ total_bytes = 0

LEMMA InitStarted == Init => WellFormed /\ Started
BY GraphWellFormed DEF Init, Started

LEMMA TypedInit == WellFormed /\ Started => Typed
<1> SUFFICES ASSUME Started PROVE TypeOK
  BY DEF Typed
<1>1. SizeMax \in Nat
  BY SizeAssumption
<1>. QED
  BY <1>1 DEF Started, TypeOK

\* The graph stays as it is.
LEMMA WellFormedStep == WellFormed /\ [Next]_vars => WellFormed'
<1>1. [Next]_vars => graph' = graph
  BY DEF Next, vars, ScanProducer, ScanThrows, ProducersDone, ScanConsumer, KeepOutputs,
         PlaceInNewSlot, ReuseSlot, AlignThrows, Assign, ReturnPlan, Throw
<1>2. graph' = graph => (WellFormed' <=> WellFormed)
  BY DEF WellFormed, NodeCount, Outputs
<1>. QED
  BY <1>1, <1>2

\* A tensor that gets a lifetime has a name and a size of 1..SizeMax bytes.
LEMMA PlannableFacts ==
    ASSUME WellFormed, NEW n \in 1..NodeCount
    PROVE  /\ Plannable(n) \subseteq Tensor
           /\ Plannable(n) \subseteq Outputs(n)
           /\ \A t \in Plannable(n) : TensorBytes(graph.value_info[t]) \in 1..SizeMax
BY DEF WellFormed, Plannable, Described

\* Changing last_use leaves a lifetime a lifetime.
LEMMA LifetimeExcept ==
    ASSUME NEW life \in Lifetime, NEW use \in Nat
    PROVE  [life EXCEPT !.last_use = use] \in Lifetime
BY DEF Lifetime

LEMMA TypedStep == Typed /\ [Next]_vars => Typed'
<1> SUFFICES ASSUME Typed, [Next]_vars PROVE TypeOK'
  BY WellFormedStep DEF Typed
<1> USE SizeAssumption DEF Typed, TypeOK
<1>n. NodeCount \in Nat
  BY DEF WellFormed
<1>1. CASE ScanProducer
  <2>1. index \in 1..NodeCount
    BY <1>1, <1>n DEF ScanProducer
  <2>2. Plannable(index) \subseteq Tensor
    BY <2>1, PlannableFacts
  <2>3. \A t \in Plannable(index) : TensorBytes(graph.value_info[t]) \in 1..SizeMax
    BY <2>1, PlannableFacts
  <2>4. lifetimes' \in [DOMAIN lifetimes \cup Plannable(index) -> Lifetime]
    BY <1>1, <2>3 DEF ScanProducer, Lifetime
  <2>5. DOMAIN lifetimes' = DOMAIN lifetimes \cup Plannable(index)
    BY <2>4
  <2>6. index' \in Nat \ {0}
    BY <1>1 DEF ScanProducer
  <2>. QED
    BY <1>1, <2>2, <2>4, <2>5, <2>6 DEF ScanProducer
<1>2. CASE Throw
  BY <1>2 DEF Throw
<1>3. CASE ProducersDone
  BY <1>3 DEF ProducersDone
<1>4. CASE ScanConsumer
  <2>1. \A life \in Lifetime : Extend(life, index) \in Lifetime
    BY DEF Extend, Lifetime
  <2>2. lifetimes' \in [DOMAIN lifetimes -> Lifetime]
    BY <1>4, <2>1 DEF ScanConsumer
  <2>. QED
    BY <1>4, <2>2 DEF ScanConsumer
<1>5. CASE KeepOutputs
  <2> DEFINE end == NodeCount + 1
  <2>0. end \in Nat
    BY <1>n
  <2> HIDE DEF end
  <2>1. \A life \in Lifetime : [life EXCEPT !.last_use = end] \in Lifetime
    BY <2>0, LifetimeExcept
  <2>2. lifetimes' \in [DOMAIN lifetimes -> Lifetime]
    BY <1>5, <2>1 DEF KeepOutputs, end
  <2>. QED
    BY <1>5, <2>2 DEF KeepOutputs
<1>6. ASSUME NEW t \in pending, PlaceInNewSlot(t) PROVE TypeOK'
  <2> DEFINE offset == AlignUp(total_bytes)
  <2>1. offset \in 0..SizeMax
    <3>1. total_bytes \in Nat
      OBVIOUS
    <3>2. offset <= total_bytes + 63 /\ offset \in Nat
      BY <3>1, AlignUpFacts
    <3>. QED
      BY <1>6, <3>1, <3>2 DEF PlaceInNewSlot, AlignOverflows, Alignment
  <2>2. lifetimes[t].nbytes \in 1..SizeMax
    BY DEF Lifetime
  <2>3. total_bytes' \in 0..SizeMax
    BY <1>6, <2>1, <2>2, WrapFacts DEF PlaceInNewSlot
  <2>4. [offset |-> offset, size |-> lifetimes[t].nbytes, assignments |-> {t}] \in Slot
    BY <2>1, <2>2 DEF Slot
  <2>5. slots' \in Seq(Slot)
    BY <1>6, <2>4, AppendProperties DEF PlaceInNewSlot
  <2>6. tensor_slots' \in
          [DOMAIN tensor_slots \cup {t} -> [offset : Nat, size : 1..SizeMax]]
    BY <1>6, <2>1, <2>2 DEF PlaceInNewSlot, Assign
  <2>. QED
    BY <1>6, <2>3, <2>5, <2>6 DEF PlaceInNewSlot, Assign
<1>7. ASSUME NEW t \in pending, ReuseSlot(t) PROVE TypeOK'
  <2>1. PICK i \in DOMAIN slots :
           /\ slots' = [slots EXCEPT ![i].assignments = @ \cup {t}]
           /\ Assign(t, slots[i].offset)
    BY <1>7 DEF ReuseSlot
  <2>2. lifetimes[t].nbytes \in 1..SizeMax
    BY DEF Lifetime
  <2>3. slots[i] \in Slot
    BY <2>1
  <2>4. [slots[i] EXCEPT !.assignments = @ \cup {t}] \in Slot
    BY <2>3 DEF Slot
  <2>5. slots' \in Seq(Slot)
    BY <2>1, <2>4, ExceptSeq
  <2>6. tensor_slots' \in
          [DOMAIN tensor_slots \cup {t} -> [offset : Nat, size : 1..SizeMax]]
    BY <2>1, <2>2, <2>3 DEF Assign, Slot
  <2>. QED
    BY <1>7, <2>1, <2>5, <2>6 DEF ReuseSlot, Assign
<1>8. CASE ReturnPlan
  BY <1>8 DEF ReturnPlan
<1>9. CASE UNCHANGED vars
  BY <1>9 DEF vars
<1>. QED
  BY <1>1, <1>2, <1>3, <1>4, <1>5, <1>6, <1>7, <1>8, <1>9
     DEF Next, ScanThrows, AlignThrows

\* The numbers in slots and lifetimes.
LEMMA SlotTyped ==
    ASSUME Typed, NEW i \in DOMAIN slots
    PROVE  slots[i].offset \in Nat /\ slots[i].size \in 1..SizeMax /\ slots[i].size \in Nat
<1>1. slots[i] \in Slot
  BY DEF Typed, TypeOK
<1>. QED
  BY <1>1, SizeAssumption DEF Slot

LEMMA LifetimeTyped ==
    ASSUME Typed, NEW t \in DOMAIN lifetimes
    PROVE  /\ lifetimes[t].first_use \in Nat /\ lifetimes[t].last_use \in Nat
           /\ lifetimes[t].nbytes \in 1..SizeMax /\ lifetimes[t].nbytes \in Nat
<1>1. lifetimes[t] \in Lifetime
  BY DEF Typed, TypeOK
<1>. QED
  BY <1>1, SizeAssumption DEF Lifetime

\* Every reachable state is well typed: tensor_lifetimes and plan_memory only
\* build lifetimes of named tensors with 1..SizeMax bytes, and total_bytes
\* stays a size_t even when its addition wraps around.
THEOREM TypeCorrect == Spec => []TypeOK
<1>1. Typed => TypeOK
  BY DEF Typed
<1>. QED
  BY <1>1, InitStarted, TypedInit, TypedStep, PTL DEF Spec

-----------------------------------------------------------------------------
(* The lifetime scan *)

\* The nodes whose outputs have been looked at.
Scanned == IF phase = "producers" THEN 1..index - 1 ELSE 1..NodeCount

\* Each plannable tensor of a scanned node has one lifetime, that starts at
\* its only producer.
ProducersInv ==
    phase # "thrown" =>
        /\ phase = "producers" => index <= NodeCount + 1
        /\ DOMAIN lifetimes = UNION {Plannable(n) : n \in Scanned}
        /\ \A t \in DOMAIN lifetimes :
              /\ lifetimes[t].first_use \in Scanned
              /\ lifetimes[t].first_use <= lifetimes[t].last_use
              /\ lifetimes[t].nbytes = TensorBytes(graph.value_info[t])
              /\ \A n \in Scanned : t \in Outputs(n) => n = lifetimes[t].first_use

\* A lifetime reaches every reader seen so far; once the scan is over, every
\* reader and, for a graph output, the end of the run.
ReadersInv ==
    /\ phase = "consumers" =>
          \A t \in DOMAIN lifetimes : \A n \in 1..NodeCount :
             n < index /\ t \in Inputs(n) => n <= lifetimes[t].last_use
    /\ phase \in {"placing", "done"} =>
          \A t \in DOMAIN lifetimes :
             /\ \A n \in 1..NodeCount : t \in Inputs(n) => n <= lifetimes[t].last_use
             /\ t \in graph.output_names => lifetimes[t].last_use = NodeCount + 1

LifetimeInv == ProducersInv /\ ReadersInv

LEMMA NodeCountNat == WellFormed => NodeCount \in Nat
BY DEF WellFormed

LEMMA LifetimeInit == WellFormed /\ Started => LifetimeInv
<1> SUFFICES ASSUME WellFormed, Started PROVE LifetimeInv
  OBVIOUS
<1>1. NodeCount \in Nat
  BY NodeCountNat
<1>2. Scanned = {} /\ DOMAIN lifetimes = {}
  BY DEF Started, Scanned
<1>. QED
  BY <1>1, <1>2 DEF Started, LifetimeInv, ProducersInv, ReadersInv

\* What a tensor's metadata says does not depend on the node asked about.
LEMMA PlannableAnywhere ==
    ASSUME NEW m, NEW n, NEW t \in Plannable(m), t \in Outputs(n)
    PROVE  t \in Plannable(n)
BY DEF Plannable, Described

LEMMA ProducersStep == Typed /\ ProducersInv /\ [Next]_vars => ProducersInv'
<1> SUFFICES ASSUME Typed, ProducersInv, [Next]_vars PROVE ProducersInv'
  OBVIOUS
<1>n. NodeCount \in Nat
  BY NodeCountNat DEF Typed
<1>g. /\ index \in Nat \ {0}
      /\ lifetimes \in [DOMAIN lifetimes -> Lifetime]
  BY DEF Typed, TypeOK
<1>1. CASE ScanProducer
  <2> DEFINE new == Plannable(index)
  <2>1. /\ phase = "producers" /\ phase' = "producers"
        /\ index \in 1..NodeCount
        /\ index' = index + 1
        /\ ~ScanFails(index)
        /\ graph' = graph
    BY <1>1, <1>n, <1>g DEF ScanProducer
  <2>2. /\ NodeCount' = NodeCount
        /\ \A n : Plannable(n)' = Plannable(n) /\ Outputs(n)' = Outputs(n)
    BY <2>1 DEF NodeCount, Plannable, Described, Outputs
  <2>3. Scanned = 1..index - 1 /\ Scanned' = 1..index /\ Scanned' = Scanned \cup {index}
    BY <2>1, <1>g DEF Scanned
  <2>4. /\ DOMAIN lifetimes' = DOMAIN lifetimes \cup new
        /\ \A t \in DOMAIN lifetimes : lifetimes'[t] = lifetimes[t]
        /\ \A t \in new \ DOMAIN lifetimes :
              lifetimes'[t] = [first_use |-> index, last_use |-> index,
                               nbytes |-> TensorBytes(graph.value_info[t])]
    BY <1>1 DEF ScanProducer
  <2>5. new \cap DOMAIN lifetimes = {}
    BY <2>1 DEF ScanFails, ProducedTwice
  <2>6. DOMAIN lifetimes' = UNION {Plannable(n)' : n \in Scanned'}
    <3>1. DOMAIN lifetimes = UNION {Plannable(n) : n \in Scanned}
      BY <2>1 DEF ProducersInv
    <3>. QED
      BY <3>1, <2>2, <2>3, <2>4
  <2>7. ASSUME NEW t \in DOMAIN lifetimes'
        PROVE  /\ lifetimes'[t].first_use \in Scanned'
               /\ lifetimes'[t].first_use <= lifetimes'[t].last_use
               /\ lifetimes'[t].nbytes = TensorBytes(graph'.value_info[t])
               /\ \A n \in Scanned' : t \in Outputs(n)' => n = lifetimes'[t].first_use
    <3>1. CASE t \in DOMAIN lifetimes
      <4>1. /\ lifetimes[t].first_use \in Scanned
            /\ lifetimes[t].first_use <= lifetimes[t].last_use
            /\ lifetimes[t].nbytes = TensorBytes(graph.value_info[t])
            /\ \A n \in Scanned : t \in Outputs(n) => n = lifetimes[t].first_use
        BY <3>1, <2>1 DEF ProducersInv
      <4>2. PICK m \in Scanned : t \in Plannable(m)
        BY <3>1, <2>1 DEF ProducersInv
      <4>3. t \notin Outputs(index)
        BY <4>2, <2>5, <3>1, PlannableAnywhere
      <4>. QED
        BY <4>1, <4>3, <3>1, <2>1, <2>2, <2>3, <2>4
    <3>2. CASE t \notin DOMAIN lifetimes
      <4>1. t \in new
        BY <3>2, <2>4
      <4>2. ASSUME NEW n \in Scanned, t \in Outputs(n) PROVE FALSE
        <5>1. t \in Plannable(n)
          BY <4>1, <4>2, PlannableAnywhere
        <5>. QED
          BY <5>1, <3>2, <2>1 DEF ProducersInv
      <4>. QED
        BY <4>1, <4>2, <3>2, <2>1, <2>2, <2>3, <2>4
    <3>. QED
      BY <3>1, <3>2
  <2>8. index' <= NodeCount' + 1
    BY <2>1, <2>2, <1>n
  <2>. QED
    BY <2>6, <2>7, <2>8 DEF ProducersInv
<1>2. CASE Throw
  BY <1>2 DEF Throw, ProducersInv
<1>3. CASE ProducersDone
  <2>1. /\ phase = "producers" /\ phase' = "consumers" /\ graph' = graph
        /\ lifetimes' = lifetimes /\ index > NodeCount
    BY <1>3 DEF ProducersDone
  <2>2. /\ NodeCount' = NodeCount
        /\ \A n : Plannable(n)' = Plannable(n) /\ Outputs(n)' = Outputs(n)
    BY <2>1 DEF NodeCount, Plannable, Described, Outputs
  <2>3. Scanned' = Scanned
    BY <2>1, <2>2, <1>n, <1>g DEF Scanned, ProducersInv
  <2>. QED
    BY <2>1, <2>2, <2>3 DEF ProducersInv
<1>4. CASE ScanConsumer \/ KeepOutputs
  <2>1. /\ phase = "consumers" /\ phase' \in {"consumers", "placing"}
        /\ graph' = graph /\ DOMAIN lifetimes' = DOMAIN lifetimes
    BY <1>4 DEF ScanConsumer, KeepOutputs
  <2>2. /\ NodeCount' = NodeCount
        /\ \A n : Plannable(n)' = Plannable(n) /\ Outputs(n)' = Outputs(n)
        /\ Scanned = 1..NodeCount /\ Scanned' = Scanned
    BY <2>1 DEF NodeCount, Plannable, Described, Outputs, Scanned
  <2>3. ASSUME NEW t \in DOMAIN lifetimes
        PROVE  /\ lifetimes'[t].first_use = lifetimes[t].first_use
               /\ lifetimes'[t].nbytes = lifetimes[t].nbytes
               /\ lifetimes'[t].first_use <= lifetimes'[t].last_use
    <3>1. lifetimes[t] \in Lifetime
      BY <1>g
    <3>2. /\ lifetimes[t].first_use \in 1..NodeCount
          /\ lifetimes[t].first_use <= lifetimes[t].last_use
      BY <2>1, <2>2 DEF ProducersInv
    <3>3. CASE ScanConsumer
      BY <3>1, <3>2, <3>3, <1>g DEF ScanConsumer, Extend, Lifetime
    <3>4. CASE KeepOutputs
      BY <3>1, <3>2, <3>4, <1>n DEF KeepOutputs, Lifetime
    <3>. QED
      BY <1>4, <3>3, <3>4
  <2>. QED
    BY <2>1, <2>2, <2>3 DEF ProducersInv
<1>5. ASSUME NEW t \in pending, PlaceInNewSlot(t) \/ ReuseSlot(t) PROVE ProducersInv'
  <2>1. UNCHANGED <<graph, phase, index, lifetimes>>
    BY <1>5 DEF PlaceInNewSlot, ReuseSlot, Assign
  <2>. QED
    BY <2>1 DEF ProducersInv, Scanned, NodeCount, Plannable, Described, Outputs
<1>6. CASE ReturnPlan
  <2>1. /\ phase = "placing" /\ phase' = "done"
        /\ UNCHANGED <<graph, index, lifetimes>>
    BY <1>6 DEF ReturnPlan
  <2>. QED
    BY <2>1 DEF ProducersInv, Scanned, NodeCount, Plannable, Described, Outputs
<1>7. CASE UNCHANGED vars
  BY <1>7 DEF vars, ProducersInv, Scanned, NodeCount, Plannable, Described, Outputs
<1>. QED
  BY <1>1, <1>2, <1>3, <1>4, <1>5, <1>6, <1>7 DEF Next, ScanThrows, AlignThrows

LEMMA ReadersStep ==
    Typed /\ ProducersInv /\ ReadersInv /\ [Next]_vars => ReadersInv'
<1> SUFFICES ASSUME Typed, ProducersInv, ReadersInv, [Next]_vars PROVE ReadersInv'
  OBVIOUS
<1>n. NodeCount \in Nat
  BY NodeCountNat DEF Typed
<1>g. /\ index \in Nat \ {0}
      /\ lifetimes \in [DOMAIN lifetimes -> Lifetime]
  BY DEF Typed, TypeOK
<1>1. CASE ScanProducer \/ Throw
  BY <1>1 DEF ScanProducer, Throw, ReadersInv
<1>2. CASE ProducersDone
  <2>1. phase' = "consumers" /\ index' = 1
    BY <1>2 DEF ProducersDone
  <2>2. \A n \in (1..NodeCount)' : ~(n < index')
    BY <2>1
  <2>. QED
    BY <2>1, <2>2 DEF ReadersInv
<1>3. CASE ScanConsumer
  <2>1. /\ phase = "consumers" /\ phase' = "consumers" /\ graph' = graph
        /\ index' = index + 1 /\ DOMAIN lifetimes' = DOMAIN lifetimes
    BY <1>3 DEF ScanConsumer
  <2>2. NodeCount' = NodeCount /\ \A n : Inputs(n)' = Inputs(n)
    BY <2>1 DEF NodeCount, Inputs
  <2>3. ASSUME NEW t \in DOMAIN lifetimes, NEW n \in 1..NodeCount,
               n < index + 1, t \in Inputs(n)
        PROVE  n <= lifetimes'[t].last_use
    <3>1. lifetimes[t] \in Lifetime
      BY <1>g
    <3>2. lifetimes'[t].last_use >= lifetimes[t].last_use
      BY <1>3, <3>1, <1>g DEF ScanConsumer, Extend, Lifetime
    <3>3. lifetimes'[t].last_use \in Nat
      BY <1>3, <3>1, <1>g DEF ScanConsumer, Extend, Lifetime
    <3>4. CASE n = index
      BY <1>3, <2>3, <3>1, <3>4, <1>g DEF ScanConsumer, Extend, Lifetime
    <3>5. CASE n < index
      <4>1. n <= lifetimes[t].last_use
        BY <2>1, <2>3, <3>5 DEF ReadersInv
      <4>2. lifetimes[t].last_use \in Nat
        BY <3>1 DEF Lifetime
      <4>. QED
        BY <4>1, <4>2, <3>2, <3>3
    <3>. QED
      BY <2>3, <3>4, <3>5, <1>g
  <2>. QED
    BY <2>1, <2>2, <2>3 DEF ReadersInv
<1>4. CASE KeepOutputs
  <2>1. /\ phase = "consumers" /\ phase' = "placing" /\ graph' = graph
        /\ index > NodeCount /\ DOMAIN lifetimes' = DOMAIN lifetimes
    BY <1>4 DEF KeepOutputs
  <2>2. NodeCount' = NodeCount /\ \A n : Inputs(n)' = Inputs(n)
    BY <2>1 DEF NodeCount, Inputs
  <2>3. ASSUME NEW t \in DOMAIN lifetimes
        PROVE  /\ \A n \in 1..NodeCount : t \in Inputs(n) => n <= lifetimes'[t].last_use
               /\ t \in graph.output_names => lifetimes'[t].last_use = NodeCount + 1
    <3>1. lifetimes[t] \in Lifetime
      BY <1>g
    <3>2. \A n \in 1..NodeCount : t \in Inputs(n) => n <= lifetimes[t].last_use
      BY <2>1, <1>n, <1>g DEF ReadersInv
    <3>3. CASE t \in graph.output_names
      <4>1. lifetimes'[t].last_use = NodeCount + 1
        BY <1>4, <3>1, <3>3 DEF KeepOutputs, Lifetime
      <4>. QED
        BY <4>1, <1>n
    <3>4. CASE t \notin graph.output_names
      BY <1>4, <3>2, <3>4 DEF KeepOutputs
    <3>. QED
      BY <3>3, <3>4
  <2>. QED
    BY <2>1, <2>2, <2>3 DEF ReadersInv
<1>5. ASSUME NEW t \in pending, PlaceInNewSlot(t) \/ ReuseSlot(t) PROVE ReadersInv'
  <2>1. UNCHANGED <<graph, phase, index, lifetimes>>
    BY <1>5 DEF PlaceInNewSlot, ReuseSlot, Assign
  <2>. QED
    BY <2>1 DEF ReadersInv, NodeCount, Inputs
<1>6. CASE ReturnPlan
  BY <1>6 DEF ReturnPlan, ReadersInv, NodeCount, Inputs
<1>7. CASE UNCHANGED vars
  BY <1>7 DEF vars, ReadersInv, NodeCount, Inputs
<1>. QED
  BY <1>1, <1>2, <1>3, <1>4, <1>5, <1>6, <1>7 DEF Next, ScanThrows, AlignThrows

-----------------------------------------------------------------------------
(* The slots *)

\* Every lifetime is either placed or waiting, and nothing is placed before
\* the scan is over.
PlacedInv ==
    /\ phase \in {"producers", "consumers"} =>
          slots = <<>> /\ DOMAIN tensor_slots = {} /\ pending = {}
    /\ pending \cap DOMAIN tensor_slots = {}
    /\ phase \in {"placing", "done"} =>
          DOMAIN lifetimes = pending \cup DOMAIN tensor_slots
    /\ phase = "done" => pending = {}
    /\ DOMAIN tensor_slots = {} => total_bytes = 0

\* What is assigned to one slot starts at its beginning, fits into it and is
\* never alive at the same time; every placed tensor is in a slot.
SlotInv ==
    /\ \A i \in DOMAIN slots :
          /\ slots[i].offset % Alignment = 0
          /\ slots[i].assignments \subseteq DOMAIN tensor_slots
          /\ \A t \in slots[i].assignments :
                /\ tensor_slots[t].offset = slots[i].offset
                /\ lifetimes[t].nbytes <= slots[i].size
          /\ \A t, u \in slots[i].assignments :
                t # u => ~Overlaps(lifetimes[t], lifetimes[u])
    /\ \A t \in DOMAIN tensor_slots :
          /\ tensor_slots[t].size = lifetimes[t].nbytes
          /\ \E i \in DOMAIN slots : t \in slots[i].assignments

\* Slots are laid out one behind the other and end within the arena.
ArenaInv ==
    NoWrap =>
        /\ \A i \in DOMAIN slots : slots[i].offset + slots[i].size <= total_bytes
        /\ \A i, j \in DOMAIN slots :
              i < j => slots[i].offset + slots[i].size <= slots[j].offset

\* Every slot is large enough for what is still to be placed, so that a slot
\* is refused only for lifetimes that overlap.
ReuseInv ==
    /\ \A i \in DOMAIN slots : \A t \in pending : lifetimes[t].nbytes <= slots[i].size
    /\ NoNeedlessSlot

PlanInv == PlacedInv /\ SlotInv /\ ArenaInv /\ ReuseInv

LEMMA PlanInit == Started => PlanInv
<1> SUFFICES ASSUME Started PROVE PlanInv
  OBVIOUS
<1>1. slots = <<>> /\ DOMAIN slots = {} /\ DOMAIN tensor_slots = {} /\ pending = {}
  BY DEF Started
<1>. QED
  BY <1>1 DEF Started, PlanInv, PlacedInv, SlotInv, ArenaInv, ReuseInv, NoNeedlessSlot

\* As long as nothing has been placed, the slots have nothing to preserve.
LEMMA PlanEmpty ==
    slots = <<>> /\ DOMAIN tensor_slots = {} => SlotInv /\ ArenaInv
BY DEF SlotInv, ArenaInv

\* A new slot comes behind the others, which it leaves as they are.
LEMMA NewSlotFacts ==
    ASSUME Typed, NEW t \in pending, PlaceInNewSlot(t)
    PROVE  LET n == Len(slots) + 1 IN
           /\ n \in DOMAIN slots' /\ n \notin DOMAIN slots
           /\ DOMAIN slots' = DOMAIN slots \cup {n}
           /\ \A i \in DOMAIN slots : i < n /\ slots'[i] = slots[i]
           /\ slots'[n] = [offset |-> AlignUp(total_bytes),
                           size |-> lifetimes[t].nbytes, assignments |-> {t}]
<1> DEFINE new == [offset |-> AlignUp(total_bytes),
                   size |-> lifetimes[t].nbytes, assignments |-> {t}]
<1>1. slots \in Seq(Slot) /\ total_bytes \in Nat /\ lifetimes[t] \in Lifetime
  BY SizeAssumption DEF Typed, TypeOK
<1>2. new \in Slot
  BY <1>1, AlignUpFacts DEF Slot, Typed, TypeOK, Lifetime
<1>3. slots' = Append(slots, new)
  BY DEF PlaceInNewSlot
<1> HIDE DEF new
<1>4. /\ slots' \in Seq(Slot)
      /\ Len(slots') = Len(slots) + 1
      /\ \A i \in 1..Len(slots) : slots'[i] = slots[i]
      /\ slots'[Len(slots) + 1] = new
  BY <1>1, <1>2, <1>3, AppendProperties
<1>5. DOMAIN slots = 1..Len(slots) /\ DOMAIN slots' = 1..Len(slots) + 1
      /\ Len(slots) \in Nat
  BY <1>1, <1>4
<1>. QED
  BY <1>4, <1>5 DEF new

\* Reuse changes nothing but the assignments of one slot.
LEMMA ReuseSlotFacts ==
    ASSUME Typed, NEW t \in pending, ReuseSlot(t)
    PROVE  \E i \in DOMAIN slots :
           /\ BestFit(t, i)
           /\ Assign(t, slots[i].offset)
           /\ DOMAIN slots' = DOMAIN slots
           /\ \A j \in DOMAIN slots :
                 /\ slots'[j].offset = slots[j].offset
                 /\ slots'[j].size = slots[j].size
                 /\ slots'[j].assignments = IF j = i THEN slots[j].assignments \cup {t}
                                                     ELSE slots[j].assignments
<1>1. slots \in Seq(Slot)
  BY DEF Typed, TypeOK
<1>2. PICK i \in DOMAIN slots :
         /\ BestFit(t, i)
         /\ slots' = [slots EXCEPT ![i].assignments = @ \cup {t}]
         /\ Assign(t, slots[i].offset)
  BY DEF ReuseSlot
<1>3. \A j \in DOMAIN slots : slots[j] \in Slot
  BY <1>1
<1>4. DOMAIN slots' = DOMAIN slots
  BY <1>2
<1>5. \A j \in DOMAIN slots :
         /\ slots'[j].offset = slots[j].offset
         /\ slots'[j].size = slots[j].size
         /\ slots'[j].assignments = IF j = i THEN slots[j].assignments \cup {t}
                                             ELSE slots[j].assignments
  BY <1>2, <1>3 DEF Slot
<1>. QED
  BY <1>2, <1>4, <1>5

LEMMA PlacedStep == Typed /\ PlacedInv /\ [Next]_vars => PlacedInv'
<1> SUFFICES ASSUME Typed, PlacedInv, [Next]_vars PROVE PlacedInv'
  OBVIOUS
<1>1. CASE ScanProducer \/ ProducersDone \/ ScanConsumer
  BY <1>1 DEF ScanProducer, ProducersDone, ScanConsumer, PlacedInv
<1>2. CASE KeepOutputs
  BY <1>2 DEF KeepOutputs, PlacedInv
<1>3. ASSUME NEW t \in pending, PlaceInNewSlot(t) \/ ReuseSlot(t) PROVE PlacedInv'
  <2>1. /\ phase = "placing" /\ phase' = "placing" /\ lifetimes' = lifetimes
        /\ pending' = pending \ {t}
        /\ DOMAIN tensor_slots' = DOMAIN tensor_slots \cup {t}
    BY <1>3 DEF PlaceInNewSlot, ReuseSlot, Assign
  <2>. QED
    BY <2>1 DEF PlacedInv
<1>4. CASE Throw
  BY <1>4 DEF Throw, PlacedInv
<1>5. CASE ReturnPlan
  BY <1>5 DEF ReturnPlan, PlacedInv
<1>6. CASE UNCHANGED vars
  BY <1>6 DEF vars, PlacedInv
<1>. QED
  BY <1>1, <1>2, <1>3, <1>4, <1>5, <1>6 DEF Next, ScanThrows, AlignThrows

\* Overlap does not depend on the order of the two lifetimes.
LEMMA OverlapSymmetric ==
    ASSUME NEW a, NEW b PROVE Overlaps(a, b) <=> Overlaps(b, a)
BY DEF Overlaps

\* What Assign does to the plan.
LEMMA AssignFacts ==
    ASSUME NEW t, NEW offset, Assign(t, offset)
    PROVE  /\ DOMAIN tensor_slots' = DOMAIN tensor_slots \cup {t}
           /\ tensor_slots'[t].offset = offset
           /\ tensor_slots'[t].size = lifetimes[t].nbytes
           /\ \A u \in DOMAIN tensor_slots : u # t => tensor_slots'[u] = tensor_slots[u]
           /\ pending' = pending \ {t}
           /\ UNCHANGED <<graph, phase, index, lifetimes>>
BY DEF Assign

LEMMA SlotStep ==
    Typed /\ PlacedInv /\ SlotInv /\ [Next]_vars => SlotInv'
<1> SUFFICES ASSUME Typed, PlacedInv, SlotInv, [Next]_vars PROVE SlotInv'
  OBVIOUS
<1>1. CASE ScanProducer \/ ProducersDone \/ ScanConsumer \/ KeepOutputs
  <2>1. slots' = <<>> /\ DOMAIN tensor_slots' = {}
    BY <1>1 DEF ScanProducer, ProducersDone, ScanConsumer, KeepOutputs, PlacedInv
  <2>. QED
    BY <2>1 DEF SlotInv
<1>2. ASSUME NEW t \in pending, PlaceInNewSlot(t) PROVE SlotInv'
  <2> DEFINE n == Len(slots) + 1
  <2>1. /\ n \in DOMAIN slots' /\ n \notin DOMAIN slots
        /\ DOMAIN slots' = DOMAIN slots \cup {n}
        /\ \A i \in DOMAIN slots : slots'[i] = slots[i]
        /\ slots'[n] = [offset |-> AlignUp(total_bytes),
                        size |-> lifetimes[t].nbytes, assignments |-> {t}]
    BY <1>2, NewSlotFacts
  <2> HIDE DEF n
  <2>2. Assign(t, AlignUp(total_bytes))
    BY <1>2 DEF PlaceInNewSlot
  <2>3. /\ DOMAIN tensor_slots' = DOMAIN tensor_slots \cup {t}
        /\ tensor_slots'[t].offset = AlignUp(total_bytes)
        /\ tensor_slots'[t].size = lifetimes[t].nbytes
        /\ \A u \in DOMAIN tensor_slots : u # t => tensor_slots'[u] = tensor_slots[u]
        /\ lifetimes' = lifetimes
    BY <2>2, AssignFacts
  <2>4. t \notin DOMAIN tensor_slots
    BY DEF PlacedInv
  <2>5. AlignUp(total_bytes) % Alignment = 0 /\ lifetimes[t].nbytes \in Nat
    BY SizeAssumption, AlignUpFacts DEF Typed, TypeOK, Lifetime
  <2>6. ASSUME NEW i \in DOMAIN slots'
        PROVE  /\ slots'[i].offset % Alignment = 0
               /\ slots'[i].assignments \subseteq DOMAIN tensor_slots'
               /\ \A u \in slots'[i].assignments :
                     /\ tensor_slots'[u].offset = slots'[i].offset
                     /\ lifetimes[u].nbytes <= slots'[i].size
               /\ \A u, v \in slots'[i].assignments :
                     u # v => ~Overlaps(lifetimes[u], lifetimes[v])
    <3>1. CASE i = n
      BY <3>1, <2>1, <2>3, <2>5
    <3>2. CASE i \in DOMAIN slots
      BY <3>2, <2>1, <2>3, <2>4 DEF SlotInv
    <3>. QED
      BY <3>1, <3>2, <2>1
  <2>7. ASSUME NEW u \in DOMAIN tensor_slots'
        PROVE  /\ tensor_slots'[u].size = lifetimes[u].nbytes
               /\ \E i \in DOMAIN slots' : u \in slots'[i].assignments
    <3>1. CASE u = t
      BY <3>1, <2>1, <2>3
    <3>2. CASE u # t
      BY <3>2, <2>1, <2>3 DEF SlotInv
    <3>. QED
      BY <3>1, <3>2
  <2>. QED
    BY <2>3, <2>6, <2>7 DEF SlotInv
<1>3. ASSUME NEW t \in pending, ReuseSlot(t) PROVE SlotInv'
  <2>1. PICK k \in DOMAIN slots :
         /\ BestFit(t, k)
         /\ Assign(t, slots[k].offset)
         /\ DOMAIN slots' = DOMAIN slots
         /\ \A j \in DOMAIN slots :
               /\ slots'[j].offset = slots[j].offset
               /\ slots'[j].size = slots[j].size
               /\ slots'[j].assignments = IF j = k THEN slots[j].assignments \cup {t}
                                                   ELSE slots[j].assignments
    BY <1>3, ReuseSlotFacts
  <2>2. /\ DOMAIN tensor_slots' = DOMAIN tensor_slots \cup {t}
        /\ tensor_slots'[t].offset = slots[k].offset
        /\ tensor_slots'[t].size = lifetimes[t].nbytes
        /\ \A u \in DOMAIN tensor_slots : u # t => tensor_slots'[u] = tensor_slots[u]
        /\ lifetimes' = lifetimes
    BY <2>1, AssignFacts
  <2>3. t \notin DOMAIN tensor_slots
    BY DEF PlacedInv
  <2>4. /\ lifetimes[t].nbytes <= slots[k].size
        /\ \A u \in slots[k].assignments : /\ ~Overlaps(lifetimes[t], lifetimes[u])
                                           /\ ~Overlaps(lifetimes[u], lifetimes[t])
    <3>1. slots[k].size \in Nat /\ lifetimes[t].nbytes \in Nat
      <4>1. t \in DOMAIN lifetimes
        BY DEF Typed, TypeOK
      <4>. QED
        BY <4>1, SlotTyped, LifetimeTyped
    <3>2. k \in Candidates(t)
      BY <2>1 DEF BestFit
    <3>3. /\ slots[k].size >= lifetimes[t].nbytes
          /\ \A u \in slots[k].assignments : ~Overlaps(lifetimes[t], lifetimes[u])
      BY <3>2 DEF Candidates
    <3>. QED
      BY <3>1, <3>3, OverlapSymmetric
  <2>5. ASSUME NEW i \in DOMAIN slots'
        PROVE  /\ slots'[i].offset % Alignment = 0
               /\ slots'[i].assignments \subseteq DOMAIN tensor_slots'
               /\ \A u \in slots'[i].assignments :
                     /\ tensor_slots'[u].offset = slots'[i].offset
                     /\ lifetimes[u].nbytes <= slots'[i].size
               /\ \A u, v \in slots'[i].assignments :
                     u # v => ~Overlaps(lifetimes[u], lifetimes[v])
    <3>1. /\ i \in DOMAIN slots
          /\ slots'[i].offset = slots[i].offset
          /\ slots'[i].size = slots[i].size
          /\ slots'[i].assignments \subseteq slots[i].assignments \cup {t}
          /\ t \in slots'[i].assignments => i = k
      <4>1. i \in DOMAIN slots
        BY <2>1
      <4>2. slots[i].assignments \subseteq DOMAIN tensor_slots
        BY <4>1 DEF SlotInv
      <4>. QED
        BY <4>1, <4>2, <2>1, <2>3
    <3>2. /\ slots[i].offset % Alignment = 0
          /\ slots[i].assignments \subseteq DOMAIN tensor_slots
          /\ \A u \in slots[i].assignments :
                /\ tensor_slots[u].offset = slots[i].offset
                /\ lifetimes[u].nbytes <= slots[i].size
          /\ \A u, v \in slots[i].assignments :
                u # v => ~Overlaps(lifetimes[u], lifetimes[v])
      BY <3>1 DEF SlotInv
    <3>3. ASSUME NEW u \in slots'[i].assignments
          PROVE  /\ tensor_slots'[u].offset = slots'[i].offset
                 /\ lifetimes[u].nbytes <= slots'[i].size
      <4>1. CASE u = t
        BY <4>1, <3>1, <2>2, <2>4
      <4>2. CASE u # t
        BY <4>2, <3>1, <3>2, <2>2
      <4>. QED
        BY <4>1, <4>2
    <3>4. ASSUME NEW u \in slots'[i].assignments, NEW v \in slots'[i].assignments,
                 u # v
          PROVE  ~Overlaps(lifetimes[u], lifetimes[v])
      BY <3>1, <3>2, <3>4, <2>4
    <3>. QED
      BY <3>1, <3>2, <3>3, <3>4, <2>2
  <2>6. ASSUME NEW u \in DOMAIN tensor_slots'
        PROVE  /\ tensor_slots'[u].size = lifetimes[u].nbytes
               /\ \E i \in DOMAIN slots' : u \in slots'[i].assignments
    <3>1. CASE u = t
      BY <3>1, <2>1, <2>2
    <3>2. CASE u # t
      <4>1. u \in DOMAIN tensor_slots
        BY <3>2, <2>2
      <4>2. PICK i \in DOMAIN slots : u \in slots[i].assignments
        BY <4>1 DEF SlotInv
      <4>3. i \in DOMAIN slots' /\ u \in slots'[i].assignments
        BY <4>2, <2>1
      <4>. QED
        BY <4>1, <4>3, <3>2, <2>2 DEF SlotInv
    <3>. QED
      BY <3>1, <3>2
  <2>. QED
    BY <2>2, <2>5, <2>6 DEF SlotInv
<1>4. CASE Throw
  BY <1>4 DEF Throw, SlotInv
<1>5. CASE ReturnPlan
  BY <1>5 DEF ReturnPlan, SlotInv
<1>6. CASE UNCHANGED vars
  BY <1>6 DEF vars, SlotInv
<1>. QED
  BY <1>1, <1>2, <1>3, <1>4, <1>5, <1>6 DEF Next, ScanThrows, AlignThrows

\* A plan that has not wrapped after a step had not wrapped before it.
LEMMA NoWrapBack ==
    ASSUME Typed, NEW t \in pending, PlaceInNewSlot(t) \/ ReuseSlot(t), NoWrap'
    PROVE  NoWrap
<1>1. CASE PlaceInNewSlot(t)
  BY <1>1, NewSlotFacts DEF NoWrap
<1>2. CASE ReuseSlot(t)
  BY <1>2, ReuseSlotFacts DEF NoWrap
<1>. QED
  BY <1>1, <1>2

LEMMA ArenaStep == Typed /\ PlacedInv /\ ArenaInv /\ [Next]_vars => ArenaInv'
<1> SUFFICES ASSUME Typed, PlacedInv, ArenaInv, [Next]_vars PROVE ArenaInv'
  OBVIOUS
<1>1. CASE ScanProducer \/ ProducersDone \/ ScanConsumer \/ KeepOutputs
  <2>1. slots' = <<>>
    BY <1>1 DEF ScanProducer, ProducersDone, ScanConsumer, KeepOutputs, PlacedInv
  <2>. QED
    BY <2>1 DEF ArenaInv
<1>2. ASSUME NEW t \in pending, PlaceInNewSlot(t), NoWrap'
      PROVE  /\ \A i \in DOMAIN slots' : slots'[i].offset + slots'[i].size <= total_bytes'
             /\ \A i, j \in DOMAIN slots' :
                   i < j => slots'[i].offset + slots'[i].size <= slots'[j].offset
  <2> DEFINE n == Len(slots) + 1
             offset == AlignUp(total_bytes)
             size == lifetimes[t].nbytes
  <2>1. /\ n \in DOMAIN slots' /\ n \notin DOMAIN slots
        /\ DOMAIN slots' = DOMAIN slots \cup {n}
        /\ \A i \in DOMAIN slots : i < n /\ slots'[i] = slots[i]
        /\ slots'[n] = [offset |-> offset, size |-> size, assignments |-> {t}]
    BY <1>2, NewSlotFacts
  <2>2. /\ total_bytes \in Nat /\ offset \in Nat /\ offset >= total_bytes
    BY SizeAssumption, AlignUpFacts DEF Typed, TypeOK
  <2>3. size \in Nat /\ size \in 1..SizeMax
    BY LifetimeTyped DEF Typed, TypeOK
  <2>4. total_bytes' = Wrap(offset + size)
    BY <1>2 DEF PlaceInNewSlot
  <2>n. /\ Len(slots) \in Nat
        /\ DOMAIN slots = 1..Len(slots)
    BY DEF Typed, TypeOK
  <2> HIDE DEF n, offset, size
  <2>5. offset + size <= SizeMax
    BY <1>2, <2>1 DEF NoWrap
  <2>6. total_bytes' = offset + size
    BY <2>2, <2>3, <2>4, <2>5, SizeAssumption DEF Wrap
  <2>7. /\ \A i \in DOMAIN slots : slots[i].offset + slots[i].size <= total_bytes
        /\ \A i, j \in DOMAIN slots :
              i < j => slots[i].offset + slots[i].size <= slots[j].offset
    BY <1>2, NoWrapBack DEF ArenaInv
  <2>8. ASSUME NEW i \in DOMAIN slots
        PROVE  /\ slots[i].offset \in Nat /\ slots[i].size \in Nat
               /\ slots[i].offset + slots[i].size <= offset
    BY <2>2, <2>7, SlotTyped
  <2>9. \A i \in DOMAIN slots' : slots'[i].offset + slots'[i].size <= total_bytes'
    BY <2>1, <2>2, <2>3, <2>6, <2>8
  <2>10. ASSUME NEW i \in DOMAIN slots', NEW j \in DOMAIN slots', i < j
         PROVE  slots'[i].offset + slots'[i].size <= slots'[j].offset
    <3>1. i \in DOMAIN slots
      <4>1. n = Len(slots) + 1
        BY DEF n
      <4>. QED
        BY <4>1, <2>10, <2>1, <2>n
    <3>2. CASE j = n
      BY <3>1, <3>2, <2>1, <2>8
    <3>3. CASE j \in DOMAIN slots
      BY <3>1, <3>3, <2>1, <2>7, <2>10
    <3>. QED
      BY <3>2, <3>3, <2>1
  <2>. QED
    BY <2>9, <2>10
<1>3. ASSUME NEW t \in pending, ReuseSlot(t), NoWrap'
      PROVE  /\ \A i \in DOMAIN slots' : slots'[i].offset + slots'[i].size <= total_bytes'
             /\ \A i, j \in DOMAIN slots' :
                   i < j => slots'[i].offset + slots'[i].size <= slots'[j].offset
  <2>1. total_bytes' = total_bytes
    BY <1>3 DEF ReuseSlot
  <2>2. NoWrap
    BY <1>3, NoWrapBack
  <2>. QED
    BY <1>3, <2>1, <2>2, ReuseSlotFacts DEF ArenaInv
<1>4. CASE Throw
  BY <1>4 DEF Throw, ArenaInv, NoWrap
<1>5. CASE ReturnPlan
  BY <1>5 DEF ReturnPlan, ArenaInv, NoWrap
<1>6. CASE UNCHANGED vars
  BY <1>6 DEF vars, ArenaInv, NoWrap
<1>7. ASSUME NEW t \in pending, PlaceInNewSlot(t) \/ ReuseSlot(t) PROVE ArenaInv'
  BY <1>2, <1>3, <1>7 DEF ArenaInv
<1>. QED
  BY <1>1, <1>4, <1>5, <1>6, <1>7 DEF Next, ScanThrows, AlignThrows

LEMMA ReuseStep ==
    Typed /\ PlacedInv /\ ReuseInv /\ [Next]_vars => ReuseInv'
<1> SUFFICES ASSUME Typed, PlacedInv, ReuseInv, [Next]_vars PROVE ReuseInv'
  OBVIOUS
<1>1. CASE ScanProducer \/ ProducersDone \/ ScanConsumer \/ KeepOutputs
  <2>1. slots' = <<>>
    BY <1>1 DEF ScanProducer, ProducersDone, ScanConsumer, KeepOutputs, PlacedInv
  <2>. QED
    BY <2>1 DEF ReuseInv, NoNeedlessSlot
<1>2. ASSUME NEW t \in pending, PlaceInNewSlot(t) PROVE ReuseInv'
  <2> DEFINE n == Len(slots) + 1
  <2>1. /\ n \in DOMAIN slots' /\ n \notin DOMAIN slots
        /\ DOMAIN slots' = DOMAIN slots \cup {n}
        /\ \A i \in DOMAIN slots : slots'[i] = slots[i]
        /\ slots'[n] = [offset |-> AlignUp(total_bytes),
                        size |-> lifetimes[t].nbytes, assignments |-> {t}]
    BY <1>2, NewSlotFacts
  <2> HIDE DEF n
  <2>2. /\ pending' = pending \ {t} /\ lifetimes' = lifetimes
        /\ Candidates(t) = {} /\ NextInOrder(t)
    BY <1>2 DEF PlaceInNewSlot, Assign
  <2>3. \A u \in pending : lifetimes[u].nbytes \in Nat
    BY LifetimeTyped DEF Typed, TypeOK
  <2>4. \A u \in pending : lifetimes[u].nbytes <= lifetimes[t].nbytes
    BY <2>2, <2>3 DEF NextInOrder, Before
  <2>5. \A i \in DOMAIN slots' : \A u \in pending' : lifetimes'[u].nbytes <= slots'[i].size
    BY <2>1, <2>2, <2>4 DEF ReuseInv
  <2>6. ASSUME NEW i \in DOMAIN slots
        PROVE  \E u \in slots[i].assignments : /\ Overlaps(lifetimes[t], lifetimes[u])
                                               /\ Overlaps(lifetimes[u], lifetimes[t])
    <3>1. lifetimes[t].nbytes <= slots[i].size
      BY DEF ReuseInv
    <3>2. slots[i].size >= lifetimes[t].nbytes
      BY <3>1, <2>3, SlotTyped
    <3>3. ~ \A u \in slots[i].assignments : ~Overlaps(lifetimes[t], lifetimes[u])
      BY <2>2, <3>2 DEF Candidates
    <3>. QED
      BY <3>3, OverlapSymmetric
  <2>7. ASSUME NEW i \in DOMAIN slots', NEW j \in DOMAIN slots', i # j
        PROVE  \E u \in slots'[i].assignments, v \in slots'[j].assignments :
                  Overlaps(lifetimes[u], lifetimes[v])
    <3>1. CASE i = n
      BY <3>1, <2>1, <2>6, <2>7
    <3>2. CASE j = n
      BY <3>2, <2>1, <2>6, <2>7
    <3>3. CASE i # n /\ j # n
      BY <3>3, <2>1, <2>7 DEF ReuseInv, NoNeedlessSlot
    <3>. QED
      BY <3>1, <3>2, <3>3
  <2>. QED
    BY <2>2, <2>5, <2>7 DEF ReuseInv, NoNeedlessSlot
<1>3. ASSUME NEW t \in pending, ReuseSlot(t) PROVE ReuseInv'
  <2>1. /\ DOMAIN slots' = DOMAIN slots
        /\ \A j \in DOMAIN slots : /\ slots'[j].size = slots[j].size
                                   /\ slots[j].assignments \subseteq slots'[j].assignments
    BY <1>3, ReuseSlotFacts
  <2>2. pending' = pending \ {t} /\ lifetimes' = lifetimes
    BY <1>3 DEF ReuseSlot, Assign
  <2>3. ASSUME NEW i \in DOMAIN slots', NEW j \in DOMAIN slots', i # j
        PROVE  \E u \in slots'[i].assignments, v \in slots'[j].assignments :
                  Overlaps(lifetimes[u], lifetimes[v])
    BY <2>1, <2>3 DEF ReuseInv, NoNeedlessSlot
  <2>. QED
    BY <2>1, <2>2, <2>3 DEF ReuseInv, NoNeedlessSlot
<1>4. CASE Throw
  BY <1>4 DEF Throw, ReuseInv, NoNeedlessSlot
<1>5. CASE ReturnPlan
  BY <1>5 DEF ReturnPlan, ReuseInv, NoNeedlessSlot
<1>6. CASE UNCHANGED vars
  BY <1>6 DEF vars, ReuseInv, NoNeedlessSlot
<1>. QED
  BY <1>1, <1>2, <1>3, <1>4, <1>5, <1>6 DEF Next, ScanThrows, AlignThrows

-----------------------------------------------------------------------------
(* The inductive invariant and what follows from it *)

IInv == Typed /\ LifetimeInv /\ PlanInv

LEMMA Starts == WellFormed /\ Started => IInv
BY TypedInit, LifetimeInit, PlanInit DEF IInv

LEMMA Continues == IInv /\ [Next]_vars => IInv'
BY TypedStep, ProducersStep, ReadersStep, PlacedStep, SlotStep, ArenaStep, ReuseStep
   DEF IInv, LifetimeInv, PlanInv

LEMMA Inductive == Spec => []IInv
BY InitStarted, Starts, Continues, PTL DEF Spec

\* In any state of the invariant, lifetimes that overlap are apart in memory.
LEMMA OverlapDisjoint == IInv => LiveTensorsDisjoint
<1> SUFFICES ASSUME IInv, NoWrap,
                    NEW t \in DOMAIN tensor_slots, NEW u \in DOMAIN tensor_slots,
                    t # u, Overlaps(lifetimes[t], lifetimes[u])
             PROVE  SlotsDisjoint(t, u)
  BY DEF LiveTensorsDisjoint
<1>i. Typed /\ SlotInv /\ ArenaInv
  BY DEF IInv, PlanInv
<1>1. PICK i \in DOMAIN slots : t \in slots[i].assignments
  BY <1>i DEF SlotInv
<1>2. PICK j \in DOMAIN slots : u \in slots[j].assignments
  BY <1>i DEF SlotInv
<1>3. i # j
  BY <1>1, <1>2, <1>i DEF SlotInv
<1>4. /\ tensor_slots[t].offset = slots[i].offset /\ tensor_slots[t].size <= slots[i].size
      /\ tensor_slots[u].offset = slots[j].offset /\ tensor_slots[u].size <= slots[j].size
  BY <1>1, <1>2, <1>i DEF SlotInv
<1>5. /\ tensor_slots[t].size \in Nat /\ tensor_slots[u].size \in Nat
  BY <1>i, SizeAssumption DEF Typed, TypeOK
<1>6. /\ slots[i].offset \in Nat /\ slots[i].size \in Nat
      /\ slots[j].offset \in Nat /\ slots[j].size \in Nat
  BY <1>i, SlotTyped
<1>7. i < j \/ j < i
  <2>1. DOMAIN slots = 1..Len(slots) /\ Len(slots) \in Nat
    BY <1>i DEF Typed, TypeOK
  <2>. QED
    BY <2>1, <1>3
<1>8. \/ slots[i].offset + slots[i].size <= slots[j].offset
      \/ slots[j].offset + slots[j].size <= slots[i].offset
  BY <1>7, <1>i DEF ArenaInv
<1>. QED
  BY <1>4, <1>5, <1>6, <1>8 DEF SlotsDisjoint

LEMMA PlanKeepsReads == IInv => ReadsIntact
<1> SUFFICES ASSUME IInv, phase = "done", NoWrap,
                    NEW t \in DOMAIN tensor_slots, NEW u \in DOMAIN tensor_slots,
                    NEW d \in 1..NodeCount, NEW e \in 1..NodeCount,
                    t \in Outputs(d), u \in Outputs(e), d < e,
                    \/ t \in graph.output_names
                    \/ \E k \in 1..NodeCount : t \in Inputs(k) /\ e < k
             PROVE  SlotsDisjoint(t, u)
  BY DEF ReadsIntact
<1>i. Typed /\ ProducersInv /\ ReadersInv /\ NodeCount \in Nat
  BY NodeCountNat DEF IInv, LifetimeInv, Typed
<1>1. t \in DOMAIN lifetimes /\ u \in DOMAIN lifetimes
  BY <1>i DEF Typed, TypeOK
<1>2. lifetimes[t].first_use = d /\ lifetimes[u].first_use = e
  BY <1>i, <1>1 DEF ProducersInv, Scanned
<1>3. lifetimes[u].first_use <= lifetimes[u].last_use
  BY <1>i, <1>1 DEF ProducersInv
<1>4. /\ lifetimes[t].last_use \in Nat /\ lifetimes[u].last_use \in Nat
  BY <1>i, <1>1, LifetimeTyped
<1>5. lifetimes[t].last_use > e
  <2>1. CASE t \in graph.output_names
    BY <2>1, <1>i, <1>1 DEF ReadersInv
  <2>2. CASE \E k \in 1..NodeCount : t \in Inputs(k) /\ e < k
    <3>1. PICK k \in 1..NodeCount : t \in Inputs(k) /\ e < k
      BY <2>2
    <3>2. k <= lifetimes[t].last_use
      BY <3>1, <1>i, <1>1 DEF ReadersInv
    <3>. QED
      BY <3>1, <3>2, <1>4, <1>i
  <2>. QED
    BY <2>1, <2>2
<1>6. Overlaps(lifetimes[t], lifetimes[u])
  BY <1>2, <1>3, <1>4, <1>5 DEF Overlaps
<1>7. t # u
  BY <1>2
<1>. QED
  BY <1>6, <1>7, OverlapDisjoint DEF LiveTensorsDisjoint

LEMMA PlanFitsArena == IInv => WithinArena
<1> SUFFICES ASSUME IInv, NoWrap, NEW t \in DOMAIN tensor_slots
             PROVE  /\ tensor_slots[t].offset % Alignment = 0
                    /\ tensor_slots[t].offset + tensor_slots[t].size <= total_bytes
  BY DEF WithinArena
<1>i. Typed /\ SlotInv /\ ArenaInv
  BY DEF IInv, PlanInv
<1>1. PICK i \in DOMAIN slots : t \in slots[i].assignments
  BY <1>i DEF SlotInv
<1>2. /\ tensor_slots[t].offset = slots[i].offset /\ tensor_slots[t].size <= slots[i].size
      /\ slots[i].offset % Alignment = 0
  BY <1>1, <1>i DEF SlotInv
<1>3. /\ tensor_slots[t].size \in Nat /\ slots[i].offset \in Nat
      /\ slots[i].size \in Nat /\ total_bytes \in Nat
  BY <1>i, SlotTyped, SizeAssumption DEF Typed, TypeOK
<1>4. slots[i].offset + slots[i].size <= total_bytes
  BY <1>i DEF ArenaInv
<1>. QED
  BY <1>2, <1>3, <1>4

LEMMA PlanCovers == IInv => PlanComplete
<1> SUFFICES ASSUME IInv, phase = "done" PROVE
        /\ DOMAIN tensor_slots = UNION {Plannable(n) : n \in 1..NodeCount}
        /\ \A t \in DOMAIN tensor_slots :
              tensor_slots[t].size = TensorBytes(graph.value_info[t])
  BY DEF PlanComplete
<1>i. ProducersInv /\ PlacedInv /\ SlotInv
  BY DEF IInv, LifetimeInv, PlanInv
<1>1. DOMAIN tensor_slots = DOMAIN lifetimes
  BY <1>i DEF PlacedInv
<1>. QED
  BY <1>1, <1>i DEF ProducersInv, Scanned, SlotInv

\* Tensors whose lifetimes overlap have no byte of the arena in common, in
\* every state of every planning of every graph, unless total_bytes wrapped.
THEOREM LiveTensorsAreDisjoint == Spec => []LiveTensorsDisjoint
BY Inductive, OverlapDisjoint, PTL

\* A returned plan never lets a node overwrite a tensor that was produced
\* before it and is read after it, or that is a graph output: what
\* materialize_node_outputs needs of the plan when each node has run.
THEOREM PlannedReadsAreIntact == Spec => []ReadsIntact
BY Inductive, PlanKeepsReads, PTL

\* Planned tensors are 64-byte aligned and end within total_bytes.
THEOREM PlanIsWithinArena == Spec => []WithinArena
BY Inductive, PlanFitsArena, PTL

\* Any two slots hold tensors whose lifetimes overlap: nothing was given new
\* memory that could have reused a slot.
THEOREM NoSlotIsNeedless == Spec => []NoNeedlessSlot
<1>1. IInv => NoNeedlessSlot
  BY DEF IInv, PlanInv, ReuseInv
<1>. QED
  BY <1>1, Inductive, PTL

\* A returned plan has exactly one slot, of exactly its size, for each
\* produced tensor whose size is known and not zero.
THEOREM PlanIsComplete == Spec => []PlanComplete
BY Inductive, PlanCovers, PTL
=============================================================================
