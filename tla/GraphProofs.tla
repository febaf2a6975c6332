---------------------------- MODULE GraphProofs ----------------------------
(***************************************************************************)
(* Proofs about Graph, for every list of nodes over every set of names.    *)
(***************************************************************************)
EXTENDS Graph, RecursionProofs

OpNode == [inputs : Seq(Tensor), outputs : Seq(Tensor)]

-----------------------------------------------------------------------------
(* Facts about the queue and the counters *)

\* A set of indices is finite.
LEMMA IndicesFinite ==
    ASSUME NEW n \in Nat, NEW S \in SUBSET (1..n)
    PROVE  IsFiniteSet(S)
<1>1. IsFiniteSet(1..n)
  BY FS_Interval
<1>. QED
  BY <1>1, FS_Subset

\* A priority queue of indices that is not empty has a first element: among
\* the sets of what comes before each element, one has no smaller one.
LEMMA TopFacts ==
    ASSUME NEW n \in Nat, NEW S \in SUBSET (1..n), S # {}
    PROVE  Min(S) \in S /\ \A y \in S : Min(S) <= y
<1> DEFINE Less(x) == {y \in S : y < x}
           T == {Less(x) : x \in S}
<1>2. T \subseteq FiniteSubsetsOf(S) /\ T # {}
  <2>1. \A M \in SUBSET S : IsFiniteSet(M)
    BY IndicesFinite
  <2>. QED
    BY <2>1 DEF FiniteSubsetsOf
<1>3. PICK L \in T : \A M \in T : <<M, L>> \notin StrictSubsetOrdering(S)
  BY <1>2, FS_StrictSubsetOrderingWellFounded, WFMin
<1>4. PICK x \in S : L = Less(x)
  BY <1>3
<1>5. ASSUME NEW y \in S, y < x PROVE FALSE
  <2>1. \A z \in S : z \in Int
    OBVIOUS
  <2>2. Less(y) \subseteq Less(x) /\ y \in Less(x) /\ y \notin Less(y)
    <3>1. ASSUME NEW z \in Less(y) PROVE z \in Less(x)
      BY <3>1, <1>5, <2>1
    <3>2. y \in Less(x)
      BY <1>5
    <3>3. ~(y < y)
      BY <2>1
    <3>. QED
      BY <3>1, <3>2, <3>3
  <2>3. <<Less(y), Less(x)>> \in StrictSubsetOrdering(S)
    BY <2>2 DEF StrictSubsetOrdering
  <2>. QED
    BY <2>3, <1>3, <1>4
<1>6. \A y \in S : x <= y
  BY <1>5
<1>. QED
  BY <1>6 DEF Min

\* The dependencies of a node, less those in any set, can be counted; none is
\* left exactly if the count is 0.
LEMMA CountFacts ==
    ASSUME NEW n \in Nat, NEW S \in SUBSET (1..n)
    PROVE  /\ IsFiniteSet(S)
           /\ Cardinality(S) \in Nat
           /\ Cardinality(S) = 0 <=> S = {}
           /\ \A x : Cardinality(S \ {x}) =
                       IF x \in S THEN Cardinality(S) - 1 ELSE Cardinality(S)
<1>1. IsFiniteSet(S)
  BY IndicesFinite
<1>. QED
  BY <1>1, FS_CardinalityType, FS_EmptySet, FS_RemoveElement

-----------------------------------------------------------------------------
(* The inductive invariant *)

Scanned(i) == phase = "producers" => i < index

Typed ==
    /\ nodes \in Seq(OpNode)
    /\ phase \in {"producers", "dependencies", "sorting", "sorted", "thrown"}
    /\ index \in 1..Len(nodes) + 1
    /\ DOMAIN producer \subseteq Tensor
    /\ \A t \in DOMAIN producer : producer[t] \in Nodes
    /\ indegree \in [Nodes -> Nat]
    /\ consumers \in [Nodes -> SUBSET Nodes]
    /\ ready \subseteq Nodes
    /\ sorted \in Seq(Nodes)

\* The index has the outputs of the nodes scanned so far, and nothing else.
ProducerInv ==
    phase \in {"producers", "dependencies", "sorting"} =>
        /\ \A i \in Nodes : Scanned(i) =>
             \A t \in Range(nodes[i].outputs) : t \in DOMAIN producer /\ producer[t] = i
        /\ \A t \in DOMAIN producer : t \in Range(nodes[producer[t]].outputs)

\* The second loop knows the dependencies of the nodes it has been through, and
\* nothing is queued or sorted before it ends.
CountInv ==
    /\ phase \in {"producers", "dependencies"} => ready = {} /\ sorted = <<>>
    /\ phase = "producers" => \A p \in Nodes : consumers[p] = {}
    /\ phase = "dependencies" =>
         \A i \in Nodes :
            /\ i < index => indegree[i] = Cardinality(Dependencies(i))
            /\ \A p \in Nodes : i \in consumers[p] <=> i < index /\ p \in Dependencies(i)

\* While the queue is emptied, a counter says how many dependencies are still
\* to come; the queue holds the nodes that wait for none, and what is sorted
\* has its dependencies before it.
QueueInv ==
    /\ IsInjective(sorted)
    /\ ready \cap Range(sorted) = {}
    /\ phase = "sorting" =>
         /\ \A i, p \in Nodes : i \in consumers[p] <=> p \in Dependencies(i)
         /\ \A i \in Nodes : indegree[i] = Cardinality(Dependencies(i) \ Range(sorted))
         /\ ready = {i \in Nodes \ Range(sorted) : indegree[i] = 0}
         /\ \A k \in DOMAIN sorted : \A p \in Dependencies(sorted[k]) :
              \E j \in 1..k-1 : sorted[j] = p

\* Of the nodes scanned so far no two outputs are the same tensor.
OnceInv ==
    phase # "thrown" =>
        \A p, q \in Nodes : Scanned(p) /\ Scanned(q) =>
            \A a \in DOMAIN nodes[p].outputs, b \in DOMAIN nodes[q].outputs :
                nodes[p].outputs[a] = nodes[q].outputs[b] => p = q /\ a = b

\* The index knows no node that is not scanned yet.
IndexedInv ==
    phase = "producers" => \A t \in DOMAIN producer : producer[t] < index

\* The sort throws for a reason.
ThrownInv == phase = "thrown" => Order!ProducedTwice(nodes) \/ HasCycle

IInv ==
    /\ Typed /\ ProducerInv /\ IndexedInv /\ OnceInv
    /\ CountInv /\ QueueInv /\ ProducersFirst /\ ThrownInv

-----------------------------------------------------------------------------
(* Dependencies *)

\* The dependencies of a node are other nodes.
LEMMA DependenciesTyped ==
    ASSUME Typed, NEW i \in Nodes
    PROVE  Dependencies(i) \subseteq Nodes \ {i}
BY DEF Typed, Dependencies

\* Nodes are numbered from 1.
LEMMA NodesFacts ==
    ASSUME Typed
    PROVE  Len(nodes) \in Nat /\ Nodes = 1..Len(nodes)
BY DEF Typed, Nodes

\* A node depends on another one if it reads one of its outputs.
LEMMA DependsOnFacts ==
    \A list : \A i, p :
        Order!DependsOn(list, i, p) <=>
            p # i /\ \E t \in Range(list[p].outputs) : t \in Range(list[i].inputs)
BY DEF Order!DependsOn, Order!Range, Range

\* When all outputs are in the index, the dependencies the code computes are
\* the nodes whose outputs are read.
LEMMA DependenciesMeaning ==
    ASSUME Typed, ProducerInv, phase \in {"dependencies", "sorting"},
           NEW i \in Nodes, NEW p \in Nodes
    PROVE  p \in Dependencies(i) <=> Order!DependsOn(nodes, i, p)
<1>1. ASSUME p \in Dependencies(i) PROVE Order!DependsOn(nodes, i, p)
  <2>1. PICK t \in Range(nodes[i].inputs) \cap DOMAIN producer : p = producer[t]
    BY <1>1 DEF Dependencies
  <2>. QED
    BY <1>1, <2>1, DependsOnFacts DEF ProducerInv, Dependencies
<1>2. ASSUME Order!DependsOn(nodes, i, p) PROVE p \in Dependencies(i)
  <2>1. PICK t \in Range(nodes[i].inputs) : t \in Range(nodes[p].outputs)
    BY <1>2, DependsOnFacts
  <2>2. t \in DOMAIN producer /\ producer[t] = p
    BY <2>1 DEF ProducerInv, Scanned
  <2>. QED
    BY <1>2, <2>1, <2>2, DependsOnFacts DEF Dependencies
<1>. QED
  BY <1>1, <1>2

-----------------------------------------------------------------------------
(* Types *)

LEMMA TypedInit == Init => Typed
<1> SUFFICES ASSUME Init PROVE Typed
  OBVIOUS
<1>1. nodes \in Seq(OpNode)
  BY NodeListsAssumption DEF Init, OpNode
<1>2. Len(nodes) \in Nat
  BY <1>1
<1>. QED
  BY <1>1, <1>2 DEF Init, Typed, Nodes

\* The first node of the queue.
LEMMA TopInQueue ==
    ASSUME Typed, ready # {}
    PROVE  /\ Top \in ready /\ Top \in Nodes
           /\ \A i \in ready : Top <= i
BY TopFacts, NodesFacts DEF Typed, Top

LEMMA TypedIndexOutputs == Typed /\ IndexOutputs => Typed'
<1> SUFFICES ASSUME Typed, IndexOutputs PROVE Typed'
  OBVIOUS
<1>1. Len(nodes) \in Nat /\ Nodes = 1..Len(nodes) /\ nodes[index] \in OpNode
  BY NodesFacts DEF Typed, IndexOutputs
<1>2. Range(nodes[index].outputs) \subseteq Tensor
  BY <1>1 DEF OpNode, Range
<1>3. DOMAIN producer' = DOMAIN producer \cup Range(nodes[index].outputs)
  BY DEF IndexOutputs
<1>4. \A t \in DOMAIN producer' : producer'[t] \in Nodes
  BY <1>3 DEF IndexOutputs, Typed
<1>. QED
  BY <1>1, <1>2, <1>3, <1>4 DEF Typed, IndexOutputs, Nodes

LEMMA TypedCountDependencies == Typed /\ CountDependencies => Typed'
<1> SUFFICES ASSUME Typed, CountDependencies PROVE Typed'
  OBVIOUS
<1>1. Len(nodes) \in Nat /\ Nodes = 1..Len(nodes) /\ index \in Nodes
  BY NodesFacts DEF CountDependencies
<1>2. Indegree(index) \in Nat
  BY <1>1, DependenciesTyped, CountFacts DEF Indegree
<1>3. indegree' \in [Nodes -> Nat]
  BY <1>1, <1>2 DEF Typed, CountDependencies
<1>4. consumers' \in [Nodes -> SUBSET Nodes]
  BY <1>1 DEF Typed, CountDependencies
<1>. QED
  BY <1>1, <1>3, <1>4 DEF Typed, CountDependencies, Nodes

LEMMA TypedReplaceNodes == Typed /\ ReplaceNodes => Typed'
<1> SUFFICES ASSUME Typed, ReplaceNodes PROVE Typed'
  OBVIOUS
<1>1. Len(nodes) \in Nat /\ Nodes = 1..Len(nodes) /\ Len(sorted) = Len(nodes)
  BY NodesFacts DEF ReplaceNodes
<1>2. \A k \in 1..Len(nodes) : nodes[sorted[k]] \in OpNode
  <2>1. sorted \in Seq(Nodes) /\ nodes \in Seq(OpNode)
    BY DEF Typed
  <2>2. \A k \in 1..Len(nodes) : sorted[k] \in Nodes
    BY <1>1, <2>1
  <2>. QED
    BY <1>1, <2>1, <2>2
<1>3. DOMAIN sorted = 1..Len(nodes)
  BY <1>1 DEF Typed
<1>4. nodes' \in Seq(OpNode) /\ Len(nodes') = Len(nodes)
  BY <1>1, <1>2, <1>3 DEF ReplaceNodes
<1>5. Nodes' = Nodes
  BY <1>1, <1>4 DEF Nodes
<1>. QED
  BY <1>4, <1>5 DEF Typed, ReplaceNodes

\* A counter that is decreased is positive: the node has a dependency left.
LEMMA TypedPop ==
    ASSUME Typed, QueueInv, Pop
    PROVE  Typed'
<1>1. Top \in ready /\ Top \in Nodes /\ Top \notin Range(sorted)
  BY TopInQueue DEF Pop, QueueInv
<1>2. Len(nodes) \in Nat /\ Nodes = 1..Len(nodes) /\ Nodes' = Nodes
  BY NodesFacts DEF Pop, Nodes
<1>3. ASSUME NEW i \in consumers[Top] PROVE indegree[i] - 1 \in Nat
  <2>1. i \in Nodes /\ Top \in Dependencies(i) \ Range(sorted)
    BY <1>1, <1>3 DEF QueueInv, Pop, Typed
  <2>2. Dependencies(i) \ Range(sorted) \in SUBSET (1..Len(nodes))
    BY <2>1, <1>2, DependenciesTyped
  <2>. DEFINE waiting == Dependencies(i) \ Range(sorted)
  <2>3. Cardinality(waiting) \in Nat /\ Cardinality(waiting) # 0
    BY <2>1, <2>2, <1>2, CountFacts
  <2>4. indegree[i] = Cardinality(waiting)
    BY <2>1 DEF QueueInv, Pop
  <2>. QED
    BY <2>3, <2>4
<1>4. indegree' \in [Nodes -> Nat]
  BY <1>3 DEF Typed, Pop
<1>5. ready' \subseteq Nodes
  BY <1>1 DEF Typed, Pop
<1>6. sorted' \in Seq(Nodes)
  BY <1>1 DEF Typed, Pop
<1>. QED
  BY <1>2, <1>4, <1>5, <1>6 DEF Typed, Pop

LEMMA TypedStep == Typed /\ QueueInv /\ [Next]_vars => Typed'
<1> SUFFICES ASSUME Typed, QueueInv, [Next]_vars PROVE Typed'
  OBVIOUS
<1>0. Len(nodes) \in Nat /\ Nodes = 1..Len(nodes)
  BY NodesFacts
<1>1. CASE IndexOutputs
  BY <1>1, TypedIndexOutputs
<1>2. CASE DuplicateThrows
  BY <1>2 DEF DuplicateThrows, Throw, Typed, Nodes
<1>3. CASE ProducersDone
  BY <1>3, <1>0 DEF ProducersDone, Typed, Nodes
<1>4. CASE CountDependencies
  BY <1>4, TypedCountDependencies
<1>5. CASE SeedReady
  BY <1>5 DEF SeedReady, Typed, Nodes
<1>6. CASE Pop
  BY <1>6, TypedPop
<1>7. CASE CycleThrows
  BY <1>7 DEF CycleThrows, Throw, Typed, Nodes
<1>8. CASE ReplaceNodes
  BY <1>8, TypedReplaceNodes
<1>9. CASE UNCHANGED vars
  BY <1>9 DEF vars, Typed, Nodes
<1>. QED
  BY <1>1, <1>2, <1>3, <1>4, <1>5, <1>6, <1>7, <1>8, <1>9 DEF Next

-----------------------------------------------------------------------------
(* The index of producers and the counters *)

LEMMA ProducerStep == Typed /\ ProducerInv /\ [Next]_vars => ProducerInv'
<1> SUFFICES ASSUME Typed, ProducerInv, [Next]_vars PROVE ProducerInv'
  OBVIOUS
<1>0. Len(nodes) \in Nat /\ Nodes = 1..Len(nodes) /\ index \in Nat
  BY NodesFacts DEF Typed
<1>1. CASE IndexOutputs
  <2>1. index \in Nodes /\ Range(nodes[index].outputs) \cap DOMAIN producer = {}
    BY <1>1 DEF IndexOutputs, Duplicate
  <2>2. DOMAIN producer' = DOMAIN producer \cup Range(nodes[index].outputs)
    BY <1>1 DEF IndexOutputs
  <2>3. \A t \in DOMAIN producer' :
          producer'[t] = IF t \in DOMAIN producer THEN producer[t] ELSE index
    BY <1>1, <2>2 DEF IndexOutputs
  <2>4. nodes' = nodes /\ Nodes' = Nodes /\ phase = "producers" /\ phase' = "producers"
        /\ index' = index + 1
    BY <1>1 DEF IndexOutputs, Nodes
  <2>5. ASSUME NEW i \in Nodes, i < index + 1, NEW t \in Range(nodes[i].outputs)
        PROVE  t \in DOMAIN producer' /\ producer'[t] = i
    <3>1. CASE i = index
      BY <3>1, <2>1, <2>2, <2>3, <2>5
    <3>2. CASE i # index
      <4>1. Scanned(i)
        BY <3>2, <2>5, <1>0 DEF Scanned
      <4>. QED
        BY <4>1, <2>2, <2>3, <2>4, <2>5 DEF ProducerInv
    <3>. QED
      BY <3>1, <3>2
  <2>6. \A t \in DOMAIN producer' : t \in Range(nodes[producer'[t]].outputs)
    BY <2>2, <2>3, <2>4 DEF ProducerInv
  <2>. QED
    BY <2>4, <2>5, <2>6 DEF ProducerInv, Scanned
<1>2. CASE ProducersDone
  <2>1. \A i \in Nodes : i < index
    BY <1>2, <1>0 DEF ProducersDone, Typed
  <2>. QED
    BY <1>2, <2>1 DEF ProducersDone, ProducerInv, Scanned, Nodes
<1>3. CASE DuplicateThrows \/ CycleThrows \/ ReplaceNodes
  BY <1>3 DEF DuplicateThrows, CycleThrows, ReplaceNodes, Throw, ProducerInv
<1>4. CASE CountDependencies \/ SeedReady \/ Pop
  BY <1>4 DEF CountDependencies, SeedReady, Pop, ProducerInv, Scanned, Nodes
<1>5. CASE UNCHANGED vars
  BY <1>5 DEF vars, ProducerInv, Scanned, Nodes
<1>. QED
  BY <1>1, <1>2, <1>3, <1>4, <1>5 DEF Next

LEMMA CountStep == Typed /\ CountInv /\ [Next]_vars => CountInv'
<1> SUFFICES ASSUME Typed, CountInv, [Next]_vars PROVE CountInv'
  OBVIOUS
<1>0. Len(nodes) \in Nat /\ Nodes = 1..Len(nodes) /\ index \in Nat
  BY NodesFacts DEF Typed
<1>1. CASE IndexOutputs
  BY <1>1 DEF IndexOutputs, CountInv, Nodes
<1>2. CASE ProducersDone
  <2>1. \A i \in Nodes : ~(i < 1)
    BY <1>0
  <2>2. /\ phase = "producers" /\ phase' = "dependencies" /\ index' = 1
        /\ Nodes' = Nodes /\ UNCHANGED <<ready, sorted, consumers>>
    BY <1>2 DEF ProducersDone, Nodes
  <2>. QED
    BY <2>1, <2>2 DEF CountInv
<1>3. CASE CountDependencies
  <2>1. /\ phase = "dependencies" /\ phase' = phase /\ index' = index + 1
        /\ nodes' = nodes /\ producer' = producer /\ Nodes' = Nodes
        /\ UNCHANGED <<ready, sorted>> /\ index \in Nodes
    BY <1>3 DEF CountDependencies, Nodes
  <2>2. \A i : Dependencies(i)' = Dependencies(i)
    BY <2>1 DEF Dependencies
  <2>3. ASSUME NEW i \in Nodes, i < index + 1
        PROVE  indegree'[i] = Cardinality(Dependencies(i))
    <3>1. CASE i = index
      BY <3>1, <1>3 DEF CountDependencies, Indegree, Typed
    <3>2. CASE i # index
      BY <3>2, <2>3, <2>1, <1>0, <1>3 DEF CountDependencies, CountInv, Typed
    <3>. QED
      BY <3>1, <3>2
  <2>4. ASSUME NEW i \in Nodes, NEW p \in Nodes
        PROVE  i \in consumers'[p] <=> i < index + 1 /\ p \in Dependencies(i)
    <3>1. consumers'[p] = IF p \in Dependencies(index) THEN consumers[p] \cup {index}
                          ELSE consumers[p]
      BY <1>3 DEF CountDependencies
    <3>2. i \in consumers[p] <=> i < index /\ p \in Dependencies(i)
      BY <2>1 DEF CountInv
    <3>. QED
      BY <3>1, <3>2, <1>0
  <2>. QED
    BY <2>1, <2>2, <2>3, <2>4 DEF CountInv
<1>4. CASE SeedReady \/ Pop \/ ReplaceNodes
  BY <1>4 DEF SeedReady, Pop, ReplaceNodes, CountInv
<1>5. CASE DuplicateThrows \/ CycleThrows
  BY <1>5 DEF DuplicateThrows, CycleThrows, Throw, CountInv
<1>6. CASE UNCHANGED vars
  <2>1. \A i : Dependencies(i)' = Dependencies(i)
    BY <1>6 DEF vars, Dependencies
  <2>. QED
    BY <1>6, <2>1 DEF vars, CountInv, Nodes
<1>. QED
  BY <1>1, <1>2, <1>3, <1>4, <1>5, <1>6 DEF Next

-----------------------------------------------------------------------------
(* The queue *)

\* When the counting is over, the queue gets the nodes without dependencies.
LEMMA QueueSeed ==
    ASSUME Typed, CountInv, QueueInv, SeedReady
    PROVE  QueueInv'
<1>1. /\ phase = "dependencies" /\ phase' = "sorting" /\ sorted = <<>>
      /\ UNCHANGED <<nodes, producer, indegree, consumers, sorted>>
      /\ ready' = {i \in Nodes : indegree[i] = 0}
  BY DEF SeedReady, CountInv
<1>2. Nodes' = Nodes /\ Range(sorted) = {} /\ DOMAIN sorted = {}
  BY <1>1 DEF Nodes, Range
<1>3. \A i : Dependencies(i)' = Dependencies(i)
  BY <1>1 DEF Dependencies
<1>4. \A i \in Nodes : i < index
  BY NodesFacts DEF SeedReady, Typed
<1>5. \A i, p \in Nodes : i \in consumers[p] <=> p \in Dependencies(i)
  BY <1>1, <1>4 DEF CountInv
<1>6. \A i \in Nodes : indegree[i] = Cardinality(Dependencies(i) \ Range(sorted))
  <2>1. \A i \in Nodes : Dependencies(i) \ Range(sorted) = Dependencies(i)
    BY <1>2
  <2>2. \A i \in Nodes : indegree[i] = Cardinality(Dependencies(i))
    BY <1>1, <1>4 DEF CountInv
  <2>. QED
    BY <2>1, <2>2
<1>. QED
  BY <1>1, <1>2, <1>3, <1>5, <1>6 DEF QueueInv

\* What is appended is the last element.
LEMMA AppendFacts ==
    ASSUME NEW S, NEW s \in Seq(S), NEW x \in S
    PROVE  /\ Len(Append(s, x)) = Len(s) + 1 /\ Len(s) \in Nat
           /\ DOMAIN Append(s, x) = 1..Len(s) + 1 /\ DOMAIN s = 1..Len(s)
           /\ \A k \in 1..Len(s) : Append(s, x)[k] = s[k]
           /\ Append(s, x)[Len(s) + 1] = x
           /\ Range(Append(s, x)) = Range(s) \cup {x}
<1>1. /\ Len(Append(s, x)) = Len(s) + 1 /\ Len(s) \in Nat
      /\ DOMAIN Append(s, x) = 1..Len(s) + 1 /\ DOMAIN s = 1..Len(s)
      /\ \A k \in 1..Len(s) : Append(s, x)[k] = s[k]
      /\ Append(s, x)[Len(s) + 1] = x
  OBVIOUS
<1>2. Range(Append(s, x)) \subseteq Range(s) \cup {x}
  <2>1. \A k \in 1..Len(s) + 1 : k \in 1..Len(s) \/ k = Len(s) + 1
    BY <1>1
  <2>. QED
    BY <1>1, <2>1 DEF Range
<1>3. \A y \in Range(s) : y \in Range(Append(s, x))
  <2>1. \A k \in 1..Len(s) : k \in 1..Len(s) + 1
    BY <1>1
  <2>. QED
    BY <1>1, <2>1 DEF Range
<1>4. x \in Range(Append(s, x))
  <2>1. Len(s) + 1 \in 1..Len(s) + 1
    BY <1>1
  <2>. QED
    BY <1>1, <2>1 DEF Range
<1>. QED
  BY <1>1, <1>2, <1>3, <1>4

\* The node that is popped has all its dependencies before it, and its
\* consumers wait for one node less.
LEMMA QueuePop ==
    ASSUME Typed, QueueInv, Pop
    PROVE  QueueInv'
<1>1. /\ Top \in ready /\ Top \in Nodes /\ Top \notin Range(sorted)
      /\ phase = "sorting" /\ phase' = "sorting" /\ sorted' = Append(sorted, Top)
      /\ UNCHANGED <<nodes, producer, consumers>>
  BY TopInQueue DEF Pop, QueueInv
<1>2. Nodes' = Nodes /\ Len(nodes) \in Nat /\ Nodes = 1..Len(nodes)
  BY <1>1, NodesFacts DEF Nodes
<1>3. \A i : Dependencies(i)' = Dependencies(i)
  BY <1>1 DEF Dependencies
<1>4. /\ Len(sorted) \in Nat
      /\ DOMAIN sorted' = 1..Len(sorted) + 1 /\ DOMAIN sorted = 1..Len(sorted)
      /\ \A k \in 1..Len(sorted) : sorted'[k] = sorted[k]
      /\ sorted'[Len(sorted) + 1] = Top
      /\ Range(sorted') = Range(sorted) \cup {Top}
  BY <1>1, AppendFacts DEF Typed
<1>5. \A i, p \in Nodes : i \in consumers[p] <=> p \in Dependencies(i)
  BY <1>1 DEF QueueInv
<1>. DEFINE Waiting(i) == Dependencies(i) \ Range(sorted)
<1>6. \A i \in Nodes : /\ Waiting(i) \in SUBSET (1..Len(nodes))
                       /\ indegree[i] = Cardinality(Waiting(i))
  BY <1>1, <1>2, DependenciesTyped DEF QueueInv
<1>. HIDE DEF Waiting
<1>7. ASSUME NEW i \in Nodes
      PROVE  /\ Cardinality(Waiting(i) \ {Top}) = indegree'[i]
             /\ indegree[i] = 0 <=> Waiting(i) = {}
             /\ indegree[i] \in Nat
  <2>1. Top \in Waiting(i) <=> i \in consumers[Top]
    BY <1>1, <1>5 DEF Waiting
  <2>2. indegree'[i] = IF i \in consumers[Top] THEN indegree[i] - 1 ELSE indegree[i]
    BY DEF Pop
  <2>3. /\ Cardinality(Waiting(i)) = 0 <=> Waiting(i) = {}
        /\ Cardinality(Waiting(i) \ {Top}) =
              IF Top \in Waiting(i) THEN Cardinality(Waiting(i)) - 1
                                    ELSE Cardinality(Waiting(i))
        /\ Cardinality(Waiting(i)) \in Nat
    BY <1>2, <1>6, CountFacts
  <2>. QED
    BY <2>1, <2>2, <2>3, <1>6
<1>8. \A i \in Nodes : indegree'[i] = Cardinality(Dependencies(i) \ Range(sorted'))
  <2>1. \A i \in Nodes : Waiting(i) \ {Top} = Dependencies(i) \ Range(sorted')
    BY <1>4 DEF Waiting
  <2>. QED
    BY <2>1, <1>7
<1>9. \A k \in DOMAIN sorted : Dependencies(sorted[k]) \subseteq Range(sorted)
  <2>1. ASSUME NEW k \in DOMAIN sorted, NEW p \in Dependencies(sorted[k])
        PROVE  p \in Range(sorted)
    <3>1. PICK j \in 1..k-1 : sorted[j] = p
      BY <1>1, <2>1 DEF QueueInv
    <3>2. j \in DOMAIN sorted
      BY <1>4, <3>1
    <3>. QED
      BY <3>1, <3>2 DEF Range
  <2>. QED
    BY <2>1
<1>10. ready' = {i \in Nodes \ Range(sorted') : indegree'[i] = 0}
  <2>0. ready = {i \in Nodes \ Range(sorted) : indegree[i] = 0}
    BY <1>1 DEF QueueInv
  <2>1. ready' = (ready \ {Top}) \cup {i \in consumers[Top] : indegree[i] = 1}
    BY DEF Pop
  <2>2. ASSUME NEW i \in ready, i # Top
        PROVE  i \in Nodes \ Range(sorted') /\ indegree'[i] = 0
    <3>1. i \in Nodes /\ Waiting(i) = {} /\ i \notin consumers[Top]
      BY <2>0, <2>2, <1>1, <1>5, <1>7 DEF Waiting
    <3>. QED
      BY <3>1, <2>0, <2>2, <1>4 DEF Pop
  <2>3. ASSUME NEW i \in consumers[Top], indegree[i] = 1
        PROVE  i \in Nodes \ Range(sorted') /\ indegree'[i] = 0
    <3>1. i \in Nodes /\ Top \in Dependencies(i)
      BY <2>3, <1>1, <1>5 DEF Typed
    <3>2. i # Top
      BY <3>1 DEF Dependencies
    <3>3. i \notin Range(sorted)
      BY <3>1, <1>1, <1>9 DEF Range
    <3>. QED
      BY <3>1, <3>2, <3>3, <2>3, <1>4 DEF Pop
  <2>4. ASSUME NEW i \in Nodes \ Range(sorted'), indegree'[i] = 0
        PROVE  i \in ready'
    <3>1. i # Top /\ i \notin Range(sorted)
      BY <2>4, <1>4
    <3>2. CASE i \in consumers[Top]
      <4>1. indegree[i] = 1
        BY <3>2, <2>4, <1>7 DEF Pop
      <4>. QED
        BY <4>1, <3>2, <2>1
    <3>3. CASE i \notin consumers[Top]
      BY <3>1, <3>3, <2>0, <2>1, <2>4 DEF Pop
    <3>. QED
      BY <3>2, <3>3
  <2>. QED
    BY <2>1, <2>2, <2>3, <2>4
<1>11. ASSUME NEW k \in DOMAIN sorted', NEW p \in Dependencies(sorted'[k])
       PROVE  \E j \in 1..k-1 : sorted'[j] = p
  <2>1. CASE k \in DOMAIN sorted
    <3>1. PICK j \in 1..k-1 : sorted[j] = p
      BY <2>1, <1>1, <1>4, <1>11 DEF QueueInv
    <3>2. j \in 1..Len(sorted)
      BY <2>1, <3>1, <1>4
    <3>. QED
      BY <3>1, <3>2, <1>4
  <2>2. CASE k = Len(sorted) + 1
    <3>1. indegree[Top] = 0
      BY <1>1 DEF QueueInv
    <3>2. p \in Range(sorted)
      BY <2>2, <3>1, <1>1, <1>4, <1>7, <1>11 DEF Waiting
    <3>3. PICK j \in DOMAIN sorted : sorted[j] = p
      BY <3>2 DEF Range
    <3>. QED
      BY <2>2, <3>3, <1>4
  <2>. QED
    BY <2>1, <2>2, <1>4
<1>12. IsInjective(sorted')
  <2>1. \A k \in 1..Len(sorted) : sorted[k] # Top
    BY <1>1, <1>4 DEF Range
  <2>2. \A j, k \in 1..Len(sorted) : sorted[j] = sorted[k] => j = k
    BY <1>4 DEF QueueInv, IsInjective
  <2>3. \A k \in DOMAIN sorted' : k \in 1..Len(sorted) \/ k = Len(sorted) + 1
    BY <1>4
  <2>. QED
    BY <2>1, <2>2, <2>3, <1>4 DEF IsInjective
<1>13. ready' \cap Range(sorted') = {}
  BY <1>10
<1>. QED
  BY <1>1, <1>2, <1>3, <1>5, <1>8, <1>10, <1>11, <1>12, <1>13 DEF QueueInv

\* Before the sorting phase nothing is queued, after it nothing changes.
LEMMA QueueStep == Typed /\ CountInv /\ QueueInv /\ [Next]_vars => QueueInv'
<1> SUFFICES ASSUME Typed, CountInv, QueueInv, [Next]_vars PROVE QueueInv'
  OBVIOUS
<1>1. CASE IndexOutputs \/ ProducersDone \/ CountDependencies
  BY <1>1 DEF IndexOutputs, ProducersDone, CountDependencies, QueueInv
<1>2. CASE SeedReady
  BY <1>2, QueueSeed
<1>3. CASE Pop
  BY <1>3, QueuePop
<1>4. CASE DuplicateThrows \/ CycleThrows \/ ReplaceNodes
  BY <1>4 DEF DuplicateThrows, CycleThrows, ReplaceNodes, Throw, QueueInv
<1>5. CASE UNCHANGED vars
  <2>1. \A i : Dependencies(i)' = Dependencies(i)
    BY <1>5 DEF vars, Dependencies
  <2>. QED
    BY <1>5, <2>1 DEF vars, QueueInv, Nodes
<1>. QED
  BY <1>1, <1>2, <1>3, <1>4, <1>5 DEF Next

-----------------------------------------------------------------------------
(* The order of the result *)

\* The new list is the old one in the order of sorted, so that a dependency in
\* it is a dependency of the old one, whose producer was sorted before.
LEMMA ReplaceKeepsOrder ==
    ASSUME Typed, ProducerInv, QueueInv, ReplaceNodes
    PROVE  ProducersFirst'
<1>1. /\ phase = "sorting" /\ Len(nodes) \in Nat /\ Nodes = 1..Len(nodes)
      /\ DOMAIN sorted = Nodes /\ nodes' = [k \in DOMAIN sorted |-> nodes[sorted[k]]]
      /\ \A k \in Nodes : sorted[k] \in Nodes
  BY NodesFacts DEF Typed, ReplaceNodes
<1>2. Nodes' = Nodes
  BY <1>1 DEF Nodes
<1>3. ASSUME NEW i \in Nodes, NEW p \in Nodes, Order!DependsOn(nodes', i, p)
      PROVE  p < i
  <2>1. Order!DependsOn(nodes, sorted[i], sorted[p])
    <3>1. p # i /\ \E t \in Range(nodes'[p].outputs) : t \in Range(nodes'[i].inputs)
      BY <1>3, DependsOnFacts
    <3>2. nodes'[p] = nodes[sorted[p]] /\ nodes'[i] = nodes[sorted[i]]
      BY <1>1
    <3>3. sorted[p] # sorted[i]
      BY <3>1, <1>1 DEF QueueInv, IsInjective
    <3>. QED
      BY <3>1, <3>2, <3>3, DependsOnFacts
  <2>2. sorted[p] \in Dependencies(sorted[i])
    BY <2>1, <1>1, DependenciesMeaning
  <2>3. PICK j \in 1..i-1 : sorted[j] = sorted[p]
    BY <2>2, <1>1 DEF QueueInv
  <2>4. j \in Nodes /\ j < i
    BY <2>3, <1>1
  <2>5. j = p
    BY <2>3, <2>4, <1>1 DEF QueueInv, IsInjective
  <2>. QED
    BY <2>4, <2>5
<1>. QED
  BY <1>2, <1>3 DEF ProducersFirst

LEMMA OrderStep ==
    Typed /\ ProducerInv /\ QueueInv /\ ProducersFirst /\ [Next]_vars => ProducersFirst'
<1> SUFFICES ASSUME Typed, ProducerInv, QueueInv, ProducersFirst, [Next]_vars
             PROVE  ProducersFirst'
  OBVIOUS
<1>1. CASE ReplaceNodes
  BY <1>1, ReplaceKeepsOrder
<1>2. CASE IndexOutputs \/ ProducersDone \/ CountDependencies \/ SeedReady \/ Pop
  BY <1>2 DEF IndexOutputs, ProducersDone, CountDependencies, SeedReady, Pop,
              ProducersFirst
<1>3. CASE DuplicateThrows \/ CycleThrows
  BY <1>3 DEF DuplicateThrows, CycleThrows, Throw, ProducersFirst
<1>4. CASE UNCHANGED vars
  <2>1. \A i, p : Order!DependsOn(nodes, i, p)' <=> Order!DependsOn(nodes, i, p)
    BY <1>4, DependsOnFacts DEF vars
  <2>. QED
    BY <1>4, <2>1 DEF vars, ProducersFirst, Nodes
<1>. QED
  BY <1>1, <1>2, <1>3, <1>4 DEF Next

-----------------------------------------------------------------------------
(* Tensors produced once *)

LEMMA ProducedTwiceFacts ==
    \A list : Order!ProducedTwice(list) <=>
        \E p, q \in DOMAIN list :
            \E a \in DOMAIN list[p].outputs, b \in DOMAIN list[q].outputs :
                list[p].outputs[a] = list[q].outputs[b] /\ ~(p = q /\ a = b)
BY DEF Order!ProducedTwice

\* What is not in the index yet is not an output of a node scanned before.
LEMMA OnceIndex ==
    ASSUME Typed, ProducerInv, OnceInv, IndexOutputs
    PROVE  OnceInv'
<1>1. /\ index \in Nodes /\ Range(nodes[index].outputs) \cap DOMAIN producer = {}
      /\ IsInjective(nodes[index].outputs)
      /\ phase = "producers" /\ phase' = phase /\ index' = index + 1 /\ nodes' = nodes
  BY DEF IndexOutputs, Duplicate
<1>2. Nodes' = Nodes /\ index \in Nat /\ Nodes \subseteq Nat
  BY <1>1, NodesFacts DEF Nodes, Typed
<1>3. \A p \in Nodes : Scanned(p)' <=> p = index \/ Scanned(p)
  BY <1>1, <1>2 DEF Scanned
<1>4. ~Scanned(index)
  BY <1>1, <1>2 DEF Scanned
<1>5. ASSUME NEW p \in Nodes, Scanned(p), NEW a \in DOMAIN nodes[p].outputs,
             NEW b \in DOMAIN nodes[index].outputs
      PROVE  nodes[p].outputs[a] # nodes[index].outputs[b]
  <2>1. nodes[p].outputs[a] \in DOMAIN producer
    BY <1>1, <1>5 DEF ProducerInv, Range
  <2>2. nodes[index].outputs[b] \in Range(nodes[index].outputs)
    BY <1>5 DEF Range
  <2>. QED
    BY <2>1, <2>2, <1>1
<1>6. ASSUME NEW p \in Nodes, NEW q \in Nodes, Scanned(p)', Scanned(q)',
             NEW a \in DOMAIN nodes[p].outputs, NEW b \in DOMAIN nodes[q].outputs,
             nodes[p].outputs[a] = nodes[q].outputs[b]
      PROVE  p = q /\ a = b
  <2>1. CASE p = index /\ q = index
    BY <2>1, <1>1, <1>6 DEF IsInjective
  <2>2. CASE p = index /\ q # index
    <3>1. Scanned(q)
      BY <2>2, <1>3, <1>6
    <3>. QED
      BY <3>1, <2>2, <1>5, <1>6
  <2>3. CASE p # index /\ q = index
    <3>1. Scanned(p)
      BY <2>3, <1>3, <1>6
    <3>. QED
      BY <3>1, <2>3, <1>5, <1>6
  <2>4. CASE p # index /\ q # index
    <3>1. Scanned(p) /\ Scanned(q)
      BY <2>4, <1>3, <1>6
    <3>. QED
      BY <3>1, <1>1, <1>6 DEF OnceInv
  <2>. QED
    BY <2>1, <2>2, <2>3, <2>4
<1>. QED
  BY <1>1, <1>2, <1>6 DEF OnceInv

\* A permutation of the nodes has no tensor that is produced twice either.
LEMMA OnceReplaced ==
    ASSUME Typed, QueueInv, OnceInv, ReplaceNodes
    PROVE  OnceInv'
<1>1. /\ phase = "sorting" /\ Len(nodes) \in Nat /\ Nodes = 1..Len(nodes)
      /\ DOMAIN sorted = Nodes /\ nodes' = [k \in DOMAIN sorted |-> nodes[sorted[k]]]
      /\ \A k \in Nodes : sorted[k] \in Nodes
  BY NodesFacts DEF Typed, ReplaceNodes
<1>2. Nodes' = Nodes
  BY <1>1 DEF Nodes
<1>3. ASSUME NEW p \in Nodes, NEW q \in Nodes,
             NEW a \in DOMAIN nodes'[p].outputs, NEW b \in DOMAIN nodes'[q].outputs,
             nodes'[p].outputs[a] = nodes'[q].outputs[b]
      PROVE  p = q /\ a = b
  <2>1. nodes'[p] = nodes[sorted[p]] /\ nodes'[q] = nodes[sorted[q]]
    BY <1>1
  <2>2. Scanned(sorted[p]) /\ Scanned(sorted[q])
    BY <1>1 DEF Scanned
  <2>3. sorted[p] = sorted[q] /\ a = b
    BY <2>1, <2>2, <1>1, <1>3 DEF OnceInv
  <2>. QED
    BY <2>3, <1>1 DEF QueueInv, IsInjective
<1>. QED
  BY <1>2, <1>3 DEF OnceInv

LEMMA OnceStep ==
    Typed /\ ProducerInv /\ QueueInv /\ OnceInv /\ [Next]_vars => OnceInv'
<1> SUFFICES ASSUME Typed, ProducerInv, QueueInv, OnceInv, [Next]_vars PROVE OnceInv'
  OBVIOUS
<1>1. CASE IndexOutputs
  BY <1>1, OnceIndex
<1>2. CASE ReplaceNodes
  BY <1>2, OnceReplaced
<1>3. CASE DuplicateThrows \/ CycleThrows
  BY <1>3 DEF DuplicateThrows, CycleThrows, Throw, OnceInv
<1>4. CASE ProducersDone
  <2>1. \A i \in Nodes : Scanned(i)
    BY <1>4, NodesFacts DEF ProducersDone, Typed, Scanned
  <2>. QED
    BY <2>1, <1>4 DEF ProducersDone, OnceInv, Nodes
<1>5. CASE CountDependencies \/ SeedReady \/ Pop
  BY <1>5 DEF CountDependencies, SeedReady, Pop, OnceInv, Scanned, Nodes
<1>6. CASE UNCHANGED vars
  BY <1>6 DEF vars, OnceInv, Scanned, Nodes
<1>. QED
  BY <1>1, <1>2, <1>3, <1>4, <1>5, <1>6 DEF Next

LEMMA IndexedStep == Typed /\ IndexedInv /\ [Next]_vars => IndexedInv'
<1> SUFFICES ASSUME Typed, IndexedInv, [Next]_vars PROVE IndexedInv'
  OBVIOUS
<1>1. CASE IndexOutputs
  <2>1. /\ DOMAIN producer' = DOMAIN producer \cup Range(nodes[index].outputs)
        /\ index' = index + 1 /\ phase = "producers"
    BY <1>1 DEF IndexOutputs
  <2>2. \A t \in DOMAIN producer' :
          producer'[t] = IF t \in DOMAIN producer THEN producer[t] ELSE index
    BY <1>1, <2>1 DEF IndexOutputs
  <2>3. index \in Nat /\ \A t \in DOMAIN producer : producer[t] \in Nat
    BY NodesFacts DEF Typed
  <2>. QED
    BY <2>1, <2>2, <2>3 DEF IndexedInv
<1>2. CASE DuplicateThrows \/ ProducersDone \/ CycleThrows \/ ReplaceNodes
  BY <1>2 DEF DuplicateThrows, ProducersDone, CycleThrows, ReplaceNodes, Throw, IndexedInv
<1>3. CASE CountDependencies \/ SeedReady \/ Pop
  BY <1>3 DEF CountDependencies, SeedReady, Pop, IndexedInv
<1>4. CASE UNCHANGED vars
  BY <1>4 DEF vars, IndexedInv
<1>. QED
  BY <1>1, <1>2, <1>3, <1>4 DEF Next

-----------------------------------------------------------------------------
(* How many nodes are sorted *)

\* A list of different indices is no longer than there are indices, and if it
\* is as long, it has them all.
LEMMA DifferentIndices ==
    ASSUME NEW n \in Nat, NEW s \in Seq(1..n), IsInjective(s)
    PROVE  Len(s) <= n /\ (Len(s) = n <=> Range(s) = 1..n)
<1>1. DOMAIN s = 1..Len(s) /\ Len(s) \in Nat /\ s \in [1..Len(s) -> 1..n]
  OBVIOUS
<1>2. s \in Injection(1..Len(s), 1..n)
  BY <1>1 DEF IsInjective, Injection
<1>3. IsFiniteSet(1..n) /\ Cardinality(1..n) = n /\ Cardinality(1..Len(s)) = Len(s)
  <2>1. \A m \in Nat : IsFiniteSet(1..m) /\ Cardinality(1..m) = IF 1 > m THEN 0 ELSE m-1+1
    BY FS_Interval
  <2>2. \A m \in Nat : (IF 1 > m THEN 0 ELSE m-1+1) = m
    OBVIOUS
  <2>. QED
    BY <2>1, <2>2, <1>1
<1>4. Len(s) <= n /\ (Len(s) = n <=> s \in Surjection(1..Len(s), 1..n))
  BY <1>2, <1>3, FS_Injection
<1>5. s \in Surjection(1..Len(s), 1..n) <=> Range(s) = 1..n
  BY <1>1 DEF Surjection, Range
<1>. QED
  BY <1>4, <1>5


-----------------------------------------------------------------------------
(* What a node needs *)

\* The recursion of Needs: what node i of a list finds in k + 1 steps.
Reached(list, i) ==
    CHOOSE from : from = [k \in Nat |->
                            IF k = 0 THEN Order!Producers(list, i)
                            ELSE from[k-1] \cup UNION {Order!Producers(list, q) : q \in from[k-1]}]

LEMMA NeedsReached == \A i, p : Needs(i, p) <=> p \in Reached(nodes, i)[Len(nodes)]
BY DEF Needs, Reached

\* One step more from the nodes in s.
Extended(list, s) == s \cup UNION {Order!Producers(list, q) : q \in s}

LEMMA ProducersFacts ==
    \A list, i : /\ Order!Producers(list, i) \subseteq DOMAIN list
                 /\ \A p : p \in Order!Producers(list, i) <=>
                            p \in DOMAIN list /\ Order!DependsOn(list, i, p)
BY DEF Order!Producers

LEMMA ReachedSteps ==
    ASSUME NEW list, NEW i
    PROVE  /\ Reached(list, i)[0] = Order!Producers(list, i)
           /\ \A k \in Nat : /\ Reached(list, i)[k] \subseteq DOMAIN list
                            /\ Reached(list, i)[k+1] = Extended(list, Reached(list, i)[k])
<1> DEFINE V == SUBSET DOMAIN list
           first == Order!Producers(list, i)
           step == [s \in V |-> Extended(list, s)]
           Step(v) == [k \in Nat |-> IF k = 0 THEN first ELSE Extended(list, v[k-1])]
           R == Reached(list, i)
<1>1. first \in V /\ step \in [V -> V]
  BY ProducersFacts DEF Extended
<1>2. PICK g \in [Nat -> V] : g[0] = first /\ \A k \in Nat : g[k+1] = step[g[k]]
  <2> HIDE DEF V, first, step
  <2>. QED
    BY <1>1, RecursionOnNaturals
<1>3. g = Step(g)
  <2>1. ASSUME NEW k \in Nat PROVE g[k] = IF k = 0 THEN first ELSE Extended(list, g[k-1])
    <3>1. CASE k = 0
      BY <3>1, <1>2
    <3>2. CASE k # 0
      <4>1. PICK m \in Nat : k = m + 1
        BY <3>2
      <4>2. m = k - 1
        BY <4>1
      <4>3. g[m+1] = step[g[m]] /\ g[m] \in V
        BY <1>2
      <4>4. g[k] = Extended(list, g[k-1])
        BY <4>1, <4>2, <4>3
      <4>. QED
        BY <4>4, <3>2
    <3>. QED
      BY <3>1, <3>2
  <2>2. g = [k \in Nat |-> g[k]]
    OBVIOUS
  <2> HIDE DEF first
  <2>. QED
    BY <2>1, <2>2
<1>4. R = Step(R)
  BY <1>3 DEF Reached, Extended
<1>5. \A k \in Nat : Step(R)[k] = IF k = 0 THEN first ELSE Extended(list, R[k-1])
  OBVIOUS
<1> HIDE DEF R, Step
<1>6. \A k \in Nat : R[k] = IF k = 0 THEN first ELSE Extended(list, R[k-1])
  BY <1>4, <1>5
<1> HIDE DEF first
<1>7. R[0] = first
  BY <1>6
<1>8. ASSUME NEW k \in Nat PROVE R[k+1] = Extended(list, R[k])
  <2>1. k + 1 \in Nat /\ k + 1 # 0 /\ (k + 1) - 1 = k
    OBVIOUS
  <2>. QED
    BY <2>1, <1>6
<1>9. ASSUME NEW n \in Nat PROVE R[n] \subseteq DOMAIN list
  <2> DEFINE S == {k \in 0..n : R[k] \subseteq DOMAIN list}
  <2>1. 0 \in S
    BY <1>1, <1>7
  <2>2. ASSUME NEW k \in 0..n-1, k \in S PROVE k + 1 \in S
    <3>1. R[k+1] = Extended(list, R[k]) /\ k + 1 \in 0..n
      BY <1>8
    <3>2. R[k+1] \subseteq DOMAIN list
      BY <3>1, <2>2, ProducersFacts DEF Extended
    <3>. QED
      BY <3>1, <3>2
  <2>3. \A k \in 0..n : k \in S
    <3> HIDE DEF S
    <3>. QED
      BY <2>1, <2>2, NaturalInduction
  <2>. QED
    BY <2>3
<1>. QED
  BY <1>7, <1>8, <1>9 DEF R, first

\* A set of nodes that has what its nodes read.
Closed(list, s) == \A q \in s : Order!Producers(list, q) \subseteq s

\* After as many steps as there are nodes nothing new is found.
LEMMA ReachedClosed ==
    ASSUME NEW n \in Nat, NEW list, DOMAIN list = 1..n, NEW i
    PROVE  Closed(list, Reached(list, i)[n])
<1> DEFINE R == Reached(list, i)
           count(k) == Cardinality(R[k])
           S == {k \in 0..n : Closed(list, R[k]) \/ count(k) > k}
<1>1. /\ R[0] = Order!Producers(list, i)
      /\ \A k \in Nat : R[k] \subseteq 1..n /\ R[k+1] = Extended(list, R[k])
  BY ReachedSteps
<1> HIDE DEF R
<1>2. \A k \in Nat : IsFiniteSet(R[k]) /\ count(k) \in Nat /\ (count(k) = 0 <=> R[k] = {})
  BY <1>1, CountFacts
<1>3. 0 \in S
  <2> HIDE DEF count
  <2>1. R[0] = {} => Closed(list, R[0])
    BY DEF Closed
  <2>2. R[0] # {} => count(0) > 0
    BY <1>2
  <2>. QED
    BY <2>1, <2>2
<1>4. ASSUME NEW k \in 0..n-1, k \in S PROVE k + 1 \in S
  <2>1. R[k+1] = Extended(list, R[k]) /\ k + 1 \in 0..n
    BY <1>1
  <2>2. CASE Closed(list, R[k])
    <3>1. R[k+1] = R[k]
      BY <2>1, <2>2 DEF Closed, Extended
    <3>. QED
      BY <3>1, <2>1, <2>2
  <2>3. CASE ~Closed(list, R[k])
    <3>1. R[k] \subseteq R[k+1] /\ R[k] # R[k+1]
      BY <2>1, <2>3 DEF Closed, Extended
    <3>2. k \in Nat /\ k + 1 \in Nat
      OBVIOUS
    <3>3. count(k) <= count(k+1) /\ count(k+1) # count(k)
      <4>1. IsFiniteSet(R[k+1])
        BY <3>2, <1>2
      <4>. QED
        BY <4>1, <3>1, FS_Subset
    <3> HIDE DEF count
    <3>4. count(k) > k /\ count(k) \in Nat /\ count(k+1) \in Nat
      BY <1>2, <1>4, <2>3, <3>2
    <3>5. count(k+1) > k + 1
      BY <3>2, <3>3, <3>4
    <3>. QED
      BY <3>5, <2>1
  <2>. QED
    BY <2>2, <2>3
<1>5. n \in S
  <2> HIDE DEF S
  <2>1. \A k \in 0..n : k \in S
    BY <1>3, <1>4, NaturalInduction
  <2>. QED
    BY <2>1
<1>6. count(n) <= n
  <2>1. IsFiniteSet(1..n) /\ Cardinality(1..n) = IF 1 > n THEN 0 ELSE n-1+1
    BY FS_Interval
  <2>2. (IF 1 > n THEN 0 ELSE n-1+1) = n
    OBVIOUS
  <2>. QED
    BY <2>1, <2>2, <1>1, FS_Subset
<1>7. Closed(list, R[n])
  <2> HIDE DEF count
  <2>. QED
    BY <1>2, <1>5, <1>6
<1>. QED
  BY <1>7 DEF R

\* It is the least set that has what node i reads and what its own nodes read.
LEMMA ReachedLeast ==
    ASSUME NEW n \in Nat, NEW list, DOMAIN list = 1..n, NEW i
    PROVE  /\ Order!Producers(list, i) \subseteq Reached(list, i)[n]
           /\ \A s : Order!Producers(list, i) \subseteq s /\ Closed(list, s)
                      => Reached(list, i)[n] \subseteq s
<1> DEFINE R == Reached(list, i)
<1>1. /\ R[0] = Order!Producers(list, i)
      /\ \A k \in Nat : R[k+1] = Extended(list, R[k])
  BY ReachedSteps
<1> HIDE DEF R
<1>2. Order!Producers(list, i) \subseteq R[n]
  <2> DEFINE S == {k \in 0..n : Order!Producers(list, i) \subseteq R[k]}
  <2>1. 0 \in S
    BY <1>1
  <2>2. ASSUME NEW k \in 0..n-1, k \in S PROVE k + 1 \in S
    BY <1>1, <2>2 DEF Extended
  <2>3. \A k \in 0..n : k \in S
    <3> HIDE DEF S
    <3>. QED
      BY <2>1, <2>2, NaturalInduction
  <2>. QED
    BY <2>3
<1>3. ASSUME NEW s, Order!Producers(list, i) \subseteq s, Closed(list, s)
      PROVE  R[n] \subseteq s
  <2> DEFINE S == {k \in 0..n : R[k] \subseteq s}
  <2>1. 0 \in S
    BY <1>1, <1>3
  <2>2. ASSUME NEW k \in 0..n-1, k \in S PROVE k + 1 \in S
    BY <1>1, <1>3, <2>2 DEF Extended, Closed
  <2>3. \A k \in 0..n : k \in S
    <3> HIDE DEF S
    <3>. QED
      BY <2>1, <2>2, NaturalInduction
  <2>. QED
    BY <2>3
<1>. QED
  BY <1>2, <1>3 DEF R

\* Among nodes that wait for each other there is one that waits for itself: one
\* that needs no more than any other.
LEMMA CycleFound ==
    ASSUME Typed, NEW S \in SUBSET Nodes, S # {},
           \A i \in S : \E p \in S : p \in Order!Producers(nodes, i)
    PROVE  HasCycle
<1> DEFINE n == Len(nodes)
           needed(i) == Reached(nodes, i)[n]
           T == {needed(i) : i \in S}
<1>1. n \in Nat /\ DOMAIN nodes = 1..n /\ Nodes = 1..n
  BY NodesFacts DEF Nodes
<1>2. \A i : /\ Order!Producers(nodes, i) \subseteq needed(i) /\ Closed(nodes, needed(i))
             /\ \A s : Order!Producers(nodes, i) \subseteq s /\ Closed(nodes, s) => needed(i) \subseteq s
  BY <1>1, ReachedClosed, ReachedLeast
<1>3. \A i : needed(i) \subseteq Nodes
  BY <1>1, ReachedSteps
<1>n. \A i, p : Needs(i, p) <=> p \in needed(i)
  BY NeedsReached
<1> HIDE DEF needed, n
<1>4. T \subseteq FiniteSubsetsOf(Nodes) /\ T # {}
  BY <1>1, <1>3, IndicesFinite DEF FiniteSubsetsOf
<1>5. PICK L \in T : \A M \in T : <<M, L>> \notin StrictSubsetOrdering(Nodes)
  BY <1>4, FS_StrictSubsetOrderingWellFounded, WFMin
<1>6. PICK i \in S : L = needed(i)
  BY <1>5
<1>7. PICK p \in S : p \in Order!Producers(nodes, i)
  OBVIOUS
<1>8. p \in needed(i) /\ needed(p) \subseteq needed(i)
  BY <1>2, <1>7 DEF Closed
<1>9. needed(p) = needed(i)
  BY <1>3, <1>5, <1>6, <1>8 DEF StrictSubsetOrdering
<1>. QED
  BY <1>8, <1>9, <1>n DEF HasCycle

\* Where producers come first, no node needs itself.
LEMMA NoCycle ==
    ASSUME Typed, \A i, p \in Nodes : Order!DependsOn(nodes, i, p) => p < i
    PROVE  ~HasCycle
<1>1. Len(nodes) \in Nat /\ DOMAIN nodes = 1..Len(nodes) /\ Nodes = 1..Len(nodes)
  BY NodesFacts DEF Nodes
<1>2. ASSUME NEW i \in Nodes PROVE ~Needs(i, i)
  <2> DEFINE s == 1..i-1
  <2>1. \A q \in Nodes : \A p \in Order!Producers(nodes, q) : p \in Nodes /\ p < q
    BY ProducersFacts DEF Nodes
  <2>2. Order!Producers(nodes, i) \subseteq s
    BY <2>1, <1>1
  <2>3. Closed(nodes, s)
    <3>1. ASSUME NEW q \in s, NEW p \in Order!Producers(nodes, q) PROVE p \in s
      <4>1. q \in Nodes
        BY <1>1
      <4>. QED
        BY <4>1, <2>1, <1>1
    <3>. QED
      BY <3>1 DEF Closed
  <2>4. i \notin s
    BY <1>1
  <2> HIDE DEF s
  <2>5. Reached(nodes, i)[Len(nodes)] \subseteq s
    BY <2>2, <2>3, <1>1, ReachedLeast
  <2>. QED
    BY <2>4, <2>5, NeedsReached
<1>. QED
  BY <1>2 DEF HasCycle

-----------------------------------------------------------------------------
(* Why the sort throws *)

\* emplace fails for a tensor that an earlier node produces, or the same one.
LEMMA DuplicateMeaning ==
    ASSUME Typed, ProducerInv, IndexedInv, phase = "producers", index \in Nodes, Duplicate(index)
    PROVE  Order!ProducedTwice(nodes)
<1>1. CASE Range(nodes[index].outputs) \cap DOMAIN producer # {}
  <2>1. PICK t \in Range(nodes[index].outputs) : t \in DOMAIN producer
    BY <1>1
  <2>2. producer[t] \in Nodes /\ t \in Range(nodes[producer[t]].outputs)
    BY <2>1 DEF ProducerInv, Typed
  <2>3. producer[t] # index
    <3>1. index \in Nat /\ producer[t] \in Nat /\ producer[t] < index
      BY <2>1, <2>2, NodesFacts DEF IndexedInv
    <3>. QED
      BY <3>1
  <2>4. PICK a \in DOMAIN nodes[producer[t]].outputs : nodes[producer[t]].outputs[a] = t
    BY <2>2 DEF Range
  <2>5. PICK b \in DOMAIN nodes[index].outputs : nodes[index].outputs[b] = t
    BY <2>1 DEF Range
  <2>. QED
    BY <2>2, <2>3, <2>4, <2>5, ProducedTwiceFacts DEF Nodes
<1>2. CASE ~IsInjective(nodes[index].outputs)
  <2>1. PICK a, b \in DOMAIN nodes[index].outputs :
          nodes[index].outputs[a] = nodes[index].outputs[b] /\ a # b
    BY <1>2 DEF IsInjective
  <2>. QED
    BY <2>1, ProducedTwiceFacts DEF Nodes
<1>. QED
  BY <1>1, <1>2 DEF Duplicate

\* When the queue is empty before its time, some nodes are not sorted, and each
\* of them waits for another one of them.
LEMMA EmptyQueue ==
    ASSUME Typed, ProducerInv, QueueInv, phase = "sorting", ready = {},
           Len(sorted) # Len(nodes)
    PROVE  /\ Nodes \ Range(sorted) # {}
           /\ \A i \in Nodes \ Range(sorted) :
                 \E p \in Nodes \ Range(sorted) : p \in Order!Producers(nodes, i)
<1>1. Len(nodes) \in Nat /\ Nodes = 1..Len(nodes)
  BY NodesFacts
<1>2. Range(sorted) \subseteq Nodes /\ sorted \in Seq(1..Len(nodes)) /\ IsInjective(sorted)
  BY <1>1 DEF Typed, QueueInv, Range
<1>3. Range(sorted) # Nodes
  BY <1>1, <1>2, DifferentIndices
<1>4. ASSUME NEW i \in Nodes \ Range(sorted)
      PROVE  \E p \in Nodes \ Range(sorted) : p \in Order!Producers(nodes, i)
  <2>. DEFINE waiting == Dependencies(i) \ Range(sorted)
  <2>1. indegree[i] = Cardinality(waiting) /\ indegree[i] # 0
    BY DEF QueueInv
  <2>2. waiting \in SUBSET (1..Len(nodes))
    BY <1>1, DependenciesTyped
  <2>3. waiting # {}
    BY <2>1, <2>2, <1>1, CountFacts
  <2>4. PICK p \in waiting : TRUE
    BY <2>3
  <2>5. p \in Nodes /\ p \in Dependencies(i) /\ p \notin Range(sorted)
    BY <2>4, DependenciesTyped
  <2>6. Order!DependsOn(nodes, i, p)
    BY <2>5, DependenciesMeaning
  <2>. QED
    BY <2>5, <2>6, ProducersFacts DEF Nodes
<1>. QED
  BY <1>2, <1>3, <1>4

LEMMA ThrownStep ==
    Typed /\ ProducerInv /\ IndexedInv /\ QueueInv /\ ThrownInv /\ [Next]_vars => ThrownInv'
<1> SUFFICES ASSUME Typed, ProducerInv, IndexedInv, QueueInv, ThrownInv, [Next]_vars
             PROVE  ThrownInv'
  OBVIOUS
<1>1. CASE DuplicateThrows
  <2>1. Order!ProducedTwice(nodes) /\ nodes' = nodes
    BY <1>1, DuplicateMeaning DEF DuplicateThrows, Throw
  <2>2. Order!ProducedTwice(nodes')
    BY <2>1
  <2>3. Order!ProducedTwice(nodes)' <=> Order!ProducedTwice(nodes')
    BY ProducedTwiceFacts
  <2>. QED
    BY <2>2, <2>3 DEF ThrownInv
<1>2. CASE CycleThrows
  <2>1. HasCycle
    BY <1>2, EmptyQueue, CycleFound DEF CycleThrows
  <2>2. nodes' = nodes
    BY <1>2 DEF CycleThrows, Throw
  <2>3. HasCycle' <=> HasCycle
    BY <2>2 DEF HasCycle, Needs, Nodes, Order!Producers, Order!DependsOn, Order!Range
  <2>. QED
    BY <2>1, <2>3 DEF ThrownInv
<1>3. CASE IndexOutputs \/ ProducersDone \/ CountDependencies \/ SeedReady \/ Pop \/ ReplaceNodes
  BY <1>3 DEF IndexOutputs, ProducersDone, CountDependencies, SeedReady, Pop, ReplaceNodes,
              ThrownInv
<1>4. CASE UNCHANGED vars
  <2>1. phase' = phase /\ nodes' = nodes
    BY <1>4 DEF vars
  <2>2. Order!ProducedTwice(nodes)' <=> Order!ProducedTwice(nodes)
    BY <2>1, ProducedTwiceFacts
  <2>3. HasCycle' <=> HasCycle
    BY <2>1 DEF HasCycle, Needs, Nodes, Order!Producers, Order!DependsOn, Order!Range
  <2>. QED
    BY <2>1, <2>2, <2>3 DEF ThrownInv
<1>. QED
  BY <1>1, <1>2, <1>3, <1>4 DEF Next

-----------------------------------------------------------------------------
(* The abstract sort *)

LEMMA RunningOnce ==
    ASSUME OnceInv, phase \in {"dependencies", "sorting", "sorted"}
    PROVE  ~Order!ProducedTwice(nodes)
<1>1. \A i \in Nodes : Scanned(i)
  BY DEF Scanned
<1>. QED
  BY <1>1, ProducedTwiceFacts DEF OnceInv, Nodes

\* The queue has the nodes that may be emitted.
LEMMA QueueIsReady ==
    ASSUME Typed, ProducerInv, QueueInv, phase = "sorting"
    PROVE  Order!Ready(nodes, sorted) = ready
<1>1. Len(nodes) \in Nat /\ Nodes = 1..Len(nodes)
  BY NodesFacts
<1>2. ASSUME NEW i \in Nodes
      PROVE  indegree[i] = 0 <=> Order!Producers(nodes, i) \subseteq Range(sorted)
  <2>. DEFINE waiting == Dependencies(i) \ Range(sorted)
  <2>1. indegree[i] = Cardinality(waiting)
    BY DEF QueueInv
  <2>2. waiting \in SUBSET (1..Len(nodes))
    BY <1>1, DependenciesTyped
  <2>3. indegree[i] = 0 <=> waiting = {}
    BY <2>1, <2>2, <1>1, CountFacts
  <2>4. \A p : p \in Order!Producers(nodes, i) <=> p \in Dependencies(i)
    BY DependenciesTyped, DependenciesMeaning, ProducersFacts DEF Nodes
  <2>. QED
    BY <2>3, <2>4
<1>3. Order!Range(sorted) = Range(sorted)
  BY DEF Order!Range, Range
<1>. QED
  BY <1>2, <1>3 DEF Order!Ready, QueueInv, Nodes

\* Moving the first node of the queue is emitting a node.
LEMMA PopEmits ==
    ASSUME Typed, ProducerInv, QueueInv, OnceInv, Pop
    PROVE  Order!Emit
<1>1. /\ phase = "sorting" /\ phase' = "sorting" /\ ready # {} /\ nodes' = nodes
      /\ sorted' = Append(sorted, Min(ready))
  BY DEF Pop, Top
<1>2. Order!Ready(nodes, sorted) = ready /\ ~Order!ProducedTwice(nodes)
  BY <1>1, QueueIsReady, RunningOnce
<1>3. Order!Min(ready) = Min(ready)
  BY DEF Order!Min, Min
<1>. QED
  BY <1>1, <1>2, <1>3 DEF Order!Emit

LEMMA SortRefinesStep ==
    Typed /\ ProducerInv /\ IndexedInv /\ QueueInv /\ OnceInv /\ [Next]_vars
      => [Order!TNext]_(Order!tvars)
<1> SUFFICES ASSUME Typed, ProducerInv, IndexedInv, QueueInv, OnceInv, [Next]_vars
             PROVE  [Order!TNext]_(Order!tvars)
  OBVIOUS
<1>1. CASE Pop
  BY <1>1, PopEmits DEF Order!TNext
<1>2. CASE DuplicateThrows
  <2>1. Order!ProducedTwice(nodes)
    BY <1>2, DuplicateMeaning DEF DuplicateThrows
  <2>. QED
    BY <1>2, <2>1 DEF DuplicateThrows, Throw, Order!TNext, Order!Refuse
<1>3. CASE CycleThrows
  <2>1. Order!Ready(nodes, sorted) = {}
    BY <1>3, QueueIsReady DEF CycleThrows
  <2>2. Len(sorted) < Len(nodes)
    <3>1. Len(nodes) \in Nat /\ Nodes = 1..Len(nodes) /\ Len(sorted) \in Nat
      BY NodesFacts DEF Typed
    <3>2. Len(sorted) <= Len(nodes)
      BY <3>1, DifferentIndices DEF Typed, QueueInv
    <3>. QED
      BY <3>1, <3>2, <1>3 DEF CycleThrows
  <2>. QED
    BY <1>3, <2>1, <2>2 DEF CycleThrows, Throw, Order!TNext, Order!Refuse
<1>4. CASE ReplaceNodes
  BY <1>4 DEF ReplaceNodes, Order!TNext, Order!Finish, Order!Permuted
<1>5. CASE IndexOutputs \/ ProducersDone \/ CountDependencies \/ SeedReady
  BY <1>5 DEF IndexOutputs, ProducersDone, CountDependencies, SeedReady, Order!tvars
<1>6. CASE UNCHANGED vars
  BY <1>6 DEF vars, Order!tvars
<1>. QED
  BY <1>1, <1>2, <1>3, <1>4, <1>5, <1>6 DEF Next

-----------------------------------------------------------------------------
(* Stability *)

InValidOrder == \A i, p \in Nodes : Order!DependsOn(nodes, i, p) => p < i

\* Nodes in a valid order are sorted as they come.
StableInv ==
    phase = "sorting" /\ InValidOrder => \A k \in DOMAIN sorted : sorted[k] = k

\* The next node in a valid order is ready when all before it are sorted, and
\* it is the first one in the queue.
LEMMA StablePop ==
    ASSUME Typed, ProducerInv, QueueInv, StableInv, Pop
    PROVE  StableInv'
<1>1. /\ Top \in ready /\ Top \in Nodes /\ Top \notin Range(sorted)
      /\ \A i \in ready : Top <= i
      /\ phase = "sorting" /\ sorted' = Append(sorted, Top) /\ nodes' = nodes
  BY TopInQueue DEF Pop, QueueInv
<1>2. Len(nodes) \in Nat /\ Nodes = 1..Len(nodes)
  BY NodesFacts
<1>3. /\ Len(sorted) \in Nat
      /\ DOMAIN sorted' = 1..Len(sorted) + 1 /\ DOMAIN sorted = 1..Len(sorted)
      /\ \A k \in 1..Len(sorted) : sorted'[k] = sorted[k]
      /\ sorted'[Len(sorted) + 1] = Top
  BY <1>1, AppendFacts DEF Typed
<1> SUFFICES ASSUME InValidOrder PROVE \A k \in DOMAIN sorted' : sorted'[k] = k
  BY <1>1 DEF StableInv, InValidOrder, Nodes
<1>. DEFINE m == Len(sorted) + 1
<1>4. \A k \in 1..Len(sorted) : sorted[k] = k
  BY <1>1, <1>3 DEF StableInv
<1>5. Range(sorted) = 1..Len(sorted)
  BY <1>3, <1>4 DEF Range
<1>6. m <= Top /\ m \in Nodes /\ m \notin Range(sorted)
  BY <1>1, <1>2, <1>3, <1>5
<1>7. Dependencies(m) \ Range(sorted) = {}
  <2>1. ASSUME NEW p \in Dependencies(m) PROVE p \in Range(sorted)
    <3>1. p \in Nodes
      BY <1>6, <2>1, DependenciesTyped
    <3>2. p < m
      BY <1>1, <1>6, <2>1, <3>1, DependenciesMeaning DEF InValidOrder
    <3>. QED
      BY <3>1, <3>2, <1>2, <1>3, <1>5
  <2>. QED
    BY <2>1
<1>8. indegree[m] = 0
  <2>1. indegree[m] = Cardinality(Dependencies(m) \ Range(sorted))
    BY <1>1, <1>6 DEF QueueInv
  <2>. QED
    BY <2>1, <1>7, FS_EmptySet
<1>9. Top = m
  <2>1. m \in ready
    BY <1>1, <1>6, <1>8 DEF QueueInv
  <2>. QED
    BY <2>1, <1>1, <1>2, <1>6
<1>. QED
  BY <1>3, <1>4, <1>9

LEMMA StableStep ==
    Typed /\ ProducerInv /\ CountInv /\ QueueInv /\ StableInv /\ [Next]_vars => StableInv'
<1> SUFFICES ASSUME Typed, ProducerInv, CountInv, QueueInv, StableInv, [Next]_vars
             PROVE  StableInv'
  OBVIOUS
<1>1. CASE Pop
  BY <1>1, StablePop
<1>2. CASE SeedReady
  BY <1>2 DEF SeedReady, CountInv, StableInv
<1>3. CASE IndexOutputs \/ ProducersDone \/ CountDependencies
  BY <1>3 DEF IndexOutputs, ProducersDone, CountDependencies, StableInv
<1>4. CASE DuplicateThrows \/ CycleThrows \/ ReplaceNodes
  BY <1>4 DEF DuplicateThrows, CycleThrows, ReplaceNodes, Throw, StableInv
<1>5. CASE UNCHANGED vars
  BY <1>5 DEF vars, StableInv, InValidOrder, Nodes
<1>. QED
  BY <1>1, <1>2, <1>3, <1>4, <1>5 DEF Next

\* With all nodes sorted as they came, the new list is the old one.
LEMMA ReplaceStable ==
    ASSUME Typed, StableInv, ReplaceNodes, InValidOrder
    PROVE  nodes' = nodes
<1>1. /\ DOMAIN sorted = 1..Len(nodes) /\ Len(nodes) \in Nat
      /\ \A k \in DOMAIN sorted : sorted[k] = k
      /\ nodes' = [k \in DOMAIN sorted |-> nodes[sorted[k]]]
  BY NodesFacts DEF Typed, ReplaceNodes, StableInv
<1>2. nodes' = [k \in 1..Len(nodes) |-> nodes[k]]
  BY <1>1
<1>. QED
  BY <1>2 DEF Typed

-----------------------------------------------------------------------------
(* The theorems *)

\* Every iteration of the sort keeps the invariant, whoever called it.
LEMMA SortInvStep == IInv /\ [Next]_vars => IInv'
BY TypedStep, ProducerStep, IndexedStep, OnceStep, CountStep, QueueStep, OrderStep, ThrownStep
   DEF IInv

LEMMA Inductive == Spec => []IInv
<1>1. Init => IInv
  <2> SUFFICES ASSUME Init PROVE IInv
    OBVIOUS
  <2>1. Typed
    BY TypedInit
  <2>2. ProducerInv
    <3>1. \A i \in Nodes : ~(i < 1)
      BY <2>1, NodesFacts
    <3>. QED
      BY <3>1 DEF Init, ProducerInv, Scanned
  <2>3. CountInv
    BY DEF Init, CountInv
  <2>4. QueueInv
    BY DEF Init, QueueInv, IsInjective, Range
  <2>5. ProducersFirst
    BY DEF Init, ProducersFirst
  <2>6. IndexedInv /\ OnceInv /\ ThrownInv
    <3>1. \A i \in Nodes : ~(i < 1)
      BY <2>1, NodesFacts
    <3>. QED
      BY <3>1 DEF Init, IndexedInv, OnceInv, ThrownInv, Scanned
  <2>. QED
    BY <2>1, <2>2, <2>3, <2>4, <2>5, <2>6 DEF IInv
<1>2. IInv /\ [Next]_vars => IInv'
  BY SortInvStep
<1>. QED
  BY <1>1, <1>2, PTL DEF Spec

\* For every list of nodes, the counters of sort_topologically never fall below
\* zero, and no node is queued or sorted a second time.
THEOREM SortTypeCorrect == Spec => []TypeOK
<1>1. IInv => TypeOK
  BY DEF IInv, Typed, QueueInv, TypeOK, Range
<1>. QED
  BY <1>1, Inductive, PTL

\* For every list of nodes, what sort_topologically returns has each producer
\* before its consumers.
THEOREM SortedProducersFirst == Spec => []ProducersFirst
<1>1. IInv => ProducersFirst
  BY DEF IInv
<1>. QED
  BY <1>1, Inductive, PTL

\* For every list of nodes, sort_topologically leaves a valid order as it is.
THEOREM SortIsStable == Spec => KeepsValidOrder
<1>1. Init => StableInv
  BY DEF Init, StableInv
<1>2. IInv /\ StableInv /\ [Next]_vars => StableInv'
  BY StableStep DEF IInv
<1>3. IInv /\ StableInv /\ [Next]_vars
        => [phase' = "sorted" /\ InValidOrder => nodes' = nodes]_vars
  <2> SUFFICES ASSUME IInv, StableInv, Next, phase' = "sorted", InValidOrder
               PROVE  nodes' = nodes
    OBVIOUS
  <2>1. CASE ReplaceNodes
    BY <2>1, ReplaceStable DEF IInv
  <2>2. CASE ~ReplaceNodes
    BY <2>2 DEF Next, IndexOutputs, DuplicateThrows, ProducersDone, CountDependencies,
                SeedReady, Pop, CycleThrows, Throw
  <2>. QED
    BY <2>1, <2>2
<1>4. Spec => []IInv
  BY Inductive
<1>. QED
  BY <1>1, <1>2, <1>3, <1>4, PTL DEF Spec, KeepsValidOrder, InValidOrder

\* For every list of nodes, sort_topologically throws only if a tensor is
\* produced twice or nodes wait for each other, and returns only if neither is
\* so.
THEOREM SortThrowsExactly == Spec => []ThrowsExactlyIfInvalid
<1>1. IInv => ThrowsExactlyIfInvalid
  <2> SUFFICES ASSUME IInv PROVE ThrowsExactlyIfInvalid
    OBVIOUS
  <2>1. phase = "sorted" => ~Order!ProducedTwice(nodes) /\ ~HasCycle
    BY RunningOnce, NoCycle DEF IInv, ProducersFirst
  <2>. QED
    BY <2>1 DEF IInv, ThrownInv, ThrowsExactlyIfInvalid
<1>. QED
  BY <1>1, Inductive, PTL

\* For every list of nodes, index, counters and queue of sort_topologically
\* emit the nodes that the definition of the order emits: every iteration is a
\* step of TopologicalOrder or changes nothing there.
THEOREM SortRefinesOrder == Spec => Order!TInit /\ [][Order!TNext]_(Order!tvars)
<1>1. Init => Order!TInit
  BY DEF Init, Order!TInit
<1>2. IInv /\ [Next]_vars => [Order!TNext]_(Order!tvars)
  BY SortRefinesStep DEF IInv
<1>. QED
  BY <1>1, <1>2, Inductive, PTL DEF Spec

=============================================================================
