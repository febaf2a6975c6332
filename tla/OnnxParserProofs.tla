-------------------------- MODULE OnnxParserProofs --------------------------
(***************************************************************************)
(* Proofs about OnnxParser, for every set of messages, and about the sort  *)
(* as the loader calls it.                                                 *)
(***************************************************************************)
EXTENDS OnnxParser, GraphProofs

-----------------------------------------------------------------------------
(* The inductive invariant *)

Reading == {"opsets", "initializers", "inputs", "value_infos", "outputs", "names", "nodes"}

InputNames == {model.inputs[i].name : i \in DOMAIN model.inputs}
OutputNames == [k \in DOMAIN model.outputs |-> model.outputs[k].name]

\* The message is read section by section, and nodes are added in the last one.
ReadInv ==
    /\ model \in Models
    /\ section \in Reading \cup {"sort", "thrown"}
    /\ section # "thrown" => position \in 1..Len(Listed) + 1
    /\ nodes \in Seq(OpNode)
    /\ section \in Reading \ {"nodes"} => nodes = <<>>
    /\ section = "nodes" => Len(nodes) = position - 1
    /\ section = "sort" => Len(nodes) = Len(model.nodes)
    /\ section \in {"nodes", "sort"} => output_names = OutputNames
    /\ nodes # <<>> => output_names = OutputNames

\* The sort is called on the nodes with its locals as they are declared.
CalledInv ==
    /\ section # "sort" => /\ phase = "idle" /\ index = 1 /\ producer = <<>>
                           /\ ready = {} /\ sorted = <<>>
    /\ section = "sort" => IInv

\* Inputs and outputs are described by the time they are passed, and names are
\* collected when no initializer can be added any more.
NamesInv ==
    /\ input_names \in Seq(InputNames)
    /\ Range(input_names) \cap DOMAIN initializers = {}
    /\ section \in {"opsets", "initializers", "inputs", "value_infos", "outputs"} => input_names = <<>>
    /\ section = "inputs" =>
         \A i \in 1..position-1 : model.inputs[i].name \in DOMAIN value_info
    /\ section \in {"value_infos", "outputs", "names", "nodes", "sort"} =>
         InputNames \subseteq DOMAIN value_info
    /\ section = "outputs" =>
         \A i \in 1..position-1 : model.outputs[i].name \in DOMAIN value_info
    /\ section \in {"names", "nodes", "sort"} =>
         \A i \in DOMAIN model.outputs : model.outputs[i].name \in DOMAIN value_info

LoadInv == ReadInv /\ CalledInv /\ NamesInv

-----------------------------------------------------------------------------
(* Sections *)

LEMMA SectionFacts ==
    /\ Range(Sections) = Reading
    /\ \A k \in 1..Len(Sections) - 1 :
         \/ Sections[k] = "opsets" /\ Sections[k+1] = "initializers"
         \/ Sections[k] = "initializers" /\ Sections[k+1] = "inputs"
         \/ Sections[k] = "inputs" /\ Sections[k+1] = "value_infos"
         \/ Sections[k] = "value_infos" /\ Sections[k+1] = "outputs"
         \/ Sections[k] = "outputs" /\ Sections[k+1] = "names"
         \/ Sections[k] = "names" /\ Sections[k+1] = "nodes"
<1>1. /\ Len(Sections) = 7 /\ DOMAIN Sections = 1..7
      /\ Sections[1] = "opsets" /\ Sections[2] = "initializers" /\ Sections[3] = "inputs"
      /\ Sections[4] = "value_infos" /\ Sections[5] = "outputs" /\ Sections[6] = "names"
      /\ Sections[7] = "nodes"
  BY DEF Sections
<1>2. \A k \in 1..7 : k = 1 \/ k = 2 \/ k = 3 \/ k = 4 \/ k = 5 \/ k = 6 \/ k = 7
  OBVIOUS
<1>3. Range(Sections) = Reading
  BY <1>1, <1>2 DEF Range, Reading
<1>4. \A k \in 1..6 : k = 1 \/ k = 2 \/ k = 3 \/ k = 4 \/ k = 5 \/ k = 6
  OBVIOUS
<1>. QED
  BY <1>1, <1>3, <1>4

\* What each section reads is a sequence of the message.
LEMMA ListedFacts ==
    ASSUME model \in Models, section \in Reading \cup {"sort"}
    PROVE  /\ Len(Listed) \in Nat /\ DOMAIN Listed = 1..Len(Listed)
           /\ section \in {"inputs", "names"} => Listed = model.inputs
           /\ section = "outputs" => Listed = model.outputs
           /\ section \in {"nodes", "sort"} => Listed = model.nodes
<1>1. IsSequence(Listed)
  BY ModelsAssumption DEF Listed
<1>2. \A list : IsSequence(list) => Len(list) \in Nat /\ DOMAIN list = 1..Len(list)
  BY DEF IsSequence
<1>. QED
  BY <1>1, <1>2 DEF Listed, Reading

LEMMA MessageFacts ==
    ASSUME model \in Models
    PROVE  /\ Len(model.inputs) \in Nat /\ DOMAIN model.inputs = 1..Len(model.inputs)
           /\ Len(model.outputs) \in Nat /\ DOMAIN model.outputs = 1..Len(model.outputs)
           /\ Len(model.nodes) \in Nat /\ DOMAIN model.nodes = 1..Len(model.nodes)
<1>1. \A list : IsSequence(list) => Len(list) \in Nat /\ DOMAIN list = 1..Len(list)
  BY DEF IsSequence
<1>. QED
  BY <1>1, ModelsAssumption

-----------------------------------------------------------------------------
(* The sections before the sort *)

\* One more entry of a section is read; the rest of the loader stands still.
LEMMA AdvanceKeepsRead ==
    ASSUME ReadInv, section \in Reading, position \in DOMAIN Listed,
           position' = position + 1, UNCHANGED <<model, section, nodes, output_names>>,
           section # "nodes"
    PROVE  ReadInv'
<1>1. Len(Listed) \in Nat /\ DOMAIN Listed = 1..Len(Listed) /\ Listed' = Listed
  BY ListedFacts DEF ReadInv, Listed
<1>2. position' \in 1..Len(Listed) + 1
  BY <1>1
<1>3. OutputNames' = OutputNames
  BY DEF OutputNames
<1>. QED
  BY <1>1, <1>2, <1>3 DEF ReadInv

\* A refused message is not read on.
LEMMA ThrowKeepsInv ==
    ASSUME LoadInv, section \in Reading, ThrowLoading
    PROVE  LoadInv'
<1>1. /\ section' = "thrown" /\ section # "sort"
      /\ UNCHANGED <<model, graph_vars, sort_vars>>
  BY DEF ThrowLoading, Reading
<1>2. ReadInv'
  <2>1. OutputNames' = OutputNames
    BY <1>1 DEF OutputNames
  <2>. QED
    BY <1>1, <2>1 DEF LoadInv, ReadInv, graph_vars, Reading
<1>3. CalledInv'
  BY <1>1 DEF LoadInv, CalledInv, sort_vars
<1>4. NamesInv'
  <2>1. InputNames' = InputNames
    BY <1>1 DEF InputNames
  <2>. QED
    BY <1>1, <2>1 DEF LoadInv, NamesInv, graph_vars
<1>. QED
  BY <1>2, <1>3, <1>4 DEF LoadInv

\* The locals of the sort are not touched before it is called.
LEMMA LocalsUntouched ==
    ASSUME CalledInv, section # "sort", section' # "sort", UNCHANGED sort_vars
    PROVE  CalledInv'
BY DEF CalledInv, sort_vars

LEMMA OpsetKeepsInv ==
    ASSUME LoadInv, ReadOpset
    PROVE  LoadInv'
<1>1. /\ section = "opsets" /\ position \in DOMAIN Listed
      /\ UNCHANGED <<model, section, initializers, value_info, input_names, output_names,
                     nodes, sort_vars>>
      /\ position' \in {position + 1, Len(Listed) + 1}
  BY DEF ReadOpset, In
<1>2. Len(Listed) \in Nat /\ DOMAIN Listed = 1..Len(Listed) /\ Listed' = Listed
  BY <1>1, ListedFacts DEF LoadInv, ReadInv, Listed, Reading
<1>3. ReadInv'
  <2>1. position' \in 1..Len(Listed) + 1
    BY <1>1, <1>2
  <2>2. OutputNames' = OutputNames
    BY <1>1 DEF OutputNames
  <2>. QED
    BY <1>1, <1>2, <2>1, <2>2 DEF LoadInv, ReadInv
<1>4. CalledInv'
  BY <1>1, LocalsUntouched DEF LoadInv
<1>5. NamesInv'
  <2>1. InputNames' = InputNames
    BY <1>1 DEF InputNames
  <2>. QED
    BY <1>1, <2>1 DEF LoadInv, NamesInv
<1>. QED
  BY <1>3, <1>4, <1>5 DEF LoadInv

LEMMA InitializerKeepsInv ==
    ASSUME LoadInv, AddInitializer
    PROVE  LoadInv'
<1>1. /\ section = "initializers" /\ position \in DOMAIN Listed
      /\ UNCHANGED <<model, section, value_info, input_names, output_names, nodes, sort_vars>>
      /\ position' = position + 1
  BY DEF AddInitializer, In, Advance
<1>2. ReadInv'
  BY <1>1, AdvanceKeepsRead DEF LoadInv, Reading
<1>3. CalledInv'
  BY <1>1, LocalsUntouched DEF LoadInv
<1>4. NamesInv'
  <2>1. InputNames' = InputNames
    BY <1>1 DEF InputNames
  <2>2. input_names = <<>> /\ input_names' = <<>>
    BY <1>1 DEF LoadInv, NamesInv
  <2>3. Range(input_names') = {}
    BY <2>2 DEF Range
  <2>. QED
    BY <1>1, <2>1, <2>2, <2>3 DEF LoadInv, NamesInv
<1>. QED
  BY <1>2, <1>3, <1>4 DEF LoadInv

\* A description is added, and none goes.
LEMMA ValueInfoKeepsInv ==
    ASSUME LoadInv, AddValueInfo
    PROVE  LoadInv'
<1>1. /\ section \in {"inputs", "value_infos", "outputs"} /\ position \in DOMAIN Listed
      /\ UNCHANGED <<model, section, initializers, input_names, output_names, nodes, sort_vars>>
      /\ position' = position + 1
      /\ DOMAIN value_info' = DOMAIN value_info \cup {Listed[position].name}
  BY DEF AddValueInfo, In, Advance, MergeInfo
<1>2. ReadInv'
  BY <1>1, AdvanceKeepsRead DEF LoadInv, Reading
<1>3. CalledInv'
  BY <1>1, LocalsUntouched DEF LoadInv
<1>4. NamesInv'
  <2>1. InputNames' = InputNames
    BY <1>1 DEF InputNames
  <2>2. /\ Len(Listed) \in Nat /\ DOMAIN Listed = 1..Len(Listed)
        /\ section = "inputs" => Listed = model.inputs
        /\ section = "outputs" => Listed = model.outputs
    BY <1>1, ListedFacts DEF LoadInv, ReadInv, Reading
  <2>3. position \in Nat /\ \A i \in 1..(position + 1) - 1 : i \in 1..position-1 \/ i = position
    BY <1>1, <2>2
  <2>4. section = "inputs" =>
          \A i \in 1..position'-1 : model.inputs[i].name \in DOMAIN value_info'
    BY <1>1, <2>2, <2>3 DEF LoadInv, NamesInv
  <2>5. section = "outputs" =>
          \A i \in 1..position'-1 : model.outputs[i].name \in DOMAIN value_info'
    BY <1>1, <2>2, <2>3 DEF LoadInv, NamesInv
  <2>6. DOMAIN value_info \subseteq DOMAIN value_info'
    BY <1>1
  <2>. QED
    BY <1>1, <2>1, <2>4, <2>5, <2>6 DEF LoadInv, NamesInv
<1>. QED
  BY <1>2, <1>3, <1>4 DEF LoadInv

LEMMA CollectKeepsInv ==
    ASSUME LoadInv, CollectInput
    PROVE  LoadInv'
<1>1. /\ section = "names" /\ position \in DOMAIN Listed
      /\ UNCHANGED <<model, section, initializers, value_info, output_names, nodes, sort_vars>>
      /\ position' = position + 1
  BY DEF CollectInput, In, Advance
<1>2. ReadInv'
  BY <1>1, AdvanceKeepsRead DEF LoadInv, Reading
<1>3. CalledInv'
  BY <1>1, LocalsUntouched DEF LoadInv
<1>4. InputNames' = InputNames
  BY <1>1 DEF InputNames
<1>. DEFINE name == Listed[position].name
<1>5. name \in InputNames
  <2>1. Listed = model.inputs
    BY <1>1, ListedFacts DEF LoadInv, ReadInv, Reading
  <2>. QED
    BY <2>1, <1>1 DEF InputNames
<1>6. /\ input_names' = IF name \notin DOMAIN initializers
                        THEN Append(input_names, name) ELSE input_names
      /\ input_names \in Seq(InputNames) /\ Range(input_names) \cap DOMAIN initializers = {}
  BY DEF CollectInput, IsExternal, LoadInv, NamesInv
<1>. HIDE DEF name
<1>7. /\ Append(input_names, name) \in Seq(InputNames)
      /\ Range(Append(input_names, name)) = Range(input_names) \cup {name}
  BY <1>5, <1>6, AppendFacts
<1>8. input_names' \in Seq(InputNames) /\ Range(input_names') \cap DOMAIN initializers = {}
  BY <1>6, <1>7
<1>9. NamesInv'
  BY <1>1, <1>4, <1>8 DEF LoadInv, NamesInv
<1>. QED
  BY <1>2, <1>3, <1>9 DEF LoadInv

LEMMA NodeKeepsInv ==
    ASSUME LoadInv, AddNode
    PROVE  LoadInv'
<1>1. /\ section = "nodes" /\ position \in DOMAIN Listed
      /\ UNCHANGED <<model, section, initializers, value_info, input_names, output_names, sort_vars>>
      /\ position' = position + 1
      /\ nodes' = Append(nodes, [inputs |-> Listed[position].inputs,
                                 outputs |-> Listed[position].outputs])
  BY DEF AddNode, In, Advance
<1>2. Len(Listed) \in Nat /\ DOMAIN Listed = 1..Len(Listed) /\ Listed = model.nodes
      /\ Listed' = Listed
  BY <1>1, ListedFacts DEF LoadInv, ReadInv, Reading, Listed
<1>3. [inputs |-> Listed[position].inputs, outputs |-> Listed[position].outputs] \in OpNode
  BY <1>1, <1>2, ModelsAssumption DEF LoadInv, ReadInv, OpNode
<1>4. nodes \in Seq(OpNode) /\ Len(nodes) = position - 1
  BY <1>1 DEF LoadInv, ReadInv
<1>5. nodes' \in Seq(OpNode) /\ Len(nodes') = position' - 1
  <2>1. Len(nodes') = Len(nodes) + 1 /\ nodes' \in Seq(OpNode)
    BY <1>1, <1>3, <1>4, AppendFacts
  <2>. QED
    BY <2>1, <1>1, <1>2, <1>4
<1>6. position' \in 1..Len(Listed) + 1
  BY <1>1, <1>2
<1>7. ReadInv'
  <2>1. OutputNames' = OutputNames
    BY <1>1 DEF OutputNames
  <2>2. output_names' = OutputNames
    BY <1>1 DEF LoadInv, ReadInv
  <2>. QED
    BY <1>1, <1>2, <1>5, <1>6, <2>1, <2>2 DEF LoadInv, ReadInv, Reading
<1>8. CalledInv'
  BY <1>1, LocalsUntouched DEF LoadInv
<1>9. NamesInv'
  <2>1. InputNames' = InputNames
    BY <1>1 DEF InputNames
  <2>. QED
    BY <1>1, <2>1 DEF LoadInv, NamesInv
<1>. QED
  BY <1>7, <1>8, <1>9 DEF LoadInv

\* What was said of the entries read holds of all entries in the end.
LEMMA EndSectionKeepsInv ==
    ASSUME LoadInv, EndSection
    PROVE  LoadInv'
<1>1. /\ position \notin DOMAIN Listed /\ position' = 1
      /\ \/ section = "opsets" /\ section' = "initializers"
         \/ section = "initializers" /\ section' = "inputs"
         \/ section = "inputs" /\ section' = "value_infos"
         \/ section = "value_infos" /\ section' = "outputs"
         \/ section = "outputs" /\ section' = "names"
         \/ section = "names" /\ section' = "nodes"
      /\ output_names' = IF section = "names" THEN OutputNames ELSE output_names
      /\ UNCHANGED <<model, initializers, value_info, input_names, nodes, sort_vars>>
  <2>1. PICK k \in 1..Len(Sections) - 1 :
          section = Sections[k] /\ section' = Sections[k+1] /\ position' = 1
    BY DEF EndSection, NextSection
  <2>. QED
    BY <2>1, SectionFacts DEF EndSection, OutputNames
<1>2. section \in Reading /\ section' \in Reading
  BY <1>1 DEF Reading
<1>3. Len(Listed) \in Nat /\ DOMAIN Listed = 1..Len(Listed)
  BY <1>2, ListedFacts DEF LoadInv, ReadInv
<1>4. Len(Listed') \in Nat
  <2>1. model' \in Models
    BY <1>1 DEF LoadInv, ReadInv
  <2>2. IsSequence(Listed')
    BY <2>1, ModelsAssumption DEF Listed
  <2>. QED
    BY <2>2 DEF IsSequence
<1>5. OutputNames' = OutputNames /\ InputNames' = InputNames
  BY <1>1 DEF OutputNames, InputNames
<1>6. ReadInv'
  <2>1. nodes = <<>>
    BY <1>1 DEF LoadInv, ReadInv, Reading
  <2>2. section' = "nodes" => output_names' = OutputNames
    BY <1>1
  <2>3. 1 \in 1..Len(Listed') + 1
    BY <1>4
  <2>4. Len(<<>>) = 1 - 1 /\ <<>> \in Seq(OpNode)
    OBVIOUS
  <2>. QED
    BY <1>1, <1>2, <1>5, <2>1, <2>2, <2>3, <2>4 DEF LoadInv, ReadInv, Reading
<1>7. CalledInv'
  BY <1>1, LocalsUntouched DEF LoadInv
<1>8. NamesInv'
  <2>1. position = Len(Listed) + 1
    BY <1>1, <1>2, <1>3 DEF LoadInv, ReadInv, Reading
  <2>2. section = "inputs" => InputNames \subseteq DOMAIN value_info
    <3>1. SUFFICES ASSUME section = "inputs", NEW i \in DOMAIN model.inputs
                   PROVE  model.inputs[i].name \in DOMAIN value_info
      BY DEF InputNames
    <3>2. Listed = model.inputs
      BY <3>1, <1>2, ListedFacts DEF LoadInv, ReadInv
    <3>3. i \in 1..position-1
      BY <3>2, <2>1, <1>3
    <3>. QED
      BY <3>1, <3>3 DEF LoadInv, NamesInv
  <2>3. section = "outputs" =>
          \A i \in DOMAIN model.outputs : model.outputs[i].name \in DOMAIN value_info
    <3>1. SUFFICES ASSUME section = "outputs", NEW i \in DOMAIN model.outputs
                   PROVE  model.outputs[i].name \in DOMAIN value_info
      OBVIOUS
    <3>2. Listed = model.outputs
      BY <3>1, <1>2, ListedFacts DEF LoadInv, ReadInv
    <3>3. i \in 1..position-1
      BY <3>2, <2>1, <1>3
    <3>. QED
      BY <3>1, <3>3 DEF LoadInv, NamesInv
  <2>4. \A i : ~(i \in 1..1-1)
    OBVIOUS
  <2>5. /\ input_names \in Seq(InputNames)
        /\ Range(input_names) \cap DOMAIN initializers = {}
        /\ section \in {"opsets", "initializers", "inputs", "value_infos", "outputs"} => input_names = <<>>
        /\ section \in {"value_infos", "outputs", "names", "nodes", "sort"} =>
             InputNames \subseteq DOMAIN value_info
        /\ section \in {"names", "nodes", "sort"} =>
             \A i \in DOMAIN model.outputs : model.outputs[i].name \in DOMAIN value_info
    BY DEF LoadInv, NamesInv
  <2>. QED
    BY <1>1, <1>5, <2>2, <2>3, <2>4, <2>5 DEF NamesInv
<1>. QED
  BY <1>6, <1>7, <1>8 DEF LoadInv

-----------------------------------------------------------------------------
(* The sort *)

\* The loader calls the sort in the state that sort_topologically starts from,
\* on all nodes of the message.
LEMMA CallKeepsInv ==
    ASSUME LoadInv, CallSort
    PROVE  LoadInv'
<1>1. /\ section = "nodes" /\ section' = "sort" /\ position \notin DOMAIN Listed /\ position' = 1
      /\ UNCHANGED <<model, graph_vars, index, producer, ready, sorted>>
      /\ phase' = "producers"
      /\ indegree' = [i \in Nodes |-> 0] /\ consumers' = [i \in Nodes |-> {}]
  BY DEF CallSort, NextSection
<1>2. /\ Len(Listed) \in Nat /\ DOMAIN Listed = 1..Len(Listed) /\ Listed = model.nodes
      /\ Listed' = model.nodes
  BY <1>1, ListedFacts DEF LoadInv, ReadInv, Reading, Listed
<1>3. /\ nodes \in Seq(OpNode) /\ Len(nodes) = Len(model.nodes)
      /\ output_names = OutputNames /\ nodes' = nodes /\ output_names' = output_names
  BY <1>1, <1>2 DEF LoadInv, ReadInv, graph_vars, Reading
<1>4. OutputNames' = OutputNames /\ InputNames' = InputNames /\ Nodes' = Nodes
  BY <1>1, <1>3 DEF OutputNames, InputNames, Nodes
<1>5. ReadInv'
  <2>1. 1 \in 1..Len(model.nodes) + 1
    BY <1>2
  <2>. QED
    BY <1>1, <1>2, <1>3, <1>4, <2>1 DEF LoadInv, ReadInv, Reading
<1>6. /\ phase' = "producers" /\ index' = 1 /\ producer' = <<>> /\ ready' = {} /\ sorted' = <<>>
  BY <1>1 DEF LoadInv, CalledInv
<1>7. Typed'
  <2>1. Len(nodes) \in Nat /\ Nodes = 1..Len(nodes) /\ 1 \in 1..Len(nodes) + 1
    BY <1>3 DEF Nodes
  <2>. QED
    BY <1>1, <1>3, <1>4, <1>6, <2>1 DEF Typed
<1>8. \A i \in Nodes : ~(i < 1)
  BY <1>3 DEF Nodes
<1>9. ProducerInv' /\ IndexedInv' /\ OnceInv' /\ ThrownInv'
  BY <1>4, <1>6, <1>8 DEF ProducerInv, IndexedInv, OnceInv, ThrownInv, Scanned
<1>10. CountInv'
  BY <1>1, <1>4, <1>6 DEF CountInv
<1>11. QueueInv' /\ ProducersFirst'
  BY <1>6 DEF QueueInv, ProducersFirst, IsInjective, Range
<1>12. CalledInv'
  BY <1>1, <1>7, <1>9, <1>10, <1>11 DEF CalledInv, IInv
<1>13. NamesInv'
  <2>1. UNCHANGED <<initializers, value_info, input_names>>
    BY <1>1 DEF graph_vars
  <2>. QED
    BY <1>1, <1>4, <2>1 DEF LoadInv, NamesInv
<1>. QED
  BY <1>5, <1>12, <1>13 DEF LoadInv

\* No iteration of the sort changes how many nodes there are.
LEMMA SortKeepsLength ==
    ASSUME Typed, Next
    PROVE  Len(nodes') = Len(nodes)
<1>1. CASE ReplaceNodes
  <2>1. /\ nodes' = [k \in DOMAIN sorted |-> nodes[sorted[k]]] /\ Len(sorted) = Len(nodes)
        /\ DOMAIN sorted = 1..Len(sorted) /\ Len(sorted) \in Nat
    BY <1>1 DEF ReplaceNodes, Typed
  <2>. QED
    BY <2>1
<1>2. CASE ~ReplaceNodes
  BY <1>2 DEF Next, IndexOutputs, DuplicateThrows, ProducersDone, CountDependencies,
              SeedReady, Pop, CycleThrows, Throw
<1>. QED
  BY <1>1, <1>2

LEMMA SortKeepsInv ==
    ASSUME LoadInv, Sort
    PROVE  LoadInv'
<1>1. /\ section = "sort" /\ Next /\ IInv
      /\ UNCHANGED <<model, section, position, opset_version, initializers, value_info,
                     input_names, output_names>>
  BY DEF Sort, LoadInv, CalledInv
<1>2. IInv'
  BY <1>1, SortInvStep
<1>3. OutputNames' = OutputNames /\ InputNames' = InputNames /\ Listed' = Listed
  BY <1>1 DEF OutputNames, InputNames, Listed
<1>4. Len(nodes') = Len(nodes) /\ nodes' \in Seq(OpNode)
  BY <1>1, <1>2, SortKeepsLength DEF IInv, Typed
<1>5. ReadInv'
  BY <1>1, <1>3, <1>4 DEF LoadInv, ReadInv, Reading
<1>6. CalledInv'
  BY <1>1, <1>2 DEF CalledInv
<1>7. NamesInv'
  BY <1>1, <1>3 DEF LoadInv, NamesInv
<1>. QED
  BY <1>5, <1>6, <1>7 DEF LoadInv

LEMMA IdleLoader ==
    ASSUME LoadInv, UNCHANGED load_vars
    PROVE  LoadInv'
<1>1. UNCHANGED <<model, section, position, graph_vars, sort_vars>>
  BY DEF load_vars
<1>2. /\ OutputNames' = OutputNames /\ InputNames' = InputNames /\ Listed' = Listed
      /\ UNCHANGED vars
  BY <1>1 DEF OutputNames, InputNames, Listed, vars, sort_vars, graph_vars
<1>3. ReadInv'
  BY <1>1, <1>2 DEF LoadInv, ReadInv, graph_vars
<1>4. CalledInv'
  <2>1. IInv => IInv'
    BY <1>2, SortInvStep
  <2>. QED
    BY <1>1, <2>1 DEF LoadInv, CalledInv, sort_vars
<1>5. NamesInv'
  BY <1>1, <1>2 DEF LoadInv, NamesInv, graph_vars
<1>. QED
  BY <1>3, <1>4, <1>5 DEF LoadInv

-----------------------------------------------------------------------------
(* The theorems *)

LEMMA LoadStarts == LoadInit => LoadInv
<1> SUFFICES ASSUME LoadInit PROVE LoadInv
  OBVIOUS
<1>1. /\ model \in Models /\ section = "opsets" /\ position = 1 /\ nodes = <<>>
      /\ initializers = <<>> /\ input_names = <<>>
      /\ phase = "idle" /\ index = 1 /\ producer = <<>> /\ ready = {} /\ sorted = <<>>
  BY DEF LoadInit
<1>2. ReadInv
  <2>1. Len(Listed) \in Nat
    BY <1>1, ListedFacts DEF Reading
  <2>2. 1 \in 1..Len(Listed) + 1
    BY <2>1
  <2>. QED
    BY <1>1, <2>2 DEF ReadInv, Reading
<1>3. CalledInv
  BY <1>1 DEF CalledInv
<1>4. NamesInv
  <2>1. <<>> \in Seq(InputNames) /\ Range(<<>>) = {}
    BY DEF Range
  <2>. QED
    BY <1>1, <2>1 DEF NamesInv
<1>. QED
  BY <1>2, <1>3, <1>4 DEF LoadInv

LEMMA LoadStep == LoadInv /\ [LoadNext]_load_vars => LoadInv'
<1> SUFFICES ASSUME LoadInv, [LoadNext]_load_vars PROVE LoadInv'
  OBVIOUS
<1>1. CASE ReadOpset
  BY <1>1, OpsetKeepsInv
<1>2. CASE AddInitializer
  BY <1>2, InitializerKeepsInv
<1>3. CASE InitializerThrows \/ ValueInfoThrows \/ NodeThrows
  BY <1>3, ThrowKeepsInv DEF InitializerThrows, ValueInfoThrows, NodeThrows, In, Reading
<1>4. CASE AddValueInfo
  BY <1>4, ValueInfoKeepsInv
<1>5. CASE CollectInput
  BY <1>5, CollectKeepsInv
<1>6. CASE AddNode
  BY <1>6, NodeKeepsInv
<1>7. CASE EndSection
  BY <1>7, EndSectionKeepsInv
<1>8. CASE CallSort
  BY <1>8, CallKeepsInv
<1>9. CASE Sort
  BY <1>9, SortKeepsInv
<1>10. CASE UNCHANGED load_vars
  BY <1>10, IdleLoader
<1>. QED
  BY <1>1, <1>2, <1>3, <1>4, <1>5, <1>6, <1>7, <1>8, <1>9, <1>10 DEF LoadNext

LEMMA LoadInvariant == LoadSpec => []LoadInv
BY LoadStarts, LoadStep, PTL DEF LoadSpec

\* For every message: load_onnx reads the sections whole and in their order,
\* sorts once and on all nodes, and a refused message has no later part.
THEOREM LoaderTyped == LoadSpec => []LoadTypeOK
<1>1. LoadInv => LoadTypeOK
  <2> SUFFICES ASSUME LoadInv PROVE LoadTypeOK
    OBVIOUS
  <2>1. Len(OutputNames) = Len(model.outputs)
    BY MessageFacts DEF LoadInv, ReadInv, OutputNames
  <2>2. section \in Range(Sections) \cup {"sort", "thrown"}
    BY SectionFacts DEF LoadInv, ReadInv
  <2>3. phase # "idle" <=> section = "sort"
    BY DEF LoadInv, CalledInv, IInv, Typed
  <2>. QED
    BY <2>1, <2>2, <2>3 DEF LoadInv, ReadInv, LoadTypeOK
<1>. QED
  BY <1>1, LoadInvariant, PTL

\* For every message that load_onnx accepts, the graph is what the planner and
\* the engine take for granted.
THEOREM LoadedGraphIsReady == LoadSpec => []GraphReady
<1>1. LoadInv => GraphReady
  <2> SUFFICES ASSUME LoadInv, phase = "sorted"
               PROVE  /\ Range(input_names) \cap DOMAIN initializers = {}
                      /\ Range(input_names) \cup Range(output_names) \subseteq DOMAIN value_info
                      /\ \A i, p \in Nodes : Order!DependsOn(nodes, i, p) => p < i
                      /\ ~Order!ProducedTwice(nodes)
    BY DEF GraphReady
  <2>1. section = "sort" /\ IInv
    BY DEF LoadInv, CalledInv
  <2>2. Range(input_names) \subseteq InputNames
    <3>1. \A S : \A s \in Seq(S) : Range(s) \subseteq S
      BY DEF Range
    <3>. QED
      BY <3>1 DEF LoadInv, NamesInv
  <2>3. Range(output_names) \subseteq DOMAIN value_info
    BY <2>1 DEF LoadInv, ReadInv, NamesInv, OutputNames, Range
  <2>4. ~Order!ProducedTwice(nodes)
    BY <2>1, RunningOnce DEF IInv
  <2>. QED
    BY <2>1, <2>2, <2>3, <2>4 DEF LoadInv, NamesInv, IInv, ProducersFirst
<1>. QED
  BY <1>1, LoadInvariant, PTL

-----------------------------------------------------------------------------
(* What the parsers return *)

\* The recursion of FoldLeft when each element is mapped and appended.
AppendStep(w, f) ==
    [s \in SUBSET DOMAIN f |->
        IF s = {} THEN <<>> ELSE Append(w[s \ {Max(s)}], f[Max(s)])]

Appended(f) == (CHOOSE w : w = AppendStep(w, f))[DOMAIN f]

\* A sequence that is built by appending is the function that maps its places.
LEMMA AppendedFacts ==
    ASSUME NEW n \in Nat, NEW V, NEW f \in [1..n -> V]
    PROVE  Appended(f) = f
<1> DEFINE D == 1..n
           S == Seq(V)
           next == [p \in S \X D |-> Append(p[1], f[p[2]])]
           Q == CHOOSE w : w = AppendStep(w, f)
           part(k) == [i \in 1..k |-> f[i]]
<1>1. DOMAIN f = D /\ \A i \in D : f[i] \in V
  OBVIOUS
<1>2. Descent(S, <<>>, next, n)
  <2>1. \A a \in S, i \in D : Append(a, f[i]) \in S
    BY <1>1
  <2>2. next \in [S \X D -> S]
    <3> HIDE DEF S, D
    <3>. QED
      BY <2>1
  <2>. QED
    BY <2>2 DEF Descent
<1>3. \A a \in S, i \in D : next[<<a, i>>] = Append(a, f[i])
  OBVIOUS
<1> HIDE DEF next, S
<1>4. PICK w : Descends(w, S, <<>>, next, n)
  BY <1>2, DescentExists
<1>5. \A s \in SUBSET D : s # {} => /\ Max(s) \in s /\ Max(s) \in D
                                    /\ \A x \in s : x <= Max(s)
  BY LargestIn
<1>6. w = AppendStep(w, f)
  <2>1. \A s \in SUBSET D : s # {} => w[s \ {Max(s)}] \in S
    BY <1>4 DEF Descends
  <2>2. \A s \in SUBSET D : s # {} =>
           next[<<w[s \ {Max(s)}], Max(s)>>] = Append(w[s \ {Max(s)}], f[Max(s)])
    BY <1>3, <1>5, <2>1
  <2>3. DescentStep(w, <<>>, next, n) = AppendStep(w, f)
    BY <1>1, <2>2 DEF DescentStep, AppendStep
  <2>. QED
    BY <1>4, <2>3 DEF Descends
<1>7. Q = AppendStep(Q, f)
  BY <1>6
<1> HIDE DEF Q
<1>8. \A s \in SUBSET D : Q[s] = IF s = {} THEN <<>> ELSE Append(Q[s \ {Max(s)}], f[Max(s)])
  BY <1>1, <1>7 DEF AppendStep
<1> DEFINE P == {k \in 0..n : Q[1..k] = part(k)}
<1>9. 0 \in P
  <2>1. 1..0 = {} /\ part(0) = <<>>
    OBVIOUS
  <2>2. Q[{}] = <<>>
    BY <1>8
  <2> HIDE DEF part
  <2>. QED
    BY <2>1, <2>2
<1>10. ASSUME NEW k \in 0..n-1, k \in P PROVE k + 1 \in P
  <2> SUFFICES Q[1..k+1] = part(k+1)
    OBVIOUS
  <2> DEFINE s == 1..k+1
  <2>1. s \in SUBSET D /\ s # {} /\ k + 1 \in s /\ \A x \in s : x <= k + 1 /\ x \in Nat
    <3>1. \A x \in s : x \in D /\ x <= k + 1 /\ x \in Nat
      OBVIOUS
    <3>2. k + 1 \in s
      OBVIOUS
    <3> HIDE DEF s, D
    <3>. QED
      BY <3>1, <3>2
  <2>2. Max(s) = k + 1
    <3>1. Max(s) \in s /\ k + 1 <= Max(s)
      BY <1>5, <2>1
    <3>2. Max(s) <= k + 1 /\ Max(s) \in Nat
      BY <3>1, <2>1
    <3> HIDE DEF s
    <3>. QED
      BY <3>1, <3>2
  <2>3. s \ {k + 1} = 1..k
    OBVIOUS
  <2>4. Q[1..k] = part(k)
    BY <1>10
  <2>5. Append(part(k), f[k+1]) = part(k+1)
    <3>1. \A i \in 1..k : f[i] \in V
      OBVIOUS
    <3>2. f[k+1] \in V
      OBVIOUS
    <3>. QED
      BY <3>1, <3>2
  <2> HIDE DEF s, part
  <2>6. Q[s] = Append(Q[s \ {Max(s)}], f[Max(s)])
    BY <1>8, <2>1
  <2>. QED
    BY <2>2, <2>3, <2>4, <2>5, <2>6 DEF s
<1>11. \A k \in 0..n : k \in P
  <2> HIDE DEF P
  <2>. QED
    BY <1>9, <1>10, NaturalInduction
<1>12. Q[D] = part(n)
  <2>1. n \in 0..n
    OBVIOUS
  <2>. QED
    BY <1>11, <2>1
<1>13. part(n) = f
  OBVIOUS
<1>. QED
  BY <1>1, <1>12, <1>13 DEF Appended, Q

\* The dimensions are mapped one by one.
LEMMA ParsedInfo ==
    ASSUME NEW value, IsSequence(value.dims)
    PROVE  ParseInfo(value) = Loading!Info(value)
<1> DEFINE n == Len(value.dims)
           shape == [i \in DOMAIN value.dims |->
                       IF value.dims[i].kind = "value" THEN value.dims[i].value ELSE -1]
           params == [i \in DOMAIN value.dims |->
                        IF value.dims[i].kind = "param" THEN value.dims[i].param ELSE ""]
           foldedShape == FoldLeft(LAMBDA s, dim :
                            Append(s, IF dim.kind = "value" THEN dim.value ELSE -1),
                            <<>>, value.dims)
           foldedParams == FoldLeft(LAMBDA p, dim :
                             Append(p, IF dim.kind = "param" THEN dim.param ELSE ""),
                             <<>>, value.dims)
<1>1. n \in Nat /\ DOMAIN value.dims = 1..n
  BY DEF IsSequence
<1> HIDE DEF n
<1>2. \A s \in SUBSET DOMAIN value.dims : s # {} => Max(s) \in DOMAIN value.dims
  BY <1>1, LargestIn
<1>3. foldedShape = Appended(shape)
  <2> DEFINE Raw(w) == [s \in SUBSET DOMAIN value.dims |->
                          IF s = {} THEN <<>>
                          ELSE Append(w[s \ {Max(s)}],
                                      IF value.dims[Max(s)].kind = "value"
                                      THEN value.dims[Max(s)].value ELSE -1)]
  <2>1. foldedShape = (CHOOSE w : w = Raw(w))[DOMAIN value.dims]
    BY DEF FoldLeft, MapThenFoldSet
  <2>2. \A w : Raw(w) = AppendStep(w, shape)
    BY <1>2 DEF AppendStep
  <2>3. DOMAIN shape = DOMAIN value.dims
    OBVIOUS
  <2> HIDE DEF Raw, foldedShape, shape
  <2>. QED
    BY <2>1, <2>2, <2>3 DEF Appended
<1>4. foldedParams = Appended(params)
  <2> DEFINE Raw(w) == [s \in SUBSET DOMAIN value.dims |->
                          IF s = {} THEN <<>>
                          ELSE Append(w[s \ {Max(s)}],
                                      IF value.dims[Max(s)].kind = "param"
                                      THEN value.dims[Max(s)].param ELSE "")]
  <2>1. foldedParams = (CHOOSE w : w = Raw(w))[DOMAIN value.dims]
    BY DEF FoldLeft, MapThenFoldSet
  <2>2. \A w : Raw(w) = AppendStep(w, params)
    BY <1>2 DEF AppendStep
  <2>3. DOMAIN params = DOMAIN value.dims
    OBVIOUS
  <2> HIDE DEF Raw, foldedParams, params
  <2>. QED
    BY <2>1, <2>2, <2>3 DEF Appended
<1>5. Appended(shape) = shape
  <2> DEFINE V == {shape[i] : i \in 1..n}
  <2>1. shape \in [1..n -> V]
    BY <1>1
  <2> HIDE DEF V, shape
  <2>. QED
    BY <1>1, <2>1, AppendedFacts
<1>6. Appended(params) = params
  <2> DEFINE V == {params[i] : i \in 1..n}
  <2>1. params \in [1..n -> V]
    BY <1>1
  <2> HIDE DEF V, params
  <2>. QED
    BY <1>1, <2>1, AppendedFacts
<1>7. Loading!Info(value) = [dtype |-> value.dtype, shape_known |-> value.has_shape,
                             shape |-> shape, dim_params |-> params]
  BY DEF Loading!Info
<1>8. ParseInfo(value) = [dtype |-> value.dtype, shape_known |-> value.has_shape,
                          shape |-> foldedShape, dim_params |-> foldedParams]
  BY DEF ParseInfo
<1> HIDE DEF shape, params, foldedShape, foldedParams
<1>. QED
  BY <1>3, <1>4, <1>5, <1>6, <1>7, <1>8

Supports == {"FLOAT32", "INT64", "INT32", "BOOL", "UINT8"}

LEMMA TypeTables ==
    /\ DOMAIN Loading!Sizes = Supports /\ DOMAIN Loading!Limits = {"BOOL", "UINT8"}
    /\ Loading!Limits["BOOL"] = 0..1 /\ Loading!Limits["UINT8"] = 0..255
    /\ \A dtype \in Supports : Loading!Sizes[dtype] = Size(dtype)
    /\ \A dtype : Supported(dtype) <=> dtype \in Supports
<1>1. DOMAIN Loading!Sizes = Supports
  BY DEF Loading!Sizes, Supports
<1>2. /\ DOMAIN Loading!Limits = {"BOOL", "UINT8"}
      /\ Loading!Limits["BOOL"] = 0..1 /\ Loading!Limits["UINT8"] = 0..255
  BY DEF Loading!Limits
<1>3. \A dtype : Supported(dtype) <=> dtype \in Supports
  BY DEF Supported, Supports
<1>4. /\ Loading!Sizes["FLOAT32"] = Size("FLOAT32") /\ Loading!Sizes["INT64"] = Size("INT64")
      /\ Loading!Sizes["INT32"] = Size("INT32") /\ Loading!Sizes["BOOL"] = Size("BOOL")
      /\ Loading!Sizes["UINT8"] = Size("UINT8")
  BY DEF Loading!Sizes, Size
<1>. QED
  BY <1>1, <1>2, <1>3, <1>4 DEF Supports

LEMMA FieldSizes ==
    ASSUME NEW proto, proto.dtype \in Supports
    PROVE  FieldSize(proto) = IF proto.field = Loading!Fields[proto.dtype]
                              THEN Len(proto.data) ELSE 0
<1>1. CASE proto.dtype = "FLOAT32"
  BY <1>1 DEF FieldSize, Loading!Fields
<1>2. CASE proto.dtype = "INT64"
  BY <1>2 DEF FieldSize, Loading!Fields
<1>3. CASE proto.dtype = "INT32"
  BY <1>3 DEF FieldSize, Loading!Fields
<1>4. CASE proto.dtype = "BOOL"
  BY <1>4 DEF FieldSize, Loading!Fields
<1>5. CASE proto.dtype = "UINT8"
  BY <1>5 DEF FieldSize, Loading!Fields
<1>. QED
  BY <1>1, <1>2, <1>3, <1>4, <1>5 DEF Supports

\* parse_tensor accepts the tensors that hold their elements.
LEMMA SoundTensors ==
    ASSUME NEW proto, IsTensorProto(proto)
    PROVE  TensorThrows(proto) <=> ~Loading!Sound(proto)
<1>1. /\ proto.numel \in Nat \cup {-1} /\ proto.raw_data \in Nat
      /\ Len(proto.data) \in Nat /\ DOMAIN proto.data = 1..Len(proto.data)
      /\ Loading!Range(proto.data) = {proto.data[k] : k \in 1..Len(proto.data)}
  BY DEF IsTensorProto, IsSequence, Loading!Range
<1>2. CASE proto.external \/ proto.numel < 0 \/ proto.dtype \notin Supports
  BY <1>1, <1>2, TypeTables DEF TensorThrows, Loading!Sound
<1>3. CASE /\ ~proto.external /\ proto.numel \in Nat /\ proto.dtype \in Supports
           /\ proto.raw_data > 0
  BY <1>3, TypeTables DEF TensorThrows, Loading!Sound, HoldsElements
<1>4. CASE /\ ~proto.external /\ proto.numel \in Nat /\ proto.dtype \in Supports
           /\ ~(proto.raw_data > 0)
  <2> DEFINE size == FieldSize(proto)
             values == {proto.data[k] : k \in 1..Len(proto.data)}
             limited == \A k \in 1..size :
                           /\ proto.dtype = "BOOL" => proto.data[k] \in {0, 1}
                           /\ proto.dtype \in {"BOOL", "UINT8"} => proto.data[k] \in 0..255
             within == proto.numel > 0 /\ proto.dtype \in DOMAIN Loading!Limits =>
                         values \subseteq Loading!Limits[proto.dtype]
  <2>0. \A S : values \subseteq S <=> \A k \in 1..Len(proto.data) : proto.data[k] \in S
    OBVIOUS
  <2>1. size = IF proto.field = Loading!Fields[proto.dtype] THEN Len(proto.data) ELSE 0
    BY <1>4, FieldSizes
  <2>2. TensorThrows(proto) <=> ~(size = proto.numel /\ limited)
    BY <1>4, TypeTables DEF TensorThrows, HoldsElements
  <2>3. Loading!Sound(proto) <=> proto.numel = size /\ within
    <3>1. /\ proto.numel >= 0 /\ ~proto.external /\ proto.dtype \in DOMAIN Loading!Sizes
          /\ ~(proto.raw_data > 0)
      BY <1>4, TypeTables
    <3>2. Loading!Range(proto.data) = values
      BY <1>1
    <3>3. Loading!Sound(proto) <=>
            /\ proto.numel = IF proto.field = Loading!Fields[proto.dtype]
                             THEN Len(proto.data) ELSE 0
            /\ proto.numel > 0 /\ proto.dtype \in DOMAIN Loading!Limits =>
                 Loading!Range(proto.data) \subseteq Loading!Limits[proto.dtype]
      BY <3>1, Zenon DEF Loading!Sound
    <3> HIDE DEF size, values
    <3>. QED
      BY <2>1, <3>2, <3>3
  <2>4. ASSUME size = proto.numel PROVE limited <=> within
    <3>1. CASE proto.numel = 0
      BY <3>1, <2>4
    <3>2. CASE proto.numel > 0 /\ proto.dtype \in {"BOOL", "UINT8"}
      <4>1. size = Len(proto.data)
        BY <3>2, <2>1, <2>4, <1>1
      <4>2. \A v : v \in {0, 1} <=> v \in 0..1
        OBVIOUS
      <4>3. \A v : v \in {0, 1} => v \in 0..255
        OBVIOUS
      <4>4. CASE proto.dtype = "BOOL"
        <5> HIDE DEF values
        <5>1. within <=> values \subseteq 0..1
          BY <3>2, <4>4, TypeTables
        <5>2. limited <=> \A k \in 1..Len(proto.data) : proto.data[k] \in {0, 1}
          BY <4>1, <4>3, <4>4
        <5> HIDE DEF limited, within
        <5>3. values \subseteq 0..1 <=> \A k \in 1..Len(proto.data) : proto.data[k] \in 0..1
          BY <2>0
        <5>. QED
          BY <5>1, <5>2, <5>3, <4>2
      <4>5. CASE proto.dtype = "UINT8"
        <5> HIDE DEF values
        <5>1. within <=> values \subseteq 0..255
          BY <3>2, <4>5, TypeTables
        <5>2. limited <=> \A k \in 1..Len(proto.data) : proto.data[k] \in 0..255
          BY <4>1, <4>5
        <5> HIDE DEF limited, within
        <5>3. values \subseteq 0..255 <=> \A k \in 1..Len(proto.data) : proto.data[k] \in 0..255
          BY <2>0
        <5>. QED
          BY <5>1, <5>2, <5>3
      <4>. QED
        BY <3>2, <4>4, <4>5
    <3>3. CASE proto.dtype \notin {"BOOL", "UINT8"}
      BY <3>3, TypeTables
    <3>. QED
      BY <3>1, <3>2, <3>3, <1>4
  <2> HIDE DEF size, limited, within
  <2>. QED
    BY <2>2, <2>3, <2>4
<1>. QED
  BY <1>1, <1>2, <1>3, <1>4

LEMMA ParsedTensor ==
    ASSUME NEW proto, IsTensorProto(proto)
    PROVE  ParseTensor(proto) = Loading!Content(proto)
BY DEF IsTensorProto, ParseTensor, Loading!Content

\* What parse_value_info accepts.
LEMMA SoundInfos ==
    ASSUME NEW value
    PROVE  InfoThrows(value) <=> ~(value.tensor /\ value.dtype \in DOMAIN Loading!Sizes)
BY TypeTables DEF InfoThrows

\* A node is read if no attribute is refused and none comes twice.
LEMMA SoundNodes ==
    ASSUME NEW node, IsSequence(node.attributes),
           \A j \in DOMAIN node.attributes : node.attributes[j].type = "TENSOR" =>
               IsTensorProto(node.attributes[j].tensor)
    PROVE  (\E i \in DOMAIN node.attributes :
              \/ AttributeThrows(node.attributes[i])
              \/ DuplicateAttribute(node.attributes, i))
           <=> ~Loading!SoundNode(node)
<1> DEFINE list == node.attributes
           fits(i) == /\ list[i].type \in Loading!Kinds
                      /\ list[i].type = "TENSOR" => Loading!Sound(list[i].tensor)
<1>1. Len(list) \in Nat /\ DOMAIN list = 1..Len(list)
  BY DEF IsSequence
<1>2. \A i \in DOMAIN list : AttributeThrows(list[i]) <=> ~fits(i)
  <2> TAKE i \in DOMAIN list
  <2>1. CASE list[i].type = "TENSOR"
    <3>1. TensorThrows(list[i].tensor) <=> ~Loading!Sound(list[i].tensor)
      BY <2>1, SoundTensors
    <3>. QED
      BY <2>1, <3>1 DEF AttributeThrows, Loading!Kinds
  <2>2. CASE list[i].type # "TENSOR"
    BY <2>2 DEF AttributeThrows, Loading!Kinds
  <2>. QED
    BY <2>1, <2>2
<1>3. (\E i \in DOMAIN list : DuplicateAttribute(list, i))
        <=> ~(\A i, j \in DOMAIN list : list[i].name = list[j].name => i = j)
  <2>1. ASSUME NEW i \in DOMAIN list, DuplicateAttribute(list, i)
        PROVE  \E k, j \in DOMAIN list : list[k].name = list[j].name /\ k # j
    <3>1. PICK j \in 1..i-1 : list[j].name = list[i].name
      BY <2>1 DEF DuplicateAttribute
    <3>2. j \in DOMAIN list /\ j # i
      BY <1>1
    <3>. QED
      BY <3>1, <3>2
  <2>2. ASSUME NEW i \in DOMAIN list, NEW j \in DOMAIN list,
               list[i].name = list[j].name, i # j
        PROVE  \E k \in DOMAIN list : DuplicateAttribute(list, k)
    <3>1. CASE i < j
      <4>1. i \in 1..j-1
        BY <1>1, <3>1
      <4>. QED
        BY <4>1, <2>2 DEF DuplicateAttribute
    <3>2. CASE j < i
      <4>1. j \in 1..i-1
        BY <1>1, <3>2
      <4>. QED
        BY <4>1, <2>2 DEF DuplicateAttribute
    <3>. QED
      BY <1>1, <2>2, <3>1, <3>2
  <2>. QED
    BY <2>1, <2>2
<1>4. Loading!SoundNode(node) <=>
        /\ \A i \in DOMAIN list : fits(i)
        /\ \A i, j \in DOMAIN list : list[i].name = list[j].name => i = j
  BY DEF Loading!SoundNode
<1> HIDE DEF fits, list
<1>. QED
  BY <1>2, <1>3, <1>4 DEF list

-----------------------------------------------------------------------------
(* Entries of one name *)

Same(list, n, name) == {i \in 1..n : list[i].name = name}

NamesOf(list, n) == {list[i].name : i \in 1..n}

FirstOf(list, n, name) ==
    CHOOSE i \in Same(list, n, name) : \A j \in Same(list, n, name) : i <= j

LastOf(list, n, name) ==
    CHOOSE i \in Same(list, n, name) : \A j \in Same(list, n, name) : i >= j

\* What the first n entries come to if the first, or the last, of a name counts.
Firsts(list, n) == [name \in NamesOf(list, n) |-> Loading!Content(list[FirstOf(list, n, name)])]

Lasts(list, n) == [name \in NamesOf(list, n) |-> Loading!Info(list[LastOf(list, n, name)])]

LEMMA NamesGrow ==
    ASSUME NEW list, NEW n \in Nat
    PROVE  NamesOf(list, n + 1) = NamesOf(list, n) \cup {list[n + 1].name}
<1>1. 1..n+1 = (1..n) \cup {n + 1}
  OBVIOUS
<1>. QED
  BY <1>1 DEF NamesOf

LEMMA FirstIs ==
    ASSUME NEW list, NEW n \in Nat, NEW name, NEW f \in Same(list, n, name),
           \A j \in Same(list, n, name) : f <= j
    PROVE  FirstOf(list, n, name) = f
<1> DEFINE S == Same(list, n, name)
<1>1. S \subseteq Nat
  BY DEF Same
<1>2. \A g \in S : (\A j \in S : g <= j) => g = f
  <2> TAKE g \in S
  <2> HAVE \A j \in S : g <= j
  <2>1. g <= f /\ f <= g /\ g \in Nat /\ f \in Nat
    BY <1>1
  <2>. QED
    BY <2>1
<1> HIDE DEF S
<1>3. (CHOOSE i \in S : \A j \in S : i <= j) = f
  BY <1>2 DEF S
<1>. QED
  BY <1>3 DEF S, FirstOf

\* One more initializer.
LEMMA FirstsGrow ==
    ASSUME NEW list, NEW n \in Nat
    PROVE  Firsts(list, n + 1) =
             [name \in DOMAIN Firsts(list, n) \cup {list[n + 1].name} |->
                IF name \in DOMAIN Firsts(list, n) THEN Firsts(list, n)[name]
                ELSE Loading!Content(list[n + 1])]
<1>1. /\ NamesOf(list, n + 1) = NamesOf(list, n) \cup {list[n + 1].name}
      /\ DOMAIN Firsts(list, n) = NamesOf(list, n)
  BY NamesGrow DEF Firsts
<1>2. \A name : Same(list, n + 1, name)
                  = Same(list, n, name) \cup (IF list[n + 1].name = name THEN {n + 1} ELSE {})
  BY DEF Same
<1>3. ASSUME NEW name \in NamesOf(list, n)
      PROVE  FirstOf(list, n + 1, name) = FirstOf(list, n, name)
  <2>1. Same(list, n, name) \in SUBSET Nat /\ Same(list, n, name) # {}
        /\ \A j \in Same(list, n, name) : j <= n
    BY <1>3 DEF Same, NamesOf
  <2>2. PICK f \in Same(list, n, name) : \A j \in Same(list, n, name) : f <= j
    BY <2>1, LeastNatural
  <2>3. f <= n + 1
    BY <2>1
  <2>4. f \in Same(list, n + 1, name) /\ \A j \in Same(list, n + 1, name) : f <= j
    BY <1>2, <2>2, <2>3
  <2>5. FirstOf(list, n, name) = f
    BY <2>2, FirstIs
  <2>6. n + 1 \in Nat
    OBVIOUS
  <2>7. FirstOf(list, n + 1, name) = f
    BY <2>4, <2>6, FirstIs
  <2>. QED
    BY <2>5, <2>7
<1>4. ASSUME list[n + 1].name \notin NamesOf(list, n)
      PROVE  FirstOf(list, n + 1, list[n + 1].name) = n + 1
  <2>1. Same(list, n + 1, list[n + 1].name) = {n + 1}
    BY <1>4 DEF Same, NamesOf
  <2>2. n + 1 \in Nat /\ n + 1 <= n + 1
    OBVIOUS
  <2>. QED
    BY <2>1, <2>2, FirstIs
<1>5. Firsts(list, n + 1) =
        [name \in NamesOf(list, n) \cup {list[n + 1].name} |->
           Loading!Content(list[FirstOf(list, n + 1, name)])]
  BY <1>1 DEF Firsts
<1>6. \A name \in NamesOf(list, n) :
        Firsts(list, n)[name] = Loading!Content(list[FirstOf(list, n, name)])
  BY DEF Firsts
<1>7. \A name \in NamesOf(list, n) \cup {list[n + 1].name} :
        Loading!Content(list[FirstOf(list, n + 1, name)])
          = IF name \in NamesOf(list, n) THEN Firsts(list, n)[name]
            ELSE Loading!Content(list[n + 1])
  BY <1>3, <1>4, <1>6
<1>. QED
  BY <1>1, <1>5, <1>7

\* One more description.
LEMMA LastsGrow ==
    ASSUME NEW list, NEW n \in Nat
    PROVE  Lasts(list, n + 1) =
             [name \in DOMAIN Lasts(list, n) \cup {list[n + 1].name} |->
                IF name = list[n + 1].name THEN Loading!Info(list[n + 1])
                ELSE Lasts(list, n)[name]]
<1>1. /\ NamesOf(list, n + 1) = NamesOf(list, n) \cup {list[n + 1].name}
      /\ DOMAIN Lasts(list, n) = NamesOf(list, n)
  BY NamesGrow DEF Lasts
<1>2. ASSUME NEW name, name # list[n + 1].name
      PROVE  LastOf(list, n + 1, name) = LastOf(list, n, name)
  <2>1. Same(list, n + 1, name) = Same(list, n, name)
    BY <1>2 DEF Same
  <2>. QED
    BY <2>1 DEF LastOf
<1>3. LastOf(list, n + 1, list[n + 1].name) = n + 1
  <2> DEFINE S == Same(list, n + 1, list[n + 1].name)
  <2>1. n + 1 \in S /\ S \subseteq Nat /\ \A j \in S : n + 1 >= j
    BY DEF Same
  <2>2. \A g \in S : (\A j \in S : g >= j) => g = n + 1
    BY <2>1
  <2> HIDE DEF S
  <2>3. (CHOOSE i \in S : \A j \in S : i >= j) = n + 1
    BY <2>1, <2>2
  <2>. QED
    BY <2>3 DEF S, LastOf
<1>4. Lasts(list, n + 1) =
        [name \in NamesOf(list, n) \cup {list[n + 1].name} |->
           Loading!Info(list[LastOf(list, n + 1, name)])]
  BY <1>1 DEF Lasts
<1>5. \A name \in NamesOf(list, n) :
        Lasts(list, n)[name] = Loading!Info(list[LastOf(list, n, name)])
  BY DEF Lasts
<1>6. \A name \in NamesOf(list, n) \cup {list[n + 1].name} :
        Loading!Info(list[LastOf(list, n + 1, name)])
          = IF name = list[n + 1].name THEN Loading!Info(list[n + 1])
            ELSE Lasts(list, n)[name]
  BY <1>2, <1>3, <1>5
<1>. QED
  BY <1>1, <1>4, <1>6

LEMMA NoEntries == ASSUME NEW list PROVE Firsts(list, 0) = <<>> /\ Lasts(list, 0) = <<>>
<1>1. NamesOf(list, 0) = {}
  BY DEF NamesOf
<1>2. \A f : DOMAIN f = {} /\ f = [x \in DOMAIN f |-> f[x]] => f = <<>>
  OBVIOUS
<1>. QED
  BY <1>1, <1>2 DEF Firsts, Lasts

-----------------------------------------------------------------------------
(* The k-th of a set of places *)

Rank(S, i) == Cardinality({j \in S : j <= i})

LEMMA RankExists ==
    ASSUME NEW n \in Nat
    PROVE  \A S \in SUBSET (1..n) : \A k \in 1..Cardinality(S) : \E i \in S : Rank(S, i) = k
<1> DEFINE T == {m \in 0..n : \A S \in SUBSET (1..m) : \A k \in 1..Cardinality(S) :
                                 \E i \in S : Rank(S, i) = k}
<1>1. 0 \in T
  <2>1. ASSUME NEW S \in SUBSET (1..0), NEW k \in 1..Cardinality(S) PROVE FALSE
    <3>1. S = {}
      OBVIOUS
    <3>2. Cardinality(S) = 0
      BY <3>1, FS_EmptySet
    <3>. QED
      BY <3>2
  <2>. QED
    BY <2>1
<1>2. ASSUME NEW m \in 0..n-1, m \in T PROVE m + 1 \in T
  <2> SUFFICES ASSUME NEW S \in SUBSET (1..m+1), NEW k \in 1..Cardinality(S)
               PROVE  \E i \in S : Rank(S, i) = k
    OBVIOUS
  <2>1. CASE m + 1 \notin S
    <3>1. S \in SUBSET (1..m)
      BY <2>1
    <3>. QED
      BY <3>1, <1>2
  <2>2. CASE m + 1 \in S
    <3> DEFINE F == S \ {m + 1}
               c == Cardinality(S)
    <3>1. F \in SUBSET (1..m)
      OBVIOUS
    <3>2. Cardinality(F) = c - 1 /\ c \in Nat
      <4>1. m + 1 \in Nat
        OBVIOUS
      <4>. QED
        BY <4>1, <2>2, CountFacts
    <3>3. CASE k = c
      <4>1. {j \in S : j <= m + 1} = S
        <5>1. \A j \in S : j <= m + 1
          OBVIOUS
        <5>. QED
          BY <5>1
      <4>. QED
        BY <4>1, <2>2, <3>3 DEF Rank
    <3>4. CASE k # c
      <4>1. k \in 1..Cardinality(F)
        <5> HIDE DEF c, F
        <5>. QED
          BY <3>2, <3>4 DEF c
      <4>2. PICK i \in F : Rank(F, i) = k
        BY <4>1, <3>1, <1>2
      <4>3. {j \in S : j <= i} = {j \in F : j <= i}
        OBVIOUS
      <4>. QED
        BY <4>2, <4>3 DEF Rank
    <3>. QED
      BY <3>3, <3>4
  <2>. QED
    BY <2>1, <2>2
<1>3. \A m \in 0..n : m \in T
  <2> HIDE DEF T
  <2>. QED
    BY <1>1, <1>2, NaturalInduction
<1>4. n \in 0..n
  OBVIOUS
<1>. QED
  BY <1>3, <1>4

LEMMA RankGrows ==
    ASSUME NEW n \in Nat, NEW S \in SUBSET (1..n), NEW i \in S, NEW j \in S, i < j
    PROVE  Rank(S, i) < Rank(S, j)
<1> DEFINE A == {x \in S : x <= i}
           B == {x \in S : x <= j}
<1>1. A \in SUBSET (1..n) /\ B \in SUBSET (1..n) /\ j \in B /\ A \subseteq B \ {j}
  <2>1. A \subseteq 1..n /\ B \subseteq 1..n
    OBVIOUS
  <2>2. j \in B
    OBVIOUS
  <2>3. \A x \in A : x \in S /\ x <= j /\ x # j
    OBVIOUS
  <2>. QED
    BY <2>1, <2>2, <2>3
<1> HIDE DEF A, B
<1>2. /\ IsFiniteSet(B) /\ Cardinality(B) \in Nat /\ Cardinality(A) \in Nat
      /\ Cardinality(B \ {j}) = Cardinality(B) - 1
  BY <1>1, CountFacts
<1>3. IsFiniteSet(B \ {j})
  BY <1>2, FS_RemoveElement
<1>4. Cardinality(A) <= Cardinality(B \ {j})
  BY <1>1, <1>3, FS_Subset
<1>5. Cardinality(A) < Cardinality(B)
  BY <1>2, <1>4
<1>. QED
  BY <1>5 DEF A, B, Rank

LEMMA NthByRank ==
    \A S, k : Loading!Nth(S, k) = CHOOSE i \in S : Rank(S, i) = k
<1>1. \A S : Loading!Cardinality(S) = Cardinality(S)
  BY Zenon DEF Loading!Cardinality, Cardinality
<1>. QED
  BY <1>1 DEF Loading!Nth, Rank

LEMMA NthFacts ==
    ASSUME NEW n \in Nat, NEW S \in SUBSET (1..n), NEW k \in 1..Cardinality(S)
    PROVE  /\ Loading!Nth(S, k) \in S /\ Rank(S, Loading!Nth(S, k)) = k
           /\ \A i \in S : Rank(S, i) = k => Loading!Nth(S, k) = i
<1>1. \E i \in S : Rank(S, i) = k
  BY RankExists
<1>2. Loading!Nth(S, k) = CHOOSE i \in S : Rank(S, i) = k
  BY NthByRank
<1> DEFINE f == Loading!Nth(S, k)
<1>3. f \in S /\ Rank(S, f) = k
  BY <1>1, <1>2
<1>4. ASSUME NEW i \in S, Rank(S, i) = k PROVE f = i
  <2> HIDE DEF f
  <2>1. ~(i < f) /\ ~(f < i)
    <3>1. k \in Int
      <4>1. Cardinality(S) \in Nat
        BY CountFacts
      <4>. QED
        BY <4>1
    <3>2. i < f => Rank(S, i) < Rank(S, f)
      BY <1>3, RankGrows
    <3>3. f < i => Rank(S, f) < Rank(S, i)
      BY <1>3, RankGrows
    <3>. QED
      BY <3>1, <3>2, <3>3, <1>3, <1>4
  <2>2. i \in Nat /\ f \in Nat
    BY <1>3
  <2>. QED
    BY <2>1, <2>2
<1>. QED
  BY <1>3, <1>4

\* A place behind all others is the last one.
LEMMA NthGrows ==
    ASSUME NEW n \in Nat, NEW S \in SUBSET (1..n)
    PROVE  /\ Cardinality(S) \in Nat
           /\ Cardinality(S \cup {n + 1}) = Cardinality(S) + 1
           /\ Loading!Nth(S \cup {n + 1}, Cardinality(S) + 1) = n + 1
           /\ \A k \in 1..Cardinality(S) :
                 Loading!Nth(S, k) \in S /\ Loading!Nth(S \cup {n + 1}, k) = Loading!Nth(S, k)
<1> DEFINE G == S \cup {n + 1}
           c == Cardinality(S)
<1>1. G \in SUBSET (1..n+1) /\ n + 1 \in Nat /\ n + 1 \in G /\ G \ {n + 1} = S
  OBVIOUS
<1>2. c \in Nat /\ Cardinality(G) \in Nat /\ c = Cardinality(G) - 1
  <2> HIDE DEF G
  <2>1. \A i \in G : Cardinality(G \ {i}) = Cardinality(G) - 1
    BY <1>1, CountFacts
  <2>2. Cardinality(G) \in Nat /\ Cardinality(S) \in Nat
    BY <1>1, CountFacts
  <2>. QED
    BY <1>1, <2>1, <2>2
<1>3. Cardinality(G) = c + 1
  <2> HIDE DEF c, G
  <2>. QED
    BY <1>2
<1>4. Loading!Nth(G, c + 1) = n + 1
  <2>1. {j \in G : j <= n + 1} = G
    <3>1. \A j \in G : j <= n + 1
      OBVIOUS
    <3> HIDE DEF G
    <3>. QED
      BY <3>1
  <2>2. Rank(G, n + 1) = c + 1
    BY <2>1, <1>3 DEF Rank
  <2>3. c + 1 \in 1..Cardinality(G)
    <3> HIDE DEF c, G
    <3>. QED
      BY <1>2, <1>3
  <2> HIDE DEF c, G
  <2>. QED
    BY <1>1, <2>2, <2>3, NthFacts
<1>5. ASSUME NEW k \in 1..c
      PROVE  Loading!Nth(S, k) \in S /\ Loading!Nth(G, k) = Loading!Nth(S, k)
  <2> DEFINE i == Loading!Nth(S, k)
  <2>1. i \in S /\ Rank(S, i) = k
    BY NthFacts
  <2> HIDE DEF i
  <2>2. {j \in G : j <= i} = {j \in S : j <= i}
    BY <2>1
  <2>3. Rank(G, i) = k /\ i \in G
    BY <2>1, <2>2 DEF Rank
  <2>4. k \in 1..Cardinality(G)
    <3> HIDE DEF c, G
    <3>. QED
      BY <1>2, <1>3
  <2>5. Loading!Nth(G, k) = i
    <3> HIDE DEF c, G
    <3>. QED
      BY <1>1, <2>3, <2>4, NthFacts
  <2>. QED
    BY <2>1, <2>5 DEF i
<1>. QED
  BY <1>2, <1>3, <1>4, <1>5

\* Of the first n inputs those without an initializer.
Given(list, known, n) == {i \in 1..n : list[i].name \notin known}

Collected(list, known, n) ==
    [k \in 1..Cardinality(Given(list, known, n)) |->
        list[Loading!Nth(Given(list, known, n), k)].name]

\* One more input.
LEMMA CollectedGrow ==
    ASSUME NEW list, NEW known, NEW n \in Nat
    PROVE  Collected(list, known, n + 1) =
             IF list[n + 1].name \notin known
             THEN Append(Collected(list, known, n), list[n + 1].name)
             ELSE Collected(list, known, n)
<1> DEFINE S == Given(list, known, n)
           G == Given(list, known, n + 1)
           c == Cardinality(S)
           old == Collected(list, known, n)
           new == Collected(list, known, n + 1)
           name == list[n + 1].name
<1>1. S \in SUBSET (1..n) /\ G = IF name \notin known THEN S \cup {n + 1} ELSE S
  BY DEF Given
<1>2. CASE name \in known
  <2>1. G = S
    BY <1>1, <1>2
  <2>2. new = old
    BY <2>1 DEF Collected
  <2>. QED
    BY <1>2, <2>2
<1>3. CASE name \notin known
  <2>1. G = S \cup {n + 1}
    BY <1>1, <1>3
  <2>2. /\ c \in Nat /\ Cardinality(G) = c + 1 /\ Loading!Nth(G, c + 1) = n + 1
        /\ \A k \in 1..c : Loading!Nth(G, k) = Loading!Nth(S, k)
    <3>1. S \in SUBSET (1..n)
      BY <1>1
    <3> HIDE DEF S, G, name
    <3>2. /\ Cardinality(S) \in Nat
          /\ Cardinality(S \cup {n + 1}) = Cardinality(S) + 1
          /\ Loading!Nth(S \cup {n + 1}, Cardinality(S) + 1) = n + 1
          /\ \A k \in 1..Cardinality(S) :
                Loading!Nth(S \cup {n + 1}, k) = Loading!Nth(S, k)
      BY <3>1, NthGrows
    <3>. QED
      BY <2>1, <3>2
  <2>3. /\ old = [k \in 1..c |-> list[Loading!Nth(S, k)].name]
        /\ new = [k \in 1..c + 1 |-> list[Loading!Nth(G, k)].name]
    BY <2>2 DEF Collected
  <2> DEFINE V == {old[k] : k \in 1..c} \cup {name}
  <2>4. old \in Seq(V) /\ Len(old) = c /\ name \in V
    BY <2>2, <2>3
  <2> HIDE DEF V, S, G, c, old, new
  <2>5. /\ DOMAIN Append(old, name) = 1..c+1
        /\ \A k \in 1..c : Append(old, name)[k] = old[k]
        /\ Append(old, name)[c+1] = name
    BY <2>4, AppendFacts
  <2>6. Append(old, name) = [k \in 1..c+1 |-> Append(old, name)[k]]
    <3>1. Append(old, name) \in Seq(V)
      BY <2>4
    <3>2. \A s \in Seq(V) : s = [k \in DOMAIN s |-> s[k]]
      OBVIOUS
    <3>. QED
      BY <2>5, <3>1, <3>2
  <2>7. \A k \in 1..c+1 : Append(old, name)[k] = list[Loading!Nth(G, k)].name
    <3>1. \A k \in 1..c+1 : k \in 1..c \/ k = c + 1
      BY <2>2
    <3>. QED
      BY <3>1, <2>2, <2>3, <2>5 DEF name
  <2>8. new = Append(old, name)
    BY <2>3, <2>6, <2>7
  <2>. QED
    BY <2>8, <1>3 DEF old, new, name
<1>. QED
  BY <1>2, <1>3

-----------------------------------------------------------------------------
(* The order of the nodes *)

Before(order, k) == {order[j] : j \in 1..k-1}

\* Each node moved was the first of those whose producers were out.
GreedyInv ==
    phase = "sorting" =>
        \A k \in DOMAIN sorted : \A i \in Nodes :
            i \notin Before(sorted, k) /\ Order!Producers(nodes, i) \subseteq Before(sorted, k)
              => sorted[k] <= i

LEMMA GreedyPop ==
    ASSUME Typed, ProducerInv, QueueInv, GreedyInv, Pop
    PROVE  GreedyInv'
<1>1. /\ phase = "sorting" /\ sorted' = Append(sorted, Top) /\ nodes' = nodes
      /\ Top \in Nodes /\ \A i \in ready : Top <= i
  BY TopInQueue DEF Pop
<1> DEFINE n == Len(sorted)
<1>2. /\ n \in Nat /\ DOMAIN sorted = 1..n /\ DOMAIN sorted' = 1..n+1
      /\ \A k \in 1..n : sorted'[k] = sorted[k]
      /\ sorted'[n+1] = Top
  BY <1>1, AppendFacts DEF Typed
<1> HIDE DEF n
<1>3. \A k \in 1..n+1 : Before(sorted', k) = Before(sorted, k)
  <2> TAKE k \in 1..n+1
  <2>1. \A j \in 1..k-1 : j \in 1..n
    BY <1>2
  <2>. QED
    BY <1>2, <2>1 DEF Before
<1>4. Before(sorted, n+1) = Range(sorted)
  BY <1>2 DEF Before, Range
<1>5. ASSUME NEW k \in DOMAIN sorted', NEW i \in Nodes, i \notin Before(sorted', k),
             Order!Producers(nodes, i) \subseteq Before(sorted', k)
      PROVE  sorted'[k] <= i
  <2>1. CASE k \in 1..n
    BY <2>1, <1>1, <1>2, <1>3, <1>5 DEF GreedyInv
  <2>2. CASE k = n + 1
    <3>1. i \in Nodes \ Range(sorted) /\ Order!Producers(nodes, i) \subseteq Range(sorted)
      BY <2>2, <1>2, <1>3, <1>4, <1>5
    <3>2. Order!Range(sorted) = Range(sorted)
      BY DEF Order!Range, Range
    <3>3. i \in Order!Ready(nodes, sorted)
      BY <3>1, <3>2 DEF Order!Ready, Nodes
    <3>4. i \in ready
      BY <3>3, <1>1, QueueIsReady
    <3>. QED
      BY <3>4, <2>2, <1>1, <1>2
  <2>. QED
    BY <2>1, <2>2, <1>2
<1>6. Nodes' = Nodes
  BY <1>1 DEF Nodes
<1>. QED
  BY <1>1, <1>5, <1>6 DEF GreedyInv

LEMMA GreedyStep ==
    Typed /\ ProducerInv /\ CountInv /\ QueueInv /\ GreedyInv /\ [Next]_vars => GreedyInv'
<1> SUFFICES ASSUME Typed, ProducerInv, CountInv, QueueInv, GreedyInv, [Next]_vars
             PROVE  GreedyInv'
  OBVIOUS
<1>1. CASE Pop
  BY <1>1, GreedyPop
<1>2. CASE SeedReady
  <2>1. sorted' = <<>>
    BY <1>2 DEF SeedReady, CountInv
  <2>. QED
    BY <2>1 DEF GreedyInv
<1>3. CASE IndexOutputs \/ ProducersDone \/ CountDependencies
  BY <1>3 DEF IndexOutputs, ProducersDone, CountDependencies, GreedyInv
<1>4. CASE DuplicateThrows \/ CycleThrows \/ ReplaceNodes
  BY <1>4 DEF DuplicateThrows, CycleThrows, ReplaceNodes, Throw, GreedyInv
<1>5. CASE UNCHANGED vars
  <2>1. phase' = phase /\ nodes' = nodes /\ sorted' = sorted
    BY <1>5 DEF vars
  <2>. QED
    BY <2>1 DEF GreedyInv, Nodes
<1>. QED
  BY <1>1, <1>2, <1>3, <1>4, <1>5 DEF Next

\* A valid order of n nodes, in the words of the sort.
IsValid(list, n, order) ==
    /\ order \in [1..n -> 1..n]
    /\ \A a, b \in 1..n : order[a] = order[b] => a = b
    /\ \A i \in 1..n : \E a \in 1..n : order[a] = i
    /\ \A a, b \in 1..n : Order!DependsOn(list, order[a], order[b]) => b < a

LEMMA ReadsFacts ==
    \A list, i, p : Loading!Reads(list, i, p) <=> Order!DependsOn(list, i, p)
BY DEF Loading!Reads, Order!DependsOn, Loading!Range, Order!Range

LEMMA ValidOrdersFacts ==
    ASSUME NEW list, NEW n \in Nat, DOMAIN list = 1..n
    PROVE  \A order : order \in Loading!ValidOrders(list) <=> IsValid(list, n, order)
<1> TAKE order
<1>1. order \in Loading!Bijection(1..n, 1..n) <=>
        /\ order \in [1..n -> 1..n]
        /\ \A a, b \in 1..n : order[a] = order[b] => a = b
        /\ \A i \in 1..n : \E a \in 1..n : order[a] = i
  BY DEF Loading!Bijection, Loading!Injection, Loading!Surjection, Loading!IsInjective
<1>2. order \in Loading!ValidOrders(list) <=>
        /\ order \in Loading!Bijection(1..n, 1..n)
        /\ \A a, b \in DOMAIN order : Loading!Reads(list, order[a], order[b]) => b < a
  BY DEF Loading!ValidOrders
<1>. QED
  BY <1>1, <1>2, ReadsFacts DEF IsValid

LEMMA SortedIsValid ==
    ASSUME Typed, ProducerInv, QueueInv, phase = "sorting", Len(sorted) = Len(nodes)
    PROVE  IsValid(nodes, Len(nodes), sorted)
<1> DEFINE n == Len(nodes)
<1>1. n \in Nat /\ Nodes = 1..n /\ sorted \in Seq(1..n) /\ IsInjective(sorted)
  BY NodesFacts DEF Typed, QueueInv
<1>2. sorted \in [1..n -> 1..n] /\ DOMAIN sorted = 1..n
  BY <1>1
<1>3. Range(sorted) = 1..n
  BY <1>1, DifferentIndices
<1> HIDE DEF n
<1>4. \A a, b \in 1..n : sorted[a] = sorted[b] => a = b
  BY <1>1, <1>2 DEF IsInjective
<1>5. \A i \in 1..n : \E a \in 1..n : sorted[a] = i
  BY <1>2, <1>3 DEF Range
<1>6. ASSUME NEW a \in 1..n, NEW b \in 1..n, Order!DependsOn(nodes, sorted[a], sorted[b])
      PROVE  b < a
  <2>1. sorted[a] \in Nodes /\ sorted[b] \in Nodes
    BY <1>1, <1>2
  <2>2. sorted[b] \in Dependencies(sorted[a])
    BY <2>1, <1>6, DependenciesMeaning
  <2>3. PICK j \in 1..a-1 : sorted[j] = sorted[b]
    BY <2>2, <1>2 DEF QueueInv
  <2>4. j \in 1..n /\ j < a
    BY <1>1
  <2>5. j = b
    BY <2>3, <2>4, <1>4
  <2>. QED
    BY <2>4, <2>5
<1>. QED
  BY <1>2, <1>4, <1>5, <1>6 DEF IsValid, n

LEMMA SameFunction ==
    ASSUME NEW S, NEW T, NEW f \in [S -> T], NEW g \in [S -> T], \A k \in S : f[k] = g[k]
    PROVE  f = g
OBVIOUS

\* Where another valid order first differs, it takes a later node.
LEMMA SortedIsEarliest ==
    ASSUME Typed, ProducerInv, QueueInv, GreedyInv, phase = "sorting",
           Len(sorted) = Len(nodes),
           NEW other, IsValid(nodes, Len(nodes), other), other # sorted
    PROVE  Loading!Earlier(sorted, other)
<1> DEFINE n == Len(nodes)
           D == {k \in 1..n : sorted[k] # other[k]}
<1>1. n \in Nat /\ Nodes = 1..n /\ DOMAIN nodes = 1..n
  BY NodesFacts DEF Nodes
<1>2. IsValid(nodes, n, sorted)
  BY SortedIsValid
<1>3. /\ sorted \in [1..n -> 1..n] /\ other \in [1..n -> 1..n]
      /\ DOMAIN sorted = 1..n
      /\ \A a, b \in 1..n : other[a] = other[b] => a = b
      /\ \A i \in 1..n : \E a \in 1..n : other[a] = i
      /\ \A a, b \in 1..n : Order!DependsOn(nodes, other[a], other[b]) => b < a
  BY <1>2 DEF IsValid
<1> HIDE DEF n
<1>4. D # {} /\ D \in SUBSET Nat
  <2>1. (\A k \in 1..n : sorted[k] = other[k]) => sorted = other
    <3> DEFINE I == 1..n
    <3>1. sorted \in [I -> I] /\ other \in [I -> I]
      BY <1>3
    <3> SUFFICES ASSUME \A k \in I : sorted[k] = other[k] PROVE sorted = other
      OBVIOUS
    <3> HIDE DEF I
    <3>. QED
      BY <3>1, SameFunction
  <2>2. D # {}
    BY <2>1
  <2>3. D \subseteq 1..n
    OBVIOUS
  <2> HIDE DEF D
  <2>. QED
    BY <1>1, <2>2, <2>3
<1>5. PICK k \in D : \A j \in D : k <= j
  <2> HIDE DEF D
  <2>. QED
    BY <1>4, LeastNatural
<1>6. k \in 1..n /\ sorted[k] # other[k] /\ \A j \in 1..k-1 : j \in 1..n /\ sorted[j] = other[j]
  <2>1. ASSUME NEW j \in 1..k-1 PROVE j \in 1..n /\ ~(k <= j)
    BY <1>1, <1>5
  <2>. QED
    BY <1>5, <2>1
<1> HIDE DEF D
<1>7. other[k] \in 1..n
  BY <1>3, <1>6
<1>8. other[k] \notin Before(sorted, k)
  <2>1. ASSUME NEW j \in 1..k-1, sorted[j] = other[k] PROVE FALSE
    <3>1. other[j] = other[k] /\ j \in 1..n
      BY <2>1, <1>6
    <3>2. j = k
      BY <3>1, <1>3, <1>6
    <3>. QED
      BY <3>2, <1>6
  <2>. QED
    BY <2>1 DEF Before
<1>9. Order!Producers(nodes, other[k]) \subseteq Before(sorted, k)
  <2> SUFFICES ASSUME NEW p \in Order!Producers(nodes, other[k])
               PROVE  p \in Before(sorted, k)
    OBVIOUS
  <2>1. p \in 1..n /\ Order!DependsOn(nodes, other[k], p)
    BY <1>1, ProducersFacts
  <2>2. PICK b \in 1..n : other[b] = p
    BY <2>1, <1>3
  <2>3. b < k
    BY <2>1, <2>2, <1>3, <1>6
  <2>4. b \in 1..k-1 /\ sorted[b] = p
    <3>1. b \in 1..k-1
      BY <2>3, <1>1, <1>6
    <3>. QED
      BY <3>1, <2>2, <1>6
  <2>. QED
    BY <2>4 DEF Before
<1>10. sorted[k] <= other[k]
  <2>1. k \in DOMAIN sorted /\ other[k] \in Nodes
    BY <1>1, <1>3, <1>6, <1>7
  <2>. QED
    BY <2>1, <1>8, <1>9 DEF GreedyInv
<1>11. sorted[k] < other[k]
  <2>1. sorted[k] \in Nat /\ other[k] \in Nat
    <3>1. sorted[k] \in 1..n /\ other[k] \in 1..n
      BY <1>3, <1>6
    <3>. QED
      BY <3>1
  <2>. QED
    BY <2>1, <1>6, <1>10
<1>. QED
  BY <1>3, <1>6, <1>11 DEF Loading!Earlier

\* Two orders are not each the earlier one.
LEMMA EarlierOnce ==
    ASSUME NEW n \in Nat, NEW a \in [1..n -> 1..n], NEW b \in [1..n -> 1..n],
           Loading!Earlier(a, b), Loading!Earlier(b, a)
    PROVE  FALSE
<1>0. DOMAIN a = 1..n /\ DOMAIN b = 1..n
  OBVIOUS
<1>1. PICK k \in 1..n : a[k] < b[k] /\ \A j \in 1..k-1 : a[j] = b[j]
  BY <1>0 DEF Loading!Earlier
<1>2. PICK l \in 1..n : b[l] < a[l] /\ \A j \in 1..l-1 : b[j] = a[j]
  BY <1>0 DEF Loading!Earlier
<1>3. a[k] \in Nat /\ b[k] \in Nat /\ a[l] \in Nat /\ b[l] \in Nat
  <2>1. a[k] \in 1..n /\ b[k] \in 1..n /\ a[l] \in 1..n /\ b[l] \in 1..n
    OBVIOUS
  <2>2. 1..n \subseteq Nat
    OBVIOUS
  <2>. QED
    BY <2>1, <2>2
<1>4. ~(k < l)
  <2>1. k < l => k \in 1..l-1
    OBVIOUS
  <2>. QED
    BY <2>1, <1>1, <1>2, <1>3
<1>5. ~(l < k)
  <2>1. l < k => l \in 1..k-1
    OBVIOUS
  <2>. QED
    BY <2>1, <1>1, <1>2, <1>3
<1>6. k = l
  BY <1>4, <1>5
<1>. QED
  BY <1>6, <1>1, <1>2, <1>3

Earliest(V) == CHOOSE order \in V : \A other \in V \ {order} : Loading!Earlier(order, other)

\* When all nodes are sorted, they are in the order that is promised.
LEMMA SortedAsPromised ==
    ASSUME Typed, ProducerInv, QueueInv, GreedyInv, phase = "sorting",
           Len(sorted) = Len(nodes)
    PROVE  /\ sorted \in Loading!ValidOrders(nodes)
           /\ Earliest(Loading!ValidOrders(nodes)) = sorted
<1> DEFINE n == Len(nodes)
           V == Loading!ValidOrders(nodes)
           Best(order) == \A other \in V \ {order} : Loading!Earlier(order, other)
<1>1. n \in Nat /\ DOMAIN nodes = 1..n
  BY NodesFacts DEF Nodes
<1>2. \A order : order \in V <=> IsValid(nodes, n, order)
  BY <1>1, ValidOrdersFacts
<1>3. IsValid(nodes, n, sorted)
  BY SortedIsValid
<1>4. \A other : IsValid(nodes, n, other) /\ other # sorted => Loading!Earlier(sorted, other)
  BY SortedIsEarliest
<1>5. sorted \in V /\ Best(sorted)
  BY <1>2, <1>3, <1>4
<1>6. \A order \in V : order \in [1..n -> 1..n]
  BY <1>2 DEF IsValid
<1>7. ASSUME NEW order \in V, Best(order) PROVE order = sorted
  <2>1. order # sorted => Loading!Earlier(order, sorted) /\ Loading!Earlier(sorted, order)
    BY <1>5, <1>7
  <2>2. order \in [1..n -> 1..n] /\ sorted \in [1..n -> 1..n]
    BY <1>5, <1>6
  <2> HIDE DEF n, V
  <2>. QED
    BY <2>1, <2>2, <1>1, EarlierOnce
<1>8. Earliest(V) = CHOOSE order \in V : Best(order)
  BY DEF Earliest
<1> HIDE DEF V, Best, n
<1>9. (CHOOSE order \in V : Best(order)) = sorted
  BY <1>5, <1>7
<1>. QED
  BY <1>5, <1>8, <1>9 DEF V

\* Nodes that wait for each other have no valid order.
LEMMA NoOrderLeft ==
    ASSUME Typed, ProducerInv, QueueInv, CycleThrows
    PROVE  Loading!ValidOrders(nodes) = {}
<1> DEFINE n == Len(nodes)
           rest == Nodes \ Range(sorted)
<1>1. n \in Nat /\ Nodes = 1..n /\ DOMAIN nodes = 1..n
  BY NodesFacts DEF Nodes
<1>2. /\ rest # {}
      /\ \A i \in rest : \E p \in rest : p \in Order!Producers(nodes, i)
  BY EmptyQueue DEF CycleThrows
<1> SUFFICES ASSUME NEW order, IsValid(nodes, n, order) PROVE FALSE
  BY <1>1, ValidOrdersFacts
<1> DEFINE T == {a \in 1..n : order[a] \in rest}
<1>3. /\ \A i \in 1..n : \E a \in 1..n : order[a] = i
      /\ \A a, b \in 1..n : Order!DependsOn(nodes, order[a], order[b]) => b < a
  BY DEF IsValid
<1>4. T # {} /\ T \in SUBSET Nat
  <2>1. PICK i \in rest : TRUE
    BY <1>2
  <2>2. i \in 1..n
    BY <2>1, <1>1
  <2>3. PICK a \in 1..n : order[a] = i
    BY <2>2, <1>3
  <2>4. a \in T
    BY <2>1, <2>3
  <2>5. T \subseteq 1..n
    OBVIOUS
  <2> HIDE DEF T
  <2>. QED
    BY <1>1, <2>4, <2>5
<1>5. PICK a \in T : \A b \in T : a <= b
  <2> HIDE DEF T
  <2>. QED
    BY <1>4, LeastNatural
<1>6. PICK p \in rest : p \in Order!Producers(nodes, order[a])
  BY <1>2, <1>5
<1>7. PICK b \in 1..n : order[b] = p
  BY <1>1, <1>3, <1>6
<1>8. b \in T /\ b < a
  BY <1>3, <1>5, <1>6, <1>7, ProducersFacts
<1>. QED
  BY <1>5, <1>8

LEMMA ProducedOnceFacts ==
    \A list : Loading!ProducedOnce(list) <=> ~Order!ProducedTwice(list)
BY ProducedTwiceFacts DEF Loading!ProducedOnce

\* The sort sees of a node its inputs and outputs.
Stripped(list, n) ==
    [k \in 1..n |-> [inputs |-> list[k].inputs, outputs |-> list[k].outputs]]

LEMMA StrippedFacts ==
    ASSUME NEW list, NEW n \in Nat, DOMAIN list = 1..n
    PROVE  /\ Loading!ValidOrders(Stripped(list, n)) = Loading!ValidOrders(list)
           /\ Loading!ProducedOnce(Stripped(list, n)) <=> Loading!ProducedOnce(list)
<1> DEFINE s == Stripped(list, n)
<1>1. DOMAIN s = 1..n /\ \A k \in 1..n : s[k].inputs = list[k].inputs /\ s[k].outputs = list[k].outputs
  BY DEF Stripped
<1> HIDE DEF s
<1>2. \A i, p \in 1..n : Order!DependsOn(s, i, p) <=> Order!DependsOn(list, i, p)
  BY <1>1 DEF Order!DependsOn
<1>3. \A order : IsValid(s, n, order) <=> IsValid(list, n, order)
  BY <1>2 DEF IsValid
<1>4. Loading!ValidOrders(s) = Loading!ValidOrders(list)
  <2>1. \A order : order \in Loading!ValidOrders(s) <=> IsValid(s, n, order)
    BY <1>1, ValidOrdersFacts
  <2>2. \A order : order \in Loading!ValidOrders(list) <=> IsValid(list, n, order)
    BY ValidOrdersFacts
  <2>. QED
    BY <1>3, <2>1, <2>2
<1>5. Loading!ProducedOnce(s) <=> Loading!ProducedOnce(list)
  BY <1>1 DEF Loading!ProducedOnce
<1>. QED
  BY <1>4, <1>5 DEF s

LEMMA SortedByEarliest ==
    \A list : Loading!Sorted(list) =
                [k \in DOMAIN list |-> list[Earliest(Loading!ValidOrders(list))[k]]]
BY DEF Loading!Sorted, Earliest

-----------------------------------------------------------------------------
(* How far the message is read *)

InitializersRead ==
    IF section = "opsets" THEN 0
    ELSE IF section = "initializers" THEN position - 1
    ELSE Len(model.initializers)

InfosRead ==
    IF section \in {"opsets", "initializers"} THEN 0
    ELSE IF section = "inputs" THEN position - 1
    ELSE IF section = "value_infos" THEN Len(model.inputs) + position - 1
    ELSE IF section = "outputs" THEN Len(model.inputs) + Len(model.value_infos) + position - 1
    ELSE Len(model.inputs) + Len(model.value_infos) + Len(model.outputs)

InputsRead ==
    IF section \in {"opsets", "initializers", "inputs", "value_infos", "outputs"} THEN 0
    ELSE IF section = "names" THEN position - 1
    ELSE Len(model.inputs)

NodesRead ==
    IF section = "nodes" THEN position - 1
    ELSE IF section = "sort" THEN Len(model.nodes)
    ELSE 0

OpsetInv ==
    /\ section = "opsets" =>
         \/ /\ opset_version = 0
            /\ \A i \in 1..position-1 : ~DefaultDomain(model.opsets[i])
         \/ /\ position = Len(model.opsets) + 1
            /\ opset_version = Loading!OpsetVersion(model)
    /\ section \notin {"opsets", "thrown"} => opset_version = Loading!OpsetVersion(model)

DefaultsInv ==
    section # "thrown" =>
        /\ initializers = Firsts(model.initializers, InitializersRead)
        /\ \A i \in 1..InitializersRead :
              model.initializers[i].name # "" /\ Loading!Sound(model.initializers[i])

DescribedInv ==
    section # "thrown" =>
        /\ value_info = Lasts(Loading!Infos(model), InfosRead)
        /\ \A i \in 1..InfosRead :
              /\ Loading!Infos(model)[i].tensor
              /\ Loading!Infos(model)[i].dtype \in DOMAIN Loading!Sizes

CollectedInv ==
    section # "thrown" =>
        input_names = Collected(model.inputs, DOMAIN initializers, InputsRead)

NodesInv ==
    section # "thrown" =>
        /\ phase # "sorted" => nodes = Stripped(model.nodes, NodesRead)
        /\ \A i \in 1..NodesRead : Loading!SoundNode(model.nodes[i])

PartsInv == OpsetInv /\ DefaultsInv /\ DescribedInv /\ CollectedInv /\ NodesInv /\ GreedyInv

\* All fields of a message are sequences.
LEMMA FieldFacts ==
    ASSUME model \in Models
    PROVE  \A list \in {model.opsets, model.initializers, model.inputs, model.value_infos,
                        model.outputs, model.nodes} :
             Len(list) \in Nat /\ DOMAIN list = 1..Len(list) /\ list \in Seq(Range(list))
<1>1. \A list : IsSequence(list) =>
         Len(list) \in Nat /\ DOMAIN list = 1..Len(list) /\ list \in Seq(Range(list))
  BY DEF IsSequence
<1>. QED
  BY <1>1, ModelsAssumption

LEMMA JoinFacts ==
    ASSUME NEW V, NEW s \in Seq(V), NEW t \in Seq(V)
    PROVE  /\ s \o t \in Seq(V) /\ Len(s \o t) = Len(s) + Len(t)
           /\ DOMAIN (s \o t) = 1..Len(s) + Len(t)
           /\ \A i \in 1..Len(s) : (s \o t)[i] = s[i]
           /\ \A i \in 1..Len(t) : (s \o t)[Len(s) + i] = t[i]
           /\ Len(s) \in Nat /\ Len(t) \in Nat
OBVIOUS

LEMMA InfosFacts ==
    ASSUME model \in Models
    PROVE  /\ DOMAIN Loading!Infos(model) =
                1..Len(model.inputs) + Len(model.value_infos) + Len(model.outputs)
           /\ \A i \in 1..Len(model.inputs) : Loading!Infos(model)[i] = model.inputs[i]
           /\ \A i \in 1..Len(model.value_infos) :
                Loading!Infos(model)[Len(model.inputs) + i] = model.value_infos[i]
           /\ \A i \in 1..Len(model.outputs) :
                Loading!Infos(model)[Len(model.inputs) + Len(model.value_infos) + i]
                  = model.outputs[i]
<1> DEFINE a == model.inputs
           b == model.value_infos
           c == model.outputs
           V == Range(a) \cup Range(b) \cup Range(c)
<1>1. a \in Seq(Range(a)) /\ b \in Seq(Range(b)) /\ c \in Seq(Range(c))
  BY FieldFacts
<1>2. \A S, T : \A s \in Seq(S) : S \subseteq T => s \in Seq(T)
  OBVIOUS
<1>3. Range(a) \subseteq V /\ Range(b) \subseteq V /\ Range(c) \subseteq V
  OBVIOUS
<1> HIDE DEF V
<1>4. a \in Seq(V) /\ b \in Seq(V) /\ c \in Seq(V)
  BY <1>1, <1>2, <1>3
<1>5. Loading!Infos(model) = (a \o b) \o c
  BY DEF Loading!Infos
<1> HIDE DEF a, b, c
<1>6. /\ a \o b \in Seq(V) /\ Len(a \o b) = Len(a) + Len(b)
      /\ \A i \in 1..Len(a) : (a \o b)[i] = a[i]
      /\ \A i \in 1..Len(b) : (a \o b)[Len(a) + i] = b[i]
      /\ Len(a) \in Nat /\ Len(b) \in Nat /\ Len(c) \in Nat
  BY <1>4, JoinFacts
<1> DEFINE ab == a \o b
<1>7. ab \in Seq(V) /\ Len(ab) = Len(a) + Len(b)
  BY <1>6
<1> HIDE DEF ab
<1>8. /\ DOMAIN (ab \o c) = 1..Len(ab) + Len(c)
      /\ \A i \in 1..Len(ab) : (ab \o c)[i] = ab[i]
      /\ \A i \in 1..Len(c) : (ab \o c)[Len(ab) + i] = c[i]
  <2>1. ab \in Seq(V) /\ c \in Seq(V)
    BY <1>4, <1>7
  <2>. QED
    BY <2>1, JoinFacts
<1>9. \A i \in 1..Len(a) : i \in 1..Len(ab)
  BY <1>6, <1>7
<1>10. \A i \in 1..Len(b) : Len(a) + i \in 1..Len(ab)
  BY <1>6, <1>7
<1>11. /\ DOMAIN ((a \o b) \o c) = 1..Len(a) + Len(b) + Len(c)
       /\ \A i \in 1..Len(a) : ((a \o b) \o c)[i] = a[i]
       /\ \A i \in 1..Len(b) : ((a \o b) \o c)[Len(a) + i] = b[i]
       /\ \A i \in 1..Len(c) : ((a \o b) \o c)[Len(a) + Len(b) + i] = c[i]
  BY <1>6, <1>7, <1>8, <1>9, <1>10 DEF ab
<1>. QED
  BY <1>5, <1>11 DEF a, b, c

\* The end of a section is behind its last entry.
LEMMA EndFacts ==
    ASSUME LoadInv, section \in Reading, position \notin DOMAIN Listed
    PROVE  position = Len(Listed) + 1 /\ Len(Listed) \in Nat
<1>1. Len(Listed) \in Nat /\ DOMAIN Listed = 1..Len(Listed)
  BY ListedFacts DEF LoadInv, ReadInv
<1>2. position \in 1..Len(Listed) + 1
  BY DEF LoadInv, ReadInv, Reading
<1>. QED
  BY <1>1, <1>2

LEMMA EndSectionFacts ==
    ASSUME LoadInv, EndSection
    PROVE  /\ position' = 1
           /\ UNCHANGED <<model, opset_version, initializers, value_info, input_names, nodes, sort_vars>>
           /\ \/ section = "opsets" /\ section' = "initializers" /\ position = Len(model.opsets) + 1
              \/ section = "initializers" /\ section' = "inputs" /\ position = Len(model.initializers) + 1
              \/ section = "inputs" /\ section' = "value_infos" /\ position = Len(model.inputs) + 1
              \/ section = "value_infos" /\ section' = "outputs" /\ position = Len(model.value_infos) + 1
              \/ section = "outputs" /\ section' = "names" /\ position = Len(model.outputs) + 1
              \/ section = "names" /\ section' = "nodes" /\ position = Len(model.inputs) + 1
<1>1. PICK k \in 1..Len(Sections) - 1 :
        section = Sections[k] /\ section' = Sections[k+1] /\ position' = 1
  BY DEF EndSection, NextSection
<1>2. \/ section = "opsets" /\ section' = "initializers"
      \/ section = "initializers" /\ section' = "inputs"
      \/ section = "inputs" /\ section' = "value_infos"
      \/ section = "value_infos" /\ section' = "outputs"
      \/ section = "outputs" /\ section' = "names"
      \/ section = "names" /\ section' = "nodes"
  BY <1>1, SectionFacts
<1>3. position = Len(Listed) + 1
  BY <1>2, EndFacts DEF Reading, EndSection
<1>4. Listed = IF section = "opsets" THEN model.opsets
               ELSE IF section = "initializers" THEN model.initializers
               ELSE IF section \in {"inputs", "names"} THEN model.inputs
               ELSE IF section = "value_infos" THEN model.value_infos
               ELSE model.outputs
  BY <1>2 DEF Listed
<1>. QED
  BY <1>1, <1>2, <1>3, <1>4 DEF EndSection

-----------------------------------------------------------------------------
(* Each part of the graph is complete as far as the message is read *)

\* The sort is called behind the last node.
LEMMA CallSortFacts ==
    ASSUME LoadInv, CallSort
    PROVE  /\ section = "nodes" /\ section' = "sort" /\ position = Len(model.nodes) + 1
           /\ phase = "idle" /\ phase' = "producers"
           /\ UNCHANGED <<model, opset_version, initializers, value_info, input_names,
                          output_names, nodes>>
<1>1. section = "nodes" /\ section' = "sort" /\ position \notin DOMAIN Listed
  BY DEF CallSort, NextSection
<1>2. position = Len(Listed) + 1
  BY <1>1, EndFacts DEF Reading
<1>3. Listed = model.nodes /\ phase = "idle"
  BY <1>1 DEF Listed, LoadInv, CalledInv
<1>. QED
  BY <1>1, <1>2, <1>3 DEF CallSort, graph_vars

LEMMA OpsetStep == LoadInv /\ OpsetInv /\ [LoadNext]_load_vars => OpsetInv'
<1> SUFFICES ASSUME LoadInv, OpsetInv, [LoadNext]_load_vars PROVE OpsetInv'
  OBVIOUS
<1> DEFINE default == {i \in DOMAIN model.opsets : model.opsets[i][1] \in {"", "ai.onnx"}}
           n == Len(model.opsets)
<1>0. /\ n \in Nat /\ DOMAIN model.opsets = 1..n
      /\ \A i \in 1..n : i \in default <=> DefaultDomain(model.opsets[i])
      /\ default \subseteq 1..n
      /\ Loading!OpsetVersion(model) =
           IF default = {} THEN 0
           ELSE model.opsets[CHOOSE i \in default : \A j \in default : i <= j][2]
  BY FieldFacts DEF LoadInv, ReadInv, DefaultDomain, Loading!OpsetVersion
<1> HIDE DEF default, n
<1>1. CASE ReadOpset
  <2>1. /\ section = "opsets" /\ section' = "opsets" /\ model' = model
        /\ Listed = model.opsets /\ position \in 1..n
    BY <1>0, <1>1 DEF ReadOpset, In, Listed
  <2>2. opset_version = 0 /\ \A i \in 1..position-1 : ~DefaultDomain(model.opsets[i])
    <3>1. position # n + 1
      BY <1>0, <2>1
    <3>. QED
      BY <2>1, <3>1 DEF OpsetInv, n
  <2>3. CASE DefaultDomain(model.opsets[position])
    <3>1. opset_version' = model.opsets[position][2] /\ position' = n + 1
      BY <1>1, <2>1, <2>3 DEF ReadOpset, n
    <3>2. position \in default
      BY <1>0, <2>1, <2>3
    <3>3. \A i \in default : position <= i
      <4>1. \A i \in default : i \in 1..n /\ ~(i \in 1..position-1)
        BY <1>0, <2>2
      <4>. QED
        BY <1>0, <2>1, <4>1
    <3>4. \A i \in default : (\A j \in default : i <= j) => i = position
      <4> TAKE i \in default
      <4> HAVE \A j \in default : i <= j
      <4>1. i <= position /\ position <= i
        BY <3>2, <3>3
      <4>2. i \in Nat /\ position \in Nat
        BY <1>0, <2>1
      <4>. QED
        BY <4>1, <4>2
    <3>5. (CHOOSE i \in default : \A j \in default : i <= j) = position
      BY <3>2, <3>3, <3>4
    <3>6. Loading!OpsetVersion(model) = model.opsets[position][2]
      BY <1>0, <3>2, <3>5
    <3>. QED
      BY <2>1, <3>1, <3>6 DEF OpsetInv, n
  <2>4. CASE ~DefaultDomain(model.opsets[position])
    <3>1. opset_version' = 0 /\ position' = position + 1
      BY <1>1, <2>1, <2>2, <2>4 DEF ReadOpset
    <3>2. \A i \in 1..(position + 1) - 1 : i \in 1..position-1 \/ i = position
      BY <2>1, <1>0
    <3>. QED
      BY <2>1, <2>2, <2>4, <3>1, <3>2 DEF OpsetInv
  <2>. QED
    BY <2>3, <2>4
<1>2. CASE EndSection
  <2>1. /\ model' = model /\ opset_version' = opset_version /\ section' \notin {"opsets", "thrown"}
        /\ section # "thrown"
        /\ section = "opsets" => position = n + 1
    BY <1>2, EndSectionFacts DEF n
  <2>2. ASSUME \A i \in 1..n : ~DefaultDomain(model.opsets[i])
        PROVE  Loading!OpsetVersion(model) = 0
    <3>1. default = {}
      BY <1>0, <2>2
    <3>. QED
      BY <1>0, <3>1
  <2>3. position = n + 1 => position - 1 = n
    BY <1>0
  <2>4. opset_version = Loading!OpsetVersion(model)
    <3>1. CASE section = "opsets"
      <4>1. position - 1 = n
        BY <3>1, <2>1, <2>3
      <4>2. \/ opset_version = 0 /\ \A i \in 1..position-1 : ~DefaultDomain(model.opsets[i])
            \/ opset_version = Loading!OpsetVersion(model)
        BY <3>1 DEF OpsetInv
      <4>. QED
        BY <4>1, <4>2, <2>2
    <3>2. CASE section # "opsets"
      BY <3>2, <2>1 DEF OpsetInv
    <3>. QED
      BY <3>1, <3>2
  <2>. QED
    BY <2>1, <2>4 DEF OpsetInv
<1>3. CASE InitializerThrows \/ ValueInfoThrows \/ NodeThrows
  BY <1>3 DEF InitializerThrows, ValueInfoThrows, NodeThrows, ThrowLoading, OpsetInv
<1>4. CASE AddInitializer \/ AddValueInfo \/ CollectInput \/ AddNode
  BY <1>4 DEF AddInitializer, AddValueInfo, CollectInput, AddNode, Advance, In, OpsetInv
<1>5. CASE CallSort
  BY <1>5, CallSortFacts DEF OpsetInv
<1>6. CASE Sort
  BY <1>6 DEF Sort, OpsetInv
<1>7. CASE UNCHANGED load_vars
  BY <1>7 DEF load_vars, graph_vars, OpsetInv
<1>. QED
  BY <1>1, <1>2, <1>3, <1>4, <1>5, <1>6, <1>7 DEF LoadNext

LEMMA PlaceFacts ==
    ASSUME NEW n \in Nat, NEW p \in 1..n
    PROVE  p \in Nat /\ p - 1 \in Nat /\ (p - 1) + 1 = p /\ (p + 1) - 1 = (p - 1) + 1
OBVIOUS

LEMMA DefaultsStep == LoadInv /\ DefaultsInv /\ [LoadNext]_load_vars => DefaultsInv'
<1> SUFFICES ASSUME LoadInv, DefaultsInv, [LoadNext]_load_vars PROVE DefaultsInv'
  OBVIOUS
<1>0. /\ Len(model.initializers) \in Nat
      /\ DOMAIN model.initializers = 1..Len(model.initializers)
  BY FieldFacts DEF LoadInv, ReadInv
<1>1. ASSUME section # "thrown", UNCHANGED <<model, initializers>>,
             InitializersRead' = InitializersRead
      PROVE  DefaultsInv'
  BY <1>1 DEF DefaultsInv
<1>2. CASE AddInitializer
  <2> DEFINE list == model.initializers
             r == position - 1
  <2>1. /\ section = "initializers" /\ section' = "initializers" /\ model' = model
        /\ position \in DOMAIN list /\ position' = position + 1
        /\ list[position].name # "" /\ ~TensorThrows(list[position])
        /\ initializers' = [name \in DOMAIN initializers \cup {list[position].name} |->
                              IF name \in DOMAIN initializers THEN initializers[name]
                              ELSE ParseTensor(list[position])]
    BY <1>2 DEF AddInitializer, In, Advance, Listed
  <2>2. r \in Nat /\ r + 1 = position /\ InitializersRead = r /\ InitializersRead' = r + 1
    <3>1. position \in 1..Len(model.initializers)
      BY <1>0, <2>1
    <3>2. position \in Nat /\ position - 1 \in Nat /\ (position - 1) + 1 = position
          /\ (position + 1) - 1 = (position - 1) + 1
      BY <1>0, <3>1, PlaceFacts
    <3>3. InitializersRead = position - 1 /\ InitializersRead' = position' - 1
      BY <2>1 DEF InitializersRead
    <3>. QED
      BY <2>1, <3>2, <3>3
  <2>3. IsTensorProto(list[position])
    BY <2>1, ModelsAssumption DEF LoadInv, ReadInv
  <2>4. ParseTensor(list[position]) = Loading!Content(list[position])
        /\ Loading!Sound(list[position])
    BY <2>1, <2>3, SoundTensors, ParsedTensor
  <2>5. initializers = Firsts(list, r)
        /\ \A i \in 1..r : list[i].name # "" /\ Loading!Sound(list[i])
    BY <2>1, <2>2 DEF DefaultsInv
  <2> HIDE DEF r, list
  <2>6. initializers' = Firsts(list, r + 1)
    <3>1. Firsts(list, r + 1) =
            [name \in DOMAIN Firsts(list, r) \cup {list[r + 1].name} |->
               IF name \in DOMAIN Firsts(list, r) THEN Firsts(list, r)[name]
               ELSE Loading!Content(list[r + 1])]
      BY <2>2, FirstsGrow
    <3>. QED
      BY <3>1, <2>1, <2>2, <2>4, <2>5
  <2>7. \A i \in 1..r + 1 : list[i].name # "" /\ Loading!Sound(list[i])
    <3>1. \A i \in 1..r + 1 : i \in 1..r \/ i = position
      BY <2>2
    <3>. QED
      BY <3>1, <2>1, <2>4, <2>5
  <2>8. model'.initializers = list
    BY <2>1 DEF list
  <2>. QED
    BY <2>2, <2>6, <2>7, <2>8 DEF DefaultsInv
<1>3. CASE ReadOpset \/ AddValueInfo \/ CollectInput \/ AddNode
  <2>1. /\ section # "thrown" /\ section # "initializers" /\ section' = section
        /\ UNCHANGED <<model, initializers>>
    BY <1>3 DEF ReadOpset, AddValueInfo, CollectInput, AddNode, Advance, In
  <2>. QED
    BY <2>1, <1>1 DEF InitializersRead
<1>4. CASE EndSection
  <2>1. /\ section # "thrown" /\ UNCHANGED <<model, initializers>>
        /\ InitializersRead' = InitializersRead
    BY <1>0, <1>4, EndSectionFacts DEF InitializersRead
  <2>. QED
    BY <2>1, <1>1
<1>5. CASE InitializerThrows \/ ValueInfoThrows \/ NodeThrows
  BY <1>5 DEF InitializerThrows, ValueInfoThrows, NodeThrows, ThrowLoading, DefaultsInv
<1>6. CASE CallSort
  <2>1. /\ section # "thrown" /\ UNCHANGED <<model, initializers>>
        /\ InitializersRead' = InitializersRead
    BY <1>6, CallSortFacts DEF InitializersRead
  <2>. QED
    BY <2>1, <1>1
<1>7. CASE Sort
  <2>1. /\ section # "thrown" /\ UNCHANGED <<model, initializers>>
        /\ InitializersRead' = InitializersRead
    BY <1>7 DEF Sort, InitializersRead
  <2>. QED
    BY <2>1, <1>1
<1>8. CASE UNCHANGED load_vars
  <2>1. UNCHANGED <<model, section, position, initializers>>
    BY <1>8 DEF load_vars, graph_vars
  <2>. QED
    BY <2>1 DEF DefaultsInv, InitializersRead
<1>. QED
  BY <1>2, <1>3, <1>4, <1>5, <1>6, <1>7, <1>8 DEF LoadNext

LEMMA DescribedStep == LoadInv /\ DescribedInv /\ [LoadNext]_load_vars => DescribedInv'
<1> SUFFICES ASSUME LoadInv, DescribedInv, [LoadNext]_load_vars PROVE DescribedInv'
  OBVIOUS
<1> DEFINE a == Len(model.inputs)
           b == Len(model.value_infos)
           c == Len(model.outputs)
           infos == Loading!Infos(model)
<1>0. /\ a \in Nat /\ b \in Nat /\ c \in Nat /\ model \in Models
      /\ DOMAIN model.inputs = 1..a /\ DOMAIN model.value_infos = 1..b
      /\ DOMAIN model.outputs = 1..c
  BY FieldFacts DEF LoadInv, ReadInv
<1>1. ASSUME section # "thrown", UNCHANGED <<model, value_info>>, InfosRead' = InfosRead
      PROVE  DescribedInv'
  BY <1>1 DEF DescribedInv
<1>2. CASE AddValueInfo
  <2> DEFINE r == InfosRead
  <2>1. /\ section \in {"inputs", "value_infos", "outputs"} /\ section' = section
        /\ model' = model /\ position' = position + 1 /\ position \in DOMAIN Listed
        /\ ~InfoThrows(Listed[position])
        /\ value_info' = MergeInfo(value_info, Listed[position])
    BY <1>2 DEF AddValueInfo, In, Advance
  <2>2. /\ section = "inputs" => Listed = model.inputs
        /\ section = "value_infos" => Listed = model.value_infos
        /\ section = "outputs" => Listed = model.outputs
    BY DEF Listed
  <2>3. r \in Nat /\ InfosRead' = r + 1 /\ infos[r + 1] = Listed[position]
    <3>1. CASE section = "inputs"
      <4>1. r = position - 1 /\ InfosRead' = (position + 1) - 1 /\ position \in 1..a
            /\ infos[position] = model.inputs[position]
        BY <3>1, <2>1, <2>2, <1>0, InfosFacts DEF InfosRead
      <4> HIDE DEF infos, a, r
      <4>. QED
        BY <3>1, <4>1, <1>0, <2>2
    <3>2. CASE section = "value_infos"
      <4>1. r = a + position - 1 /\ InfosRead' = a + (position + 1) - 1 /\ position \in 1..b
            /\ infos[a + position] = model.value_infos[position]
        BY <3>2, <2>1, <2>2, <1>0, InfosFacts DEF InfosRead
      <4> HIDE DEF infos, a, b, r
      <4>2. r \in Nat /\ InfosRead' = r + 1 /\ r + 1 = a + position
        BY <4>1, <1>0
      <4>. QED
        BY <3>2, <4>1, <4>2, <2>2
    <3>3. CASE section = "outputs"
      <4>1. r = a + b + position - 1 /\ InfosRead' = a + b + (position + 1) - 1
            /\ position \in 1..c /\ infos[a + b + position] = model.outputs[position]
        BY <3>3, <2>1, <2>2, <1>0, InfosFacts DEF InfosRead
      <4> HIDE DEF infos, a, b, c, r
      <4>2. r \in Nat /\ InfosRead' = r + 1 /\ r + 1 = a + b + position
        BY <4>1, <1>0
      <4>. QED
        BY <3>3, <4>1, <4>2, <2>2
    <3>. QED
      BY <2>1, <3>1, <3>2, <3>3
  <2>4. IsSequence(Listed[position].dims)
    BY <2>1, <2>2, <1>0, ModelsAssumption
  <2>5. /\ ParseInfo(Listed[position]) = Loading!Info(Listed[position])
        /\ Listed[position].tensor /\ Listed[position].dtype \in DOMAIN Loading!Sizes
    BY <2>1, <2>4, ParsedInfo, SoundInfos
  <2>6. /\ value_info = Lasts(infos, r)
        /\ \A i \in 1..r : infos[i].tensor /\ infos[i].dtype \in DOMAIN Loading!Sizes
    BY <2>1 DEF DescribedInv
  <2>7. Loading!Infos(model') = infos
    BY <2>1
  <2> HIDE DEF infos, r
  <2>8. value_info' = Lasts(infos, r + 1)
    <3>1. Lasts(infos, r + 1) =
            [name \in DOMAIN Lasts(infos, r) \cup {infos[r + 1].name} |->
               IF name = infos[r + 1].name THEN Loading!Info(infos[r + 1])
               ELSE Lasts(infos, r)[name]]
      BY <2>3, LastsGrow
    <3>. QED
      BY <3>1, <2>1, <2>3, <2>5, <2>6 DEF MergeInfo
  <2>9. \A i \in 1..r + 1 : infos[i].tensor /\ infos[i].dtype \in DOMAIN Loading!Sizes
    <3>1. \A i \in 1..r + 1 : i \in 1..r \/ i = r + 1
      BY <2>3
    <3>. QED
      BY <3>1, <2>3, <2>5, <2>6
  <2>. QED
    BY <2>3, <2>7, <2>8, <2>9 DEF DescribedInv
<1>3. CASE ReadOpset \/ AddInitializer \/ CollectInput \/ AddNode
  <2>1. /\ section \in {"opsets", "initializers", "names", "nodes"} /\ section' = section
        /\ UNCHANGED <<model, value_info>>
    BY <1>3 DEF ReadOpset, AddInitializer, CollectInput, AddNode, Advance, In
  <2>. QED
    BY <2>1, <1>1 DEF InfosRead
<1>4. CASE EndSection
  <2>1. /\ section # "thrown" /\ UNCHANGED <<model, value_info>>
    BY <1>4, EndSectionFacts
  <2>2. InfosRead' = InfosRead
    <3>1. /\ a' = a /\ b' = b /\ c' = c /\ position' = 1
          /\ \/ section = "opsets" /\ section' = "initializers"
             \/ section = "initializers" /\ section' = "inputs"
             \/ section = "inputs" /\ section' = "value_infos" /\ position = a + 1
             \/ section = "value_infos" /\ section' = "outputs" /\ position = b + 1
             \/ section = "outputs" /\ section' = "names" /\ position = c + 1
             \/ section = "names" /\ section' = "nodes"
      BY <1>4, EndSectionFacts
    <3>2. InfosRead = IF section \in {"opsets", "initializers"} THEN 0
                      ELSE IF section = "inputs" THEN position - 1
                      ELSE IF section = "value_infos" THEN a + position - 1
                      ELSE IF section = "outputs" THEN a + b + position - 1
                      ELSE a + b + c
      BY DEF InfosRead
    <3>3. InfosRead' = IF section' \in {"opsets", "initializers"} THEN 0
                       ELSE IF section' = "inputs" THEN position' - 1
                       ELSE IF section' = "value_infos" THEN a' + position' - 1
                       ELSE IF section' = "outputs" THEN a' + b' + position' - 1
                       ELSE a' + b' + c'
      BY DEF InfosRead
    <3> HIDE DEF a, b, c
    <3>4. CASE section \in {"opsets", "names"}
      BY <3>1, <3>2, <3>3, <3>4
    <3>5. CASE section = "initializers"
      BY <3>1, <3>2, <3>3, <3>5
    <3>6. CASE section = "inputs"
      BY <1>0, <3>1, <3>2, <3>3, <3>6
    <3>7. CASE section = "value_infos"
      BY <1>0, <3>1, <3>2, <3>3, <3>7
    <3>8. CASE section = "outputs"
      BY <1>0, <3>1, <3>2, <3>3, <3>8
    <3>. QED
      BY <3>1, <3>4, <3>5, <3>6, <3>7, <3>8
  <2>. QED
    BY <2>1, <2>2, <1>1
<1>5. CASE InitializerThrows \/ ValueInfoThrows \/ NodeThrows
  BY <1>5 DEF InitializerThrows, ValueInfoThrows, NodeThrows, ThrowLoading, DescribedInv
<1>6. CASE CallSort
  <2>1. /\ section # "thrown" /\ UNCHANGED <<model, value_info>> /\ InfosRead' = InfosRead
    BY <1>6, CallSortFacts DEF InfosRead
  <2>. QED
    BY <2>1, <1>1
<1>7. CASE Sort
  <2>1. /\ section # "thrown" /\ UNCHANGED <<model, value_info>> /\ InfosRead' = InfosRead
    BY <1>7 DEF Sort, InfosRead
  <2>. QED
    BY <2>1, <1>1
<1>8. CASE UNCHANGED load_vars
  <2>1. UNCHANGED <<model, section, position, value_info>>
    BY <1>8 DEF load_vars, graph_vars
  <2>. QED
    BY <2>1 DEF DescribedInv, InfosRead
<1>. QED
  BY <1>2, <1>3, <1>4, <1>5, <1>6, <1>7, <1>8 DEF LoadNext

LEMMA CollectedNone == \A list, known : Collected(list, known, 0) = <<>>
<1> TAKE list, known
<1>1. Given(list, known, 0) = {}
  BY DEF Given
<1>2. Cardinality(Given(list, known, 0)) = 0
  BY <1>1, FS_EmptySet
<1>3. \A f : DOMAIN f = {} /\ f = [x \in DOMAIN f |-> f[x]] => f = <<>>
  OBVIOUS
<1>. QED
  BY <1>2, <1>3 DEF Collected

LEMMA CollectedStep == LoadInv /\ CollectedInv /\ [LoadNext]_load_vars => CollectedInv'
<1> SUFFICES ASSUME LoadInv, CollectedInv, [LoadNext]_load_vars PROVE CollectedInv'
  OBVIOUS
<1>0. Len(model.inputs) \in Nat /\ DOMAIN model.inputs = 1..Len(model.inputs)
  BY FieldFacts DEF LoadInv, ReadInv
<1>1. ASSUME section # "thrown", UNCHANGED <<model, input_names, initializers>>,
             InputsRead' = InputsRead
      PROVE  CollectedInv'
  BY <1>1 DEF CollectedInv
<1>2. CASE CollectInput
  <2> DEFINE list == model.inputs
             known == DOMAIN initializers
             r == position - 1
  <2>1. /\ section = "names" /\ section' = "names" /\ model' = model
        /\ initializers' = initializers
        /\ position \in DOMAIN list /\ position' = position + 1
        /\ input_names' = IF list[position].name \notin known
                          THEN Append(input_names, list[position].name) ELSE input_names
    BY <1>2 DEF CollectInput, In, Advance, Listed, IsExternal
  <2>2. r \in Nat /\ r + 1 = position /\ InputsRead = r /\ InputsRead' = r + 1
    BY <1>0, <2>1 DEF InputsRead
  <2>3. input_names = Collected(list, known, r)
    BY <2>1, <2>2 DEF CollectedInv
  <2>4. model'.inputs = list /\ DOMAIN initializers' = known
    BY <2>1
  <2> HIDE DEF list, known, r
  <2>5. Collected(list, known, r + 1) =
          IF list[r + 1].name \notin known
          THEN Append(Collected(list, known, r), list[r + 1].name)
          ELSE Collected(list, known, r)
    BY <2>2, CollectedGrow
  <2>6. input_names' = Collected(list, known, r + 1)
    BY <2>1, <2>2, <2>3, <2>5
  <2>. QED
    BY <2>2, <2>4, <2>6 DEF CollectedInv
<1>3. CASE ReadOpset \/ AddValueInfo \/ AddNode
  <2>1. /\ section \in {"opsets", "inputs", "value_infos", "outputs", "nodes"}
        /\ section' = section /\ UNCHANGED <<model, input_names, initializers>>
    BY <1>3 DEF ReadOpset, AddValueInfo, AddNode, Advance, In
  <2>. QED
    BY <2>1, <1>1 DEF InputsRead
<1>4. CASE EndSection
  <2>1. section # "thrown" /\ UNCHANGED <<model, input_names, initializers>>
    BY <1>4, EndSectionFacts
  <2>2. InputsRead' = InputsRead
    BY <1>0, <1>4, EndSectionFacts DEF InputsRead
  <2>. QED
    BY <2>1, <2>2, <1>1
<1>5. CASE InitializerThrows \/ ValueInfoThrows \/ NodeThrows
  BY <1>5 DEF InitializerThrows, ValueInfoThrows, NodeThrows, ThrowLoading, CollectedInv
<1>6. CASE CallSort
  <2>1. /\ section # "thrown" /\ UNCHANGED <<model, input_names, initializers>>
        /\ InputsRead' = InputsRead
    BY <1>6, CallSortFacts DEF InputsRead
  <2>. QED
    BY <2>1, <1>1
<1>7. CASE Sort
  <2>1. /\ section # "thrown" /\ input_names' = input_names /\ initializers' = initializers
        /\ model' = model /\ InputsRead' = InputsRead
    BY <1>7 DEF Sort, InputsRead
  <2>. QED
    BY <2>1, <1>1
<1>8. CASE UNCHANGED load_vars
  <2>1. UNCHANGED <<model, section, position, input_names, initializers>>
    BY <1>8 DEF load_vars, graph_vars
  <2>. QED
    BY <2>1 DEF CollectedInv, InputsRead
<1>9. CASE AddInitializer
  <2>1. section = "initializers" /\ section' = "initializers" /\ input_names' = input_names
    BY <1>9 DEF AddInitializer, In, Advance
  <2>2. InputsRead = 0 /\ InputsRead' = 0
    BY <2>1 DEF InputsRead
  <2>. QED
    BY <2>1, <2>2, CollectedNone DEF CollectedInv
<1>. QED
  BY <1>2, <1>3, <1>4, <1>5, <1>6, <1>7, <1>8, <1>9 DEF LoadNext

\* One more node.
LEMMA StrippedGrow ==
    ASSUME NEW list, NEW r \in Nat
    PROVE  Append(Stripped(list, r), [inputs |-> list[r + 1].inputs,
                                      outputs |-> list[r + 1].outputs])
             = Stripped(list, r + 1)
<1> DEFINE e(k) == [inputs |-> list[k].inputs, outputs |-> list[k].outputs]
           old == Stripped(list, r)
           V == {e(k) : k \in 1..r + 1}
<1>1. /\ old = [k \in 1..r |-> e(k)] /\ Stripped(list, r + 1) = [k \in 1..r + 1 |-> e(k)]
  BY DEF Stripped
<1>2. \A k \in 1..r + 1 : e(k) \in V
  OBVIOUS
<1>3. r + 1 \in 1..r + 1 /\ \A k \in 1..r : k \in 1..r + 1
  OBVIOUS
<1>4. e(r + 1) \in V
  BY <1>2, <1>3
<1> HIDE DEF e, old, V
<1>5. old \in Seq(V) /\ Len(old) = r
  BY <1>1, <1>2, <1>3
<1>6. /\ DOMAIN Append(old, e(r + 1)) = 1..r + 1
      /\ \A k \in 1..r : Append(old, e(r + 1))[k] = old[k]
      /\ Append(old, e(r + 1))[r + 1] = e(r + 1)
  BY <1>4, <1>5, AppendFacts
<1>7. Append(old, e(r + 1)) = [k \in 1..r + 1 |-> Append(old, e(r + 1))[k]]
  <2>1. Append(old, e(r + 1)) \in Seq(V)
    BY <1>4, <1>5
  <2>2. \A s \in Seq(V) : s = [k \in DOMAIN s |-> s[k]]
    OBVIOUS
  <2>. QED
    BY <1>6, <2>1, <2>2
<1>8. \A k \in 1..r + 1 : Append(old, e(r + 1))[k] = e(k)
  <2>1. \A k \in 1..r + 1 : k \in 1..r \/ k = r + 1
    OBVIOUS
  <2>. QED
    BY <2>1, <1>1, <1>6
<1>9. Append(old, e(r + 1)) = Stripped(list, r + 1)
  BY <1>1, <1>7, <1>8
<1>. QED
  BY <1>9 DEF e, old

LEMMA StrippedNone == \A list : Stripped(list, 0) = <<>>
<1>1. \A f : DOMAIN f = {} /\ f = [x \in DOMAIN f |-> f[x]] => f = <<>>
  OBVIOUS
<1>2. 1..0 = {}
  OBVIOUS
<1>. QED
  BY <1>1, <1>2 DEF Stripped

LEMMA NodesStep == LoadInv /\ NodesInv /\ [LoadNext]_load_vars => NodesInv'
<1> SUFFICES ASSUME LoadInv, NodesInv, [LoadNext]_load_vars PROVE NodesInv'
  OBVIOUS
<1>0. Len(model.nodes) \in Nat /\ DOMAIN model.nodes = 1..Len(model.nodes)
  BY FieldFacts DEF LoadInv, ReadInv
<1>1. ASSUME section # "thrown", UNCHANGED <<model, nodes>>, phase # "sorted",
             NodesRead' = NodesRead
      PROVE  NodesInv'
  BY <1>1 DEF NodesInv
<1>2. section # "sort" => phase = "idle"
  BY DEF LoadInv, CalledInv
<1>3. CASE AddNode
  <2> DEFINE list == model.nodes
             r == position - 1
  <2>1. /\ section = "nodes" /\ section' = "nodes" /\ model' = model
        /\ position \in DOMAIN list /\ position' = position + 1
        /\ \A i \in DOMAIN list[position].attributes :
              ~AttributeThrows(list[position].attributes[i])
              /\ ~DuplicateAttribute(list[position].attributes, i)
        /\ nodes' = Append(nodes, [inputs |-> list[position].inputs,
                                   outputs |-> list[position].outputs])
    BY <1>3 DEF AddNode, In, Advance, Listed
  <2>2. r \in Nat /\ r + 1 = position /\ NodesRead = r /\ NodesRead' = r + 1
    BY <1>0, <2>1 DEF NodesRead
  <2>3. /\ nodes = Stripped(list, r)
        /\ \A i \in 1..r : Loading!SoundNode(list[i])
    BY <1>2, <2>1, <2>2 DEF NodesInv
  <2>4. Loading!SoundNode(list[position])
    <3>1. /\ IsSequence(list[position].attributes)
          /\ \A j \in DOMAIN list[position].attributes :
                list[position].attributes[j].type = "TENSOR" =>
                    IsTensorProto(list[position].attributes[j].tensor)
      BY <2>1, ModelsAssumption DEF LoadInv, ReadInv
    <3>. QED
      BY <2>1, <3>1, SoundNodes
  <2>5. model'.nodes = list
    BY <2>1
  <2> HIDE DEF list, r
  <2>6. nodes' = Stripped(list, r + 1)
    BY <2>1, <2>2, <2>3, StrippedGrow
  <2>7. \A i \in 1..r + 1 : Loading!SoundNode(list[i])
    <3>1. \A i \in 1..r + 1 : i \in 1..r \/ i = position
      BY <2>2
    <3>. QED
      BY <3>1, <2>3, <2>4
  <2>. QED
    BY <2>2, <2>5, <2>6, <2>7 DEF NodesInv
<1>4. CASE ReadOpset \/ AddInitializer \/ AddValueInfo \/ CollectInput
  <2>1. /\ section \in {"opsets", "initializers", "inputs", "value_infos", "outputs", "names"}
        /\ section' = section /\ UNCHANGED <<model, nodes>>
    BY <1>4 DEF ReadOpset, AddInitializer, AddValueInfo, CollectInput, Advance, In
  <2>. QED
    BY <2>1, <1>1, <1>2 DEF NodesRead
<1>5. CASE EndSection
  <2>1. section \notin {"thrown", "sort"} /\ UNCHANGED <<model, nodes>>
    BY <1>5, EndSectionFacts
  <2>2. NodesRead' = NodesRead
    BY <1>0, <1>5, EndSectionFacts DEF NodesRead
  <2>. QED
    BY <2>1, <2>2, <1>1, <1>2
<1>6. CASE InitializerThrows \/ ValueInfoThrows \/ NodeThrows
  BY <1>6 DEF InitializerThrows, ValueInfoThrows, NodeThrows, ThrowLoading, NodesInv
<1>7. CASE CallSort
  <2>1. /\ section # "thrown" /\ phase # "sorted" /\ UNCHANGED <<model, nodes>>
        /\ NodesRead' = NodesRead
    BY <1>0, <1>7, CallSortFacts DEF NodesRead
  <2>. QED
    BY <2>1, <1>1
<1>8. CASE Sort
  <2>1. /\ section = "sort" /\ section' = "sort" /\ UNCHANGED <<model, position>> /\ Next
        /\ NodesRead' = NodesRead
    BY <1>8 DEF Sort, NodesRead
  <2>2. phase # "sorted" /\ (phase' = "sorted" \/ nodes' = nodes)
    BY <2>1 DEF Next, IndexOutputs, DuplicateThrows, ProducersDone, CountDependencies,
                SeedReady, Pop, CycleThrows, ReplaceNodes, Throw
  <2>. QED
    BY <2>1, <2>2 DEF NodesInv
<1>9. CASE UNCHANGED load_vars
  <2>1. UNCHANGED <<model, section, position, nodes, phase>>
    BY <1>9 DEF load_vars, graph_vars, sort_vars
  <2>. QED
    BY <2>1 DEF NodesInv, NodesRead
<1>. QED
  BY <1>3, <1>4, <1>5, <1>6, <1>7, <1>8, <1>9 DEF LoadNext

LEMMA PartsStart == LoadInit => PartsInv
<1> SUFFICES ASSUME LoadInit PROVE PartsInv
  OBVIOUS
<1>1. /\ section = "opsets" /\ position = 1 /\ opset_version = 0
      /\ initializers = <<>> /\ value_info = <<>> /\ input_names = <<>> /\ nodes = <<>>
      /\ phase = "idle"
  BY DEF LoadInit
<1>2. InitializersRead = 0 /\ InfosRead = 0 /\ InputsRead = 0 /\ NodesRead = 0
  BY <1>1 DEF InitializersRead, InfosRead, InputsRead, NodesRead
<1>3. \A i : ~(i \in 1..0) /\ ~(i \in 1..1-1)
  OBVIOUS
<1>4. OpsetInv /\ GreedyInv
  BY <1>1, <1>3 DEF OpsetInv, GreedyInv
<1>5. DefaultsInv /\ DescribedInv
  BY <1>1, <1>2, <1>3, NoEntries DEF DefaultsInv, DescribedInv
<1>6. CollectedInv /\ NodesInv
  BY <1>1, <1>2, <1>3, CollectedNone, StrippedNone DEF CollectedInv, NodesInv
<1>. QED
  BY <1>4, <1>5, <1>6 DEF PartsInv

LEMMA GreedyLoad == LoadInv /\ GreedyInv /\ [LoadNext]_load_vars => GreedyInv'
<1> SUFFICES ASSUME LoadInv, GreedyInv, [LoadNext]_load_vars PROVE GreedyInv'
  OBVIOUS
<1>1. CASE Sort
  <2>1. IInv /\ Next
    BY <1>1 DEF Sort, LoadInv, CalledInv
  <2>. QED
    BY <2>1, GreedyStep DEF IInv
<1>2. CASE UNCHANGED load_vars
  <2>1. UNCHANGED <<nodes, phase, sorted>>
    BY <1>2 DEF load_vars, graph_vars, sort_vars
  <2>. QED
    BY <2>1 DEF GreedyInv, Nodes
<1>3. CASE CallSort
  <2>1. phase' = "producers"
    BY <1>3 DEF CallSort
  <2>. QED
    BY <2>1 DEF GreedyInv
<1>4. CASE ReadOpset \/ AddInitializer \/ AddValueInfo \/ CollectInput \/ AddNode
  <2>1. section # "sort" /\ phase' = phase
    BY <1>4 DEF ReadOpset, AddInitializer, AddValueInfo, CollectInput, AddNode, In, Advance,
                sort_vars
  <2>. QED
    BY <2>1 DEF LoadInv, CalledInv, GreedyInv
<1>5. CASE InitializerThrows \/ ValueInfoThrows \/ NodeThrows
  <2>1. section # "sort" /\ phase' = phase
    BY <1>5 DEF InitializerThrows, ValueInfoThrows, NodeThrows, In, ThrowLoading, sort_vars
  <2>. QED
    BY <2>1 DEF LoadInv, CalledInv, GreedyInv
<1>6. CASE EndSection
  <2>1. section # "sort" /\ phase' = phase
    BY <1>6, EndSectionFacts DEF sort_vars
  <2>. QED
    BY <2>1 DEF LoadInv, CalledInv, GreedyInv
<1>. QED
  BY <1>1, <1>2, <1>3, <1>4, <1>5, <1>6 DEF LoadNext

LEMMA PartsInvariant == LoadSpec => [](LoadInv /\ PartsInv)
<1>1. LoadInv /\ PartsInv /\ [LoadNext]_load_vars => PartsInv'
  BY OpsetStep, DefaultsStep, DescribedStep, CollectedStep, NodesStep, GreedyLoad DEF PartsInv
<1>. QED
  BY <1>1, PartsStart, LoadInvariant, PTL DEF LoadSpec

-----------------------------------------------------------------------------
(* The parts of a message that is read *)

LEMMA WholeList ==
    ASSUME NEW list, NEW n \in Nat, DOMAIN list = 1..n
    PROVE  /\ NamesOf(list, n) = Loading!Names(list)
           /\ \A name : Same(list, n, name) = Loading!Named(list, name)
BY DEF NamesOf, Same, Loading!Names, Loading!Named

LEMMA WholeFirsts ==
    ASSUME NEW m, NEW n \in Nat, DOMAIN m.initializers = 1..n
    PROVE  /\ Firsts(m.initializers, n) = Loading!Initializers(m)
           /\ DOMAIN Firsts(m.initializers, n) = Loading!Names(m.initializers)
<1> DEFINE list == m.initializers
           first(name) == CHOOSE i \in Loading!Named(list, name) :
                            \A j \in Loading!Named(list, name) : i <= j
<1>1. \A name : FirstOf(list, n, name) = first(name)
  BY WholeList DEF FirstOf
<1>2. Loading!Initializers(m) =
        [name \in Loading!Names(list) |-> Loading!Content(list[first(name)])]
  BY DEF Loading!Initializers
<1>3. Firsts(list, n) = [name \in NamesOf(list, n) |->
                            Loading!Content(list[FirstOf(list, n, name)])]
  BY DEF Firsts
<1>4. NamesOf(list, n) = Loading!Names(list)
  BY WholeList
<1> HIDE DEF first, list
<1>5. Firsts(list, n) = Loading!Initializers(m) /\ DOMAIN Firsts(list, n) = Loading!Names(list)
  BY <1>1, <1>2, <1>3, <1>4
<1>. QED
  BY <1>5 DEF list

LEMMA WholeLasts ==
    ASSUME NEW m, NEW n \in Nat, DOMAIN Loading!Infos(m) = 1..n
    PROVE  Lasts(Loading!Infos(m), n) = Loading!ValueInfo(m)
<1> DEFINE list == Loading!Infos(m)
           last(name) == CHOOSE i \in Loading!Named(list, name) :
                            \A j \in Loading!Named(list, name) : i >= j
<1>1. \A name : LastOf(list, n, name) = last(name)
  <2>1. \A name : Same(list, n, name) = Loading!Named(list, name)
    BY WholeList
  <2> HIDE DEF list
  <2>. QED
    BY <2>1 DEF LastOf
<1>2. Loading!ValueInfo(m) =
        [name \in Loading!Names(list) |-> Loading!Info(list[last(name)])]
  BY DEF Loading!ValueInfo
<1>3. Lasts(list, n) = [name \in NamesOf(list, n) |->
                            Loading!Info(list[LastOf(list, n, name)])]
  BY DEF Lasts
<1>4. NamesOf(list, n) = Loading!Names(list)
  BY WholeList
<1> HIDE DEF last, list
<1>5. Lasts(list, n) = Loading!ValueInfo(m)
  BY <1>1, <1>2, <1>3, <1>4
<1>. QED
  BY <1>5 DEF list

LEMMA WholeInputs ==
    ASSUME NEW m, NEW n \in Nat, DOMAIN m.inputs = 1..n
    PROVE  Collected(m.inputs, Loading!Names(m.initializers), n) = Loading!InputNames(m)
<1> DEFINE given == {i \in DOMAIN m.inputs : m.inputs[i].name \notin Loading!Names(m.initializers)}
           G == Given(m.inputs, Loading!Names(m.initializers), n)
<1>1. G = given
  BY DEF Given
<1>2. Loading!Cardinality(given) = Cardinality(given)
  BY Zenon DEF Loading!Cardinality, Cardinality
<1>3. Loading!InputNames(m) =
        [k \in 1..Loading!Cardinality(given) |-> m.inputs[Loading!Nth(given, k)].name]
  BY DEF Loading!InputNames
<1>4. Collected(m.inputs, Loading!Names(m.initializers), n) =
        [k \in 1..Cardinality(G) |-> m.inputs[Loading!Nth(G, k)].name]
  BY DEF Collected
<1> HIDE DEF given, G
<1>. QED
  BY <1>1, <1>2, <1>3, <1>4

\* When the nodes are sorted everything else is as promised.
LEMMA PartsRead ==
    ASSUME LoadInv, PartsInv, section = "sort"
    PROVE  /\ opset_version = Loading!OpsetVersion(model)
           /\ initializers = Loading!Initializers(model)
           /\ value_info = Loading!ValueInfo(model)
           /\ input_names = Loading!InputNames(model)
           /\ output_names = OutputNames
<1>1. /\ InitializersRead = Len(model.initializers) /\ InputsRead = Len(model.inputs)
      /\ InfosRead = Len(model.inputs) + Len(model.value_infos) + Len(model.outputs)
  BY DEF InitializersRead, InfosRead, InputsRead
<1>2. /\ Len(model.initializers) \in Nat
      /\ DOMAIN model.initializers = 1..Len(model.initializers)
      /\ Len(model.inputs) \in Nat /\ DOMAIN model.inputs = 1..Len(model.inputs)
      /\ Len(model.value_infos) \in Nat /\ Len(model.outputs) \in Nat
  BY FieldFacts DEF LoadInv, ReadInv
<1>3. opset_version = Loading!OpsetVersion(model) /\ output_names = OutputNames
  BY DEF PartsInv, OpsetInv, LoadInv, ReadInv
<1>4. /\ initializers = Loading!Initializers(model)
      /\ DOMAIN initializers = Loading!Names(model.initializers)
  BY <1>1, <1>2, WholeFirsts DEF PartsInv, DefaultsInv
<1>5. value_info = Loading!ValueInfo(model)
  <2>1. DOMAIN Loading!Infos(model) = 1..InfosRead
    BY <1>1, InfosFacts DEF LoadInv, ReadInv
  <2>2. InfosRead \in Nat
    <3>1. \A a, b, c \in Nat : a + b + c \in Nat
      OBVIOUS
    <3>. QED
      BY <1>1, <1>2, <3>1
  <2>. QED
    BY <2>1, <2>2, WholeLasts DEF PartsInv, DescribedInv
<1>6. input_names = Loading!InputNames(model)
  BY <1>1, <1>2, <1>4, WholeInputs DEF PartsInv, CollectedInv
<1>. QED
  BY <1>3, <1>4, <1>5, <1>6

\* Whether a model that is read whole is loaded is a matter of the sort.
LEMMA NodesDecide ==
    ASSUME LoadInv, PartsInv, section = "sort", phase # "sorted"
    PROVE  /\ nodes = Stripped(model.nodes, Len(model.nodes))
           /\ Loading!ValidOrders(nodes) = Loading!ValidOrders(model.nodes)
           /\ Loading!Loadable(model) <=>
                ~Order!ProducedTwice(nodes) /\ Loading!ValidOrders(nodes) # {}
<1>1. /\ InitializersRead = Len(model.initializers) /\ NodesRead = Len(model.nodes)
      /\ InfosRead = Len(model.inputs) + Len(model.value_infos) + Len(model.outputs)
  BY DEF InitializersRead, InfosRead, NodesRead
<1>2. /\ DOMAIN model.initializers = 1..Len(model.initializers)
      /\ Len(model.nodes) \in Nat /\ DOMAIN model.nodes = 1..Len(model.nodes)
  BY FieldFacts DEF LoadInv, ReadInv
<1>3. DOMAIN Loading!Infos(model) = 1..InfosRead
  BY <1>1, InfosFacts DEF LoadInv, ReadInv
<1>4. nodes = Stripped(model.nodes, Len(model.nodes))
  BY <1>1 DEF PartsInv, NodesInv
<1>5. /\ Loading!ValidOrders(nodes) = Loading!ValidOrders(model.nodes)
      /\ Loading!ProducedOnce(nodes) <=> Loading!ProducedOnce(model.nodes)
  BY <1>2, <1>4, StrippedFacts
<1>6. \A i \in DOMAIN model.initializers :
         model.initializers[i].name # "" /\ Loading!Sound(model.initializers[i])
  BY <1>1, <1>2 DEF PartsInv, DefaultsInv
<1>7. \A i \in DOMAIN Loading!Infos(model) :
         Loading!Infos(model)[i].tensor /\ Loading!Infos(model)[i].dtype \in DOMAIN Loading!Sizes
  BY <1>3 DEF PartsInv, DescribedInv
<1>8. \A i \in DOMAIN model.nodes : Loading!SoundNode(model.nodes[i])
  BY <1>1, <1>2 DEF PartsInv, NodesInv
<1>9. Loading!Loadable(model) <=>
        Loading!ProducedOnce(model.nodes) /\ Loading!ValidOrders(model.nodes) # {}
  BY <1>6, <1>7, <1>8, Zenon DEF Loading!Loadable
<1>. QED
  BY <1>4, <1>5, <1>9, ProducedOnceFacts

-----------------------------------------------------------------------------
(* The loader takes no step that the definition does not allow *)

LEMMA ReadsOn ==
    ASSUME section # "thrown", section' # "thrown", model' = model,
           phase \notin {"sorted", "thrown"}, phase' \notin {"sorted", "thrown"}
    PROVE  UNCHANGED Loading!lvars
BY DEF Loading!lvars

LEMMA Refuses ==
    ASSUME section # "thrown", phase \notin {"sorted", "thrown"}, model' = model,
           section' = "thrown" \/ phase' = "thrown", ~Loading!Loadable(model)
    PROVE  Loading!Load
BY DEF Loading!Load, Loading!Thrown

LEMMA Accepts ==
    ASSUME section # "thrown", section' # "thrown", model' = model,
           phase \notin {"sorted", "thrown"}, phase' = "sorted", Loading!Loadable(model),
           [status |-> "ok", opset_version |-> opset_version',
            initializers |-> initializers', value_info |-> value_info',
            input_names |-> input_names', output_names |-> output_names',
            nodes |-> nodes'] = Loading!Loaded(model)
    PROVE  Loading!Load
BY DEF Loading!Load

\* A part that the loader refuses is not sound.
LEMMA ThrowRefuses ==
    ASSUME LoadInv, InitializerThrows \/ ValueInfoThrows \/ NodeThrows
    PROVE  Loading!Load
<1>1. /\ section \in {"initializers", "inputs", "value_infos", "outputs", "nodes"}
      /\ position \in DOMAIN Listed /\ section' = "thrown" /\ model' = model
  BY DEF InitializerThrows, ValueInfoThrows, NodeThrows, In, ThrowLoading
<1>2. phase = "idle" /\ model \in Models
  BY <1>1 DEF LoadInv, CalledInv, ReadInv
<1>3. ~Loading!Loadable(model)
  <2>1. CASE InitializerThrows
    <3>1. /\ position \in DOMAIN model.initializers
          /\ \/ model.initializers[position].name = ""
             \/ TensorThrows(model.initializers[position])
      BY <1>1, <2>1 DEF InitializerThrows, In, Listed
    <3>2. IsTensorProto(model.initializers[position])
      BY <1>2, <3>1, ModelsAssumption
    <3>. QED
      BY <3>1, <3>2, SoundTensors DEF Loading!Loadable
  <2>2. CASE ValueInfoThrows
    <3>1. /\ InfoThrows(Listed[position])
          /\ \/ section = "inputs" /\ Listed = model.inputs
             \/ section = "value_infos" /\ Listed = model.value_infos
             \/ section = "outputs" /\ Listed = model.outputs
      BY <1>1, <2>2 DEF ValueInfoThrows, In, Listed
    <3>2. \E i \in DOMAIN Loading!Infos(model) : Loading!Infos(model)[i] = Listed[position]
      <4> DEFINE a == Len(model.inputs)
                 b == Len(model.value_infos)
                 c == Len(model.outputs)
      <4>1. /\ a \in Nat /\ b \in Nat /\ c \in Nat
            /\ DOMAIN model.inputs = 1..a /\ DOMAIN model.value_infos = 1..b
            /\ DOMAIN model.outputs = 1..c
        BY <1>2, FieldFacts
      <4>2. /\ DOMAIN Loading!Infos(model) = 1..a + b + c
            /\ \A i \in 1..a : Loading!Infos(model)[i] = model.inputs[i]
            /\ \A i \in 1..b : Loading!Infos(model)[a + i] = model.value_infos[i]
            /\ \A i \in 1..c : Loading!Infos(model)[a + b + i] = model.outputs[i]
        BY <1>2, InfosFacts
      <4> HIDE DEF a, b, c
      <4>3. CASE Listed = model.inputs
        <5>1. position \in 1..a /\ position \in 1..a + b + c
          BY <1>1, <4>1, <4>3
        <5>. QED
          BY <4>2, <4>3, <5>1
      <4>4. CASE Listed = model.value_infos
        <5>1. position \in 1..b
          BY <1>1, <4>1, <4>4
        <5>2. a + position \in 1..a + b + c
          BY <4>1, <5>1
        <5>. QED
          BY <4>2, <4>4, <5>1, <5>2
      <4>5. CASE Listed = model.outputs
        <5>1. position \in 1..c
          BY <1>1, <4>1, <4>5
        <5>2. a + b + position \in 1..a + b + c
          BY <4>1, <5>1
        <5>. QED
          BY <4>2, <4>5, <5>1, <5>2
      <4>. QED
        BY <3>1, <4>3, <4>4, <4>5
    <3>. QED
      BY <3>1, <3>2, SoundInfos DEF Loading!Loadable
  <2>3. CASE NodeThrows
    <3> DEFINE node == model.nodes[position]
    <3>1. /\ position \in DOMAIN model.nodes
          /\ \E i \in DOMAIN node.attributes :
               \/ AttributeThrows(node.attributes[i])
               \/ DuplicateAttribute(node.attributes, i)
      BY <1>1, <2>3 DEF NodeThrows, In, Listed
    <3>2. /\ IsSequence(node.attributes)
          /\ \A j \in DOMAIN node.attributes : node.attributes[j].type = "TENSOR" =>
                IsTensorProto(node.attributes[j].tensor)
      BY <1>2, <3>1, ModelsAssumption
    <3>3. ~Loading!SoundNode(node)
      <4> HIDE DEF node
      <4>. QED
        BY <3>1, <3>2, SoundNodes
    <3>. QED
      BY <3>1, <3>3 DEF Loading!Loadable
  <2>. QED
    BY <2>1, <2>2, <2>3
<1>. QED
  BY <1>1, <1>2, <1>3, Refuses

\* The sort gives up for a tensor with two producers or for want of an order.
LEMMA SortRefuses ==
    ASSUME LoadInv, PartsInv, section = "sort", section' = "sort", model' = model,
           DuplicateThrows \/ CycleThrows
    PROVE  Loading!Load
<1>1. IInv /\ phase \in {"producers", "sorting"} /\ phase' = "thrown"
  BY DEF LoadInv, CalledInv, DuplicateThrows, CycleThrows, Throw
<1>2. ~Loading!Loadable(model)
  <2>1. CASE DuplicateThrows
    <3>1. Order!ProducedTwice(nodes)
      BY <1>1, <2>1, DuplicateMeaning DEF IInv, DuplicateThrows
    <3>. QED
      BY <1>1, <3>1, NodesDecide
  <2>2. CASE CycleThrows
    <3>1. Loading!ValidOrders(nodes) = {}
      BY <1>1, <2>2, NoOrderLeft DEF IInv
    <3>. QED
      BY <1>1, <3>1, NodesDecide
  <2>. QED
    BY <2>1, <2>2
<1>. QED
  BY <1>1, <1>2, Refuses

LEMMA SortAccepts ==
    ASSUME LoadInv, PartsInv, section = "sort", section' = "sort", ReplaceNodes,
           UNCHANGED <<model, opset_version, initializers, value_info, input_names, output_names>>
    PROVE  Loading!Load
<1>1. /\ IInv /\ phase = "sorting" /\ phase' = "sorted" /\ Len(sorted) = Len(nodes)
      /\ nodes' = [k \in DOMAIN sorted |-> nodes[sorted[k]]]
  BY DEF LoadInv, CalledInv, ReplaceNodes
<1>2. /\ nodes = Stripped(model.nodes, Len(model.nodes))
      /\ Loading!ValidOrders(nodes) = Loading!ValidOrders(model.nodes)
      /\ Loading!Loadable(model) <=>
           ~Order!ProducedTwice(nodes) /\ Loading!ValidOrders(nodes) # {}
  BY <1>1, NodesDecide
<1>3. /\ sorted \in Loading!ValidOrders(nodes)
      /\ Earliest(Loading!ValidOrders(nodes)) = sorted
  BY <1>1, SortedAsPromised DEF IInv, PartsInv
<1>4. ~Order!ProducedTwice(nodes)
  BY <1>1, RunningOnce DEF IInv
<1>5. Loading!Loadable(model)
  BY <1>2, <1>3, <1>4
<1>6. nodes' = LET s == Loading!Sorted(model.nodes)
               IN  [k \in DOMAIN s |-> [inputs |-> s[k].inputs, outputs |-> s[k].outputs]]
  <2> DEFINE n == Len(model.nodes)
             list == model.nodes
             s == Loading!Sorted(list)
  <2>1. n \in Nat /\ DOMAIN list = 1..n
    BY FieldFacts DEF LoadInv, ReadInv
  <2>2. /\ DOMAIN sorted = 1..n /\ \A k \in 1..n : sorted[k] \in 1..n
    <3>1. Len(nodes) = n
      BY DEF LoadInv, ReadInv
    <3>2. IsValid(nodes, Len(nodes), sorted)
      BY <1>1, SortedIsValid DEF IInv
    <3> HIDE DEF n
    <3>. QED
      BY <3>1, <3>2 DEF IsValid
  <2>3. s = [k \in 1..n |-> list[sorted[k]]]
    BY <1>2, <1>3, <2>1, SortedByEarliest
  <2>4. nodes' = [k \in 1..n |-> Stripped(list, n)[sorted[k]]]
    BY <1>1, <1>2, <2>2
  <2>5. \A k \in 1..n : Stripped(list, n)[sorted[k]] =
                          [inputs |-> s[k].inputs, outputs |-> s[k].outputs]
    <3> HIDE DEF s, list, n
    <3>. QED
      BY <2>2, <2>3 DEF Stripped
  <2>6. DOMAIN s = 1..n
    BY <2>3
  <2> HIDE DEF s, list, n
  <2>7. nodes' = [k \in DOMAIN s |-> [inputs |-> s[k].inputs, outputs |-> s[k].outputs]]
    BY <2>4, <2>5, <2>6
  <2>. QED
    BY <2>7 DEF s, list
<1>7. /\ opset_version' = Loading!OpsetVersion(model)
      /\ initializers' = Loading!Initializers(model)
      /\ value_info' = Loading!ValueInfo(model)
      /\ input_names' = Loading!InputNames(model)
      /\ output_names' = [k \in DOMAIN model.outputs |-> model.outputs[k].name]
  BY PartsRead DEF OutputNames
<1>8. [status |-> "ok", opset_version |-> opset_version',
       initializers |-> initializers', value_info |-> value_info',
       input_names |-> input_names', output_names |-> output_names',
       nodes |-> nodes'] = Loading!Loaded(model)
  BY <1>6, <1>7, Zenon DEF Loading!Loaded
<1>. QED
  BY <1>1, <1>5, <1>8, Accepts

LEMMA LoadRefinesStep ==
    LoadInv /\ PartsInv /\ [LoadNext]_load_vars => [Loading!Load]_(Loading!lvars)
<1> SUFFICES ASSUME LoadInv, PartsInv, [LoadNext]_load_vars PROVE [Loading!Load]_(Loading!lvars)
  OBVIOUS
<1>1. CASE InitializerThrows \/ ValueInfoThrows \/ NodeThrows
  BY <1>1, ThrowRefuses
<1>2. CASE ReadOpset \/ AddInitializer \/ AddValueInfo \/ CollectInput \/ AddNode
  <2>1. /\ section \in Reading /\ section' = section /\ model' = model /\ phase' = phase
    BY <1>2 DEF ReadOpset, AddInitializer, AddValueInfo, CollectInput, AddNode, In, Advance,
                sort_vars, Reading
  <2>2. phase = "idle"
    BY <2>1 DEF LoadInv, CalledInv, Reading
  <2>. QED
    BY <2>1, <2>2, ReadsOn DEF Reading
<1>3. CASE EndSection
  <2>1. /\ section \in Reading /\ section' # "thrown" /\ model' = model /\ phase' = phase
    BY <1>3, EndSectionFacts DEF sort_vars, Reading
  <2>2. phase = "idle"
    BY <2>1 DEF LoadInv, CalledInv, Reading
  <2>. QED
    BY <2>1, <2>2, ReadsOn DEF Reading
<1>4. CASE CallSort
  BY <1>4, CallSortFacts, ReadsOn
<1>5. CASE Sort
  <2>1. /\ section = "sort" /\ section' = "sort" /\ Next
        /\ UNCHANGED <<model, opset_version, initializers, value_info, input_names, output_names>>
    BY <1>5 DEF Sort
  <2>2. CASE DuplicateThrows \/ CycleThrows
    BY <2>1, <2>2, SortRefuses
  <2>3. CASE ReplaceNodes
    BY <2>1, <2>3, SortAccepts
  <2>4. CASE IndexOutputs \/ ProducersDone \/ CountDependencies \/ SeedReady \/ Pop
    <3>1. phase \notin {"sorted", "thrown"} /\ phase' \notin {"sorted", "thrown"}
      BY <2>4 DEF IndexOutputs, ProducersDone, CountDependencies, SeedReady, Pop
    <3>. QED
      BY <2>1, <3>1, ReadsOn
  <2>. QED
    BY <2>1, <2>2, <2>3, <2>4 DEF Next
<1>6. CASE UNCHANGED load_vars
  BY <1>6 DEF load_vars, graph_vars, sort_vars, Loading!lvars
<1>. QED
  BY <1>1, <1>2, <1>3, <1>4, <1>5, <1>6 DEF LoadNext

\* For every message: load_onnx does what ModelLoading promises, step by step.
\* It refuses exactly the models that are not loadable, and the graph it
\* returns has the first of two initializers, the last of two value infos and
\* the nodes in the valid order closest to the model's.
THEOREM LoaderRefinesLoading == LoadSpec => Loading!LInit /\ [][Loading!Load]_(Loading!lvars)
<1>1. LoadInit => Loading!LInit
  BY DEF LoadInit, Loading!LInit
<1>. QED
  BY <1>1, LoadRefinesStep, PartsInvariant, PTL DEF LoadSpec
=============================================================================
