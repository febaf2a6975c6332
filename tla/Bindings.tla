------------------------------ MODULE Bindings ------------------------------
(***************************************************************************)
(* src/python/bindings.cpp: Python threads that call the methods of        *)
(* ExecutionEngine objects.  A method runs with the GIL held, except that  *)
(* run() gives it up between the conversion of its arguments and that of   *)
(* its results.  The engine has no lock, so that the steps of two runs on  *)
(* one engine may interleave there: node by node, which is the mildest of  *)
(* the outcomes that the data race has.                                    *)
(*                                                                         *)
(* Of the engine (ExecutionEngine models it in full) this module keeps     *)
(* tensor_map_ and the profiling data; tensors are the terms of Inference. *)
(***************************************************************************)
EXTENDS Integers, Sequences, Functions, FiniteSets

CONSTANTS
    Thread,     \* the threads of the interpreter
    NoThread,
    EngineOf,   \* the engine each thread uses
    Model,      \* the graph all engines were made from, as in Inference
    Requests,   \* argument dictionaries: name -> [dtype, value]
    Locked,     \* whether the callers put a lock of their own around each
                \* method call on an engine
    Endless,    \* threads whose runs may take forever
    MaxCalls    \* bound on the calls of run()

ASSUME BindingsAssumption ==
    /\ NoThread \notin Thread
    /\ DOMAIN EngineOf = Thread
    /\ Locked \in BOOLEAN
    /\ Endless \subseteq Thread
    /\ Model.nodes \in Seq(Range(Model.nodes))

VARIABLES
    gil,            \* the thread that holds it, or NoThread
    pc,             \* for each thread, where it is
    args,           \* ... the argument of its latest call of run()
    node,           \* ... the loop variable of ExecutionEngine::run, 0 outside it
    outputs,        \* ... the local variable of the lambda
    result,         \* ... what its latest call of run() came to
    calls,
    tensor_map_,    \* for each engine, name -> term
    profiling_, op_times_ms_

thread_vars == <<pc, args, node, outputs, result, calls>>
engine_vars == <<tensor_map_, profiling_, op_times_ms_>>
vars == <<gil, thread_vars, engine_vars>>

Engine == Range(EngineOf)

Caller(t) == INSTANCE Inference
               WITH model <- Model, request <- args[t], outcome <- result[t]

Abstract == INSTANCE Inference WITH model <- Model, request <- <<>>, outcome <- <<>>

Init ==
    /\ gil = NoThread
    /\ pc = [t \in Thread |-> "python"]
    /\ args = [t \in Thread |-> <<>>]
    /\ node = [t \in Thread |-> 0]
    /\ outputs = [t \in Thread |-> <<>>]
    /\ result = [t \in Thread |-> [status |-> "none"]]
    /\ calls = 0
    /\ tensor_map_ = [e \in Engine |-> <<>>]
    /\ profiling_ = [e \in Engine |-> FALSE]
    /\ op_times_ms_ = [e \in Engine |-> {}]

-----------------------------------------------------------------------------
(* The interpreter *)

\* Between two bytecodes, and at the end of gil_scoped_release.
AcquireGil(t) ==
    /\ gil = NoThread
    /\ pc[t] \in {"python", "reacquire"}
    /\ gil' = t
    /\ pc' = [pc EXCEPT ![t] = IF @ = "reacquire" THEN "convert_out" ELSE @]
    /\ UNCHANGED <<args, node, outputs, result, calls, engine_vars>>

SwitchOut(t) ==
    /\ gil = t
    /\ pc[t] = "python"
    /\ gil' = NoThread
    /\ UNCHANGED <<thread_vars, engine_vars>>

\* A method may be called now.
Callable(t) ==
    /\ gil = t
    /\ pc[t] = "python"
    /\ Locked => \A u \in Thread \ {t} :
                    EngineOf[u] = EngineOf[t] => pc[u] = "python"

SetProfiling(t) ==
    /\ Callable(t)
    /\ profiling_' = [profiling_ EXCEPT ![EngineOf[t]] = ~@]
    /\ UNCHANGED <<gil, thread_vars, tensor_map_, op_times_ms_>>

-----------------------------------------------------------------------------
(* run() *)

CallRun(t, dict) ==
    /\ Callable(t)
    /\ calls < MaxCalls
    /\ calls' = calls + 1
    /\ args' = [args EXCEPT ![t] = dict]
    /\ result' = [result EXCEPT ![t] = Abstract!Running]
    /\ pc' = [pc EXCEPT ![t] = "convert_in"]
    /\ UNCHANGED <<gil, node, outputs, engine_vars>>

NumpyDtypes == {"FLOAT32", "INT64", "INT32", "BOOL", "UINT8"}

Convertible(t) == \A name \in DOMAIN args[t] : args[t][name].dtype \in NumpyDtypes

\* Fault: the GIL is kept.
ConvertKeepingGil(t) ==
    /\ pc[t] = "convert_in"
    /\ Convertible(t)
    /\ pc' = [pc EXCEPT ![t] = "run"]
    /\ UNCHANGED <<gil, args, node, outputs, result, calls, engine_vars>>

\* tensor_from_numpy for every item, then gil_scoped_release.
ConvertInputs(t) ==
    /\ pc[t] = "convert_in"
    /\ Convertible(t)
    /\ pc' = [pc EXCEPT ![t] = "run"]
    /\ gil' = NoThread
    /\ UNCHANGED <<args, node, outputs, result, calls, engine_vars>>

ConversionThrows(t) ==
    /\ pc[t] = "convert_in"
    /\ ~Convertible(t)
    /\ result' = [result EXCEPT ![t] = Abstract!Thrown]
    /\ pc' = [pc EXCEPT ![t] = "python"]
    /\ UNCHANGED <<gil, args, node, outputs, calls, engine_vars>>

Accepted(t) ==
    \A name \in Range(Model.input_names) :
        name \in DOMAIN args[t] /\ args[t][name].dtype = "FLOAT32"

\* Fault: the inputs of an earlier run stay.
StartMerging(t) ==
    /\ pc[t] = "run"
    /\ Accepted(t)
    /\ tensor_map_' = [tensor_map_ EXCEPT ![EngineOf[t]] =
         [i \in DOMAIN Abstract!Given(Model, args[t]) \cup DOMAIN @ |->
            IF i \in DOMAIN @ THEN @[i] ELSE Abstract!Given(Model, args[t])[i]]]
    /\ op_times_ms_' = [op_times_ms_ EXCEPT ![EngineOf[t]] = {}]
    /\ node' = [node EXCEPT ![t] = 1]
    /\ pc' = [pc EXCEPT ![t] = "nodes"]
    /\ UNCHANGED <<gil, args, outputs, result, calls, profiling_>>

\* ExecutionEngine::run up to its loop.
StartRun(t) ==
    /\ pc[t] = "run"
    /\ Accepted(t)
    /\ tensor_map_' = [tensor_map_ EXCEPT ![EngineOf[t]] = Abstract!Given(Model, args[t])]
    /\ op_times_ms_' = [op_times_ms_ EXCEPT ![EngineOf[t]] = {}]
    /\ node' = [node EXCEPT ![t] = 1]
    /\ pc' = [pc EXCEPT ![t] = "nodes"]
    /\ UNCHANGED <<gil, args, outputs, result, calls, profiling_>>

\* prepare_memory_plan may throw for reasons of its own, such as two values for
\* one symbolic dimension or a plan without memory; no time is recorded yet.
PlanThrows(t) ==
    /\ pc[t] = "run"
    /\ Accepted(t)
    /\ tensor_map_' = [tensor_map_ EXCEPT ![EngineOf[t]] = Abstract!Given(Model, args[t])]
    /\ op_times_ms_' = [op_times_ms_ EXCEPT ![EngineOf[t]] = {}]
    /\ outputs' = [outputs EXCEPT ![t] = Abstract!Thrown]
    /\ pc' = [pc EXCEPT ![t] = "reacquire"]
    /\ UNCHANGED <<gil, args, node, result, calls, profiling_>>

\* It throws once tensor_map_ holds the initializers.
StartThrows(t) ==
    /\ pc[t] = "run"
    /\ ~Accepted(t)
    /\ tensor_map_' = [tensor_map_ EXCEPT ![EngineOf[t]] =
                         [i \in DOMAIN Model.initializers |-> Abstract!InitializerTerm(i)]]
    /\ op_times_ms_' = [op_times_ms_ EXCEPT ![EngineOf[t]] = {}]
    /\ outputs' = [outputs EXCEPT ![t] = Abstract!Thrown]
    /\ pc' = [pc EXCEPT ![t] = "reacquire"]
    /\ UNCHANGED <<gil, args, node, result, calls, profiling_>>

\* Fault: all the tensors of the graph are asked for.
NeededAtOnce(t) == UNION {Range(n.inputs) : n \in Range(Model.nodes)}

\* The names that the step of run() at node[t] reads: of a node, or at the end
\* those of the outputs of the graph.
Needed(t) ==
    IF node[t] <= Len(Model.nodes) THEN Range(Model.nodes[node[t]].inputs)
                                   ELSE Model.output_names

\* Fault: the time of a node is added when the next one begins.
RecordPrevious(t) ==
    op_times_ms_' = IF profiling_[EngineOf[t]] /\ node[t] > 1
                    THEN [op_times_ms_ EXCEPT ![EngineOf[t]] = @ \cup {node[t] - 1}]
                    ELSE op_times_ms_

RecordTime(t) ==
    op_times_ms_' = IF profiling_[EngineOf[t]]
                    THEN [op_times_ms_ EXCEPT ![EngineOf[t]] = @ \cup {node[t]}]
                    ELSE op_times_ms_

\* Fault: a node writes over its input.
RunNodeInPlace(t) ==
    /\ pc[t] = "nodes"
    /\ node[t] <= Len(Model.nodes)
    /\ Needed(t) \subseteq DOMAIN tensor_map_[EngineOf[t]]
    /\ LET n == Model.nodes[node[t]]
           map == tensor_map_[EngineOf[t]]
           term == Abstract!Apply(n, [i \in DOMAIN n.inputs |-> map[n.inputs[i]]])
       IN  tensor_map_' = [tensor_map_ EXCEPT ![EngineOf[t]] =
             [name \in DOMAIN map \cup {n.outputs[1]} |->
                IF name \in {n.inputs[1], n.outputs[1]} THEN term ELSE map[name]]]
    /\ RecordTime(t)
    /\ node' = [node EXCEPT ![t] = @ + 1]
    /\ UNCHANGED <<gil, pc, args, outputs, result, calls, profiling_>>

\* The map of the engine of t with the output of its node, and before it all
\* that the node reads.
Computed(t) ==
    LET n == Model.nodes[node[t]]
        map == tensor_map_[EngineOf[t]]
        term == Abstract!Apply(n, [i \in DOMAIN n.inputs |-> map[n.inputs[i]]])
    IN  [name \in DOMAIN map \cup {n.outputs[1]} |->
           IF name = n.outputs[1] THEN term ELSE map[name]]

AtNode(t) ==
    /\ pc[t] = "nodes"
    /\ node[t] <= Len(Model.nodes)
    /\ Needed(t) \subseteq DOMAIN tensor_map_[EngineOf[t]]

RunNode(t) ==
    /\ AtNode(t)
    /\ tensor_map_' = [tensor_map_ EXCEPT ![EngineOf[t]] = Computed(t)]
    /\ RecordTime(t)
    /\ node' = [node EXCEPT ![t] = @ + 1]
    /\ UNCHANGED <<gil, pc, args, outputs, result, calls, profiling_>>

\* dispatch throws (an operator or a shape it does not take, no memory), or
\* materialize_node_outputs does once the output is there, or the clone of an
\* output at the end: the times of the nodes before stay.
RunThrows(t) ==
    /\ pc[t] = "nodes"
    /\ \/ UNCHANGED tensor_map_
       \/ /\ AtNode(t)
          /\ tensor_map_' = [tensor_map_ EXCEPT ![EngineOf[t]] = Computed(t)]
    /\ outputs' = [outputs EXCEPT ![t] = Abstract!Thrown]
    /\ pc' = [pc EXCEPT ![t] = "reacquire"]
    /\ node' = [node EXCEPT ![t] = 0]
    /\ UNCHANGED <<gil, args, result, calls, profiling_, op_times_ms_>>

\* The loop ends after the last node or where a tensor is missing (some other
\* run has just begun); the tensors returned are clones.
FinishRun(t) ==
    /\ pc[t] = "nodes"
    /\ LET known == DOMAIN tensor_map_[EngineOf[t]] IN
         /\ node[t] <= Len(Model.nodes) => ~(Needed(t) \subseteq known)
         /\ outputs' = [outputs EXCEPT ![t] =
              IF Needed(t) \subseteq known
              THEN Abstract!Returned([name \in Model.output_names |->
                                        tensor_map_[EngineOf[t]][name]])
              ELSE Abstract!Thrown]
    /\ pc' = [pc EXCEPT ![t] = "reacquire"]
    /\ node' = [node EXCEPT ![t] = 0]
    /\ UNCHANGED <<gil, args, result, calls, engine_vars>>

\* tensor_to_numpy for every output, or the exception goes on to Python.
ConvertOutputs(t) ==
    /\ pc[t] = "convert_out"
    /\ result' = [result EXCEPT ![t] = outputs[t]]
    /\ outputs' = [outputs EXCEPT ![t] = <<>>]
    /\ pc' = [pc EXCEPT ![t] = "python"]
    /\ UNCHANGED <<gil, args, node, calls, engine_vars>>

\* Fault: one run at a time in the whole process.
StepAlone(t) ==
    /\ \A u \in Thread \ {t} : pc[u] # "nodes"
    /\ StartRun(t) \/ StartThrows(t) \/ PlanThrows(t) \/ RunNode(t) \/ RunThrows(t)
       \/ FinishRun(t)

\* What t does between the moment the GIL is released and taken again.
EngineStep(t) ==
    \/ StartRun(t)
    \/ StartThrows(t)
    \/ PlanThrows(t)
    \/ RunNode(t)
    \/ RunThrows(t)
    \/ FinishRun(t)

Convert(t) == ConvertInputs(t) \/ ConversionThrows(t) \/ ConvertOutputs(t)

Next ==
    \E t \in Thread :
        \/ AcquireGil(t)
        \/ SwitchOut(t)
        \/ SetProfiling(t)
        \/ \E dict \in Requests : CallRun(t, dict)
        \/ Convert(t)
        \/ EngineStep(t)

Spec == Init /\ [][Next]_vars

\* The interpreter takes the GIL from a thread that runs Python code after a
\* while and gives it to every thread that waits; C++ code goes on, but for
\* the runs that never end.
FairSpec ==
    /\ Spec
    /\ \A t \in Thread :
         /\ SF_vars(AcquireGil(t))
         /\ WF_vars(SwitchOut(t))
         /\ WF_vars(Convert(t))
    /\ \A t \in Thread \ Endless : WF_vars(EngineStep(t))

-----------------------------------------------------------------------------
(* Properties *)

\* A thread touches Python objects only while it holds the GIL, a run in C++
\* never does, and threads are at known places.
TypeOK ==
    /\ gil \in Thread \cup {NoThread}
    /\ \A t \in Thread :
         /\ pc[t] \in {"python", "convert_in", "run", "nodes", "reacquire", "convert_out"}
         /\ pc[t] \in {"convert_in", "convert_out"} => gil = t
         /\ pc[t] \in {"run", "nodes", "reacquire"} => gil # t
         /\ result[t].status = "running" <=> pc[t] # "python"
         /\ node[t] \in 0..Len(Model.nodes) + 1
         /\ outputs[t] # <<>> => pc[t] \in {"reacquire", "convert_out"}

\* Whatever other threads do meanwhile, run() returns to each thread what the
\* model defines for the arguments of that thread.
OwnResults ==
    \A t \in Thread :
        result[t].status = "ok" => result[t].outputs = Abstract!Meaning(Model, args[t])

\* For every thread its engine is an Inference of its own.
ServesEachThread ==
    [][\A t \in Thread : [Caller(t)!INext]_<<args[t], result[t]>>]_vars

\* No run takes a tensor away from another that is about to read it, so that
\* none throws for what others do, and none returns without arguments that the
\* engine accepts, such as those an earlier run has left.
RunsAreUndisturbed ==
    \A t \in Thread :
        /\ pc[t] = "nodes" => Needed(t) \subseteq DOMAIN tensor_map_[EngineOf[t]]
        /\ result[t].status = "ok" => Convertible(t) /\ Accepted(t)

\* When a thread may call get_op_times_ms() it finds the times of a whole run,
\* or those of the nodes before one at which a run on that engine threw.
TimesOfWholeRuns ==
    \A t \in Thread :
        Callable(t) =>
            \/ op_times_ms_[EngineOf[t]] \in {{}, DOMAIN Model.nodes}
            \/ /\ \E k \in DOMAIN Model.nodes : op_times_ms_[EngineOf[t]] = 1..k - 1
               /\ \E u \in Thread : EngineOf[u] = EngineOf[t] /\ result[u].status = "thrown"

\* A run that takes forever keeps no other thread from finishing its calls:
\* run() releases the GIL.
CallsReturn ==
    \A t \in Thread \ Endless : (pc[t] # "python") ~> (pc[t] = "python")
=============================================================================
