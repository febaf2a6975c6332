--------------------------- MODULE BindingsProofs ---------------------------
(***************************************************************************)
(* Proofs about Bindings, for any number of threads and engines and every  *)
(* model: Python objects are touched with the GIL held only, and if callers *)
(* lock their engines, a run finds all the tensors it reads and returns    *)
(* what the model defines for its own arguments, and the times a thread    *)
(* can read are those of a whole run or of the nodes before one that threw. *)
(***************************************************************************)
EXTENDS Bindings, RecursionProofs

-----------------------------------------------------------------------------
(* Types and the GIL *)

Points == {"python", "convert_in", "run", "nodes", "reacquire", "convert_out"}

Typed ==
    /\ gil \in Thread \cup {NoThread}
    /\ pc \in [Thread -> Points]
    /\ DOMAIN args = Thread /\ DOMAIN outputs = Thread /\ DOMAIN result = Thread
    /\ node \in [Thread -> 0..Len(Model.nodes) + 1]
    /\ DOMAIN tensor_map_ = Engine /\ DOMAIN profiling_ = Engine
    /\ DOMAIN op_times_ms_ = Engine

\* Conversions hold the GIL, runs do not.
GilInv(t) ==
    /\ pc[t] \in {"convert_in", "convert_out"} => gil = t
    /\ pc[t] \in {"run", "nodes", "reacquire"} => gil # t
    /\ result[t].status = "running" <=> pc[t] # "python"
    /\ outputs[t] # <<>> => pc[t] \in {"reacquire", "convert_out"}
    /\ pc[t] \in {"reacquire", "convert_out"} => outputs[t].status \in {"ok", "thrown"}

TInv == Typed /\ \A t \in Thread : GilInv(t)

LEMMA EngineOfThread == \A t \in Thread : EngineOf[t] \in Engine
BY BindingsAssumption DEF Engine, Range

LEMMA ModelLength ==
    Len(Model.nodes) \in Nat /\ DOMAIN Model.nodes = 1..Len(Model.nodes)
BY BindingsAssumption

LEMMA Statuses ==
    /\ Abstract!Running.status = "running" /\ Abstract!Thrown.status = "thrown"
    /\ \A x : Abstract!Returned(x).status = "ok"
BY DEF Abstract!Running, Abstract!Thrown, Abstract!Returned

LEMMA InitTyped == Init => TInv
BY ModelLength DEF Init, TInv, Typed, GilInv, Points

\* A step of thread t changes what the other threads can see only by giving up
\* or taking the GIL.
LEMMA StepOfOne ==
    ASSUME TInv, Typed', NEW t \in Thread, GilInv(t)',
           gil' = gil \/ (gil = t /\ gil' = NoThread) \/ (gil = NoThread /\ gil' = t),
           \A u \in Thread \ {t} : /\ pc'[u] = pc[u] /\ outputs'[u] = outputs[u]
                                   /\ result'[u] = result[u]
    PROVE  TInv'
<1>1. ASSUME NEW u \in Thread \ {t}
      PROVE  GilInv(u)'
  BY <1>1, BindingsAssumption DEF TInv, GilInv
<1> QED
  BY <1>1 DEF TInv

LEMMA NextTyped == TInv /\ [Next]_vars => TInv'
<1> SUFFICES ASSUME TInv, [Next]_vars
             PROVE  TInv'
  OBVIOUS
<1>1. Typed /\ \A t \in Thread : GilInv(t)
  BY DEF TInv
<1>2. CASE UNCHANGED vars
  BY <1>1, <1>2 DEF TInv, Typed, GilInv, vars, thread_vars, engine_vars
<1>3. ASSUME NEW t \in Thread, AcquireGil(t)
      PROVE  TInv'
  <2>1. Typed' /\ GilInv(t)'
    BY <1>1, <1>3, BindingsAssumption DEF AcquireGil, Typed, GilInv, Points, engine_vars
  <2> QED
    BY <1>1, <1>3, <2>1, StepOfOne DEF AcquireGil, Typed
<1>4. ASSUME NEW t \in Thread, SwitchOut(t)
      PROVE  TInv'
  <2>1. Typed' /\ GilInv(t)'
    BY <1>1, <1>4, BindingsAssumption DEF SwitchOut, Typed, GilInv, engine_vars, thread_vars
  <2> QED
    BY <1>1, <1>4, <2>1, StepOfOne DEF SwitchOut, Typed, thread_vars
<1>5. ASSUME NEW t \in Thread, SetProfiling(t)
      PROVE  TInv'
  <2>1. Typed' /\ GilInv(t)'
    BY <1>1, <1>5 DEF SetProfiling, Typed, GilInv, thread_vars
  <2> QED
    BY <1>1, <1>5, <2>1, StepOfOne DEF SetProfiling, Typed, thread_vars
<1>6. ASSUME NEW t \in Thread, NEW dict \in Requests, CallRun(t, dict)
      PROVE  TInv'
  <2>1. Typed' /\ GilInv(t)'
    BY <1>1, <1>6, Statuses DEF CallRun, Callable, Typed, GilInv, Points, engine_vars
  <2> QED
    BY <1>1, <1>6, <2>1, StepOfOne DEF CallRun, Typed
<1>7. ASSUME NEW t \in Thread, ConvertInputs(t)
      PROVE  TInv'
  <2>1. Typed' /\ GilInv(t)'
    BY <1>1, <1>7, BindingsAssumption DEF ConvertInputs, Typed, GilInv, Points, engine_vars
  <2> QED
    BY <1>1, <1>7, <2>1, StepOfOne DEF ConvertInputs, Typed, GilInv
<1>8. ASSUME NEW t \in Thread, ConversionThrows(t)
      PROVE  TInv'
  <2>1. Typed' /\ GilInv(t)'
    BY <1>1, <1>8, Statuses DEF ConversionThrows, Typed, GilInv, Points, engine_vars
  <2> QED
    BY <1>1, <1>8, <2>1, StepOfOne DEF ConversionThrows, Typed
<1>9. ASSUME NEW t \in Thread, StartRun(t)
      PROVE  TInv'
  <2>1. Typed' /\ GilInv(t)'
    BY <1>1, <1>9, ModelLength DEF StartRun, Typed, GilInv, Points
  <2> QED
    BY <1>1, <1>9, <2>1, StepOfOne DEF StartRun, Typed
<1>10. ASSUME NEW t \in Thread, StartThrows(t)
       PROVE  TInv'
  <2>1. Typed' /\ GilInv(t)'
    BY <1>1, <1>10, Statuses DEF StartThrows, Typed, GilInv, Points
  <2> QED
    BY <1>1, <1>10, <2>1, StepOfOne DEF StartThrows, Typed
<1>14. ASSUME NEW t \in Thread, PlanThrows(t)
       PROVE  TInv'
  <2>1. Typed' /\ GilInv(t)'
    BY <1>1, <1>14, Statuses DEF PlanThrows, Typed, GilInv, Points
  <2> QED
    BY <1>1, <1>14, <2>1, StepOfOne DEF PlanThrows, Typed
<1>15. ASSUME NEW t \in Thread, RunThrows(t)
       PROVE  TInv'
  <2>1. DOMAIN tensor_map_' = DOMAIN tensor_map_
    BY <1>15 DEF RunThrows
  <2>2. /\ pc[t] = "nodes" /\ pc' = [pc EXCEPT ![t] = "reacquire"]
        /\ outputs' = [outputs EXCEPT ![t] = Abstract!Thrown]
        /\ node' = [node EXCEPT ![t] = 0]
        /\ UNCHANGED <<gil, args, result, profiling_, op_times_ms_>>
    BY <1>15 DEF RunThrows
  <2>3. Typed' /\ GilInv(t)'
    BY <1>1, <2>1, <2>2, Statuses, ModelLength DEF Typed, GilInv, Points
  <2> QED
    BY <1>1, <2>2, <2>3, StepOfOne DEF Typed
<1>11. ASSUME NEW t \in Thread, RunNode(t)
       PROVE  TInv'
  <2>1. /\ pc[t] = "nodes" /\ node[t] <= Len(Model.nodes)
        /\ node' = [node EXCEPT ![t] = @ + 1]
        /\ UNCHANGED <<gil, pc, args, outputs, result, profiling_>>
        /\ DOMAIN tensor_map_' = DOMAIN tensor_map_
    BY <1>11 DEF RunNode, AtNode
  <2>2. DOMAIN op_times_ms_' = DOMAIN op_times_ms_
    BY <1>11 DEF RunNode, RecordTime
  <2>3. Typed' /\ GilInv(t)'
    BY <1>1, <2>1, <2>2, ModelLength DEF Typed, GilInv
  <2> QED
    BY <1>1, <2>1, <2>3, StepOfOne DEF Typed
<1>12. ASSUME NEW t \in Thread, FinishRun(t)
       PROVE  TInv'
  <2>1. \E x : outputs' = [outputs EXCEPT ![t] = x] /\ x.status \in {"ok", "thrown"}
    BY <1>12, Statuses DEF FinishRun
  <2>2. Typed' /\ GilInv(t)'
    BY <1>1, <1>12, <2>1 DEF FinishRun, Typed, GilInv, Points, engine_vars
  <2> QED
    BY <1>1, <1>12, <2>1, <2>2, StepOfOne DEF FinishRun, Typed
<1>13. ASSUME NEW t \in Thread, ConvertOutputs(t)
       PROVE  TInv'
  <2>1. Typed' /\ GilInv(t)'
    BY <1>1, <1>13 DEF ConvertOutputs, Typed, GilInv, Points, engine_vars
  <2> QED
    BY <1>1, <1>13, <2>1, StepOfOne DEF ConvertOutputs, Typed
<1> QED
  BY <1>2, <1>3, <1>4, <1>5, <1>6, <1>7, <1>8, <1>9, <1>10, <1>11, <1>12, <1>13, <1>14, <1>15
  DEF Next, Convert, EngineStep

LEMMA TypedInvariance == Spec => []TInv
BY InitTyped, NextTyped, PTL DEF Spec

\* However many threads there are and whatever they call, a thread converts
\* arguments and results with the GIL and runs the engine without it.
THEOREM BindingsTypeCorrect == Spec => []TypeOK
<1>1. TInv => TypeOK
  BY DEF TInv, Typed, GilInv, TypeOK, Points
<1> QED
  BY <1>1, TypedInvariance, PTL

-----------------------------------------------------------------------------
(* Callers that lock their engines *)

\* The names known before node k.
Known(k) ==
    DOMAIN Model.initializers \cup Range(Model.input_names)
        \cup {Model.nodes[j].outputs[1] : j \in 1..k - 1}

\* A model whose nodes and outputs read only what is there by then: what a
\* valid ONNX model is once load_onnx has sorted it.
SoundModel ==
    /\ \A k \in DOMAIN Model.nodes : Range(Model.nodes[k].inputs) \subseteq Known(k)
    /\ Model.output_names \subseteq Known(Len(Model.nodes) + 1)

Good(t) == Convertible(t) /\ Accepted(t)

Whole == {{}, DOMAIN Model.nodes}

\* What a thread in the loop of run() finds in its engine is its own.
RunInv(t) ==
    /\ pc[t] = "run" => Convertible(t)
    /\ pc[t] = "nodes" =>
          /\ Good(t)
          /\ node[t] \in 1..Len(Model.nodes) + 1
          /\ DOMAIN tensor_map_[EngineOf[t]] = Known(node[t])
          /\ op_times_ms_[EngineOf[t]] = IF profiling_[EngineOf[t]] THEN 1..node[t] - 1 ELSE {}
    /\ pc[t] \in {"reacquire", "convert_out"} => (outputs[t].status = "ok" => Good(t))
    /\ result[t].status = "ok" => Good(t)

\* One method at a time on each engine.
Exclusive ==
    \A t, u \in Thread : t # u /\ EngineOf[t] = EngineOf[u] =>
        pc[t] = "python" \/ pc[u] = "python"

\* The latest run of t has thrown, or t calls another one.
Throwing(t) ==
    CASE pc[t] = "python" -> result[t].status = "thrown"
      [] pc[t] \in {"reacquire", "convert_out"} -> outputs[t].status = "thrown"
      [] OTHER -> pc[t] # "nodes"

\* Some run on engine e has thrown at node k.
PartOnly(e) ==
    /\ \E k \in DOMAIN Model.nodes : op_times_ms_[e] = 1..k - 1
    /\ \E u \in Thread : EngineOf[u] = e /\ Throwing(u)

TimesInv(e) ==
    (\A t \in Thread : EngineOf[t] = e => pc[t] # "nodes")
        => op_times_ms_[e] \in Whole \/ PartOnly(e)

LInv ==
    /\ TInv
    /\ Exclusive
    /\ profiling_ \in [Engine -> BOOLEAN]
    /\ \A t \in Thread : RunInv(t)
    /\ \A e \in Engine : TimesInv(e)

LEMMA KnownAtFirst ==
    \A r : DOMAIN Abstract!Given(Model, r) = Known(1)
<1>1. {Model.nodes[j].outputs[1] : j \in 1..1 - 1} = {}
  BY SMT
<1>2. Abstract!Range(Model.input_names) = Range(Model.input_names)
  BY DEF Abstract!Range, Range
<1>3. \A r : DOMAIN Abstract!Given(Model, r) =
               DOMAIN Model.initializers \cup Abstract!Range(Model.input_names)
  BY DEF Abstract!Given
<1> QED
  BY <1>1, <1>2, <1>3 DEF Known

LEMMA KnownNext ==
    ASSUME NEW k \in DOMAIN Model.nodes
    PROVE  Known(k + 1) = Known(k) \cup {Model.nodes[k].outputs[1]}
<1>1. k \in Nat /\ k >= 1
  BY ModelLength
<1>2. 1..(k + 1) - 1 = (1..k - 1) \cup {k}
  BY <1>1
<1> QED
  BY <1>2 DEF Known

LEMMA InitLocked == Init => LInv
<1> SUFFICES ASSUME Init
             PROVE  LInv
  OBVIOUS
<1>1. TInv
  BY InitTyped
<1>2. Exclusive /\ profiling_ \in [Engine -> BOOLEAN]
  BY DEF Init, Exclusive
<1>3. \A t \in Thread : RunInv(t)
  BY DEF Init, RunInv
<1>4. \A e \in Engine : TimesInv(e)
  BY DEF Init, TimesInv, PartOnly, Whole
<1> QED
  BY <1>1, <1>2, <1>3, <1>4 DEF LInv

\* Times that nobody touches stay what they were, as long as threads that threw
\* are seen to have thrown.
LEMMA TimesKept ==
    ASSUME NEW e \in Engine, TimesInv(e), op_times_ms_'[e] = op_times_ms_[e],
           \A u \in Thread : EngineOf[u] = e =>
               /\ Throwing(u) => Throwing(u)'
               /\ pc[u] = "nodes" => pc'[u] = "nodes"
    PROVE  TimesInv(e)'
<1>1. PartOnly(e) => PartOnly(e)'
  BY DEF PartOnly
<1>. QED
  BY <1>1 DEF TimesInv, Whole

\* A step of t that touches its own engine only, while t is not at rest or goes
\* on its way, disturbs no other run.
LEMMA StepOnOwnEngine ==
    ASSUME LInv, NEW t \in Thread, pc[t] # "python" \/ profiling_' = profiling_,
           TInv', Exclusive', profiling_' \in [Engine -> BOOLEAN],
           \A u \in Thread \ {t} : /\ pc'[u] = pc[u] /\ args'[u] = args[u]
                                   /\ node'[u] = node[u] /\ outputs'[u] = outputs[u]
                                   /\ result'[u] = result[u],
           \A e \in Engine \ {EngineOf[t]} : /\ tensor_map_'[e] = tensor_map_[e]
                                             /\ op_times_ms_'[e] = op_times_ms_[e]
                                             /\ profiling_'[e] = profiling_[e],
           pc[t] = "python" => /\ tensor_map_' = tensor_map_ /\ op_times_ms_' = op_times_ms_,
           RunInv(t)', TimesInv(EngineOf[t])'
    PROVE  LInv'
<1>1. /\ \A u \in Thread : RunInv(u)
      /\ \A e \in Engine : TimesInv(e)
      /\ Exclusive
  BY DEF LInv
<1>2. ASSUME NEW u \in Thread \ {t}
      PROVE  RunInv(u)'
  <2>1. /\ Convertible(u)' = Convertible(u) /\ Accepted(u)' = Accepted(u)
        /\ Good(u)' = Good(u)
    BY <1>2 DEF Convertible, Accepted, Good
  <2>2. CASE EngineOf[u] # EngineOf[t]
    <3>1. EngineOf[u] \in Engine \ {EngineOf[t]}
      BY <1>2, <2>2, EngineOfThread
    <3> QED
      BY <1>1, <1>2, <2>1, <3>1 DEF RunInv
  <2>3. CASE EngineOf[u] = EngineOf[t] /\ pc[t] # "python"
    <3>1. pc[u] = "python" /\ pc'[u] = "python"
      BY <1>1, <1>2, <2>3 DEF Exclusive
    <3> QED
      BY <1>1, <1>2, <2>1, <3>1 DEF RunInv
  <2>4. CASE EngineOf[u] = EngineOf[t] /\ pc[t] = "python"
    BY <1>1, <1>2, <2>1, <2>4 DEF RunInv
  <2> QED
    BY <2>2, <2>3, <2>4
<1>3. ASSUME NEW e \in Engine \ {EngineOf[t]}
      PROVE  TimesInv(e)'
  <2>1. \A u \in Thread : EngineOf[u] = e =>
            pc'[u] = pc[u] /\ outputs'[u] = outputs[u] /\ result'[u] = result[u]
    BY <1>3
  <2>2. \A u \in Thread : EngineOf[u] = e => (Throwing(u) => Throwing(u)')
    BY <2>1 DEF Throwing
  <2> QED
    BY <1>1, <1>3, <2>1, <2>2, TimesKept
<1> QED
  BY <1>2, <1>3 DEF LInv

\* Threads do not come to an engine that is in use.
LEMMA StaysExclusive ==
    ASSUME Exclusive, NEW t \in Thread,
           \A u \in Thread \ {t} : pc'[u] = pc[u],
           \/ pc'[t] = "python" \/ pc[t] # "python"
           \/ \A u \in Thread \ {t} : EngineOf[u] = EngineOf[t] => pc[u] = "python"
    PROVE  Exclusive'
BY DEF Exclusive

LEMMA NextLocked ==
    ASSUME Locked, SoundModel, LInv, [Next]_vars
    PROVE  LInv'
<1>1. /\ TInv /\ Exclusive /\ profiling_ \in [Engine -> BOOLEAN]
      /\ \A t \in Thread : RunInv(t)
      /\ \A e \in Engine : TimesInv(e)
      /\ Typed /\ \A t \in Thread : GilInv(t)
  BY DEF LInv, TInv
<1>2. TInv'
  BY <1>1, NextTyped
<1>3. CASE UNCHANGED vars
  <2>1. \A u \in Thread : Throwing(u) => Throwing(u)'
    BY <1>3 DEF Throwing, vars, thread_vars
  <2>2. \A e \in Engine : TimesInv(e)'
    BY <1>1, <1>3, <2>1, TimesKept DEF vars, thread_vars, engine_vars
  <2> QED
    BY <1>1, <1>2, <1>3, <2>2 DEF LInv, Exclusive, RunInv, Good, Convertible, Accepted,
       vars, thread_vars, engine_vars
<1>4. ASSUME NEW t \in Thread, AcquireGil(t)
      PROVE  LInv'
  <2>1. /\ pc[t] \in {"python", "reacquire"}
        /\ pc' = [pc EXCEPT ![t] = IF @ = "reacquire" THEN "convert_out" ELSE @]
        /\ UNCHANGED <<args, node, outputs, result, tensor_map_, profiling_, op_times_ms_>>
    BY <1>4 DEF AcquireGil, engine_vars
  <2>2. /\ \A u \in Thread \ {t} : pc'[u] = pc[u]
        /\ pc[t] = "python" => pc'[t] = "python"
        /\ pc[t] = "reacquire" => pc'[t] = "convert_out"
    BY <1>1, <2>1 DEF Typed
  <2>3. Exclusive'
    BY <1>1, <2>2, StaysExclusive
  <2>4. RunInv(t)'
    BY <1>1, <2>1, <2>2 DEF RunInv, Good, Convertible, Accepted
  <2>5. \A u \in Thread : Throwing(u) => Throwing(u)'
    BY <2>1, <2>2 DEF Throwing
  <2>6. TimesInv(EngineOf[t])'
    BY <1>1, <2>1, <2>2, <2>5, EngineOfThread, TimesKept
  <2> QED
    BY <1>1, <1>2, <2>1, <2>2, <2>3, <2>4, <2>6, StepOnOwnEngine
<1>5. ASSUME NEW t \in Thread, SwitchOut(t)
      PROVE  LInv'
  <2>1. \A u \in Thread : Throwing(u) => Throwing(u)'
    BY <1>5 DEF SwitchOut, Throwing, thread_vars
  <2>2. \A e \in Engine : TimesInv(e)'
    BY <1>1, <1>5, <2>1, TimesKept DEF SwitchOut, thread_vars, engine_vars
  <2> QED
    BY <1>1, <1>2, <1>5, <2>2 DEF SwitchOut, LInv, Exclusive, RunInv, Good, Convertible,
       Accepted, thread_vars, engine_vars
<1>6. ASSUME NEW t \in Thread, SetProfiling(t)
      PROVE  LInv'
  <2>1. /\ pc[t] = "python"
        /\ \A u \in Thread \ {t} : EngineOf[u] = EngineOf[t] => pc[u] = "python"
        /\ profiling_' = [profiling_ EXCEPT ![EngineOf[t]] = ~@]
        /\ UNCHANGED <<pc, args, node, outputs, result, tensor_map_, op_times_ms_>>
    BY <1>6 DEF SetProfiling, Callable, thread_vars
  <2>2. profiling_' \in [Engine -> BOOLEAN]
    BY <1>1, <2>1
  <2>3. ASSUME NEW u \in Thread
        PROVE  RunInv(u)'
    <3>1. /\ Convertible(u)' = Convertible(u) /\ Accepted(u)' = Accepted(u)
          /\ Good(u)' = Good(u)
      BY <2>1 DEF Convertible, Accepted, Good
    <3>2. pc[u] = "nodes" => profiling_'[EngineOf[u]] = profiling_[EngineOf[u]]
      BY <1>1, <2>1, EngineOfThread
    <3> QED
      BY <1>1, <2>1, <3>1, <3>2 DEF RunInv
  <2>6. \A u \in Thread : Throwing(u) => Throwing(u)'
    BY <2>1 DEF Throwing
  <2>4. \A e \in Engine : TimesInv(e)'
    BY <1>1, <2>1, <2>6, TimesKept
  <2>5. Exclusive'
    BY <1>1, <2>1 DEF Exclusive
  <2> QED
    BY <1>2, <2>2, <2>3, <2>4, <2>5 DEF LInv
<1>7. ASSUME NEW t \in Thread, NEW dict \in Requests, CallRun(t, dict)
      PROVE  LInv'
  <2>1. /\ pc[t] = "python" /\ pc' = [pc EXCEPT ![t] = "convert_in"]
        /\ \A u \in Thread \ {t} : EngineOf[u] = EngineOf[t] => pc[u] = "python"
        /\ args' = [args EXCEPT ![t] = dict]
        /\ result' = [result EXCEPT ![t] = Abstract!Running]
        /\ UNCHANGED <<node, outputs, tensor_map_, profiling_, op_times_ms_>>
    BY <1>7 DEF CallRun, Callable, engine_vars
  <2>2. /\ \A u \in Thread \ {t} : /\ pc'[u] = pc[u] /\ args'[u] = args[u]
                                   /\ result'[u] = result[u]
        /\ pc'[t] = "convert_in" /\ result'[t] = Abstract!Running
    BY <1>1, <2>1 DEF Typed
  <2>3. Exclusive'
    BY <1>1, <2>1, <2>2, StaysExclusive
  <2>4. RunInv(t)'
    BY <2>2, Statuses DEF RunInv
  <2>6. \A u \in Thread : Throwing(u) => Throwing(u)'
    BY <2>1, <2>2 DEF Throwing
  <2>5. TimesInv(EngineOf[t])'
    BY <1>1, <2>1, <2>2, <2>6, EngineOfThread, TimesKept
  <2> QED
    BY <1>1, <1>2, <2>1, <2>2, <2>3, <2>4, <2>5, StepOnOwnEngine
<1>8. ASSUME NEW t \in Thread, ConvertInputs(t)
      PROVE  LInv'
  <2>1. /\ pc[t] = "convert_in" /\ Convertible(t) /\ pc' = [pc EXCEPT ![t] = "run"]
        /\ UNCHANGED <<args, node, outputs, result, tensor_map_, profiling_, op_times_ms_>>
    BY <1>8 DEF ConvertInputs, engine_vars
  <2>2. (\A u \in Thread \ {t} : pc'[u] = pc[u]) /\ pc'[t] = "run"
    BY <1>1, <2>1 DEF Typed
  <2>3. Exclusive'
    BY <1>1, <2>1, <2>2, StaysExclusive
  <2>4. RunInv(t)'
    BY <1>1, <2>1, <2>2 DEF RunInv, Good, Convertible, Accepted
  <2>5. \A u \in Thread : Throwing(u) => Throwing(u)'
    BY <2>1, <2>2 DEF Throwing
  <2>6. TimesInv(EngineOf[t])'
    BY <1>1, <2>1, <2>2, <2>5, EngineOfThread, TimesKept
  <2> QED
    BY <1>1, <1>2, <2>1, <2>2, <2>3, <2>4, <2>6, StepOnOwnEngine
<1>9. ASSUME NEW t \in Thread, ConversionThrows(t)
      PROVE  LInv'
  <2>1. /\ pc[t] = "convert_in" /\ ~Convertible(t) /\ pc' = [pc EXCEPT ![t] = "python"]
        /\ result' = [result EXCEPT ![t] = Abstract!Thrown]
        /\ UNCHANGED <<args, node, outputs, tensor_map_, profiling_, op_times_ms_>>
    BY <1>9 DEF ConversionThrows, engine_vars
  <2>2. /\ \A u \in Thread \ {t} : pc'[u] = pc[u] /\ result'[u] = result[u]
        /\ pc'[t] = "python" /\ result'[t] = Abstract!Thrown
    BY <1>1, <2>1 DEF Typed
  <2>3. Exclusive'
    BY <1>1, <2>1, <2>2, StaysExclusive
  <2>4. RunInv(t)'
    BY <1>1, <2>1, <2>2, Statuses DEF RunInv, Good, Convertible, Accepted
  <2>5. \A u \in Thread : Throwing(u) => Throwing(u)'
    BY <2>1, <2>2, Statuses DEF Throwing
  <2>6. TimesInv(EngineOf[t])'
    BY <1>1, <2>1, <2>2, <2>5, EngineOfThread, TimesKept
  <2> QED
    BY <1>1, <1>2, <2>1, <2>2, <2>3, <2>4, <2>6, StepOnOwnEngine
<1>10. ASSUME NEW t \in Thread, StartRun(t)
       PROVE  LInv'
  <2> DEFINE e == EngineOf[t]
  <2>1. /\ pc[t] = "run" /\ Accepted(t) /\ pc' = [pc EXCEPT ![t] = "nodes"]
        /\ tensor_map_' = [tensor_map_ EXCEPT ![e] = Abstract!Given(Model, args[t])]
        /\ op_times_ms_' = [op_times_ms_ EXCEPT ![e] = {}]
        /\ node' = [node EXCEPT ![t] = 1]
        /\ UNCHANGED <<args, outputs, result, profiling_>>
    BY <1>10 DEF StartRun
  <2>2. /\ \A u \in Thread \ {t} : pc'[u] = pc[u] /\ node'[u] = node[u]
        /\ pc'[t] = "nodes" /\ node'[t] = 1
        /\ tensor_map_'[e] = Abstract!Given(Model, args[t]) /\ op_times_ms_'[e] = {}
        /\ \A x \in Engine \ {e} : /\ tensor_map_'[x] = tensor_map_[x]
                                   /\ op_times_ms_'[x] = op_times_ms_[x]
    BY <1>1, <2>1, EngineOfThread DEF Typed
  <2>3. Exclusive'
    BY <1>1, <2>1, <2>2, StaysExclusive
  <2>4. RunInv(t)'
    <3>1. Good(t)'
      BY <1>1, <2>1 DEF RunInv, Good, Convertible, Accepted
    <3>2. DOMAIN tensor_map_'[e] = Known(1) /\ 1..1 - 1 = {} /\ 1 \in 1..Len(Model.nodes) + 1
      BY <2>2, KnownAtFirst, ModelLength
    <3>3. result'[t].status = "running"
      BY <1>2, <2>2 DEF TInv, GilInv
    <3> QED
      BY <2>2, <3>1, <3>2, <3>3 DEF RunInv
  <2>5. TimesInv(e)'
    BY <2>2 DEF TimesInv, Whole
  <2> QED
    BY <1>1, <1>2, <2>1, <2>2, <2>3, <2>4, <2>5, StepOnOwnEngine
<1>11. ASSUME NEW t \in Thread, StartThrows(t) \/ PlanThrows(t)
       PROVE  LInv'
  <2> DEFINE e == EngineOf[t]
  <2>1. /\ pc[t] = "run" /\ pc' = [pc EXCEPT ![t] = "reacquire"]
        /\ \E x : tensor_map_' = [tensor_map_ EXCEPT ![e] = x]
        /\ op_times_ms_' = [op_times_ms_ EXCEPT ![e] = {}]
        /\ outputs' = [outputs EXCEPT ![t] = Abstract!Thrown]
        /\ UNCHANGED <<args, node, result, profiling_>>
    BY <1>11 DEF StartThrows, PlanThrows
  <2>2. /\ \A u \in Thread \ {t} : pc'[u] = pc[u] /\ outputs'[u] = outputs[u]
        /\ pc'[t] = "reacquire" /\ outputs'[t] = Abstract!Thrown
        /\ op_times_ms_'[e] = {}
        /\ \A x \in Engine \ {e} : /\ tensor_map_'[x] = tensor_map_[x]
                                   /\ op_times_ms_'[x] = op_times_ms_[x]
    BY <1>1, <2>1, EngineOfThread DEF Typed
  <2>3. Exclusive'
    BY <1>1, <2>1, <2>2, StaysExclusive
  <2>4. RunInv(t)'
    <3>1. result'[t].status = "running"
      BY <1>2, <2>2 DEF TInv, GilInv
    <3> QED
      BY <2>2, <3>1, Statuses DEF RunInv
  <2>5. TimesInv(e)'
    BY <2>2 DEF TimesInv, Whole
  <2> QED
    BY <1>1, <1>2, <2>1, <2>2, <2>3, <2>4, <2>5, StepOnOwnEngine
<1>12. ASSUME NEW t \in Thread, RunNode(t)
       PROVE  LInv'
  <2> DEFINE e == EngineOf[t]
             k == node[t]
  <2>1. /\ pc[t] = "nodes" /\ k <= Len(Model.nodes)
        /\ \E f : /\ tensor_map_' = [tensor_map_ EXCEPT ![e] = f]
                 /\ DOMAIN f = DOMAIN tensor_map_[e] \cup {Model.nodes[k].outputs[1]}
        /\ op_times_ms_' = IF profiling_[e] THEN [op_times_ms_ EXCEPT ![e] = @ \cup {k}]
                           ELSE op_times_ms_
        /\ node' = [node EXCEPT ![t] = k + 1]
        /\ UNCHANGED <<pc, args, outputs, result, profiling_>>
    <3>1. DOMAIN Computed(t) = DOMAIN tensor_map_[e] \cup {Model.nodes[k].outputs[1]}
      BY DEF Computed
    <3> QED
      BY <1>12, <3>1 DEF RunNode, AtNode, RecordTime
  <2>2. /\ k \in 1..Len(Model.nodes) + 1 /\ Good(t)
        /\ DOMAIN tensor_map_[e] = Known(k)
        /\ op_times_ms_[e] = IF profiling_[e] THEN 1..k - 1 ELSE {}
    BY <1>1, <2>1 DEF RunInv
  <2>3. k \in DOMAIN Model.nodes /\ k \in Nat /\ k + 1 \in 1..Len(Model.nodes) + 1
    BY <2>1, <2>2, ModelLength
  <2>4. /\ \A u \in Thread \ {t} : node'[u] = node[u]
        /\ node'[t] = k + 1
        /\ DOMAIN tensor_map_'[e] = Known(k) \cup {Model.nodes[k].outputs[1]}
        /\ op_times_ms_'[e] = IF profiling_[e] THEN (1..k - 1) \cup {k} ELSE {}
        /\ \A x \in Engine \ {e} : /\ tensor_map_'[x] = tensor_map_[x]
                                   /\ op_times_ms_'[x] = op_times_ms_[x]
    BY <1>1, <2>1, <2>2, EngineOfThread DEF Typed
  <2>5. (1..k - 1) \cup {k} = 1..(k + 1) - 1
    BY <2>2, <2>3
  <2> HIDE DEF k
  <2>6. RunInv(t)'
    <3>1. Good(t)'
      BY <2>1, <2>2 DEF Good, Convertible, Accepted
    <3>2. DOMAIN tensor_map_'[e] = Known(k + 1)
      BY <2>3, <2>4, KnownNext
    <3>3. result'[t].status = "running"
      BY <1>2, <2>1 DEF TInv, GilInv
    <3> QED
      BY <2>1, <2>3, <2>4, <2>5, <3>1, <3>2, <3>3 DEF RunInv
  <2>7. TimesInv(e)' /\ Exclusive'
    BY <1>1, <2>1 DEF TimesInv, Exclusive
  <2> QED
    BY <1>1, <1>2, <2>1, <2>4, <2>6, <2>7, StepOnOwnEngine
<1>13. ASSUME NEW t \in Thread, FinishRun(t)
       PROVE  LInv'
  <2> DEFINE e == EngineOf[t]
             k == node[t]
  <2>1. /\ pc[t] = "nodes" /\ pc' = [pc EXCEPT ![t] = "reacquire"]
        /\ node' = [node EXCEPT ![t] = 0]
        /\ UNCHANGED <<args, result, tensor_map_, profiling_, op_times_ms_>>
    BY <1>13 DEF FinishRun, engine_vars
  <2>2. /\ k \in 1..Len(Model.nodes) + 1 /\ Good(t)
        /\ DOMAIN tensor_map_[e] = Known(k)
        /\ op_times_ms_[e] = IF profiling_[e] THEN 1..k - 1 ELSE {}
    BY <1>1, <2>1 DEF RunInv
  <2>3. Needed(t) \subseteq Known(k)
    BY <2>2, ModelLength DEF SoundModel, Needed
  <2>4. k = Len(Model.nodes) + 1
    BY <1>13, <2>2, <2>3, ModelLength DEF FinishRun
  <2>5. op_times_ms_[e] \in Whole
    BY <2>2, <2>4, ModelLength DEF Whole
  <2>6. \E x : outputs' = [outputs EXCEPT ![t] = Abstract!Returned(x)]
    BY <1>13, <2>2, <2>3 DEF FinishRun
  <2>7. /\ \A u \in Thread \ {t} : pc'[u] = pc[u] /\ outputs'[u] = outputs[u] /\ node'[u] = node[u]
        /\ pc'[t] = "reacquire" /\ outputs'[t].status = "ok"
    BY <1>1, <2>1, <2>6, Statuses DEF Typed
  <2>8. Exclusive'
    BY <1>1, <2>1, <2>7, StaysExclusive
  <2>9. RunInv(t)'
    <3>1. Good(t)'
      BY <2>1, <2>2 DEF Good, Convertible, Accepted
    <3>2. result'[t].status = "running"
      BY <1>2, <2>7 DEF TInv, GilInv
    <3> QED
      BY <2>7, <3>1, <3>2 DEF RunInv
  <2>10. TimesInv(e)'
    BY <2>1, <2>5 DEF TimesInv, Whole
  <2> QED
    BY <1>1, <1>2, <2>1, <2>7, <2>8, <2>9, <2>10, StepOnOwnEngine
<1>14. ASSUME NEW t \in Thread, ConvertOutputs(t)
       PROVE  LInv'
  <2>1. /\ pc[t] = "convert_out" /\ pc' = [pc EXCEPT ![t] = "python"]
        /\ result' = [result EXCEPT ![t] = outputs[t]]
        /\ outputs' = [outputs EXCEPT ![t] = <<>>]
        /\ UNCHANGED <<args, node, tensor_map_, profiling_, op_times_ms_>>
    BY <1>14 DEF ConvertOutputs, engine_vars
  <2>2. /\ \A u \in Thread \ {t} : /\ pc'[u] = pc[u] /\ outputs'[u] = outputs[u]
                                   /\ result'[u] = result[u]
        /\ pc'[t] = "python" /\ result'[t] = outputs[t]
    BY <1>1, <2>1 DEF Typed
  <2>3. Exclusive'
    BY <1>1, <2>1, <2>2, StaysExclusive
  <2>4. RunInv(t)'
    BY <1>1, <2>1, <2>2 DEF RunInv, Good, Convertible, Accepted
  <2>5. \A u \in Thread : Throwing(u) => Throwing(u)'
    BY <2>1, <2>2 DEF Throwing
  <2>6. TimesInv(EngineOf[t])'
    BY <1>1, <2>1, <2>2, <2>5, EngineOfThread, TimesKept
  <2> QED
    BY <1>1, <1>2, <2>1, <2>2, <2>3, <2>4, <2>6, StepOnOwnEngine
<1>15. ASSUME NEW t \in Thread, RunThrows(t)
       PROVE  LInv'
  <2> DEFINE e == EngineOf[t]
             k == node[t]
  <2>1. /\ pc[t] = "nodes" /\ pc' = [pc EXCEPT ![t] = "reacquire"]
        /\ node' = [node EXCEPT ![t] = 0]
        /\ outputs' = [outputs EXCEPT ![t] = Abstract!Thrown]
        /\ UNCHANGED <<args, result, profiling_, op_times_ms_>>
        /\ \A x \in Engine \ {e} : tensor_map_'[x] = tensor_map_[x]
    BY <1>1, <1>15, EngineOfThread DEF RunThrows, Typed
  <2>2. /\ \A u \in Thread \ {t} : /\ pc'[u] = pc[u] /\ outputs'[u] = outputs[u]
                                   /\ node'[u] = node[u]
        /\ pc'[t] = "reacquire" /\ outputs'[t] = Abstract!Thrown
    BY <1>1, <2>1 DEF Typed
  <2>3. Exclusive'
    BY <1>1, <2>1, <2>2, StaysExclusive
  <2>4. RunInv(t)'
    <3>1. result'[t].status = "running"
      BY <1>2, <2>2 DEF TInv, GilInv
    <3> QED
      BY <2>2, <3>1, Statuses DEF RunInv
  <2>5. TimesInv(e)'
    <3>1. k \in 1..Len(Model.nodes) + 1 /\ op_times_ms_[e] \in {{}, 1..k - 1}
      BY <1>1, <2>1 DEF RunInv
    <3>2. Throwing(t)'
      BY <2>2, Statuses DEF Throwing
    <3>3. CASE op_times_ms_[e] = {}
      BY <2>1, <3>3 DEF TimesInv, Whole
    <3>4. CASE op_times_ms_[e] = 1..k - 1 /\ k = Len(Model.nodes) + 1
      <4>1. 1..k - 1 = DOMAIN Model.nodes
        BY <3>4, ModelLength
      <4> QED
        BY <2>1, <3>4, <4>1 DEF TimesInv, Whole
    <3>5. CASE op_times_ms_[e] = 1..k - 1 /\ k # Len(Model.nodes) + 1
      <4>1. k \in DOMAIN Model.nodes
        BY <3>1, <3>5, ModelLength
      <4> QED
        BY <2>1, <3>2, <3>5, <4>1 DEF TimesInv, PartOnly
    <3> QED
      BY <3>1, <3>3, <3>4, <3>5
  <2> QED
    BY <1>1, <1>2, <2>1, <2>2, <2>3, <2>4, <2>5, StepOnOwnEngine
<1> QED
  BY <1>3, <1>4, <1>5, <1>6, <1>7, <1>8, <1>9, <1>10, <1>11, <1>12, <1>13, <1>14, <1>15
  DEF Next, Convert, EngineStep

LEMMA LockedInvariance == ASSUME Locked, SoundModel PROVE Spec => []LInv
<1>1. LInv /\ [Next]_vars => LInv'
  BY NextLocked
<1> QED
  BY <1>1, InitLocked, PTL DEF Spec

\* Callers that lock their engines and run sound models: a run finds all that
\* it reads, whatever the other threads do and at whatever point runs before it
\* have thrown.
THEOREM LockedRunsAreUndisturbed ==
    ASSUME Locked, SoundModel
    PROVE  Spec => []RunsAreUndisturbed
<1>1. LInv => RunsAreUndisturbed
  <2> SUFFICES ASSUME LInv, NEW t \in Thread
               PROVE  /\ pc[t] = "nodes" => Needed(t) \subseteq DOMAIN tensor_map_[EngineOf[t]]
                      /\ result[t].status = "ok" => Convertible(t) /\ Accepted(t)
    BY DEF RunsAreUndisturbed
  <2>1. ASSUME pc[t] = "nodes"
        PROVE  Needed(t) \subseteq DOMAIN tensor_map_[EngineOf[t]]
    <3>1. /\ node[t] \in 1..Len(Model.nodes) + 1
          /\ DOMAIN tensor_map_[EngineOf[t]] = Known(node[t])
      BY <2>1 DEF LInv, RunInv
    <3> QED
      BY <3>1, ModelLength DEF SoundModel, Needed
  <2> QED
    BY <2>1 DEF LInv, RunInv, Good
<1> QED
  BY <1>1, LockedInvariance, PTL

\* Whenever such a caller may ask for the times, they are those of a whole run,
\* or of the nodes before one at which a run threw.
THEOREM LockedTimesAreWhole ==
    ASSUME Locked, SoundModel
    PROVE  Spec => []TimesOfWholeRuns
<1>1. LInv => TimesOfWholeRuns
  <2> SUFFICES ASSUME LInv, NEW t \in Thread, Callable(t)
               PROVE  \/ op_times_ms_[EngineOf[t]] \in {{}, DOMAIN Model.nodes}
                      \/ /\ \E k \in DOMAIN Model.nodes : op_times_ms_[EngineOf[t]] = 1..k - 1
                         /\ \E u \in Thread : EngineOf[u] = EngineOf[t] /\ result[u].status = "thrown"
    BY DEF TimesOfWholeRuns
  <2>1. \A u \in Thread : EngineOf[u] = EngineOf[t] => pc[u] = "python"
    BY DEF Callable
  <2>2. op_times_ms_[EngineOf[t]] \in Whole \/ PartOnly(EngineOf[t])
    BY <2>1, EngineOfThread DEF LInv, TimesInv
  <2> QED
    BY <2>1, <2>2 DEF Whole, PartOnly, Throwing
<1> QED
  BY <1>1, LockedInvariance, PTL

-----------------------------------------------------------------------------
(* Results *)

LEMMA SameTerms ==
    /\ \A n, a : Infer!Apply(n, a) = Abstract!Apply(n, a)
    /\ \A m, r : /\ Infer!Given(m, r) = Abstract!Given(m, r)
                 /\ Infer!Values(m, r) = Abstract!Values(m, r)
BY DEF Infer!Apply, Abstract!Apply, Infer!Given, Abstract!Given, Infer!Values, Abstract!Values,
       Infer!InputTerm, Abstract!InputTerm, Infer!InitializerTerm, Abstract!InitializerTerm,
       Infer!Range, Abstract!Range

\* The values of the tensors after each node, as Inference evaluates the model.
Trace(r) ==
    CHOOSE v : /\ Evaluates(v, Model, r, Len(Model.nodes))
               /\ Infer!Values(Model, r) = v[Len(Model.nodes)]

LEMMA TraceFacts ==
    ASSUME NEW r
    PROVE  /\ Trace(r)[0] = Abstract!Given(Model, r)
           /\ \A k \in DOMAIN Model.nodes : Trace(r)[k] = ValuesStep(Model, Trace(r)[k-1], k)
           /\ Trace(r)[Len(Model.nodes)] = Abstract!Values(Model, r)
<1>1. /\ Evaluates(Trace(r), Model, r, Len(Model.nodes))
      /\ Infer!Values(Model, r) = Trace(r)[Len(Model.nodes)]
  BY ModelLength, ValuesEvaluate DEF Trace
<1>2. DOMAIN Model.nodes = 1..Len(Model.nodes)
  BY ModelLength
<1>. QED
  BY <1>1, <1>2, SameTerms DEF Evaluates

\* What run() hands back to its caller for these arguments.
Answer(r) ==
    IF /\ Range(Model.input_names) \subseteq DOMAIN r
       /\ Model.output_names \subseteq DOMAIN Abstract!Values(Model, r)
    THEN {Abstract!Thrown, Abstract!Returned(Abstract!Meaning(Model, r))}
    ELSE {Abstract!Thrown}

\* A run in the loop has the values of its own arguments so far, and one that
\* is over has an answer to them.
ValueInv(t) ==
    /\ pc[t] = "nodes" =>
         /\ node[t] \in 1..Len(Model.nodes) + 1
         /\ Range(Model.input_names) \subseteq DOMAIN args[t]
         /\ tensor_map_[EngineOf[t]] = Trace(args[t])[node[t] - 1]
    /\ pc[t] \in {"reacquire", "convert_out"} => outputs[t] \in Answer(args[t])
    /\ result[t].status \in {"ok", "thrown"} => result[t] \in Answer(args[t])

OInv == TInv /\ Exclusive /\ \A t \in Thread : ValueInv(t)

\* A step of t on its own engine disturbs no other run.
LEMMA StepKeepsValues ==
    ASSUME OInv, NEW t \in Thread, TInv', Exclusive',
           \A u \in Thread \ {t} : /\ pc'[u] = pc[u] /\ args'[u] = args[u]
                                   /\ node'[u] = node[u] /\ outputs'[u] = outputs[u]
                                   /\ result'[u] = result[u],
           \A e \in Engine \ {EngineOf[t]} : tensor_map_'[e] = tensor_map_[e],
           pc[t] = "python" => tensor_map_' = tensor_map_,
           ValueInv(t)'
    PROVE  OInv'
<1>1. Exclusive /\ \A u \in Thread : ValueInv(u)
  BY DEF OInv
<1>2. ASSUME NEW u \in Thread \ {t}
      PROVE  ValueInv(u)'
  <2>1. CASE EngineOf[u] # EngineOf[t]
    <3>1. EngineOf[u] \in Engine \ {EngineOf[t]}
      BY <1>2, <2>1, EngineOfThread
    <3>. QED
      BY <1>1, <1>2, <3>1 DEF ValueInv
  <2>2. CASE EngineOf[u] = EngineOf[t] /\ pc[t] # "python"
    <3>1. pc[u] = "python" /\ pc'[u] = "python"
      BY <1>1, <1>2, <2>2 DEF Exclusive
    <3>. QED
      BY <1>1, <1>2, <3>1 DEF ValueInv
  <2>3. CASE EngineOf[u] = EngineOf[t] /\ pc[t] = "python"
    BY <1>1, <1>2, <2>3 DEF ValueInv
  <2>. QED
    BY <2>1, <2>2, <2>3
<1>. QED
  BY <1>2 DEF OInv

\* A node whose inputs are there adds the term that Inference gives it.
LEMMA NodeEvaluates ==
    ASSUME NEW t \in Thread, OInv, RunNode(t)
    PROVE  /\ node[t] \in DOMAIN Model.nodes
           /\ tensor_map_' = [tensor_map_ EXCEPT ![EngineOf[t]] = Trace(args[t])[node[t]]]
<1> DEFINE e == EngineOf[t]
           k == node[t]
           map == tensor_map_[e]
           n == Model.nodes[k]
<1>1. /\ pc[t] = "nodes" /\ k <= Len(Model.nodes) /\ Range(n.inputs) \subseteq DOMAIN map
  BY DEF RunNode, AtNode, Needed
<1>2. k \in DOMAIN Model.nodes /\ map = Trace(args[t])[k - 1]
  BY <1>1, ModelLength DEF OInv, ValueInv
<1>3. Trace(args[t])[k] = ValuesStep(Model, map, k)
  BY <1>2, TraceFacts
<1>4. ValuesStep(Model, map, k) =
        [name \in DOMAIN map \cup {n.outputs[1]} |->
           IF name = n.outputs[1]
           THEN Infer!Apply(n, [i \in DOMAIN n.inputs |-> map[n.inputs[i]]])
           ELSE map[name]]
  BY <1>1 DEF ValuesStep
<1>5. tensor_map_' = [tensor_map_ EXCEPT ![e] =
        [name \in DOMAIN map \cup {n.outputs[1]} |->
           IF name = n.outputs[1]
           THEN Abstract!Apply(n, [i \in DOMAIN n.inputs |-> map[n.inputs[i]]])
           ELSE map[name]]]
  BY DEF RunNode, Computed
<1>6. Infer!Apply(n, [i \in DOMAIN n.inputs |-> map[n.inputs[i]]])
        = Abstract!Apply(n, [i \in DOMAIN n.inputs |-> map[n.inputs[i]]])
  BY SameTerms
<1>. QED
  BY <1>2, <1>3, <1>4, <1>5, <1>6

\* When a run ends, all nodes have been evaluated or it throws.
LEMMA RunAnswers ==
    ASSUME NEW t \in Thread, OInv, FinishRun(t)
    PROVE  outputs'[t] \in Answer(args[t])
<1> DEFINE e == EngineOf[t]
           k == node[t]
<1>1. /\ pc[t] = "nodes"
      /\ k <= Len(Model.nodes) => ~(Needed(t) \subseteq DOMAIN tensor_map_[e])
      /\ outputs' = [outputs EXCEPT ![t] =
              IF Needed(t) \subseteq DOMAIN tensor_map_[e]
              THEN Abstract!Returned([name \in Model.output_names |-> tensor_map_[e][name]])
              ELSE Abstract!Thrown]
  BY DEF FinishRun
<1>2. /\ k \in 1..Len(Model.nodes) + 1 /\ Range(Model.input_names) \subseteq DOMAIN args[t]
      /\ tensor_map_[e] = Trace(args[t])[k - 1] /\ t \in DOMAIN outputs
  BY <1>1 DEF OInv, ValueInv, TInv, Typed
<1>3. CASE ~(Needed(t) \subseteq DOMAIN tensor_map_[e])
  BY <1>1, <1>2, <1>3 DEF Answer
<1>4. CASE Needed(t) \subseteq DOMAIN tensor_map_[e]
  <2>1. k = Len(Model.nodes) + 1 /\ ~(k <= Len(Model.nodes)) /\ k - 1 = Len(Model.nodes)
    BY <1>1, <1>2, <1>4, ModelLength
  <2>2. tensor_map_[e] = Abstract!Values(Model, args[t])
    BY <1>2, <2>1, TraceFacts
  <2>3. Needed(t) = Model.output_names
    BY <2>1 DEF Needed
  <2>4. outputs'[t] = Abstract!Returned(Abstract!Meaning(Model, args[t]))
    BY <1>1, <1>2, <1>4, <2>2 DEF Abstract!Meaning
  <2>. QED
    BY <1>2, <1>4, <2>2, <2>3, <2>4 DEF Answer
<1>. QED
  BY <1>3, <1>4

LEMMA InitValues == Init => OInv
BY InitTyped DEF Init, OInv, Exclusive, ValueInv

LEMMA NextValues ==
    ASSUME Locked, OInv, [Next]_vars
    PROVE  OInv'
<1>1. /\ TInv /\ Exclusive /\ \A t \in Thread : ValueInv(t)
      /\ Typed /\ \A t \in Thread : GilInv(t)
  BY DEF OInv, TInv
<1>2. TInv'
  BY <1>1, NextTyped
<1>3. CASE UNCHANGED vars
  BY <1>1, <1>2, <1>3 DEF OInv, Exclusive, ValueInv, vars, thread_vars, engine_vars
<1>4. ASSUME NEW t \in Thread, AcquireGil(t)
      PROVE  OInv'
  <2>1. /\ pc[t] \in {"python", "reacquire"}
        /\ pc' = [pc EXCEPT ![t] = IF @ = "reacquire" THEN "convert_out" ELSE @]
        /\ UNCHANGED <<args, node, outputs, result, tensor_map_>>
    BY <1>4 DEF AcquireGil, engine_vars
  <2>2. /\ \A u \in Thread \ {t} : pc'[u] = pc[u]
        /\ pc[t] = "python" => pc'[t] = "python"
        /\ pc[t] = "reacquire" => pc'[t] = "convert_out"
    BY <1>1, <2>1 DEF Typed
  <2>3. Exclusive'
    BY <1>1, <2>2, StaysExclusive
  <2>4. ValueInv(t)'
    BY <1>1, <2>1, <2>2 DEF ValueInv
  <2> QED
    BY <1>2, <2>1, <2>2, <2>3, <2>4, StepKeepsValues
<1>5. ASSUME NEW t \in Thread, SwitchOut(t) \/ SetProfiling(t)
      PROVE  OInv'
  BY <1>1, <1>2, <1>5 DEF SwitchOut, SetProfiling, OInv, Exclusive, ValueInv, thread_vars,
                          engine_vars
<1>6. ASSUME NEW t \in Thread, NEW dict \in Requests, CallRun(t, dict)
      PROVE  OInv'
  <2>1. /\ pc[t] = "python" /\ pc' = [pc EXCEPT ![t] = "convert_in"]
        /\ \A u \in Thread \ {t} : EngineOf[u] = EngineOf[t] => pc[u] = "python"
        /\ args' = [args EXCEPT ![t] = dict]
        /\ result' = [result EXCEPT ![t] = Abstract!Running]
        /\ UNCHANGED <<node, outputs, tensor_map_>>
    BY <1>6 DEF CallRun, Callable, engine_vars
  <2>2. /\ \A u \in Thread \ {t} : /\ pc'[u] = pc[u] /\ args'[u] = args[u]
                                   /\ result'[u] = result[u]
        /\ pc'[t] = "convert_in" /\ result'[t] = Abstract!Running
    BY <1>1, <2>1 DEF Typed
  <2>3. Exclusive'
    BY <1>1, <2>1, <2>2, StaysExclusive
  <2>4. ValueInv(t)'
    BY <2>2, Statuses DEF ValueInv
  <2> QED
    BY <1>2, <2>1, <2>2, <2>3, <2>4, StepKeepsValues
<1>7. ASSUME NEW t \in Thread, ConvertInputs(t)
      PROVE  OInv'
  <2>1. /\ pc[t] = "convert_in" /\ pc' = [pc EXCEPT ![t] = "run"]
        /\ UNCHANGED <<args, node, outputs, result, tensor_map_>>
    BY <1>7 DEF ConvertInputs, engine_vars
  <2>2. (\A u \in Thread \ {t} : pc'[u] = pc[u]) /\ pc'[t] = "run"
    BY <1>1, <2>1 DEF Typed
  <2>3. Exclusive'
    BY <1>1, <2>1, <2>2, StaysExclusive
  <2>4. ValueInv(t)'
    BY <1>1, <2>1, <2>2 DEF ValueInv
  <2> QED
    BY <1>2, <2>1, <2>2, <2>3, <2>4, StepKeepsValues
<1>8. ASSUME NEW t \in Thread, ConversionThrows(t)
      PROVE  OInv'
  <2>1. /\ pc[t] = "convert_in" /\ pc' = [pc EXCEPT ![t] = "python"]
        /\ result' = [result EXCEPT ![t] = Abstract!Thrown]
        /\ UNCHANGED <<args, node, outputs, tensor_map_>>
    BY <1>8 DEF ConversionThrows, engine_vars
  <2>2. /\ \A u \in Thread \ {t} : pc'[u] = pc[u] /\ result'[u] = result[u]
        /\ pc'[t] = "python" /\ result'[t] = Abstract!Thrown
    BY <1>1, <2>1 DEF Typed
  <2>3. Exclusive'
    BY <1>1, <2>1, <2>2, StaysExclusive
  <2>4. ValueInv(t)'
    BY <1>1, <2>1, <2>2 DEF ValueInv, Answer
  <2> QED
    BY <1>2, <2>1, <2>2, <2>3, <2>4, StepKeepsValues
<1>9. ASSUME NEW t \in Thread, StartRun(t)
      PROVE  OInv'
  <2> DEFINE e == EngineOf[t]
  <2>1. /\ pc[t] = "run" /\ Accepted(t) /\ pc' = [pc EXCEPT ![t] = "nodes"]
        /\ tensor_map_' = [tensor_map_ EXCEPT ![e] = Abstract!Given(Model, args[t])]
        /\ node' = [node EXCEPT ![t] = 1]
        /\ UNCHANGED <<args, outputs, result>>
    BY <1>9 DEF StartRun
  <2>2. /\ \A u \in Thread \ {t} : pc'[u] = pc[u] /\ node'[u] = node[u]
        /\ pc'[t] = "nodes" /\ node'[t] = 1
        /\ tensor_map_'[e] = Abstract!Given(Model, args[t])
        /\ \A x \in Engine \ {e} : tensor_map_'[x] = tensor_map_[x]
    BY <1>1, <2>1, EngineOfThread DEF Typed
  <2>3. Exclusive'
    BY <1>1, <2>1, <2>2, StaysExclusive
  <2>4. ValueInv(t)'
    <3>1. 1 \in 1..Len(Model.nodes) + 1 /\ 1 - 1 = 0
      BY ModelLength
    <3>2. Range(Model.input_names) \subseteq DOMAIN args[t]
      BY <2>1 DEF Accepted
    <3>3. tensor_map_'[e] = Trace(args[t])[0]
      BY <2>2, TraceFacts
    <3>4. result'[t].status = "running"
      BY <1>2, <2>2 DEF TInv, GilInv
    <3> QED
      BY <2>1, <2>2, <3>1, <3>2, <3>3, <3>4 DEF ValueInv
  <2> QED
    BY <1>2, <2>1, <2>2, <2>3, <2>4, StepKeepsValues
<1>10. ASSUME NEW t \in Thread, StartThrows(t) \/ PlanThrows(t)
       PROVE  OInv'
  <2> DEFINE e == EngineOf[t]
  <2>1. /\ pc[t] = "run" /\ pc' = [pc EXCEPT ![t] = "reacquire"]
        /\ \E x : tensor_map_' = [tensor_map_ EXCEPT ![e] = x]
        /\ outputs' = [outputs EXCEPT ![t] = Abstract!Thrown]
        /\ UNCHANGED <<args, node, result>>
    BY <1>10 DEF StartThrows, PlanThrows
  <2>2. /\ \A u \in Thread \ {t} : pc'[u] = pc[u] /\ outputs'[u] = outputs[u]
        /\ pc'[t] = "reacquire" /\ outputs'[t] = Abstract!Thrown
        /\ \A x \in Engine \ {e} : tensor_map_'[x] = tensor_map_[x]
    BY <1>1, <2>1, EngineOfThread DEF Typed
  <2>3. Exclusive'
    BY <1>1, <2>1, <2>2, StaysExclusive
  <2>4. ValueInv(t)'
    <3>1. result'[t].status = "running"
      BY <1>2, <2>2 DEF TInv, GilInv
    <3> QED
      BY <2>1, <2>2, <3>1 DEF ValueInv, Answer
  <2> QED
    BY <1>2, <2>1, <2>2, <2>3, <2>4, StepKeepsValues
<1>11. ASSUME NEW t \in Thread, RunNode(t)
       PROVE  OInv'
  <2> DEFINE e == EngineOf[t]
             k == node[t]
  <2>1. /\ pc[t] = "nodes" /\ node' = [node EXCEPT ![t] = k + 1]
        /\ UNCHANGED <<pc, args, outputs, result>>
    BY <1>11 DEF RunNode, AtNode
  <2>2. /\ k \in DOMAIN Model.nodes
        /\ tensor_map_' = [tensor_map_ EXCEPT ![e] = Trace(args[t])[k]]
    BY <1>11, NodeEvaluates
  <2>3. /\ \A u \in Thread \ {t} : node'[u] = node[u]
        /\ node'[t] = k + 1
        /\ tensor_map_'[e] = Trace(args[t])[k]
        /\ \A x \in Engine \ {e} : tensor_map_'[x] = tensor_map_[x]
    BY <1>1, <2>1, <2>2, EngineOfThread DEF Typed
  <2>4. Exclusive'
    BY <1>1, <2>1 DEF Exclusive
  <2>5. ValueInv(t)'
    <3>1. k + 1 \in 1..Len(Model.nodes) + 1 /\ (k + 1) - 1 = k
      BY <2>2, ModelLength
    <3>2. result'[t].status = "running"
      BY <1>2, <2>1 DEF TInv, GilInv
    <3>3. Range(Model.input_names) \subseteq DOMAIN args[t]
      BY <1>1, <2>1 DEF ValueInv
    <3> QED
      BY <2>1, <2>3, <3>1, <3>2, <3>3 DEF ValueInv
  <2> QED
    BY <1>2, <2>1, <2>3, <2>4, <2>5, StepKeepsValues
<1>12. ASSUME NEW t \in Thread, FinishRun(t)
       PROVE  OInv'
  <2>1. /\ pc[t] = "nodes" /\ pc' = [pc EXCEPT ![t] = "reacquire"]
        /\ node' = [node EXCEPT ![t] = 0]
        /\ UNCHANGED <<args, result, tensor_map_>>
        /\ \E x : outputs' = [outputs EXCEPT ![t] = x]
    BY <1>12 DEF FinishRun, engine_vars
  <2>2. /\ \A u \in Thread \ {t} : /\ pc'[u] = pc[u] /\ outputs'[u] = outputs[u]
                                   /\ node'[u] = node[u]
        /\ pc'[t] = "reacquire"
    BY <1>1, <2>1 DEF Typed
  <2>3. Exclusive'
    BY <1>1, <2>1, <2>2, StaysExclusive
  <2>4. ValueInv(t)'
    <3>1. result'[t].status = "running"
      BY <1>2, <2>2 DEF TInv, GilInv
    <3>2. outputs'[t] \in Answer(args[t])
      BY <1>12, RunAnswers
    <3> QED
      BY <2>1, <2>2, <3>1, <3>2 DEF ValueInv
  <2> QED
    BY <1>2, <2>1, <2>2, <2>3, <2>4, StepKeepsValues
<1>13. ASSUME NEW t \in Thread, ConvertOutputs(t)
       PROVE  OInv'
  <2>1. /\ pc[t] = "convert_out" /\ pc' = [pc EXCEPT ![t] = "python"]
        /\ result' = [result EXCEPT ![t] = outputs[t]]
        /\ outputs' = [outputs EXCEPT ![t] = <<>>]
        /\ UNCHANGED <<args, node, tensor_map_>>
    BY <1>13 DEF ConvertOutputs, engine_vars
  <2>2. /\ \A u \in Thread \ {t} : /\ pc'[u] = pc[u] /\ outputs'[u] = outputs[u]
                                   /\ result'[u] = result[u]
        /\ pc'[t] = "python" /\ result'[t] = outputs[t]
    BY <1>1, <2>1 DEF Typed
  <2>3. Exclusive'
    BY <1>1, <2>1, <2>2, StaysExclusive
  <2>4. ValueInv(t)'
    BY <1>1, <2>1, <2>2 DEF ValueInv
  <2> QED
    BY <1>2, <2>1, <2>2, <2>3, <2>4, StepKeepsValues
<1>14. ASSUME NEW t \in Thread, RunThrows(t)
       PROVE  OInv'
  <2> DEFINE e == EngineOf[t]
  <2>1. /\ pc[t] = "nodes" /\ pc' = [pc EXCEPT ![t] = "reacquire"]
        /\ node' = [node EXCEPT ![t] = 0]
        /\ outputs' = [outputs EXCEPT ![t] = Abstract!Thrown]
        /\ UNCHANGED <<args, result>>
        /\ \A x \in Engine \ {e} : tensor_map_'[x] = tensor_map_[x]
    BY <1>1, <1>14, EngineOfThread DEF RunThrows, Typed
  <2>2. /\ \A u \in Thread \ {t} : /\ pc'[u] = pc[u] /\ outputs'[u] = outputs[u]
                                   /\ node'[u] = node[u]
        /\ pc'[t] = "reacquire" /\ outputs'[t] = Abstract!Thrown
    BY <1>1, <2>1 DEF Typed
  <2>3. Exclusive'
    BY <1>1, <2>1, <2>2, StaysExclusive
  <2>4. ValueInv(t)'
    <3>1. result'[t].status = "running"
      BY <1>2, <2>2 DEF TInv, GilInv
    <3> QED
      BY <2>1, <2>2, <3>1 DEF ValueInv, Answer
  <2> QED
    BY <1>2, <2>1, <2>2, <2>3, <2>4, StepKeepsValues
<1> QED
  BY <1>3, <1>4, <1>5, <1>6, <1>7, <1>8, <1>9, <1>10, <1>11, <1>12, <1>13, <1>14
  DEF Next, Convert, EngineStep

LEMMA ValuesInvariance == ASSUME Locked PROVE Spec => []OInv
<1>1. OInv /\ [Next]_vars => OInv'
  BY NextValues
<1> QED
  BY <1>1, InitValues, PTL DEF Spec

\* Callers that lock their engines get what the model defines for their own
\* arguments, whatever other threads run meanwhile.
THEOREM LockedResultsAreOwn ==
    ASSUME Locked
    PROVE  Spec => []OwnResults
<1>1. OInv => OwnResults
  <2> SUFFICES ASSUME OInv, NEW t \in Thread, result[t].status = "ok"
               PROVE  result[t].outputs = Abstract!Meaning(Model, args[t])
    BY DEF OwnResults
  <2>1. result[t] \in Answer(args[t])
    BY DEF OInv, ValueInv
  <2>2. result[t] = Abstract!Returned(Abstract!Meaning(Model, args[t]))
    BY <2>1, Statuses DEF Answer
  <2>. QED
    BY <2>2 DEF Abstract!Returned
<1> QED
  BY <1>1, ValuesInvariance, PTL

\* The steps that a thread sees of its engine, by what they do to its arguments
\* and its result.
LEMMA AskedStep ==
    ASSUME NEW t \in Thread, NEW dict \in Requests,
           result[t].status # "running",
           args'[t] = dict, result'[t] = Abstract!Running
    PROVE  Caller(t)!INext
<1>1. Caller(t)!Call
  BY DEF Caller!Call, Caller!Idle, Caller!Running, Abstract!Running
<1>. QED
  BY <1>1 DEF Caller!INext

LEMMA AnsweredStep ==
    ASSUME NEW t \in Thread, result[t].status = "running",
           args'[t] = args[t], result'[t] \in Answer(args[t])
    PROVE  Caller(t)!INext
<1>1. /\ Caller(t)!Values(Model, args[t]) = Abstract!Values(Model, args[t])
      /\ Caller(t)!Meaning(Model, args[t]) = Abstract!Meaning(Model, args[t])
  BY DEF Caller!Meaning, Abstract!Meaning, Caller!Values, Abstract!Values, Caller!Given,
         Abstract!Given, Caller!Apply, Abstract!Apply, Caller!InputTerm, Abstract!InputTerm,
         Caller!InitializerTerm, Abstract!InitializerTerm, Caller!Range, Abstract!Range
<1>2. CASE result'[t] = Abstract!Thrown
  <2>1. Caller(t)!Throws
    BY <1>2 DEF Caller!Throws, Caller!Idle, Caller!Thrown, Abstract!Thrown
  <2>. QED
    BY <2>1 DEF Caller!INext
<1>3. CASE result'[t] # Abstract!Thrown
  <2>1. /\ Range(Model.input_names) \subseteq DOMAIN args[t]
        /\ Model.output_names \subseteq DOMAIN Abstract!Values(Model, args[t])
        /\ result'[t] = Abstract!Returned(Abstract!Meaning(Model, args[t]))
    BY <1>3 DEF Answer
  <2>2. Caller(t)!Range(Model.input_names) = Range(Model.input_names)
    BY DEF Caller!Range, Range
  <2>3. Caller(t)!Returns
    BY <1>1, <2>1, <2>2 DEF Caller!Returns, Caller!Idle, Caller!Returned, Abstract!Returned
  <2>. QED
    BY <2>3 DEF Caller!INext
<1>. QED
  BY <1>2, <1>3

\* To every thread that locks its engine, that engine is an Inference of its
\* own: each step of the interpreter is a call, an answer or nothing there.
THEOREM LockedEnginesServeEachThread ==
    ASSUME Locked
    PROVE  Spec => ServesEachThread
<1>1. OInv /\ [Next]_vars
        => [\A t \in Thread : [Caller(t)!INext]_<<args[t], result[t]>>]_vars
  <2> SUFFICES ASSUME OInv, Next, NEW t \in Thread,
                      args'[t] # args[t] \/ result'[t] # result[t]
               PROVE  Caller(t)!INext
    OBVIOUS
  <2>1. /\ DOMAIN args = Thread /\ DOMAIN result = Thread
        /\ \A u \in Thread : GilInv(u) /\ ValueInv(u)
    BY DEF OInv, TInv, Typed
  <2>2. PICK u \in Thread :
           \/ \E dict \in Requests : CallRun(u, dict)
           \/ ConversionThrows(u) \/ ConvertOutputs(u)
    BY DEF Next, Convert, EngineStep, AcquireGil, SwitchOut, SetProfiling, ConvertInputs,
           StartRun, StartThrows, PlanThrows, RunNode, RunThrows, FinishRun, thread_vars
  <2>3. u = t
    BY <2>1, <2>2 DEF CallRun, ConversionThrows, ConvertOutputs
  <2>4. ASSUME NEW dict \in Requests, CallRun(t, dict)
        PROVE  Caller(t)!INext
    <3>1. /\ args'[t] = dict /\ result'[t] = Abstract!Running
          /\ result[t].status # "running"
      BY <2>1, <2>4 DEF CallRun, Callable, GilInv
    <3>. QED
      BY <3>1, AskedStep
  <2>5. CASE ConversionThrows(t)
    <3>1. /\ args'[t] = args[t] /\ result'[t] = Abstract!Thrown
          /\ result[t].status = "running"
      BY <2>1, <2>5 DEF ConversionThrows, GilInv
    <3>2. result'[t] \in Answer(args[t])
      BY <3>1 DEF Answer
    <3>. QED
      BY <3>1, <3>2, AnsweredStep
  <2>6. CASE ConvertOutputs(t)
    <3>1. /\ args'[t] = args[t] /\ result'[t] = outputs[t]
          /\ result[t].status = "running" /\ outputs[t] \in Answer(args[t])
      BY <2>1, <2>6 DEF ConvertOutputs, GilInv, ValueInv
    <3>. QED
      BY <3>1, AnsweredStep
  <2>. QED
    BY <2>2, <2>3, <2>4, <2>5, <2>6
<1> QED
  BY <1>1, ValuesInvariance, PTL DEF Spec, ServesEachThread
=============================================================================
