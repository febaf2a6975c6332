----------------------------- MODULE Inference -----------------------------
(***************************************************************************)
(* What an inference engine promises: a run either throws or returns, for  *)
(* every graph output, the value the graph defines for the inputs of that  *)
(* very run.  Memory, views, plans and earlier runs do not exist here.     *)
(*                                                                         *)
(* A value is a term, of the input or initializer it is or of the operator *)
(* it comes from, the attribute of that (only Cast has one here, to) and   *)
(* the terms that it is applied to: values computed alike are equal.  A    *)
(* node gives the term of its first output, the only one a kernel writes   *)
(* (output_at, src/src/ops).                                               *)
(***************************************************************************)
EXTENDS Naturals, Sequences, Functions

CONSTANT Requests   \* the input dictionaries a caller may pass

VARIABLES
    model,      \* the graph of this engine
    request,    \* the inputs of the current or latest run, <<>> before the first
    outcome     \* "none", "running", [status |-> "thrown"] or [.. "ok", outputs]

ivars == <<model, request, outcome>>

InputTerm(name, value) == <<value, name, <<>>>>
InitializerTerm(name) == <<"initializer", name, <<>>>>
Apply(node, args) == <<node.op, IF node.op = "Cast" THEN node.to ELSE "", args>>

\* The tensors known before the first node.
Given(m, r) ==
    [t \in DOMAIN m.initializers \cup Range(m.input_names) |->
        IF t \in Range(m.input_names) THEN InputTerm(t, r[t].value)
                                      ELSE InitializerTerm(t)]

\* Those known after the first k nodes; a node whose inputs are not all known
\* defines nothing.
Values(m, r) ==
    LET v[k \in 0..Len(m.nodes)] ==
          IF k = 0 THEN Given(m, r)
          ELSE LET node == m.nodes[k]
                   known == v[k-1]
               IN  IF Range(node.inputs) \subseteq DOMAIN known
                   THEN [t \in DOMAIN known \cup {node.outputs[1]} |->
                           IF t = node.outputs[1]
                           THEN Apply(node, [i \in DOMAIN node.inputs |->
                                               known[node.inputs[i]]])
                           ELSE known[t]]
                   ELSE known
    IN  v[Len(m.nodes)]

\* The outputs of the graph m for the inputs r.
Meaning(m, r) == [t \in m.output_names |-> Values(m, r)[t]]

Thrown == [status |-> "thrown"]
Returned(outputs) == [status |-> "ok", outputs |-> outputs]
Running == [status |-> "running"]
Idle == outcome.status # "running"

\* Whatever graph the engine is built for.
IInit ==
    /\ request = <<>>
    /\ outcome = [status |-> "none"]

Call ==
    /\ Idle
    /\ request' \in Requests
    /\ outcome' = Running
    /\ UNCHANGED model

Throws ==
    /\ ~Idle
    /\ outcome' = Thrown
    /\ UNCHANGED <<model, request>>

Returns ==
    /\ ~Idle
    /\ Range(model.input_names) \subseteq DOMAIN request
    /\ model.output_names \subseteq DOMAIN Values(model, request)
    /\ outcome' = Returned(Meaning(model, request))
    /\ UNCHANGED <<model, request>>

INext == Call \/ Throws \/ Returns

ISpec == IInit /\ [][INext]_ivars /\ WF_ivars(Throws \/ Returns)
=============================================================================
