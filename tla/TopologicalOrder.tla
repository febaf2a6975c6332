-------------------------- MODULE TopologicalOrder --------------------------
(***************************************************************************)
(* What sort_topologically promises: the nodes are emitted one by one, each *)
(* time the first of the list whose producers are all out; if none is left *)
(* to emit, the graph has the new order, and if the others wait for each   *)
(* other, the sort throws.  No index, counter or queue exists here.        *)
(***************************************************************************)
EXTENDS Integers, FiniteSets, SequencesExt

VARIABLES
    nodes,      \* graph.nodes
    order,      \* the indices emitted so far
    outcome     \* "running", "sorted" or "thrown"

tvars == <<nodes, order, outcome>>

\* Node i reads what another node p produces.
DependsOn(list, i, p) ==
    p # i /\ Range(list[p].outputs) \cap Range(list[i].inputs) # {}

Producers(list, i) == {p \in DOMAIN list : DependsOn(list, i, p)}

ProducedTwice(list) ==
    \E p, q \in DOMAIN list :
        \E a \in DOMAIN list[p].outputs, b \in DOMAIN list[q].outputs :
            <<p, a>> # <<q, b>> /\ list[p].outputs[a] = list[q].outputs[b]

Ready(list, done) ==
    {i \in DOMAIN list \ Range(done) : Producers(list, i) \subseteq Range(done)}

Permuted(list, done) == [k \in DOMAIN done |-> list[done[k]]]

\* Whatever list of nodes it is given.
TInit ==
    /\ order = <<>>
    /\ outcome = "running"

Emit ==
    /\ outcome = "running"
    /\ ~ProducedTwice(nodes)
    /\ Ready(nodes, order) # {}
    /\ order' = Append(order, Min(Ready(nodes, order)))
    /\ UNCHANGED <<nodes, outcome>>

Finish ==
    /\ outcome = "running"
    /\ Len(order) = Len(nodes)
    /\ nodes' = Permuted(nodes, order)
    /\ outcome' = "sorted"
    /\ UNCHANGED order

Refuse ==
    /\ outcome = "running"
    /\ \/ ProducedTwice(nodes)
       \/ Ready(nodes, order) = {} /\ Len(order) < Len(nodes)
    /\ outcome' = "thrown"
    /\ UNCHANGED <<nodes, order>>

TNext == Emit \/ Finish \/ Refuse

TSpec == TInit /\ [][TNext]_tvars /\ WF_tvars(TNext)
=============================================================================
