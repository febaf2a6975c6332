------------------------------ MODULE MCGraph ------------------------------
(***************************************************************************)
(* Instances of Graph for TLC: every dependency relation of four nodes.    *)
(* Node i produces tensor i; tensor 0 is an input of the model.            *)
(***************************************************************************)
EXTENDS Graph

MCTensor == 0..5

Listed(S) == SelectSeq(<<1, 2, 3, 4>>, LAMBDA t : t \in S)

Node(reads, extra, writes) == [inputs |-> Listed(reads) \o extra, outputs |-> writes]

\* A second output of the first node, read wherever the first one is: 5 is new,
\* the others collide with an output of this or of another node.
Second(x, reads) == IF x # 0 /\ 1 \in reads THEN <<x>> ELSE <<0>>

List(x, a, b, c, d) ==
    <<Node(a, <<>>, IF x = 0 THEN <<1>> ELSE <<1, x>>),
      Node(b, Second(x, b), <<2>>), Node(c, Second(x, c), <<3>>),
      Node(d, Second(x, d), <<4>>)>>

MCNodeLists ==
    {List(xd[1], a, b, c, xd[2]) :
        xd \in ({0} \X SUBSET {1, 2, 3}) \cup ({1, 2, 4, 5} \X {{1}}),
        a \in SUBSET {2, 3, 4}, b \in SUBSET {1, 3, 4}, c \in SUBSET {1, 2, 4}}

\* Nodes that may read their own output.
SelfLists ==
    {<<Node(a, <<0>>, <<1>>), Node(b, <<>>, <<2>>), Node(c, <<>>, <<3>>)>> :
        a \in SUBSET {1}, b \in SUBSET {1, 2}, c \in SUBSET {1, 2, 3}}
=============================================================================
