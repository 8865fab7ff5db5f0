----------------------------- MODULE AdapterOrder -----------------------------
(***************************************************************************)
(* adapters/python: the order in which a client runs the actions of a      *)
(* manifest (acp_common.topological_order), and the graph it hands to      *)
(* LangGraph (acp_langgraph.build_graph).  Actions are numbers; dependsOn  *)
(* gives the depends_on of each, which may name actions that the manifest  *)
(* does not have.  In Python they are strings, so that "a10" is sorted     *)
(* before "a2": the order of ready actions differs, and no property sees   *)
(* it.                                                                     *)
(***************************************************************************)
EXTENDS Integers, Sequences, FiniteSets, Functions

\* sorted: the action at position i is the one up to which there are i.
Sorted(ids) ==
    [i \in 1..Cardinality(ids) |->
        CHOOSE id \in ids : Cardinality({other \in ids : other <= id}) = i]

\* A dependency outside the manifest is treated as already done.
Inside(dependsOn, id) == dependsOn[id] \cap DOMAIN dependsOn
Children(dependsOn, id) == {c \in DOMAIN dependsOn : id \in dependsOn[c]}

\* The loop between two turns: the queue of ready actions, how many dependencies
\* each action still waits for, and the actions put out.
Started(dependsOn) ==
    LET indeg == [id \in DOMAIN dependsOn |-> Cardinality(Inside(dependsOn, id))]
    IN  [ready |-> Sorted({id \in DOMAIN indeg : indeg[id] = 0}), indeg |-> indeg, out |-> <<>>]

\* One turn: the first ready action is put out, and those of its children that
\* wait for nothing else get ready.
Turn(dependsOn, s) ==
    LET children == Children(dependsOn, Head(s.ready))
        left == [id \in DOMAIN s.indeg |->
                    IF id \in children THEN s.indeg[id] - 1 ELSE s.indeg[id]]
    IN  [ready |-> Tail(s.ready) \o Sorted({c \in children : left[c] = 0}),
         indeg |-> left,
         out   |-> Append(s.out, Head(s.ready))]

\* The loop after n turns, or after its last.  No action gets ready twice, so it
\* ends after as many turns as there are actions.
Loop(dependsOn) ==
    LET after[n \in 0..Cardinality(DOMAIN dependsOn)] ==
            IF n = 0 THEN Started(dependsOn)
            ELSE LET s == after[n - 1]
                 IN  IF s.ready = <<>> THEN s ELSE Turn(dependsOn, s)
    IN  after

\* What has been put out when nothing is ready any more.
topological_order(dependsOn) == Loop(dependsOn)[Cardinality(DOMAIN dependsOn)].out

CycleError(dependsOn) == Len(topological_order(dependsOn)) # Cardinality(DOMAIN dependsOn)

START == 0
END == -1

\* From each dependency to the actions that have it.
Edges(dependsOn) ==
    {e \in (DOMAIN dependsOn) \X (DOMAIN dependsOn) : e[1] \in dependsOn[e[2]]}

build_graphOneStart(dependsOn) ==
    {<<START, topological_order(dependsOn)[1]>>}
      \cup Edges(dependsOn)
      \cup {<<id, END>> : id \in {i \in DOMAIN dependsOn : Children(dependsOn, i) = {}}}

\* build_graph: the edges.  Only actions without any depends_on hang off START.
build_graph(dependsOn) ==
    {<<START, id>> : id \in {i \in DOMAIN dependsOn : dependsOn[i] = {}}}
      \cup Edges(dependsOn)
      \cup {<<id, END>> : id \in {i \in DOMAIN dependsOn : Children(dependsOn, i) = {}}}
-----------------------------------------------------------------------------
\* Each action once, after all it depends on.
IsExecution(order, dependsOn) ==
    /\ Len(order) = Cardinality(DOMAIN dependsOn) /\ Range(order) = DOMAIN dependsOn
    /\ \A i \in DOMAIN order : \A d \in Inside(dependsOn, order[i]) :
           \E j \in 1..(i - 1) : order[j] = d

\* A graph leads from a node to every other: into each set of the others leads an
\* edge from outside.
LeadsToAll(edges, from, nodes) ==
    \A set \in (SUBSET (nodes \ {from})) \ {{}} : \E e \in edges : e[1] \notin set /\ e[2] \in set
=============================================================================
