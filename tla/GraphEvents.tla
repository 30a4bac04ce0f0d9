---- MODULE GraphEvents ----
(***************************************************************************)
(* What graph events do to a graph: apply_events of test_helpers/          *)
(* graph_dsl.py, which takes event objects, as the traversal passes them   *)
(* for its working graph, and dicts in the form of its EventSpec; and what *)
(* the models of graph_models.py make of the dicts of a collected log.     *)
(*                                                                         *)
(* A graph is the states of its nodes and its edges; an entry stands for   *)
(* consecutive events of one type and state, as in ReplayRecorder.         *)
(***************************************************************************)
EXTENDS Naturals, Sequences

NoPatch == "unchanged"

\* The states of the nodes that are there, and the edges.
EmptyGraph == [state |-> <<>>, edges |-> {}]

Nodes(g) == DOMAIN g.state

Ends(edges) == {e[1] : e \in edges} \union {e[2] : e \in edges}

\* The graph after one event, or none when the event raises: present nodes are not added
\* again; edges are checked, all of them before the first is added; an update needs its
\* node; an iteration does nothing; what apply_events does not know raises.
ApplyEvent(g, e) ==
    CASE e.type = "addNodes" ->
            {[g EXCEPT !.state = [n \in Nodes(g) \union e.nodes |->
                                     IF n \in Nodes(g) THEN @[n] ELSE e.state]]}
      [] e.type = "addEdges" /\ Ends(e.edges) \subseteq Nodes(g) ->
            {[g EXCEPT !.edges = @ \union e.edges]}
      [] e.type = "updateNode" /\ e.nodes \subseteq Nodes(g) ->
            {IF e.state = NoPatch THEN g
             ELSE [g EXCEPT !.state = [n \in Nodes(g) |-> IF n \in e.nodes THEN e.state ELSE @[n]]]}
      [] e.type = "iteration" -> {g}
      [] OTHER -> {}

\* An event as apply_events is given it.
AsObject(e) == [form |-> "object", event |-> e]

AsDict(e) == [form |-> "dict", event |-> e]

Objects(log) == [i \in DOMAIN log |-> AsObject(log[i])]

Dicts(log) == [i \in DOMAIN log |-> AsDict(log[i])]

\* to_graph_event of an entry of a log, or none when it raises: an EventSpec lists added
\* nodes by their ids, and no PendingNode has the dict of a node for an id.
ToGraphEvent(e) ==
    IF \/ e.type \in {"addEdges", "updateNode", "iteration"}
       \/ e.type = "addNodes" /\ e.nodes = {}
    THEN {e} ELSE {}

Runtime(x) == IF x.form = "object" THEN {x.event} ELSE ToGraphEvent(x.event)

\* The graph after one object or dict, or none.
ApplyRaw(g, x) == UNION {ApplyEvent(g, e) : e \in Runtime(x)}

ApplyEvents(g, events) ==
    LET after[i \in 0..Len(events)] ==
            IF i = 0 THEN {g} ELSE UNION {ApplyRaw(h, events[i]) : h \in after[i - 1]}
    IN  after[Len(events)]

\* The union GraphEvent has a model for the entry: for none of the notes of a policy, and
\* for no node added as resolved, as it comes without the evidence of a ResolvedNode.
IsGraphEvent(e) ==
    \/ e.type \in {"addEdges", "updateNode", "iteration"}
    \/ e.type = "addNodes" /\ e.state # "resolved"

\* The graphs that apply_events builds from a log: by way of the models, if there is one
\* for each entry, and from the dicts of the log as they are.
Parsed(log) ==
    IF \A i \in DOMAIN log : IsGraphEvent(log[i]) THEN ApplyEvents(EmptyGraph, Objects(log)) ELSE {}

Unparsed(log) == ApplyEvents(EmptyGraph, Dicts(log))
====
