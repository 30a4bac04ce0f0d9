---- MODULE Lookahead ----
(***************************************************************************)
(* One runtime's expand and resolve calls: GraphSession.expand             *)
(* (graph_session.py) cuts a ball out of the session's graph, run_traversal*)
(* (traversal.py) expands pending nodes of that copy one after the other   *)
(* in the order the installed lookahead policy ranks them, expand_node     *)
(* (expansion.py) and apply_events (test_helpers/graph_dsl.py) grow the    *)
(* copy, and the recorder of ReplayRecorder observes every step.           *)
(*                                                                         *)
(* The calls of a runtime are synchronous, so one runs at a time; its      *)
(* steps are separate actions because the policy's code runs between them  *)
(* and can raise.  The policy is arbitrary: any order of the candidates.   *)
(***************************************************************************)
EXTENDS ReplayRecorder

CONSTANTS
    Child,          \* the id "<id>_child" of each node id, NoNode past the modelled ones
    IdOrder,        \* the order of ids as strings
    SessionGraphs,  \* graphs a session can hold
    Depths          \* depths a caller asks for

VARIABLES
    session,  \* graph of the GraphSession: node states and edges
    call      \* the running expand call: where it is, its arguments, working graph, steps left
              \* and selected node; or what the last one returned, until another call is made

lookaheadVars == <<vars, session, call>>

Graph == [state: [Node -> NodeState \union {Absent}], edges: SUBSET Edge]

ASSUME LookaheadAssumption ==
    /\ IsFiniteSet(Node)
    /\ Child \in [Node -> Node \union {NoNode}]
    /\ \A m, n \in Node : Child[m] = Child[n] /\ Child[m] # NoNode => m = n
    /\ IdOrder \in [Node -> Nat] /\ IsRanking(IdOrder, Node)
    /\ \A g \in SessionGraphs : /\ g \in Graph
                                /\ \A e \in g.edges : {g.state[e[1]], g.state[e[2]]} \subseteq NodeState
    /\ Depths \subseteq Int

----
(* Graphs.                                                                 *)

Nodes(g) == {n \in Node : g.state[n] # Absent}

Neighbours(g, n) == {m \in Node : <<n, m>> \in g.edges \/ <<m, n>> \in g.edges}

\* Nodes at most d edges away from n, whatever the direction of the edges.
Ball(g, n, d) ==
    LET within[k \in Nat] ==
            IF k = 0 THEN {n}
            ELSE within[k-1] \union UNION {Neighbours(g, m) : m \in within[k-1]}
    IN  within[d]

Subgraph(g, S) ==
    [state |-> [n \in Node |-> IF n \in S THEN g.state[n] ELSE Absent],
     edges |-> g.edges \intersect (S \X S)]

\* A slip in expand: the second search is as wide as the steps that are left.
ReturnedLeft(c) == Subgraph(c.graph, Ball(c.graph, c.node, c.left))

\* The part of the working graph that a call returns, by a second search from its node.
Returned(c) == Subgraph(c.graph, Ball(c.graph, c.node, c.depth))

\* get_frontier
Frontier(g) == {n \in Node : g.state[n] = "pending"}

\* _candidate_source: of the nodes with an edge to n, a resolved one before an
\* anchor before any other, then the first by id.
CandidateSource(g, n) ==
    LET sources == {m \in Node : <<m, n>> \in g.edges}
        Class(m) == CASE g.state[m] = "resolved" -> 0 [] g.state[m] = "anchor" -> 1 [] OTHER -> 2
        Better(m, o) == \/ Class(m) < Class(o)
                        \/ Class(m) = Class(o) /\ IdOrder[m] < IdOrder[o]
    IN  IF sources = {} THEN NoNode
        ELSE CHOOSE m \in sources : \A o \in sources \ {m} : Better(m, o)

\* expand_node: a child is created unless one is in the graph already.
ExpandNode(g, n) ==
    LET created == {Child[n]} \ ({NoNode} \union Nodes(g))
    IN  [source |-> n, state |-> g.state[n], created |-> created, edges |-> {n} \X created]

\* apply_events, of the events of one expansion
ApplyExpansion(g, x) ==
    [state |-> [n \in Node |-> CASE n = x.source -> "resolved"
                                 [] n \in x.created -> "pending"
                                 [] OTHER -> g.state[n]],
     edges |-> g.edges \union x.edges]

\* _rank_frontier_candidates: rank 1, 2, ... in the order of the policy's
\* scores.  They are arbitrary, so it is any order of the candidates.
Rankings(S) ==
    {r \in [S -> 1..Cardinality(S)] : IsRanking(r, S)}

----
(* The runtime's calls.                                                    *)

Idle == [pc |-> "idle"]

Answered(c) == [pc |-> "idle", node |-> c.node, depth |-> c.depth, answer |-> Returned(c)]

LookaheadInit ==
    /\ Init
    /\ session \in SessionGraphs
    /\ call = Idle

\* expand, or the second half of resolve_and_expand: the expand call is counted
\* first.  An id the graph does not have then raises, or yields an empty result
\* at depth 0; a depth of 0 or less takes no step.
Expand(n, depth) ==
    /\ call.pc = "idle"
    /\ Open
    /\ NoteExpandCall
    /\ LET steps == IF depth > 0 THEN depth ELSE 0
       IN  call' = IF n \in Nodes(session) \/ steps = 0
                   THEN [pc |-> "rank", node |-> n, depth |-> steps, left |-> steps,
                         graph |-> Subgraph(session, Ball(session, n, steps)),
                         selected |-> NoNode]
                   ELSE Idle
    /\ UNCHANGED session

\* The decision run_traversal reports when the policy ranks the candidates so.
DecisionFor(rank) ==
    LET candidates == Frontier(call.graph)
    IN  [candidates |-> candidates,
         rank |-> [n \in Node |-> IF n \in candidates THEN rank[n] ELSE 0],
         source |-> [n \in Node |-> CandidateSource(call.graph, n)],
         requested |-> {}, selected |-> CHOOSE n \in candidates : rank[n] = 1, pruned |-> {},
         frontierCount |-> Cardinality(candidates), hiddenCount |-> 0]

\* A slip in run_traversal: one step more than the depth.
RankBeyondDepth ==
    /\ call.pc = "rank"
    /\ Frontier(call.graph) # {}
    /\ \E d \in {DecisionFor(rank) : rank \in Rankings(Frontier(call.graph))} :
          /\ ObserveFrontierDecision(d)
          /\ call' = [call EXCEPT !.pc = "expand", !.selected = d.selected]
    /\ UNCHANGED session

\* One step of run_traversal up to the report of the decision.
Rank ==
    /\ call.pc = "rank"
    /\ call.left > 0
    /\ Frontier(call.graph) # {}
    /\ \E d \in {DecisionFor(rank) : rank \in Rankings(Frontier(call.graph))} :
          /\ ObserveFrontierDecision(d)
          /\ call' = [call EXCEPT !.pc = "expand", !.selected = d.selected]
    /\ UNCHANGED session

\* A slip in run_traversal: a decision is reported that the policy then fails to make.
PolicyRaisesLate ==
    /\ call.pc \in {"rank", "expand"}
    /\ call.pc = "rank" => call.left > 0 /\ Frontier(call.graph) # {}
    /\ call' = Idle
    /\ UNCHANGED <<vars, session>>

\* The policy raises, or returns no finite number, for some candidate: the
\* call ends in an error payload and its working graph is dropped.
PolicyRaises ==
    /\ call.pc = "rank"
    /\ call.left > 0
    /\ Frontier(call.graph) # {}
    /\ call' = Idle
    /\ UNCHANGED <<vars, session>>

\* The rest of the step: expand the selected node, report it, apply it.
ExpandSelected ==
    /\ call.pc = "expand"
    /\ \E x \in {ExpandNode(call.graph, call.selected)} :
          /\ ObserveExpansion(x)
          /\ call' = [call EXCEPT !.pc = "rank", !.left = @ - 1, !.selected = NoNode,
                                  !.graph = ApplyExpansion(@, x)]
    /\ UNCHANGED session

\* A slip in run_traversal: it does not stop on an empty frontier.
ReturnWhenDone ==
    /\ call.pc = "rank"
    /\ call.left = 0
    /\ call' = Answered(call)
    /\ UNCHANGED <<vars, session>>

\* No step is left or nothing is pending: the call returns.
Return ==
    /\ call.pc = "rank"
    /\ call.left = 0 \/ Frontier(call.graph) = {}
    /\ call' = Answered(call)
    /\ UNCHANGED <<vars, session>>

\* resolve, or the first half of resolve_and_expand.  The candidates come
\* from the store of the session's graph; a policy may still name others.
Resolve(d) ==
    /\ call.pc = "idle"
    /\ Open
    /\ ObserveAnchorDecision(d)
    /\ call' = Idle
    /\ UNCHANGED session

\* collect_graph_trace
CollectTrace(clear) ==
    /\ call.pc = "idle"
    /\ Collect(clear)
    /\ call' = Idle
    /\ UNCHANGED session

\* ensure_loaded finds the repository changed, or a caller sets a graph.
Reload(g) ==
    /\ call.pc = "idle"
    /\ session' = g
    /\ call' = Idle
    /\ UNCHANGED vars

\* clear_policy_install and reset_graph_session; a graph is loaded anew by the next call.
ResetRuntime(g) ==
    /\ call.pc = "idle"
    /\ Reset
    /\ session' = g
    /\ call' = Idle

CallSteps == Return \/ PolicyRaises \/ ExpandSelected \/ Rank

LookaheadNext ==
    \/ \E n \in Node, depth \in Depths : Expand(n, depth)
    \/ CallSteps
    \/ \E d \in AnchorDecisions : Resolve(d)
    \/ \E clear \in BOOLEAN : CollectTrace(clear)
    \/ \E g \in SessionGraphs : Reload(g) \/ ResetRuntime(g)

\* A call runs to its end on the thread it was made on.
LookaheadSpec == LookaheadInit /\ [][LookaheadNext]_lookaheadVars /\ WF_lookaheadVars(CallSteps)

----
(* Properties.                                                             *)

LookaheadTypeOK ==
    /\ TypeOK
    /\ session \in SessionGraphs
    /\ \/ call = Idle
       \/ call \in [pc: {"idle"}, node: Node, depth: Nat, answer: Graph]
       \/ call \in [pc: {"rank"}, node: Node, depth: Nat, left: Nat, graph: Graph,
                    selected: {NoNode}]
       \/ call \in [pc: {"expand"}, node: Node, depth: Nat, left: Nat \ {0}, graph: Graph,
                    selected: Node]

\* Sticky candidates, the selected one and the ones that fill the rest never
\* show more than maxVisiblePending candidates of a frontier, over any number
\* of calls: the recorder keeps sticky ones without looking at the limit, and
\* relies on each decision's selected node leaving them before the next.
VisibleWithinLimit ==
    /\ Cardinality(trace.visible) <= MaxVisiblePending
    /\ summary.frontier - summary.hidden <= MaxVisiblePending

\* Every edge of the log comes after its two ends were added: neither candidate
\* sources nor discovered children leave an edge dangling, also after a clear.
EdgesAfterNodes ==
    \A j \in DOMAIN trace.events : trace.events[j].type = "addEdges" =>
        \A e \in trace.events[j].edges, k \in {1, 2} :
            \E i \in 1..(j-1) : Adds(trace.events[i], e[k])

\* A node the traversal has expanded in its working graph is resolved in the trace,
\* and one it has created there is in the trace: the replay is not behind the
\* graph the policy decides on, whatever earlier calls left in the trace.
TraceFollowsTraversal ==
    call.pc # "idle" =>
        /\ \A n \in Node : call.graph.state[n] = "resolved" /\ session.state[n] # "resolved"
                              => trace.known[n] = "resolved"
        /\ Nodes(call.graph) \ Nodes(session) \subseteq Known(trace)

\* What an expand call returns is the neighbourhood that was asked for, whole, in which
\* nodes were resolved and children of resolved nodes were added, and nothing else: no node
\* or edge of it is lost by searching twice, in the session's graph and in the grown copy.
AnswerIsNeighbourhood ==
    call.pc = "idle" /\ call # Idle =>
        LET asked == Subgraph(session, Ball(session, call.node, call.depth))
            grown(m, n) == Child[m] = n /\ call.answer.state[m] = "resolved"
        IN  /\ Nodes(asked) \subseteq Nodes(call.answer)
            /\ asked.edges \subseteq call.answer.edges
            /\ \A n \in Nodes(asked) : call.answer.state[n] \in {asked.state[n], "resolved"}
            /\ \A n \in Nodes(call.answer) \ Nodes(asked) : \E m \in Nodes(call.answer) : grown(m, n)
            /\ \A e \in call.answer.edges \ asked.edges : grown(e[1], e[2])

\* Every lookahead step of the trace has exactly one expansion in it: a policy
\* that raises, at whatever step, leaves no decision without its effect.
EveryDecisionExpanded ==
    call.pc # "expand" =>
        Cardinality({i \in DOMAIN trace.events : /\ trace.events[i].type = "updateNode"
                                                 /\ trace.events[i].state = "resolved"})
            = summary.lookaheadSteps

\* Doc (notes/graph_replay.md, "Anchor and frontier semantics"): a hidden candidate that
\* is selected is emitted as pending before it becomes resolved.
PendingBeforeResolved ==
    \A j \in DOMAIN trace.events :
        trace.events[j].type = "updateNode" /\ trace.events[j].state = "resolved" =>
            \A n \in trace.events[j].nodes : \E i \in 1..(j-1) :
                Adds(trace.events[i], n) /\ trace.events[i].state = "pending"

\* Every expand call comes back, however the policy ranks and although each
\* expansion may add a pending node: the number of steps is the depth.
CallReturns == call.pc # "idle" ~> call.pc = "idle"

Events == INSTANCE GraphEvents

\* The graph the recorder believes its log shows, and the graphs apply_events builds from
\* the log of the last payload.
Replay ==
    INSTANCE GraphReplay WITH
        Limit <- MaxVisiblePending,
        view <- [state |-> [n \in Known(trace) |-> trace.known[n]], edges |-> trace.edges],
        payload <- IF reply.type = "payload"
                   THEN [type |-> "payload",
                         parsed |-> Events!Parsed(reply.events),
                         unparsed |-> Events!Unparsed(reply.events)]
                   ELSE [type |-> "none"]

\* Runtime, traversal and recorder together implement the abstract trace of GraphReplay:
\* each call changes what is shown only as its kind of call may, and a collected log whose
\* entries are parsed as GraphEvents gives apply_events the recorder's own view, with no
\* event that is refused.  The dicts of the log as they are do so only if no node was shown.
ImplementsReplay == Replay!Spec

\* Doc (notes/graph_replay.md): "Pending nodes represent the bounded visible frontier,
\* not the full internal frontier"; README: maxVisiblePending = 4.
PendingWithinLimit ==
    Cardinality({n \in Node : trace.known[n] = "pending"}) <= MaxVisiblePending
====
