---- MODULE ReplayRecorder ----
(***************************************************************************)
(* GraphReplayRecorder of iterative_context/graph_replay.py: the recorder  *)
(* that turns anchor decisions, frontier decisions and expansions into a   *)
(* portable log of graph events, under a limit on the visible frontier.    *)
(*                                                                         *)
(* Each method of the class is synchronous and is one action here.  The    *)
(* payload of an event (labels, kinds, scores, tokens, reasons) is left    *)
(* out.  A run of consecutive updateNode events that give the same state,  *)
(* or only scores, is one log entry holding the set of their ids; the      *)
(* nodes of one addNodes event and the edges of one addEdges event are     *)
(* sets likewise.  Lists of candidates are sets with a rank.               *)
(***************************************************************************)
EXTENDS Integers, Sequences, FiniteSets

CONSTANTS
    Node,               \* ids a node can have
    NoNode,             \* None where a node id is optional
    MaxVisiblePending,  \* max_visible_pending, 1 or more after the clamp in __init__
    AnchorDecisions,    \* decisions the caller may report
    FrontierDecisions,  \* frontier decisions the caller may report
    Expansions,         \* node expansions the caller may report
    Annotations,        \* of "setContext" and "tokenAdd", the events the caller may add
    MaxEvents,          \* bound: no call adds to the log once it is that long
    MaxExpandCalls      \* bound on the expand calls counted

VARIABLES
    trace,      \* _events, _known_nodes (their states), _known_edges, _visible_pending_ids
    iteration,  \* _iteration
    summary,    \* _summary
    reply       \* what the last call returned or raised

vars == <<trace, iteration, summary, reply>>

Absent == "absent"
NoPatch == "unchanged"
Settled == {"resolved", "anchor", "pruned"}
NodeState == Settled \union {"pending"}
Edge == Node \X Node

(* What callers pass in.                                                   *)
IsRanking(rank, S) == \A m, n \in S : rank[m] = rank[n] => m = n

\* An anchor is selected exactly when the status is "resolved": every decision
\* the server builds passes anchor_decision_from_value's checks or is built so.
AnchorDecision ==
    {d \in [status: {"resolved", "ambiguous", "not_found"},
            candidates: SUBSET Node, rank: [Node -> Nat], selected: Node \union {NoNode}] :
        /\ IsFiniteSet(d.candidates)
        /\ IsRanking(d.rank, d.candidates)
        /\ (d.selected # NoNode) <=> (d.status = "resolved")}

\* `requested` (visible_candidate_ids) lists its ids in rank order.
FrontierDecision ==
    {d \in [candidates: SUBSET Node, rank: [Node -> Nat],
            source: [Node -> Node \union {NoNode}], requested: SUBSET Node,
            selected: Node \union {NoNode}, pruned: SUBSET Node,
            frontierCount: Nat, hiddenCount: Nat] :
        /\ IsFiniteSet(d.candidates)
        /\ IsRanking(d.rank, d.candidates)}

\* The events expand_node produces for `source`, whose state in the graph is
\* `state`: nodes created (none when the child exists), their edges, and the
\* update of the source.
Expansion == [source: Node, state: NodeState, created: SUBSET Node, edges: SUBSET Edge]

ASSUME ConstantsAssumption ==
    /\ NoNode \notin Node
    /\ MaxVisiblePending \in Nat \ {0}
    /\ AnchorDecisions \subseteq AnchorDecision
    /\ FrontierDecisions \subseteq FrontierDecision
    /\ Expansions \subseteq Expansion
    /\ Annotations \subseteq {"setContext", "tokenAdd"}
    /\ MaxEvents \in Nat
    /\ MaxExpandCalls \in Nat

----
(* The log and the recorder's mirror of what it has emitted.               *)

NodesEntry == [type: {"addNodes"}, nodes: SUBSET Node, state: NodeState]
PatchEntry == [type: {"updateNode"}, nodes: SUBSET Node, state: NodeState \union {NoPatch}]
EdgesEntry == [type: {"addEdges"}, edges: SUBSET Edge]
IterationEntry == [type: {"iteration"}, step: Nat]
NoteEntry == [type: {"setContext", "tokenAdd"}]
Entry == NodesEntry \union PatchEntry \union EdgesEntry \union IterationEntry \union NoteEntry

NoTrace == [events |-> <<>>, known |-> [n \in Node |-> Absent], edges |-> {}, visible |-> {}]

Known(t) == {n \in Node : t.known[n] # Absent}

\* A slip in add_nodes: a candidate that comes back is remembered as pending anew.
AddNodesAnew(t, nodes, state) ==
    IF nodes = {} THEN t
    ELSE [t EXCEPT
            !.events = Append(@, [type |-> "addNodes", nodes |-> nodes, state |-> state]),
            !.known = [n \in Node |-> IF n \in nodes THEN state ELSE t.known[n]]]

\* add_nodes: ids already known are skipped, and an event is logged only for fresh ones.
AddNodes(t, nodes, state) ==
    LET fresh == nodes \ Known(t)
    IN  IF fresh = {} THEN t
        ELSE [t EXCEPT
                !.events = Append(@, [type |-> "addNodes", nodes |-> fresh, state |-> state]),
                !.known = [n \in Node |-> IF n \in fresh THEN state ELSE t.known[n]]]

\* add_edges: an edge already known is skipped.
AddEdges(t, edges) ==
    LET fresh == edges \ t.edges
    IN  IF fresh = {} THEN t
        ELSE [t EXCEPT !.events = Append(@, [type |-> "addEdges", edges |-> fresh]),
                       !.edges = @ \union fresh]

\* A slip in update_node: a settled node stays among the visible pending ones.
UpdateNodesKeepVisible(t, nodes, state) ==
    LET hit == nodes \intersect Known(t)
    IN  IF hit = {} THEN t
        ELSE [t EXCEPT
                !.events = Append(@, [type |-> "updateNode", nodes |-> hit, state |-> state]),
                !.known = [n \in Node |->
                              IF n \in hit /\ state # NoPatch THEN state ELSE t.known[n]]]

\* A slip in update_node: an unknown id is logged as well.
UpdateNodesUnknown(t, nodes, state) ==
    IF nodes = {} THEN t
    ELSE [t EXCEPT
            !.events = Append(@, [type |-> "updateNode", nodes |-> nodes, state |-> state]),
            !.known = [n \in Node |->
                          IF n \in nodes /\ state # NoPatch THEN state ELSE t.known[n]],
            !.visible = IF state \in Settled THEN @ \ nodes ELSE @]

\* A slip in update_node: a settled node is left as it is.
UpdateNodesOnce(t, nodes, state) ==
    LET hit == {n \in nodes \intersect Known(t) : t.known[n] \notin Settled}
    IN  IF hit = {} THEN t
        ELSE [t EXCEPT
                !.events = Append(@, [type |-> "updateNode", nodes |-> hit, state |-> state]),
                !.known = [n \in Node |->
                              IF n \in hit /\ state # NoPatch THEN state ELSE t.known[n]],
                !.visible = IF state \in Settled THEN @ \ hit ELSE @]

\* update_node on each of `nodes`: unknown ids are ignored, and a node that is
\* settled is no longer a visible pending one.
UpdateNodes(t, nodes, state) ==
    LET hit == nodes \intersect Known(t)
    IN  IF hit = {} THEN t
        ELSE [t EXCEPT
                !.events = Append(@, [type |-> "updateNode", nodes |-> hit, state |-> state]),
                !.known = [n \in Node |->
                              IF n \in hit /\ state # NoPatch THEN state ELSE t.known[n]],
                !.visible = IF state \in Settled THEN @ \ hit ELSE @]

\* _append_iteration
LogIteration(t) ==
    [t EXCEPT !.events = Append(@, [type |-> "iteration", step |-> iteration + 1])]

NoSummary ==
    [events |-> 0, resolveCalls |-> 0, expandCalls |-> 0, lookaheadSteps |-> 0,
     resolved |-> 0, ambiguous |-> 0, notFound |-> 0,
     frontier |-> 0, hidden |-> 0, maxFrontier |-> 0, maxHidden |-> 0]

Larger(a, b) == IF a >= b THEN a ELSE b

\* The bound under which a call may still add to the log.
Open == Len(trace.events) < MaxEvents

Init ==
    /\ trace = NoTrace
    /\ iteration = 0
    /\ summary = NoSummary
    /\ reply = [type |-> "none"]

----
(* Which candidates are shown.                                             *)

\* The k first of S.
Top(S, rank, k) == {n \in S : Cardinality({m \in S : rank[m] < rank[n]}) < k}

\* A slip in _bounded_anchor_candidates: the selected id is shown unchecked.
VisibleAnchorsUnchecked(d) ==
    Top(d.candidates, d.rank, MaxVisiblePending) \union {d.selected}

\* _bounded_anchor_candidates: the first ones, the last giving way to the
\* selected anchor when that is a candidate further down.
VisibleAnchors(d) ==
    LET first == Top(d.candidates, d.rank, MaxVisiblePending)
    IN  IF d.selected \in d.candidates \ first
        THEN Top(d.candidates, d.rank, MaxVisiblePending - 1) \union {d.selected}
        ELSE first

\* The candidates shown whatever the limit: selected, pruned and still visible ones.
\* (A selected id that is no candidate takes a place and is not shown.)
Kept(d) == ({d.selected} \ {NoNode}) \union (d.candidates \intersect (d.pruned \union trace.visible))

\* The requested ones that follow, up to the limit.  Those still visible are not
\* left out: they are listed a second time and take a second place.
Requested(d) ==
    Top((d.candidates \intersect d.requested) \ ({d.selected} \union d.pruned), d.rank,
        MaxVisiblePending - Cardinality(Kept(d)))

\* And the best of the others, in the places left.
Ranked(d) ==
    Top(d.candidates \ (Kept(d) \union d.requested), d.rank,
        MaxVisiblePending - Cardinality(Kept(d)) - Cardinality(Requested(d)))

\* A slip in _bounded_frontier_candidates: sticky ids do not count towards the limit.
VisibleFrontierFreeSticky(d) ==
    LET kept == ({d.selected} \ {NoNode}) \union (d.candidates \intersect d.pruned)
        others == Top(d.candidates \ (kept \union trace.visible), d.rank,
                      MaxVisiblePending - Cardinality(kept))
    IN  d.candidates \intersect (kept \union trace.visible \union others)

\* _bounded_frontier_candidates, as a set
VisibleFrontier(d) == d.candidates \intersect (Kept(d) \union Requested(d) \union Ranked(d))

\* and the length of the list it returns, in which a requested id can occur twice.
ShownCount(d) ==
    Cardinality(d.candidates \intersect Kept(d)) + Cardinality(Requested(d)) + Cardinality(Ranked(d))

----
(* The methods.                                                            *)

NoteExpandCall ==
    /\ summary.expandCalls < MaxExpandCalls
    /\ summary' = [summary EXCEPT !.expandCalls = @ + 1]
    /\ reply' = [type |-> "none"]
    /\ UNCHANGED <<trace, iteration>>

\* A slip in observe_anchor_decision: the winner is added as the anchor at once.
AnchorTraceDirect(d) ==
    LET visible == VisibleAnchors(d)
        logged == LogIteration(trace)
        shown == AddNodes(logged, visible \ {d.selected}, "pending")
    IN  CASE d.status = "not_found" -> logged
          [] d.status = "ambiguous" -> shown
          [] d.status = "resolved" ->
                UpdateNodes(AddNodes(shown, {d.selected}, "anchor"), visible \ {d.selected}, "pruned")

\* The trace after an anchor decision was recorded.
AnchorTrace(d) ==
    LET visible == VisibleAnchors(d)
        logged == LogIteration(trace)
        shown == AddNodes(logged, visible, "pending")
        marked == UpdateNodes(shown, {d.selected}, "anchor")
    IN  CASE d.status = "not_found" -> logged
          [] d.status = "ambiguous" -> shown
          [] d.status = "resolved" -> UpdateNodes(marked, visible \ {d.selected}, "pruned")

ObserveAnchorDecision(d) ==
    /\ iteration' = iteration + 1
    /\ trace' = AnchorTrace(d)
    /\ summary' = [summary EXCEPT
                      !.resolveCalls = @ + 1,
                      !.notFound = @ + (IF d.status = "not_found" THEN 1 ELSE 0),
                      !.ambiguous = @ + (IF d.status = "ambiguous" THEN 1 ELSE 0),
                      !.resolved = @ + (IF d.status = "resolved" THEN 1 ELSE 0)]
    /\ reply' = [type |-> "none"]

\* A slip in observe_frontier_decision: edges are shown from sources not emitted.
FrontierTraceAllEdges(d) ==
    LET visible == VisibleFrontier(d)
        shown == AddNodes(LogIteration(trace), visible, "pending")
        linked == AddEdges(shown, {e \in Edge : e[2] \in visible /\ e[1] = d.source[e[2]]})
        scored == UpdateNodes(linked, visible, NoPatch)
        pruned == UpdateNodes(scored, d.pruned, "pruned")
    IN  [pruned EXCEPT !.visible = {n \in visible \ d.pruned : pruned.known[n] \notin Settled}]

\* The trace after a frontier decision was recorded.  An edge is shown only
\* from a source that was emitted; every shown candidate is scored; the
\* visible pending ids are those shown and not settled.
FrontierTrace(d) ==
    LET visible == VisibleFrontier(d)
        shown == AddNodes(LogIteration(trace), visible, "pending")
        linked == AddEdges(shown, {e \in Edge : /\ e[2] \in visible
                                                /\ e[1] = d.source[e[2]]
                                                /\ e[1] \in Known(shown)})
        scored == UpdateNodes(linked, visible, NoPatch)
        pruned == UpdateNodes(scored, d.pruned, "pruned")
    IN  [pruned EXCEPT !.visible = {n \in visible \ d.pruned : pruned.known[n] \notin Settled}]

ObserveFrontierDecision(d) ==
    /\ iteration' = iteration + 1
    /\ trace' = FrontierTrace(d)
    /\ LET hidden == Larger(Larger(d.hiddenCount, d.frontierCount - ShownCount(d)), 0)
       IN  summary' = [summary EXCEPT
                          !.lookaheadSteps = @ + 1,
                          !.frontier = d.frontierCount,
                          !.hidden = hidden,
                          !.maxFrontier = Larger(@, d.frontierCount),
                          !.maxHidden = Larger(@, hidden)]
    /\ reply' = [type |-> "none"]

\* The trace after an expansion was recorded; the source is emitted with its
\* state in the graph if it was not known (_ensure_node_known).
ExpansionTrace(x) ==
    LET created == AddNodes(trace, x.created, "pending")
        linked == AddEdges(created, x.edges)
        ensured == AddNodes(linked, {x.source}, x.state)
    IN  UpdateNodes(ensured, {x.source}, "resolved")

ObserveExpansion(x) ==
    /\ trace' = ExpansionTrace(x)
    /\ reply' = [type |-> "none"]
    /\ UNCHANGED <<iteration, summary>>

\* set_context and token_add only log an event.
Annotate(type) ==
    /\ trace' = [trace EXCEPT !.events = Append(@, [type |-> type])]
    /\ reply' = [type |-> "none"]
    /\ UNCHANGED <<iteration, summary>>

\* A slip in reset: the nodes of the last trace are still known.
ClearedTraceKeepsNodes == [NoTrace EXCEPT !.known = trace.known]

\* The mirror a reset leaves behind.
ClearedTrace == NoTrace

\* reset, called by clear_policy_install and reset_graph_session.
Reset ==
    /\ trace' = ClearedTrace
    /\ iteration' = 0
    /\ summary' = NoSummary
    /\ reply' = [type |-> "reset"]

\* collect refuses a blank trace id or metadata that is not portable before
\* it changes anything.
RefuseCollect ==
    /\ reply' = [type |-> "error"]
    /\ UNCHANGED <<trace, iteration, summary>>

\* A slip in collect: the iteration counter runs on after a clear.
CollectKeepsIteration(clear) ==
    LET counted == [summary EXCEPT !.events = Len(trace.events)]
    IN  /\ reply' = [type |-> "payload", events |-> trace.events, summary |-> counted]
        /\ trace' = IF clear THEN ClearedTrace ELSE trace
        /\ summary' = IF clear THEN NoSummary ELSE counted
        /\ UNCHANGED iteration

\* A slip in collect: the recorder is reset before the payload is built.
CollectResetsFirst(clear) ==
    /\ trace' = IF clear THEN ClearedTrace ELSE trace
    /\ iteration' = IF clear THEN 0 ELSE iteration
    /\ summary' = IF clear THEN NoSummary
                  ELSE [summary EXCEPT !.events = Len(trace.events)]
    /\ reply' = [type |-> "payload", events |-> trace'.events, summary |-> summary']

\* collect: the payload is built from the log, and only then the recorder reset.
Collect(clear) ==
    LET counted == [summary EXCEPT !.events = Len(trace.events)]
    IN  /\ reply' = [type |-> "payload", events |-> trace.events, summary |-> counted]
        /\ trace' = IF clear THEN ClearedTrace ELSE trace
        /\ iteration' = IF clear THEN 0 ELSE iteration
        /\ summary' = IF clear THEN NoSummary ELSE counted

Next ==
    \/ NoteExpandCall
    \/ Open /\ \E d \in AnchorDecisions : ObserveAnchorDecision(d)
    \/ Open /\ \E d \in FrontierDecisions : ObserveFrontierDecision(d)
    \/ Open /\ \E x \in Expansions : ObserveExpansion(x)
    \/ Open /\ \E type \in Annotations : Annotate(type)
    \/ Reset
    \/ RefuseCollect
    \/ \E clear \in BOOLEAN : Collect(clear)

Spec == Init /\ [][Next]_vars

----
(* Properties.                                                             *)

TraceType == [events: Seq(Entry), known: [Node -> NodeState \union {Absent}],
              edges: SUBSET Edge, visible: SUBSET Node]

Summary == [events: Nat, resolveCalls: Nat, expandCalls: Nat, lookaheadSteps: Nat,
            resolved: Nat, ambiguous: Nat, notFound: Nat,
            frontier: Nat, hidden: Nat, maxFrontier: Nat, maxHidden: Nat]

Reply == [type: {"none", "reset", "error"}]
            \union [type: {"payload"}, events: Seq(Entry), summary: Summary]

TypeOK ==
    /\ trace \in TraceType
    /\ iteration \in Nat
    /\ summary \in Summary
    /\ reply \in Reply

\* The entry gives node n a state.
Speaks(e, n) == e.type \in {"addNodes", "updateNode"} /\ n \in e.nodes /\ e.state # NoPatch

Adds(e, n) == e.type = "addNodes" /\ n \in e.nodes

LastWord(t, n) ==
    LET spoken == {i \in DOMAIN t.events : Speaks(t.events[i], n)}
    IN  IF t.known[n] = Absent THEN spoken = {}
        ELSE \E i \in spoken : /\ \A j \in spoken : j <= i
                              /\ t.events[i].state = t.known[n]

\* The state the recorder remembers for a node (_known_nodes, which decides
\* what is skipped, pruned or kept visible) is the one a reader of the log ends
\* with: that of the last event that speaks of the node, and none if none does.
KnownMatchesLog == \A n \in Node : LastWord(trace, n)

AddedBefore(t, j, n) == \E i \in 1..(j-1) : Adds(t.events[i], n)

Applicable(t, j) ==
    LET e == t.events[j]
    IN  /\ e.type = "addNodes" => \A n \in e.nodes : ~AddedBefore(t, j, n)
        /\ e.type = "updateNode" => \A n \in e.nodes : AddedBefore(t, j, n)
        /\ e.type = "addEdges" =>
              \A i \in 1..(j-1) : t.events[i].type = "addEdges" =>
                                     t.events[i].edges \intersect e.edges = {}

\* A reader can apply the log from the start: no node or edge is added twice, and
\* no node is updated before it was added, also right after a collect that clears.
LogIsReplayable == \A j \in DOMAIN trace.events : Applicable(trace, j)

\* The sticky ids of the visible frontier (_visible_pending_ids) are nodes the log
\* still shows as pending: what was pruned, anchored or resolved by any call is not.
VisibleArePending == \A n \in trace.visible : trace.known[n] = "pending"

Numbered(t, k) ==
    LET steps == {i \in DOMAIN t.events : t.events[i].type = "iteration"}
    IN  /\ {t.events[i].step : i \in steps} = 1..k
        /\ \A i, j \in steps : i < j => t.events[i].step < t.events[j].step

\* The iteration events of the log are numbered 1, 2, ... without gap or repetition
\* (one for each resolve and each lookahead step since the last clear), and every
\* resolve was counted under exactly one outcome.
CountersMatchLog ==
    /\ Numbered(trace, iteration)
    /\ iteration = summary.resolveCalls + summary.lookaheadSteps
    /\ summary.resolveCalls = summary.resolved + summary.ambiguous + summary.notFound

\* A node that was settled in the trace is never shown as pending again before
\* the trace is cleared: a candidate that comes back keeps its state.
NeverBackToPending ==
    [][\A n \in Node : trace.known[n] \in Settled =>
          trace'.known[n] \in Settled \/ trace' = NoTrace]_vars

\* No event is changed, dropped or reordered once logged: the log only grows, until
\* a reset, or a collect that delivered every event of it.
LogKept ==
    [][\/ /\ Len(trace.events) <= Len(trace'.events)
          /\ \A i \in DOMAIN trace.events : trace'.events[i] = trace.events[i]
       \/ reply'.type = "reset"
       \/ reply'.type = "payload" /\ reply'.events = trace.events]_vars
====
