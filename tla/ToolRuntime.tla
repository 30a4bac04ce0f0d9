---- MODULE ToolRuntime ----
(***************************************************************************)
(* IterativeContextToolRuntime of server.py around its parts: the order of *)
(* installs, evaluator calls, reloads, clears and collects, the histories  *)
(* of queries and expansions a client is advised from, and the labels of a *)
(* collected trace.                                                        *)
(*                                                                         *)
(* The runtime has a repository of its own, whose files change between any *)
(* two steps; a graph is the version of the files it was made from, and a  *)
(* load takes no time (GraphSession is about its inside).  A trace entry   *)
(* is an anchor decision or the steps of one traversal (ReplayRecorder and *)
(* Lookahead are about theirs).  A policy may decide anything and may raise.*)
(***************************************************************************)
EXTENDS Integers, Sequences, FiniteSets

CONSTANTS
    Query,        \* symbols a client asks for
    Node,         \* ids of nodes
    NoNode,       \* None where a node id is optional
    Policy,       \* policy ids
    NoPolicy,     \* None where a policy is optional
    Depth,        \* depths a client asks for
    LastVersion,  \* bound on the versions of the repository
    Nodes,        \* the nodes of the graph of each version
    MaxCalls      \* bound on the evaluator calls until the histories are cleared

VARIABLES
    files,      \* the version of the repository (the environment's)
    policy,     \* _installed_policy
    graph,      \* graph and signatures of the _graph_session
    histories,  \* _resolve_query_counts, _expand_call_counts, _expand_max_depth
    recorder,   \* _graph_replay: its entries and counts
    call,       \* the running call
    reply,      \* what the last call returned or raised
    asked,      \* history variable: the expansions noted since the histories were cleared
    mixed       \* history variable: a label changed after an entry of the trace was recorded

vars == <<files, policy, graph, histories, recorder, call, reply, asked, mixed>>

Version == 1..LastVersion
NotLoaded == 0

ASSUME RuntimeAssumption ==
    /\ NoNode \notin Node
    /\ NoPolicy \notin Policy
    /\ Depth \subseteq Int
    /\ LastVersion \in Nat \ {0}
    /\ Nodes \in [Version -> SUBSET Node]
    /\ MaxCalls \in Nat
    /\ IsFiniteSet(Query) /\ IsFiniteSet(Node)

----
(* Dictionaries.                                                           *)

Value(d, k, default) == IF k \in DOMAIN d THEN d[k] ELSE default

With(d, k, v) == [x \in DOMAIN d \union {k} |-> IF x = k THEN v ELSE d[x]]

NoHistories == [queries |-> <<>>, expands |-> <<>>, depths |-> <<>>]

NoRecord == [entries |-> <<>>, resolves |-> 0, expands |-> 0]

Idle == [pc |-> "idle"]

Error == [type |-> "error"]

Init ==
    /\ files = 1
    /\ policy = NoPolicy
    /\ graph = NotLoaded
    /\ histories = NoHistories
    /\ recorder = NoRecord
    /\ call = Idle
    /\ reply = [type |-> "none"]
    /\ asked = <<>>
    /\ mixed = FALSE

\* The calls a dictionary of counts has counted: the first of a key, the second, ...
Counted(d) == UNION {{k} \X (1..d[k]) : k \in DOMAIN d}

\* How many they are.
Calls(d) == Cardinality(Counted(d))

\* The bound under which an evaluator call may begin.
Open == Calls(histories.queries) + Calls(histories.expands) < MaxCalls

----
(* The histories.                                                          *)

\* _note_query_history
NoteQuery(h, q) == [h EXCEPT !.queries = With(@, q, Value(@, q, 0) + 1)]

\* A slip in _note_expand_history: the depth of the last call is kept.
NoteExpandLast(h, n, depth) ==
    [h EXCEPT !.expands = With(@, n, Value(@, n, 0) + 1), !.depths = With(@, n, depth)]

\* A slip in _note_expand_history: the depth is compared before one is known.
NoteExpandKnown(h, n, depth) ==
    [h EXCEPT !.expands = With(@, n, Value(@, n, 0) + 1),
              !.depths = IF n \in DOMAIN @ /\ depth > @[n] THEN With(@, n, depth) ELSE @]

\* _note_expand_history
NoteExpand(h, n, depth) ==
    [h EXCEPT !.expands = With(@, n, Value(@, n, 0) + 1),
              !.depths = IF n \in DOMAIN @ /\ depth <= @[n] THEN @ ELSE With(@, n, depth)]

\* The advice it returns, from the histories before the call.
Advice(h, n, depth) ==
    CASE n \in DOMAIN h.depths /\ depth <= h.depths[n] -> "do_not_repeat_same_or_shallower_expand"
      [] Value(h.expands, n, 0) = 0 -> "fresh_expand"
      [] OTHER -> "only_continue_if_new_symbol_requires_deeper_context"

\* A label changed with the policy or graph, under entries of the former one.
Relabelled(p, g) == mixed \/ (recorder.entries # <<>> /\ <<p, g>> # <<policy, graph>>)

----
(* The admin tools.                                                        *)

Edit ==
    /\ files < LastVersion
    /\ files' = files + 1
    /\ UNCHANGED <<policy, graph, histories, recorder, call, reply, asked, mixed>>

\* Any tool with arguments it refuses, an install that does not load, a verify
\* that does not agree, an evaluator tool without a policy, a load that fails.
Refuse ==
    /\ call = Idle
    /\ reply' = Error
    /\ UNCHANGED <<files, policy, graph, histories, recorder, call, asked, mixed>>

\* install_policy replaces the policy and leaves the rest.
Install(p) ==
    /\ call = Idle
    /\ policy' = p
    /\ mixed' = Relabelled(p, graph)
    /\ reply' = [type |-> "installed"]
    /\ UNCHANGED <<files, graph, histories, recorder, call, asked>>

\* A slip in clear_policy_install: the recorder is left.
ClearPolicyKeepsTrace ==
    /\ call = Idle
    /\ policy' = NoPolicy
    /\ histories' = NoHistories
    /\ asked' = <<>>
    /\ reply' = [type |-> "none"]
    /\ UNCHANGED <<files, graph, recorder, call, mixed>>

\* clear_policy_install
ClearPolicy ==
    /\ call = Idle
    /\ policy' = NoPolicy
    /\ recorder' = NoRecord
    /\ histories' = NoHistories
    /\ asked' = <<>>
    /\ mixed' = FALSE
    /\ reply' = [type |-> "none"]
    /\ UNCHANGED <<files, graph, call>>

\* A slip in reset_graph_session: only the session is reset.
ResetSessionOnly ==
    /\ call = Idle
    /\ graph' = NotLoaded
    /\ reply' = [type |-> "none"]
    /\ UNCHANGED <<files, policy, histories, recorder, call, asked, mixed>>

\* reset_graph_session; the policy stays installed.
ResetSession ==
    /\ call = Idle
    /\ graph' = NotLoaded
    /\ recorder' = NoRecord
    /\ histories' = NoHistories
    /\ asked' = <<>>
    /\ mixed' = FALSE
    /\ reply' = [type |-> "none"]
    /\ UNCHANGED <<files, policy, call>>

\* collect_graph_trace: the whole trace under the labels of the moment.
Collect(clear) ==
    /\ call = Idle
    /\ reply' = [type |-> "trace", entries |-> recorder.entries, policy |-> policy, graph |-> graph]
    /\ recorder' = IF clear THEN NoRecord ELSE recorder
    /\ mixed' = (mixed /\ ~clear)
    /\ UNCHANGED <<files, policy, graph, histories, call, asked>>

----
(* The evaluator tools.                                                    *)

\* _ensure_policy_ready_for_evaluator
MayEvaluate == call = Idle /\ policy # NoPolicy /\ Open

\* _ensure_graph_ready, then the query is noted; the decision follows in Decide
\* or DecisionFails.  resolve is resolve_and_expand with budget 0 here.
Resolve(q, budget) ==
    /\ MayEvaluate
    /\ graph' = files
    /\ mixed' = Relabelled(policy, files)
    /\ histories' = NoteQuery(histories, q)
    /\ call' = [pc |-> "decide", budget |-> budget]
    /\ reply' = [type |-> "none"]
    /\ UNCHANGED <<files, policy, recorder, asked>>

\* How a traversal can end: it raises when the graph has no such node and, after
\* some steps or none, when the policy does.
Outcomes(n, depth, g) ==
    IF depth <= 0 THEN [ok: {TRUE}, stepped: {FALSE}]
    ELSE IF n \notin Nodes[g] THEN [ok: {FALSE}, stepped: {FALSE}]
    ELSE {o \in [ok: BOOLEAN, stepped: BOOLEAN] : o.ok => o.stepped}

\* The expand call is counted by the recorder and noted in the history, then the
\* traversal runs on graph g.
ExpandNode(n, depth, g, record) ==
    \E o \in Outcomes(n, depth, g) :
        /\ recorder' = [record EXCEPT
              !.expands = @ + 1,
              !.entries = IF o.stepped THEN Append(@, [policy |-> policy, graph |-> g]) ELSE @]
        /\ histories' = NoteExpand(histories, n, depth)
        /\ asked' = Append(asked, [node |-> n, depth |-> depth])
        /\ reply' = IF o.ok
                    THEN [type |-> "graph", node |-> n, depth |-> depth, graph |-> g,
                          prior |-> Value(histories.expands, n, 0),
                          advice |-> Advice(histories, n, depth)]
                    ELSE Error

\* A slip in resolve: the candidates are taken before the graph is readied again.
DecisionNotedFormer ==
    [recorder EXCEPT !.resolves = @ + 1,
                     !.entries = Append(@, [policy |-> policy, graph |-> graph])]

\* A slip in resolve_and_expand: the expand call is counted before the decision is looked at.
DecisionNotedAsExpand ==
    [recorder EXCEPT !.resolves = @ + 1, !.expands = @ + 1,
                     !.entries = Append(@, [policy |-> policy, graph |-> files])]

\* observe_anchor_decision, of a decision on the graph just readied
DecisionNoted ==
    [recorder EXCEPT !.resolves = @ + 1,
                     !.entries = Append(@, [policy |-> policy, graph |-> files])]

\* _resolve_anchor_decision readies the graph again, collects the candidates and
\* asks the policy; the decision is recorded.  An anchor, with budget left, is expanded.
Decide(selected) ==
    /\ call.pc = "decide"
    /\ graph' = files
    /\ mixed' = Relabelled(policy, files)
    /\ call' = Idle
    /\ IF selected = NoNode \/ call.budget <= 0
       THEN /\ recorder' = DecisionNoted
            /\ reply' = [type |-> "anchor", selected |-> selected, graph |-> files]
            /\ UNCHANGED <<histories, asked>>
       ELSE ExpandNode(selected, call.budget, files, DecisionNoted)
    /\ UNCHANGED <<files, policy>>

\* The second load fails, or the policy raises or decides nonsense.
DecisionFails ==
    /\ call.pc = "decide"
    /\ graph' \in {graph, files}
    /\ mixed' = Relabelled(policy, graph')
    /\ call' = Idle
    /\ reply' = Error
    /\ UNCHANGED <<files, policy, histories, recorder, asked>>

\* expand
Expand(n, depth) ==
    /\ MayEvaluate
    /\ graph' = files
    /\ mixed' = Relabelled(policy, files)
    /\ ExpandNode(n, depth, files, recorder)
    /\ UNCHANGED <<files, policy, call>>

Next ==
    \/ Edit
    \/ Refuse
    \/ \E p \in Policy : Install(p)
    \/ ClearPolicy
    \/ ResetSession
    \/ \E clear \in BOOLEAN : Collect(clear)
    \/ \E q \in Query, budget \in Depth \intersect Nat : Resolve(q, budget)
    \/ \E selected \in Node \union {NoNode} : Decide(selected)
    \/ DecisionFails
    \/ \E n \in Node, depth \in Depth : Expand(n, depth)

Spec == Init /\ [][Next]_vars

----
(* Properties.                                                             *)

\* A dictionary from some of K to members of V.
IsDict(d, K, V) == DOMAIN d \subseteq K /\ d \in [DOMAIN d -> V]

Trace == Seq([policy: Policy, graph: Version])

Reply ==
    [type: {"none", "error", "installed"}]
    \union [type: {"trace"}, entries: Trace, policy: Policy \union {NoPolicy},
            graph: Version \union {NotLoaded}]
    \union [type: {"anchor"}, selected: Node \union {NoNode}, graph: Version]
    \union [type: {"graph"}, node: Node, depth: Depth, graph: Version, prior: Nat,
            advice: {"do_not_repeat_same_or_shallower_expand", "fresh_expand",
                     "only_continue_if_new_symbol_requires_deeper_context"}]

\* Every dictionary keeps the keys and values of its kind; a node has a depth
\* exactly when it has been counted.
TypeOK ==
    /\ files \in Version
    /\ policy \in Policy \union {NoPolicy}
    /\ graph \in 0..files
    /\ DOMAIN histories = {"queries", "expands", "depths"}
    /\ IsDict(histories.queries, Query, Nat \ {0})
    /\ IsDict(histories.expands, Node, Nat \ {0})
    /\ IsDict(histories.depths, Node, Depth)
    /\ DOMAIN histories.depths = DOMAIN histories.expands
    /\ recorder \in [entries: Trace, resolves: Nat, expands: Nat]
    /\ call \in {Idle} \union [pc: {"decide"}, budget: Depth \intersect Nat]
    /\ reply \in Reply
    /\ asked \in Seq([node: Node, depth: Depth])
    /\ mixed \in BOOLEAN

\* While no policy is installed nothing is recorded or remembered: evaluator tools
\* are refused without one, and dropping it drops what was recorded under it.
NothingWithoutPolicy ==
    policy = NoPolicy => recorder = NoRecord /\ histories = NoHistories /\ call = Idle

\* The calls a collected trace counts are calls the histories have counted: the
\* trace, which a collect may clear, is never ahead of the histories, whichever calls
\* raised half-way, and no clear drops the histories under a trace.
RecorderWithinHistories ==
    /\ recorder.resolves <= Calls(histories.queries)
    /\ recorder.expands <= Calls(histories.expands)

\* A client is told not to repeat an expansion exactly when one of that node, to the
\* same or a greater depth, was asked for since the last clear (also one that raised,
\* on a former graph or for another policy), and is told how many there were.
AdviceFollowsCalls ==
    reply.type = "graph" =>
        LET before == {i \in 1..(Len(asked) - 1) : asked[i].node = reply.node}
        IN  /\ reply.prior = Cardinality(before)
            /\ reply.advice = "do_not_repeat_same_or_shallower_expand" <=>
                  \E i \in before : asked[i].depth >= reply.depth
            /\ reply.advice = "fresh_expand" <=> before = {}

\* collect labels the whole trace with the policy and graph of its moment.  A client
\* that collects or clears before every install, and whose repository was not reloaded
\* since, gets labels that are right for every entry.
LabelsAreOfTrace ==
    ~mixed => \A i \in DOMAIN recorder.entries :
                  recorder.entries[i] = [policy |-> policy, graph |-> graph]

\* The graph a client is shown with a decision is the one the policy decided on and the
\* trace recorded, although files change between the two times resolve readies it.
AnswerIsOfDecidedGraph ==
    reply.type \in {"anchor", "graph"} =>
        /\ reply.graph = graph
        /\ reply.type = "anchor" =>
              recorder.entries # <<>> /\ recorder.entries[Len(recorder.entries)].graph = graph
====
