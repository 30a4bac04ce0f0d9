---- MODULE ReplayRecorderProofs ----
(***************************************************************************)
(* Proofs about the recorder, for any set of nodes, any limit and any      *)
(* decisions of the types of ReplayRecorder.                               *)
(*                                                                         *)
(* The methods are built from AddNodes, AddEdges, UpdateNodes and the      *)
(* entries logged directly.  A lemma for each says that it keeps a         *)
(* well-formed trace well formed; the theorems combine them, one step per  *)
(* action.                                                                 *)
(***************************************************************************)
EXTENDS ReplayRecorder, FiniteSetTheorems, TLAPS

(* Types.                                                                  *)

LEMMA AddNodesType ==
    ASSUME NEW t \in TraceType, NEW S \in SUBSET Node, NEW st \in NodeState
    PROVE  AddNodes(t, S, st) \in TraceType
<1> DEFINE fresh == S \ Known(t)
<1> DEFINE e == [type |-> "addNodes", nodes |-> fresh, state |-> st]
<1>1. e \in Entry
  BY DEF Entry, NodesEntry
<1>2. Append(t.events, e) \in Seq(Entry)
  BY <1>1 DEF TraceType
<1>3. [n \in Node |-> IF n \in fresh THEN st ELSE t.known[n]] \in [Node -> NodeState \union {Absent}]
  BY DEF TraceType
<1> QED
  BY <1>2, <1>3 DEF AddNodes, TraceType

LEMMA AddEdgesType ==
    ASSUME NEW t \in TraceType, NEW S \in SUBSET Edge
    PROVE  AddEdges(t, S) \in TraceType
<1> DEFINE e == [type |-> "addEdges", edges |-> S \ t.edges]
<1>1. e \in Entry
  BY DEF Entry, EdgesEntry
<1>2. Append(t.events, e) \in Seq(Entry)
  BY <1>1 DEF TraceType
<1> QED
  BY <1>2 DEF AddEdges, TraceType

LEMMA UpdateNodesType ==
    ASSUME NEW t \in TraceType, NEW S, NEW st \in NodeState \union {NoPatch}
    PROVE  UpdateNodes(t, S, st) \in TraceType
<1> DEFINE hit == S \intersect Known(t)
<1> DEFINE e == [type |-> "updateNode", nodes |-> hit, state |-> st]
<1>1. e \in Entry
  BY DEF Entry, PatchEntry, Known
<1>2. Append(t.events, e) \in Seq(Entry)
  BY <1>1 DEF TraceType
<1>3. [n \in Node |-> IF n \in hit /\ st # NoPatch THEN st ELSE t.known[n]]
        \in [Node -> NodeState \union {Absent}]
  BY DEF TraceType
<1>4. (IF st \in Settled THEN t.visible \ hit ELSE t.visible) \in SUBSET Node
  BY DEF TraceType
<1> QED
  BY <1>2, <1>3, <1>4 DEF UpdateNodes, TraceType

LEMMA LogIterationType ==
    ASSUME NEW t \in TraceType, iteration \in Nat
    PROVE  LogIteration(t) \in TraceType
<1>1. [type |-> "iteration", step |-> iteration + 1] \in Entry
  BY DEF Entry, IterationEntry
<1>2. Append(t.events, [type |-> "iteration", step |-> iteration + 1]) \in Seq(Entry)
  BY <1>1 DEF TraceType
<1> QED
  BY <1>2 DEF LogIteration, TraceType

\* Only candidates of the decision are shown.
LEMMA VisibleAnchorsAreCandidates ==
    ASSUME NEW d \in AnchorDecision
    PROVE  VisibleAnchors(d) \in SUBSET d.candidates
  BY DEF VisibleAnchors, Top

LEMMA VisibleFrontierAreCandidates ==
    ASSUME NEW d \in FrontierDecision
    PROVE  VisibleFrontier(d) \in SUBSET d.candidates
  BY DEF VisibleFrontier

LEMMA ShownCountType ==
    ASSUME NEW d \in FrontierDecision
    PROVE  ShownCount(d) \in Nat
<1>1. IsFiniteSet(d.candidates)
  BY DEF FrontierDecision
<1>2. /\ d.candidates \intersect Kept(d) \in SUBSET d.candidates
      /\ Requested(d) \in SUBSET d.candidates
      /\ Ranked(d) \in SUBSET d.candidates
  BY DEF Requested, Ranked, Top
<1>3. /\ Cardinality(d.candidates \intersect Kept(d)) \in Nat
      /\ Cardinality(Requested(d)) \in Nat
      /\ Cardinality(Ranked(d)) \in Nat
  BY <1>1, <1>2, FS_Subset, FS_CardinalityType
<1> QED
  BY <1>3 DEF ShownCount

LEMMA AnchorTraceType ==
    ASSUME TypeOK, NEW d \in AnchorDecision
    PROVE  AnchorTrace(d) \in TraceType
<1> DEFINE visible == VisibleAnchors(d)
           logged == LogIteration(trace)
           shown == AddNodes(logged, visible, "pending")
           marked == UpdateNodes(shown, {d.selected}, "anchor")
<1>1. visible \in SUBSET Node
  BY VisibleAnchorsAreCandidates DEF AnchorDecision
<1>2. logged \in TraceType
  BY LogIterationType DEF TypeOK
<1>3. shown \in TraceType
  BY <1>1, <1>2, AddNodesType DEF NodeState
<1>4. marked \in TraceType
  BY <1>3, UpdateNodesType DEF NodeState, Settled
<1>5. UpdateNodes(marked, visible \ {d.selected}, "pruned") \in TraceType
  BY <1>4, UpdateNodesType DEF NodeState, Settled
<1>6. d.status \in {"resolved", "ambiguous", "not_found"}
  BY DEF AnchorDecision
<1> QED
  BY <1>2, <1>3, <1>5, <1>6 DEF AnchorTrace

LEMMA FrontierTraceType ==
    ASSUME TypeOK, NEW d \in FrontierDecision
    PROVE  FrontierTrace(d) \in TraceType
<1> DEFINE visible == VisibleFrontier(d)
           shown == AddNodes(LogIteration(trace), visible, "pending")
           edges == {e \in Edge : /\ e[2] \in visible
                                  /\ e[1] = d.source[e[2]]
                                  /\ e[1] \in Known(shown)}
           linked == AddEdges(shown, edges)
           scored == UpdateNodes(linked, visible, NoPatch)
           pruned == UpdateNodes(scored, d.pruned, "pruned")
<1>1. visible \in SUBSET Node
  BY VisibleFrontierAreCandidates DEF FrontierDecision
<1>2. shown \in TraceType
  BY <1>1, LogIterationType, AddNodesType DEF TypeOK, NodeState
<1>3. linked \in TraceType
  BY <1>2, AddEdgesType
<1>4. scored \in TraceType
  BY <1>3, UpdateNodesType
<1>5. pruned \in TraceType
  BY <1>4, UpdateNodesType DEF NodeState, Settled
<1> HIDE DEF pruned
<1>6. [pruned EXCEPT !.visible = {n \in visible \ d.pruned : pruned.known[n] \notin Settled}]
        \in TraceType
  BY <1>1, <1>5 DEF TraceType
<1> QED
  BY <1>6 DEF FrontierTrace, pruned

LEMMA ExpansionTraceType ==
    ASSUME TypeOK, NEW x \in Expansion
    PROVE  ExpansionTrace(x) \in TraceType
<1> DEFINE created == AddNodes(trace, x.created, "pending")
           linked == AddEdges(created, x.edges)
           ensured == AddNodes(linked, {x.source}, x.state)
<1>1. created \in TraceType
  BY AddNodesType DEF TypeOK, Expansion, NodeState
<1>2. linked \in TraceType
  BY <1>1, AddEdgesType DEF Expansion
<1>3. ensured \in TraceType
  BY <1>2, AddNodesType DEF Expansion
<1>4. UpdateNodes(ensured, {x.source}, "resolved") \in TraceType
  BY <1>3, UpdateNodesType DEF NodeState, Settled
<1> QED
  BY <1>4 DEF ExpansionTrace

LEMMA NoTraceType == NoTrace \in TraceType
  BY DEF NoTrace, TraceType

LEMMA NoSummaryType == NoSummary \in Summary
  BY DEF NoSummary, Summary

LEMMA InitTypeOK == Init => TypeOK
  BY NoTraceType, NoSummaryType DEF Init, TypeOK, Reply

\* A frontier decision that is reported keeps the types.
LEMMA FrontierDecisionType ==
    ASSUME TypeOK, NEW d \in FrontierDecision, ObserveFrontierDecision(d)
    PROVE  TypeOK'
<1> DEFINE shown == ShownCount(d)
           hidden == Larger(Larger(d.hiddenCount, d.frontierCount - shown), 0)
<1>1. trace' \in TraceType
  BY FrontierTraceType DEF ObserveFrontierDecision
<1>2. d.frontierCount \in Nat /\ d.hiddenCount \in Nat /\ shown \in Nat
  BY ShownCountType DEF FrontierDecision
<1>3. hidden \in Nat
  BY <1>2 DEF Larger
<1>4. /\ summary.lookaheadSteps + 1 \in Nat
      /\ Larger(summary.maxFrontier, d.frontierCount) \in Nat
      /\ Larger(summary.maxHidden, hidden) \in Nat
  BY <1>2, <1>3 DEF TypeOK, Summary, Larger
<1> HIDE DEF hidden
<1>5. [summary EXCEPT !.lookaheadSteps = @ + 1, !.frontier = d.frontierCount, !.hidden = hidden,
                      !.maxFrontier = Larger(@, d.frontierCount),
                      !.maxHidden = Larger(@, hidden)] \in Summary
  BY <1>2, <1>3, <1>4 DEF TypeOK, Summary
<1>6. summary' \in Summary
  BY <1>5 DEF ObserveFrontierDecision, hidden
<1> QED
  BY <1>1, <1>6 DEF ObserveFrontierDecision, TypeOK, Reply

LEMMA ExpansionType ==
    ASSUME TypeOK, NEW x \in Expansion, ObserveExpansion(x)
    PROVE  TypeOK'
  BY ExpansionTraceType DEF ObserveExpansion, TypeOK, Reply

LEMMA NextTypeOK == TypeOK /\ [Next]_vars => TypeOK'
<1> SUFFICES ASSUME TypeOK, [Next]_vars
             PROVE  TypeOK'
  OBVIOUS
<1> USE ConstantsAssumption
<1>1. CASE NoteExpandCall
  <2>1. summary.expandCalls + 1 \in Nat
    BY DEF TypeOK, Summary
  <2>2. summary' \in Summary
    BY <1>1, <2>1 DEF NoteExpandCall, TypeOK, Summary
  <2> QED
    BY <1>1, <2>2 DEF NoteExpandCall, TypeOK, Reply
<1>2. ASSUME NEW d \in AnchorDecisions, ObserveAnchorDecision(d)
      PROVE  TypeOK'
  <2>1. trace' \in TraceType
    BY <1>2, AnchorTraceType DEF ObserveAnchorDecision
  <2> DEFINE one(status) == IF d.status = status THEN 1 ELSE 0
  <2>2. /\ summary.resolveCalls + 1 \in Nat
        /\ summary.notFound + one("not_found") \in Nat
        /\ summary.ambiguous + one("ambiguous") \in Nat
        /\ summary.resolved + one("resolved") \in Nat
    BY DEF TypeOK, Summary
  <2>3. summary' \in Summary
    BY <1>2, <2>2 DEF ObserveAnchorDecision, TypeOK, Summary
  <2> QED
    BY <1>2, <2>1, <2>3 DEF ObserveAnchorDecision, TypeOK, Reply
<1>3. ASSUME NEW d \in FrontierDecisions, ObserveFrontierDecision(d)
      PROVE  TypeOK'
  BY <1>3, FrontierDecisionType
<1>4. ASSUME NEW x \in Expansions, ObserveExpansion(x)
      PROVE  TypeOK'
  BY <1>4, ExpansionType
<1>5. ASSUME NEW type \in Annotations, Annotate(type)
      PROVE  TypeOK'
  <2>1. [type |-> type] \in Entry
    BY <1>5 DEF Entry, NoteEntry
  <2>2. Append(trace.events, [type |-> type]) \in Seq(Entry)
    BY <2>1 DEF TypeOK, TraceType
  <2>3. trace' \in TraceType
    BY <1>5, <2>2 DEF Annotate, TypeOK, TraceType
  <2> QED
    BY <1>5, <2>3 DEF Annotate, TypeOK, Reply
<1>6. CASE Reset
  BY <1>6, NoTraceType, NoSummaryType DEF Reset, ClearedTrace, TypeOK, Reply
<1>7. CASE RefuseCollect
  BY <1>7 DEF RefuseCollect, TypeOK, Reply
<1>8. ASSUME NEW clear \in BOOLEAN, Collect(clear)
      PROVE  TypeOK'
  <2> DEFINE counted == [summary EXCEPT !.events = Len(trace.events)]
  <2>0. Len(trace.events) \in Nat
    BY DEF TypeOK, TraceType
  <2>1. counted \in Summary
    BY <2>0 DEF TypeOK, Summary
  <2>2. [type |-> "payload", events |-> trace.events, summary |-> counted] \in Reply
    BY <2>1 DEF Reply, TypeOK, TraceType
  <2> HIDE DEF counted
  <2> QED
    BY <1>8, <2>1, <2>2, NoTraceType, NoSummaryType
    DEF Collect, ClearedTrace, TypeOK, counted
<1>9. CASE UNCHANGED vars
  BY <1>9 DEF vars, TypeOK
<1> QED
  BY <1>1, <1>2, <1>3, <1>4, <1>5, <1>6, <1>7, <1>8, <1>9 DEF Next

\* The recorder's state keeps its types under any calls: in particular no counter
\* turns negative, the hidden count included, and only known kinds of entries are logged.
THEOREM TypeCorrect == Spec => []TypeOK
  BY InitTypeOK, NextTypeOK, PTL DEF Spec

----
(* The log and the recorder's mirror of it.                                *)
(*                                                                         *)
(* KnownMatchesLog, LogIsReplayable and VisibleArePending are not          *)
(* inductive one by one: that a node is not added twice follows from what  *)
(* the mirror knows only if the mirror holds exactly what the log added.   *)
(* Consistent is their conjunction with these two facts.                   *)

KnownIsAdded(t) ==
    \A n \in Node : n \in Known(t) <=> \E i \in DOMAIN t.events : Adds(t.events[i], n)

EdgesAreAdded(t) ==
    \A x \in Edge : x \in t.edges <=>
        \E i \in DOMAIN t.events : t.events[i].type = "addEdges" /\ x \in t.events[i].edges

Consistent(t) ==
    /\ t \in TraceType
    /\ KnownIsAdded(t)
    /\ EdgesAreAdded(t)
    /\ \A n \in Node : LastWord(t, n)
    /\ \A j \in DOMAIN t.events : Applicable(t, j)
    /\ \A n \in t.visible : t.known[n] = "pending"

\* u is t with one more entry, which the mirror has followed.
Follows(t, u, e) ==
    /\ u \in TraceType
    /\ e \in Entry
    /\ u.events = Append(t.events, e)
    /\ \A n \in Node : u.known[n] = IF Speaks(e, n) THEN e.state ELSE t.known[n]
    /\ e.type = "addNodes" => e.nodes \intersect Known(t) = {}
    /\ e.type = "updateNode" => e.nodes \subseteq Known(t)
    /\ e.type = "addEdges" => e.edges \intersect t.edges = {}
    /\ u.edges = t.edges \union (IF e.type = "addEdges" THEN e.edges ELSE {})
    /\ \A n \in u.visible : u.known[n] = "pending"

LEMMA FollowingKeepsConsistent ==
    ASSUME NEW t, NEW u, NEW e, Consistent(t), Follows(t, u, e)
    PROVE  Consistent(u)
<1> DEFINE len == Len(t.events)
<1>1. /\ t.events \in Seq(Entry) /\ len \in Nat
      /\ DOMAIN t.events = 1..len
      /\ DOMAIN u.events = 1..(len + 1)
      /\ \A i \in 1..len : u.events[i] = t.events[i]
      /\ u.events[len + 1] = e
  BY DEF Consistent, TraceType, Follows
<1>2. e.type \in {"addNodes", "updateNode", "addEdges", "iteration", "setContext", "tokenAdd"}
  BY DEF Follows, Entry, NodesEntry, PatchEntry, EdgesEntry, IterationEntry, NoteEntry
<1>3. /\ e.type = "addNodes" => e.state \in NodeState /\ e.nodes \subseteq Node
      /\ e.type = "updateNode" => e.state \in NodeState \union {NoPatch} /\ e.nodes \subseteq Node
      /\ e.type = "addEdges" => e.edges \subseteq Edge
  BY DEF Follows, Entry, NodesEntry, PatchEntry, EdgesEntry, IterationEntry, NoteEntry
<1>4. \A n \in Node : Adds(e, n) => Speaks(e, n)
  BY <1>3 DEF Adds, Speaks, NodeState, Settled, NoPatch
<1>5. \A n \in Node : Speaks(e, n) => e.state # Absent
  BY <1>3 DEF Speaks, NodeState, Settled, NoPatch, Absent
<1>6. \A n \in Node : n \in Known(u) <=> n \in Known(t) \/ Adds(e, n)
  <2> SUFFICES ASSUME NEW n \in Node
               PROVE  n \in Known(u) <=> n \in Known(t) \/ Adds(e, n)
    OBVIOUS
  <2>1. CASE Speaks(e, n)
    <3>1. n \in Known(u)
      BY <2>1, <1>5 DEF Follows, Known
    <3>2. n \in Known(t) \/ Adds(e, n)
      BY <2>1 DEF Speaks, Adds, Follows
    <3> QED
      BY <3>1, <3>2
  <2>2. CASE ~Speaks(e, n)
    BY <2>2, <1>4 DEF Follows, Known
  <2> QED
    BY <2>1, <2>2
<1>7. KnownIsAdded(u)
  <2> SUFFICES ASSUME NEW n \in Node
               PROVE  n \in Known(u) <=> \E i \in DOMAIN u.events : Adds(u.events[i], n)
    BY DEF KnownIsAdded
  <2>1. n \in Known(t) <=> \E i \in 1..len : Adds(t.events[i], n)
    BY <1>1 DEF Consistent, KnownIsAdded
  <2>2. (\E i \in DOMAIN u.events : Adds(u.events[i], n))
           <=> (\E i \in 1..len : Adds(t.events[i], n)) \/ Adds(e, n)
    BY <1>1
  <2> QED
    BY <1>6, <2>1, <2>2
<1>8. EdgesAreAdded(u)
  <2> SUFFICES ASSUME NEW x \in Edge
               PROVE  x \in u.edges <=>
                        \E i \in DOMAIN u.events : u.events[i].type = "addEdges" /\ x \in u.events[i].edges
    BY DEF EdgesAreAdded
  <2>1. x \in t.edges <=> \E i \in 1..len : t.events[i].type = "addEdges" /\ x \in t.events[i].edges
    BY <1>1 DEF Consistent, EdgesAreAdded
  <2>2. (\E i \in DOMAIN u.events : u.events[i].type = "addEdges" /\ x \in u.events[i].edges)
           <=> \/ \E i \in 1..len : t.events[i].type = "addEdges" /\ x \in t.events[i].edges
               \/ e.type = "addEdges" /\ x \in e.edges
    <3> DEFINE Holds(y) == y.type = "addEdges" /\ x \in y.edges
    <3>1. (\E i \in DOMAIN u.events : Holds(u.events[i]))
             <=> (\E i \in 1..len : Holds(t.events[i])) \/ Holds(e)
      <4> HIDE DEF Holds
      <4> QED
        BY <1>1
    <3> QED
      BY <3>1
  <2>3. u.edges = t.edges \union (IF e.type = "addEdges" THEN e.edges ELSE {})
    BY DEF Follows
  <2>4. x \in u.edges <=> x \in t.edges \/ (e.type = "addEdges" /\ x \in e.edges)
    BY <2>3
  <2> QED
    BY <2>1, <2>2, <2>4 
<1>9. \A n \in Node : LastWord(u, n)
  <2> SUFFICES ASSUME NEW n \in Node
               PROVE  LastWord(u, n)
    OBVIOUS
  <2>1. LastWord(t, n)
    BY DEF Consistent
  <2>2. u.known[n] = IF Speaks(e, n) THEN e.state ELSE t.known[n]
    BY DEF Follows
  <2>3. CASE Speaks(e, n)
    BY <2>2, <2>3, <1>1, <1>5 DEF LastWord
  <2>4. CASE ~Speaks(e, n)
    <3>1. {i \in DOMAIN u.events : Speaks(u.events[i], n)}
            = {i \in DOMAIN t.events : Speaks(t.events[i], n)}
      BY <2>4, <1>1
    <3> QED
      BY <2>1, <2>2, <2>4, <3>1, <1>1 DEF LastWord
  <2> QED
    BY <2>3, <2>4
<1>10. \A j \in DOMAIN u.events : Applicable(u, j)
  <2>1. \A j \in 1..(len + 1) : \A n : AddedBefore(u, j, n) <=> AddedBefore(t, j, n)
    BY <1>1 DEF AddedBefore
  <2>2. ASSUME NEW j \in 1..len
        PROVE  Applicable(u, j)
    <3>1. Applicable(t, j)
      BY <1>1 DEF Consistent
    <3>2. \A i \in 1..j : u.events[i] = t.events[i]
      BY <1>1
    <3> QED
      BY <2>1, <3>1, <3>2, <1>1 DEF Applicable
  <2>3. Applicable(u, len + 1)
    <3>1. \A n \in Node : AddedBefore(u, len + 1, n) <=> n \in Known(t)
      BY <2>1, <1>1 DEF AddedBefore, Consistent, KnownIsAdded
    <3>2. \A i \in 1..len : t.events[i].type = "addEdges" => t.events[i].edges \subseteq t.edges
      <4> SUFFICES ASSUME NEW i \in 1..len, t.events[i].type = "addEdges"
                   PROVE  t.events[i].edges \subseteq t.edges
        OBVIOUS
      <4>1. t.events[i].edges \subseteq Edge
        BY <1>1 DEF Entry, NodesEntry, PatchEntry, EdgesEntry, IterationEntry, NoteEntry
      <4> QED
        BY <4>1, <1>1 DEF Consistent, EdgesAreAdded
    <3>3. e.type = "addNodes" => \A n \in e.nodes : ~AddedBefore(u, len + 1, n)
      BY <3>1, <1>3 DEF Follows
    <3>4. e.type = "updateNode" => \A n \in e.nodes : AddedBefore(u, len + 1, n)
      BY <3>1, <1>3 DEF Follows
    <3>5. e.type = "addEdges" => \A i \in 1..len :
              t.events[i].type = "addEdges" => t.events[i].edges \intersect e.edges = {}
      BY <3>2 DEF Follows
    <3> QED
      BY <3>3, <3>4, <3>5, <1>1 DEF Applicable
  <2> QED
    BY <2>2, <2>3, <1>1
<1> QED
  BY <1>7, <1>8, <1>9, <1>10 DEF Consistent, Follows

LEMMA AddNodesFollows ==
    ASSUME NEW t, Consistent(t), NEW S \in SUBSET Node, NEW st \in NodeState, S \ Known(t) # {}
    PROVE  Follows(t, AddNodes(t, S, st),
                   [type |-> "addNodes", nodes |-> S \ Known(t), state |-> st])
<1> DEFINE u == AddNodes(t, S, st)
           fresh == S \ Known(t)
           e == [type |-> "addNodes", nodes |-> fresh, state |-> st]
<1>1. t \in TraceType /\ u \in TraceType
  BY AddNodesType DEF Consistent
<1>2. /\ u.events = Append(t.events, e)
      /\ u.known = [n \in Node |-> IF n \in fresh THEN st ELSE t.known[n]]
      /\ u.edges = t.edges
      /\ u.visible = t.visible
  BY <1>1 DEF AddNodes, TraceType
<1>3. e \in Entry
  BY DEF Entry, NodesEntry
<1>4. \A n \in Node : Speaks(e, n) <=> n \in fresh
  BY DEF Speaks, NodeState, Settled, NoPatch
<1>5. \A n \in u.visible : u.known[n] = "pending"
  <2>1. \A n \in t.visible : n \in Known(t) /\ t.known[n] = "pending"
    BY <1>1 DEF Consistent, TraceType, Known, Absent
  <2> QED
    BY <1>2, <2>1, <1>1 DEF TraceType
<1>6. /\ e.type = "addNodes"
      /\ e.nodes \intersect Known(t) = {}
      /\ u.edges = t.edges \union (IF e.type = "addEdges" THEN e.edges ELSE {})
  BY <1>2
<1>7. \A n \in Node : u.known[n] = IF Speaks(e, n) THEN e.state ELSE t.known[n]
  BY <1>2, <1>4
<1>8. Follows(t, u, e)
  <2> HIDE DEF u, e
  <2> QED
    BY <1>1, <1>2, <1>3, <1>5, <1>6, <1>7 DEF Follows
<1> QED
  BY <1>8

LEMMA AddNodesConsistent ==
    ASSUME NEW t, Consistent(t), NEW S \in SUBSET Node, NEW st \in NodeState
    PROVE  /\ Consistent(AddNodes(t, S, st))
           /\ Known(AddNodes(t, S, st)) = Known(t) \union S
<1>1. CASE S \ Known(t) = {}
  BY <1>1 DEF AddNodes, Known
<1>2. CASE S \ Known(t) # {}
  <2>1. AddNodes(t, S, st).known = [n \in Node |-> IF n \in S \ Known(t) THEN st ELSE t.known[n]]
    BY <1>2 DEF AddNodes, TraceType, Consistent
  <2>2. Known(AddNodes(t, S, st)) = Known(t) \union S
    BY <2>1 DEF Known, NodeState, Settled, Absent
  <2> DEFINE u == AddNodes(t, S, st)
             e == [type |-> "addNodes", nodes |-> S \ Known(t), state |-> st]
  <2>3. Follows(t, u, e)
    BY <1>2, AddNodesFollows
  <2>4. Consistent(u)
    <3> HIDE DEF u, e
    <3> QED
      BY <2>3, FollowingKeepsConsistent
  <2> QED
    BY <2>2, <2>4
<1> QED
  BY <1>1, <1>2

LEMMA AddEdgesFollows ==
    ASSUME NEW t, Consistent(t), NEW S \in SUBSET Edge, S \ t.edges # {}
    PROVE  Follows(t, AddEdges(t, S), [type |-> "addEdges", edges |-> S \ t.edges])
<1> DEFINE u == AddEdges(t, S)
           fresh == S \ t.edges
           e == [type |-> "addEdges", edges |-> fresh]
<1>1. t \in TraceType /\ u \in TraceType
  BY AddEdgesType DEF Consistent
<1>2. /\ u.events = Append(t.events, e)
      /\ u.known = t.known
      /\ u.edges = t.edges \union fresh
      /\ u.visible = t.visible
  BY <1>1 DEF AddEdges, TraceType
<1>3. e \in Entry
  BY DEF Entry, EdgesEntry
<1>4. \A n : ~Speaks(e, n)
  BY DEF Speaks
<1>5. \A n \in u.visible : u.known[n] = "pending"
  BY <1>2 DEF Consistent
<1>6. /\ e.type = "addEdges"
      /\ e.edges \intersect t.edges = {}
      /\ u.edges = t.edges \union (IF e.type = "addEdges" THEN e.edges ELSE {})
  BY <1>2
<1>7. Follows(t, u, e)
  <2> HIDE DEF u, e
  <2> QED
    BY <1>1, <1>2, <1>3, <1>4, <1>5, <1>6 DEF Follows
<1> QED
  BY <1>7

LEMMA AddEdgesConsistent ==
    ASSUME NEW t, Consistent(t), NEW S \in SUBSET Edge
    PROVE  /\ Consistent(AddEdges(t, S))
           /\ AddEdges(t, S).known = t.known
<1>1. CASE S \ t.edges = {}
  BY <1>1 DEF AddEdges
<1>2. CASE S \ t.edges # {}
  <2>1. AddEdges(t, S).known = t.known
    BY <1>2 DEF AddEdges, TraceType, Consistent
  <2> DEFINE u == AddEdges(t, S)
             e == [type |-> "addEdges", edges |-> S \ t.edges]
  <2>2. Follows(t, u, e)
    BY <1>2, AddEdgesFollows
  <2>3. Consistent(u)
    <3> HIDE DEF u, e
    <3> QED
      BY <2>2, FollowingKeepsConsistent
  <2> QED
    BY <2>1, <2>3
<1> QED
  BY <1>1, <1>2

LEMMA UpdateNodesFollows ==
    ASSUME NEW t, Consistent(t), NEW S, NEW st \in NodeState \union {NoPatch},
           st # "pending", S \intersect Known(t) # {}
    PROVE  Follows(t, UpdateNodes(t, S, st),
                   [type |-> "updateNode", nodes |-> S \intersect Known(t), state |-> st])
<1> DEFINE u == UpdateNodes(t, S, st)
           hit == S \intersect Known(t)
           e == [type |-> "updateNode", nodes |-> hit, state |-> st]
<1>1. t \in TraceType /\ u \in TraceType
  BY UpdateNodesType DEF Consistent
<1>2. /\ u.events = Append(t.events, e)
      /\ u.known = [n \in Node |-> IF n \in hit /\ st # NoPatch THEN st ELSE t.known[n]]
      /\ u.edges = t.edges
      /\ u.visible = IF st \in Settled THEN t.visible \ hit ELSE t.visible
  BY <1>1 DEF UpdateNodes, TraceType
<1>3. e \in Entry
  BY DEF Entry, PatchEntry, Known
<1>4. \A n \in Node : Speaks(e, n) <=> n \in hit /\ st # NoPatch
  BY DEF Speaks
<1>5. \A n \in u.visible : u.known[n] = "pending"
  <2>1. \A n \in t.visible : n \in Node /\ t.known[n] = "pending"
    BY <1>1 DEF Consistent, TraceType
  <2>2. st = NoPatch \/ st \in Settled
    BY DEF NodeState
  <2> QED
    BY <1>2, <2>1, <2>2
<1>6. /\ e.type = "updateNode"
      /\ e.nodes \subseteq Known(t)
      /\ u.edges = t.edges \union (IF e.type = "addEdges" THEN e.edges ELSE {})
  BY <1>2
<1>7. \A n \in Node : u.known[n] = IF Speaks(e, n) THEN e.state ELSE t.known[n]
  BY <1>2, <1>4
<1>8. Follows(t, u, e)
  <2> HIDE DEF u, e
  <2> QED
    BY <1>1, <1>2, <1>3, <1>5, <1>6, <1>7 DEF Follows
<1> QED
  BY <1>8

LEMMA UpdateNodesConsistent ==
    ASSUME NEW t, Consistent(t), NEW S, NEW st \in NodeState \union {NoPatch},
           st # "pending"
    PROVE  /\ Consistent(UpdateNodes(t, S, st))
           /\ Known(UpdateNodes(t, S, st)) = Known(t)
<1>1. CASE S \intersect Known(t) = {}
  BY <1>1 DEF UpdateNodes
<1>2. CASE S \intersect Known(t) # {}
  <2>1. UpdateNodes(t, S, st).known
          = [n \in Node |-> IF n \in S \intersect Known(t) /\ st # NoPatch THEN st ELSE t.known[n]]
    BY <1>2 DEF UpdateNodes, TraceType, Consistent
  <2>2. Known(UpdateNodes(t, S, st)) = Known(t)
    BY <2>1 DEF Known, NodeState, Settled, Absent
  <2> DEFINE u == UpdateNodes(t, S, st)
             e == [type |-> "updateNode", nodes |-> S \intersect Known(t), state |-> st]
  <2>3. Follows(t, u, e)
    BY <1>2, UpdateNodesFollows
  <2>4. Consistent(u)
    <3> HIDE DEF u, e
    <3> QED
      BY <2>3, FollowingKeepsConsistent
  <2> QED
    BY <2>2, <2>4
<1> QED
  BY <1>1, <1>2

\* Entries that speak of no node or edge: iterations and annotations.
LEMMA NoteFollows ==
    ASSUME NEW t, Consistent(t), NEW e \in IterationEntry \union NoteEntry
    PROVE  Follows(t, [t EXCEPT !.events = Append(@, e)], e)
<1> DEFINE u == [t EXCEPT !.events = Append(@, e)]
<1>1. t \in TraceType /\ e \in Entry
  BY DEF Consistent, Entry
<1>2. /\ u.events = Append(t.events, e)
      /\ u.known = t.known
      /\ u.edges = t.edges
      /\ u.visible = t.visible
  BY <1>1 DEF TraceType
<1>3. Append(t.events, e) \in Seq(Entry)
  BY <1>1 DEF TraceType
<1>4. u \in TraceType
  BY <1>1, <1>3 DEF TraceType
<1>5. e.type \in {"iteration", "setContext", "tokenAdd"}
  BY DEF IterationEntry, NoteEntry
<1>6. \A n \in u.visible : u.known[n] = "pending"
  BY <1>2 DEF Consistent
<1>7. Follows(t, u, e)
  <2> HIDE DEF u
  <2> QED
    BY <1>1, <1>2, <1>4, <1>5, <1>6 DEF Follows, Speaks
<1> QED
  BY <1>7

LEMMA NoteConsistent ==
    ASSUME NEW t, Consistent(t), NEW e \in IterationEntry \union NoteEntry
    PROVE  Consistent([t EXCEPT !.events = Append(@, e)])
<1> DEFINE u == [t EXCEPT !.events = Append(@, e)]
<1>1. Follows(t, u, e)
  BY NoteFollows
<1> HIDE DEF u
<1>2. Consistent(u)
  BY <1>1, FollowingKeepsConsistent
<1> QED
  BY <1>2 DEF u

LEMMA LogIterationConsistent ==
    ASSUME Consistent(trace), iteration \in Nat
    PROVE  /\ Consistent(LogIteration(trace))
           /\ Known(LogIteration(trace)) = Known(trace)
<1> DEFINE e == [type |-> "iteration", step |-> iteration + 1]
<1>1. e \in IterationEntry
  BY DEF IterationEntry
<1>2. Consistent([trace EXCEPT !.events = Append(@, e)])
  BY <1>1, NoteConsistent
<1>3. LogIteration(trace).known = trace.known
  BY DEF LogIteration, Consistent, TraceType
<1> QED
  BY <1>2, <1>3 DEF LogIteration, Known

LEMMA NoTraceConsistent == Consistent(NoTrace)
<1>1. NoTrace \in TraceType
  BY NoTraceType
<1>2. /\ NoTrace.events = <<>>
      /\ \A n \in Node : NoTrace.known[n] = Absent
      /\ NoTrace.edges = {} /\ NoTrace.visible = {}
  BY DEF NoTrace
<1>3. DOMAIN NoTrace.events = {}
  BY <1>2
<1> QED
  BY <1>1, <1>2, <1>3 DEF Consistent, KnownIsAdded, EdgesAreAdded, LastWord, Known

LEMMA AnchorTraceConsistent ==
    ASSUME Consistent(trace), iteration \in Nat, NEW d \in AnchorDecision
    PROVE  Consistent(AnchorTrace(d))
<1> DEFINE visible == VisibleAnchors(d)
           logged == LogIteration(trace)
           shown == AddNodes(logged, visible, "pending")
           marked == UpdateNodes(shown, {d.selected}, "anchor")
<1>1. visible \in SUBSET Node
  BY VisibleAnchorsAreCandidates DEF AnchorDecision
<1>2. Consistent(logged)
  BY LogIterationConsistent
<1>3. Consistent(shown)
  BY <1>1, <1>2, AddNodesConsistent DEF NodeState
<1>4. Consistent(marked)
  BY <1>3, UpdateNodesConsistent DEF NodeState, Settled
<1>5. Consistent(UpdateNodes(marked, visible \ {d.selected}, "pruned"))
  BY <1>4, UpdateNodesConsistent DEF NodeState, Settled
<1>6. d.status \in {"resolved", "ambiguous", "not_found"}
  BY DEF AnchorDecision
<1> QED
  BY <1>2, <1>3, <1>5, <1>6 DEF AnchorTrace

LEMMA FrontierTraceConsistent ==
    ASSUME Consistent(trace), iteration \in Nat, NEW d \in FrontierDecision
    PROVE  Consistent(FrontierTrace(d))
<1> DEFINE visible == VisibleFrontier(d)
           logged == LogIteration(trace)
           shown == AddNodes(logged, visible, "pending")
           edges == {e \in Edge : /\ e[2] \in visible
                                  /\ e[1] = d.source[e[2]]
                                  /\ e[1] \in Known(shown)}
           linked == AddEdges(shown, edges)
           scored == UpdateNodes(linked, visible, NoPatch)
           pruned == UpdateNodes(scored, d.pruned, "pruned")
           left == {n \in visible \ d.pruned : pruned.known[n] \notin Settled}
<1>1. visible \in SUBSET Node
  BY VisibleFrontierAreCandidates DEF FrontierDecision
<1>2. Consistent(logged)
  BY LogIterationConsistent
<1>3. Consistent(shown) /\ visible \subseteq Known(shown)
  BY <1>1, <1>2, AddNodesConsistent DEF NodeState
<1>4. Consistent(linked) /\ Known(linked) = Known(shown)
  <2>1. edges \in SUBSET Edge
    OBVIOUS
  <2> HIDE DEF shown, edges
  <2> QED
    BY <1>3, <2>1, AddEdgesConsistent DEF Known
<1>5. Consistent(scored) /\ Known(scored) = Known(linked)
  <2> HIDE DEF linked
  <2> QED
    BY <1>4, UpdateNodesConsistent DEF NodeState, Settled, NoPatch
<1>6. Consistent(pruned) /\ Known(pruned) = Known(scored)
  <2> HIDE DEF scored
  <2> QED
    BY <1>5, UpdateNodesConsistent DEF NodeState, Settled, NoPatch
<1>7. \A n \in left : pruned.known[n] = "pending"
  <2> HIDE DEF pruned, scored, linked, shown, visible
  <2>1. \A n \in visible : n \in Known(pruned)
    BY <1>3, <1>4, <1>5, <1>6
  <2>2. pruned \in TraceType
    BY <1>6 DEF Consistent
  <2> QED
    BY <2>1, <2>2, <1>1 DEF TraceType, Known, NodeState
<1>8. Consistent([pruned EXCEPT !.visible = left])
  <2>1. left \in SUBSET Node
    BY <1>1
  <2> HIDE DEF pruned, left
  <2> DEFINE u == [pruned EXCEPT !.visible = left]
  <2>2. pruned \in TraceType
    BY <1>6 DEF Consistent
  <2>3. /\ u.events = pruned.events /\ u.known = pruned.known
        /\ u.edges = pruned.edges /\ u.visible = left
        /\ u \in TraceType
    BY <2>1, <2>2 DEF TraceType
  <2> HIDE DEF u
  <2>4. Consistent(u)
    BY <1>6, <1>7, <2>3
    DEF Consistent, KnownIsAdded, EdgesAreAdded, LastWord, Applicable, AddedBefore, Known
  <2> QED
    BY <2>4 DEF u
<1> QED
  BY <1>8 DEF FrontierTrace

LEMMA ExpansionTraceConsistent ==
    ASSUME Consistent(trace), NEW x \in Expansion
    PROVE  Consistent(ExpansionTrace(x))
<1> DEFINE created == AddNodes(trace, x.created, "pending")
           linked == AddEdges(created, x.edges)
           ensured == AddNodes(linked, {x.source}, x.state)
<1>1. Consistent(created)
  BY AddNodesConsistent DEF Expansion, NodeState
<1>2. Consistent(linked)
  BY <1>1, AddEdgesConsistent DEF Expansion
<1>3. Consistent(ensured)
  BY <1>2, AddNodesConsistent DEF Expansion
<1>4. Consistent(UpdateNodes(ensured, {x.source}, "resolved"))
  BY <1>3, UpdateNodesConsistent DEF NodeState, Settled, NoPatch
<1> QED
  BY <1>4 DEF ExpansionTrace

LEMMA InitConsistent == Init => Consistent(trace)
  BY NoTraceConsistent DEF Init

LEMMA NextConsistent ==
    TypeOK /\ Consistent(trace) /\ [Next]_vars => Consistent(trace)'
<1> SUFFICES ASSUME TypeOK, Consistent(trace), [Next]_vars
             PROVE  Consistent(trace')
  BY DEF Consistent, KnownIsAdded, EdgesAreAdded, LastWord, Applicable, AddedBefore, Known
<1> USE ConstantsAssumption
<1>0. iteration \in Nat
  BY DEF TypeOK
<1>1. CASE NoteExpandCall
  BY <1>1 DEF NoteExpandCall
<1>2. ASSUME NEW d \in AnchorDecisions, ObserveAnchorDecision(d)
      PROVE  Consistent(trace')
  BY <1>0, <1>2, AnchorTraceConsistent DEF ObserveAnchorDecision
<1>3. ASSUME NEW d \in FrontierDecisions, ObserveFrontierDecision(d)
      PROVE  Consistent(trace')
  BY <1>0, <1>3, FrontierTraceConsistent DEF ObserveFrontierDecision
<1>4. ASSUME NEW x \in Expansions, ObserveExpansion(x)
      PROVE  Consistent(trace')
  BY <1>4, ExpansionTraceConsistent DEF ObserveExpansion
<1>5. ASSUME NEW type \in Annotations, Annotate(type)
      PROVE  Consistent(trace')
  <2>1. [type |-> type] \in NoteEntry
    BY <1>5 DEF NoteEntry
  <2> QED
    BY <1>5, <2>1, NoteConsistent DEF Annotate
<1>6. CASE Reset
  BY <1>6, NoTraceConsistent DEF Reset, ClearedTrace
<1>7. CASE RefuseCollect
  BY <1>7 DEF RefuseCollect
<1>8. ASSUME NEW clear \in BOOLEAN, Collect(clear)
      PROVE  Consistent(trace')
  BY <1>8, NoTraceConsistent DEF Collect, ClearedTrace
<1>9. CASE UNCHANGED vars
  BY <1>9 DEF vars
<1> QED
  BY <1>1, <1>2, <1>3, <1>4, <1>5, <1>6, <1>7, <1>8, <1>9 DEF Next

LEMMA AlwaysConsistent == Spec => []Consistent(trace)
<1>1. Spec => []TypeOK
  BY TypeCorrect
<1> QED
  BY <1>1, InitConsistent, NextConsistent, PTL DEF Spec

\* Whatever the decisions reported, the node states the recorder works with are
\* those a reader of the log ends with.
THEOREM KnownMatchesLogAlways == Spec => []KnownMatchesLog
<1>1. Consistent(trace) => KnownMatchesLog
  BY DEF Consistent, KnownMatchesLog
<1> QED
  BY <1>1, AlwaysConsistent, PTL

\* Whatever the decisions reported, a reader can apply the log from its start.
THEOREM LogIsReplayableAlways == Spec => []LogIsReplayable
<1>1. Consistent(trace) => LogIsReplayable
  BY DEF Consistent, LogIsReplayable
<1> QED
  BY <1>1, AlwaysConsistent, PTL

\* Whatever the decisions reported, the sticky ids are pending in the log.
THEOREM VisibleArePendingAlways == Spec => []VisibleArePending
<1>1. Consistent(trace) => VisibleArePending
  BY DEF Consistent, VisibleArePending
<1> QED
  BY <1>1, AlwaysConsistent, PTL

----
(* What a step may do to the trace.                                        *)

\* u is t grown: its log continues that of t, and what is settled stays so.
Grown(t, u) ==
    /\ Len(t.events) <= Len(u.events)
    /\ \A i \in DOMAIN t.events : u.events[i] = t.events[i]
    /\ \A n \in Node : t.known[n] \in Settled => u.known[n] \in Settled

\* ... and none of the new entries is an iteration.
Quiet(t, u) ==
    /\ Grown(t, u)
    /\ \A i \in DOMAIN u.events \ DOMAIN t.events : u.events[i].type # "iteration"

LEMMA QuietTransitive ==
    ASSUME NEW s \in TraceType, NEW t \in TraceType, NEW u \in TraceType,
           Quiet(s, t), Quiet(t, u)
    PROVE  Quiet(s, u)
  BY DEF Quiet, Grown, TraceType

LEMMA GrownThenQuiet ==
    ASSUME NEW s \in TraceType, NEW t \in TraceType, NEW u \in TraceType,
           Grown(s, t), Quiet(t, u)
    PROVE  Grown(s, u)
<1>1. /\ DOMAIN s.events = 1..Len(s.events) /\ Len(s.events) \in Nat
      /\ DOMAIN t.events = 1..Len(t.events) /\ Len(t.events) \in Nat
      /\ Len(u.events) \in Nat
  BY DEF TraceType
<1>2. Len(s.events) <= Len(u.events)
  BY <1>1 DEF Quiet, Grown
<1>3. \A i \in DOMAIN s.events : u.events[i] = s.events[i]
  BY <1>1 DEF Quiet, Grown
<1>4. \A n \in Node : s.known[n] \in Settled => u.known[n] \in Settled
  BY DEF Quiet, Grown
<1> QED
  BY <1>2, <1>3, <1>4 DEF Grown

LEMMA QuietReflexive ==
    ASSUME NEW t \in TraceType
    PROVE  Quiet(t, t)
  BY DEF Quiet, Grown, TraceType

LEMMA AddNodesQuiet ==
    ASSUME NEW t \in TraceType, NEW S \in SUBSET Node, NEW st \in NodeState
    PROVE  Quiet(t, AddNodes(t, S, st))
<1> DEFINE u == AddNodes(t, S, st)
           e == [type |-> "addNodes", nodes |-> S \ Known(t), state |-> st]
<1>1. CASE S \ Known(t) = {}
  BY <1>1, QuietReflexive DEF AddNodes
<1>2. CASE S \ Known(t) # {}
  <2>1. /\ u.events = Append(t.events, e)
        /\ u.known = [n \in Node |-> IF n \in S \ Known(t) THEN st ELSE t.known[n]]
    BY <1>2 DEF AddNodes, TraceType
  <2>2. \A n \in Node : t.known[n] \in Settled => n \in Known(t)
    BY DEF Known, Settled, Absent
  <2> QED
    BY <2>1, <2>2 DEF Quiet, Grown, TraceType
<1> QED
  BY <1>1, <1>2

LEMMA AddEdgesQuiet ==
    ASSUME NEW t \in TraceType, NEW S \in SUBSET Edge
    PROVE  Quiet(t, AddEdges(t, S))
<1> DEFINE u == AddEdges(t, S)
           e == [type |-> "addEdges", edges |-> S \ t.edges]
<1>1. CASE S \ t.edges = {}
  BY <1>1, QuietReflexive DEF AddEdges
<1>2. CASE S \ t.edges # {}
  <2>1. u.events = Append(t.events, e) /\ u.known = t.known
    BY <1>2 DEF AddEdges, TraceType
  <2> QED
    BY <2>1 DEF Quiet, Grown, TraceType
<1> QED
  BY <1>1, <1>2

LEMMA UpdateNodesQuiet ==
    ASSUME NEW t \in TraceType, NEW S, NEW st \in Settled \union {NoPatch}
    PROVE  Quiet(t, UpdateNodes(t, S, st))
<1> DEFINE u == UpdateNodes(t, S, st)
           hit == S \intersect Known(t)
           e == [type |-> "updateNode", nodes |-> hit, state |-> st]
<1>1. CASE hit = {}
  BY <1>1, QuietReflexive DEF UpdateNodes
<1>2. CASE hit # {}
  <2>1. /\ u.events = Append(t.events, e)
        /\ u.known = [n \in Node |-> IF n \in hit /\ st # NoPatch THEN st ELSE t.known[n]]
    BY <1>2 DEF UpdateNodes, TraceType
  <2> QED
    BY <2>1 DEF Quiet, Grown, TraceType
<1> QED
  BY <1>1, <1>2

LEMMA LogIterationGrows ==
    ASSUME TypeOK
    PROVE  Grown(trace, LogIteration(trace))
<1>1. /\ LogIteration(trace).events
            = Append(trace.events, [type |-> "iteration", step |-> iteration + 1])
      /\ LogIteration(trace).known = trace.known
  BY DEF LogIteration, TypeOK, TraceType
<1> QED
  BY <1>1 DEF Grown, TypeOK, TraceType

\* An anchor decision logs one iteration, and then only grows the log quietly.
LEMMA AnchorTraceGrows ==
    ASSUME TypeOK, NEW d \in AnchorDecision
    PROVE  Quiet(LogIteration(trace), AnchorTrace(d))
<1> DEFINE visible == VisibleAnchors(d)
           logged == LogIteration(trace)
           shown == AddNodes(logged, visible, "pending")
           marked == UpdateNodes(shown, {d.selected}, "anchor")
           rest == UpdateNodes(marked, visible \ {d.selected}, "pruned")
<1>1. visible \in SUBSET Node
  BY VisibleAnchorsAreCandidates DEF AnchorDecision
<1>2. logged \in TraceType
  BY LogIterationType DEF TypeOK
<1>3. shown \in TraceType /\ Quiet(logged, shown)
  BY <1>1, <1>2, AddNodesType, AddNodesQuiet DEF NodeState
<1>4. marked \in TraceType /\ Quiet(shown, marked)
  BY <1>3, UpdateNodesType, UpdateNodesQuiet DEF NodeState, Settled
<1>5. rest \in TraceType /\ Quiet(marked, rest)
  BY <1>4, UpdateNodesType, UpdateNodesQuiet DEF NodeState, Settled
<1>6. Quiet(logged, rest)
  <2> HIDE DEF logged, shown, marked, rest
  <2> QED
    BY <1>2, <1>3, <1>4, <1>5, QuietTransitive
<1>7. d.status \in {"resolved", "ambiguous", "not_found"}
  BY DEF AnchorDecision
<1> QED
  BY <1>2, <1>3, <1>6, <1>7, QuietReflexive DEF AnchorTrace

LEMMA FrontierTraceGrows ==
    ASSUME TypeOK, NEW d \in FrontierDecision
    PROVE  Quiet(LogIteration(trace), FrontierTrace(d))
<1> DEFINE visible == VisibleFrontier(d)
           logged == LogIteration(trace)
           shown == AddNodes(logged, visible, "pending")
           edges == {e \in Edge : /\ e[2] \in visible
                                  /\ e[1] = d.source[e[2]]
                                  /\ e[1] \in Known(shown)}
           linked == AddEdges(shown, edges)
           scored == UpdateNodes(linked, visible, NoPatch)
           pruned == UpdateNodes(scored, d.pruned, "pruned")
           left == {n \in visible \ d.pruned : pruned.known[n] \notin Settled}
<1>1. visible \in SUBSET Node
  BY VisibleFrontierAreCandidates DEF FrontierDecision
<1>2. logged \in TraceType
  BY LogIterationType DEF TypeOK
<1>3. shown \in TraceType /\ Quiet(logged, shown)
  BY <1>1, <1>2, AddNodesType, AddNodesQuiet DEF NodeState
<1>4. linked \in TraceType /\ Quiet(shown, linked)
  <2>1. edges \in SUBSET Edge
    OBVIOUS
  <2> HIDE DEF shown, edges
  <2> QED
    BY <1>3, <2>1, AddEdgesType, AddEdgesQuiet
<1>5. scored \in TraceType /\ Quiet(linked, scored)
  BY <1>4, UpdateNodesType, UpdateNodesQuiet
<1>6. pruned \in TraceType /\ Quiet(scored, pruned)
  BY <1>5, UpdateNodesType, UpdateNodesQuiet DEF NodeState, Settled
<1>7. Quiet(logged, pruned)
  <2> HIDE DEF logged, shown, linked, scored, pruned
  <2> QED
    BY <1>2, <1>3, <1>4, <1>5, <1>6, QuietTransitive
<1>8. Quiet(logged, [pruned EXCEPT !.visible = left])
  <2> HIDE DEF logged, pruned, left
  <2> QED
    BY <1>6, <1>7 DEF Quiet, Grown, TraceType
<1> QED
  BY <1>8 DEF FrontierTrace

LEMMA ExpansionTraceGrows ==
    ASSUME TypeOK, NEW x \in Expansion
    PROVE  Quiet(trace, ExpansionTrace(x))
<1> DEFINE created == AddNodes(trace, x.created, "pending")
           linked == AddEdges(created, x.edges)
           ensured == AddNodes(linked, {x.source}, x.state)
           resolved == UpdateNodes(ensured, {x.source}, "resolved")
<1>1. created \in TraceType /\ Quiet(trace, created)
  BY AddNodesType, AddNodesQuiet DEF TypeOK, Expansion, NodeState
<1>2. linked \in TraceType /\ Quiet(created, linked)
  BY <1>1, AddEdgesType, AddEdgesQuiet DEF Expansion
<1>3. ensured \in TraceType /\ Quiet(linked, ensured)
  BY <1>2, AddNodesType, AddNodesQuiet DEF Expansion
<1>4. resolved \in TraceType /\ Quiet(ensured, resolved)
  BY <1>3, UpdateNodesType, UpdateNodesQuiet DEF NodeState, Settled
<1> HIDE DEF created, linked, ensured, resolved
<1>5. Quiet(trace, resolved)
  BY <1>1, <1>2, <1>3, <1>4, QuietTransitive DEF TypeOK
<1> QED
  BY <1>5 DEF ExpansionTrace, created, linked, ensured, resolved

\* A step grows the trace, or drops it.
LEMMA StepGrowsOrDrops ==
    ASSUME TypeOK, [Next]_vars
    PROVE  \/ Grown(trace, trace')
           \/ trace' = NoTrace /\ reply'.type = "reset"
           \/ trace' = NoTrace /\ reply'.type = "payload" /\ reply'.events = trace.events
<1> USE ConstantsAssumption
<1>0. trace \in TraceType /\ LogIteration(trace) \in TraceType
  BY LogIterationType DEF TypeOK
<1>1. trace' = trace => Grown(trace, trace')
  BY <1>0, QuietReflexive DEF Quiet
<1>2. ASSUME NEW d \in AnchorDecisions, ObserveAnchorDecision(d)
      PROVE  Grown(trace, trace')
  <2>1. AnchorTrace(d) \in TraceType /\ Quiet(LogIteration(trace), AnchorTrace(d))
    BY AnchorTraceType, AnchorTraceGrows
  <2> QED
    BY <1>0, <1>2, <2>1, LogIterationGrows, GrownThenQuiet DEF ObserveAnchorDecision
<1>3. ASSUME NEW d \in FrontierDecisions, ObserveFrontierDecision(d)
      PROVE  Grown(trace, trace')
  <2>1. FrontierTrace(d) \in TraceType /\ Quiet(LogIteration(trace), FrontierTrace(d))
    BY FrontierTraceType, FrontierTraceGrows
  <2> QED
    BY <1>0, <1>3, <2>1, LogIterationGrows, GrownThenQuiet DEF ObserveFrontierDecision
<1>4. ASSUME NEW x \in Expansions, ObserveExpansion(x)
      PROVE  Grown(trace, trace')
  BY <1>4, ExpansionTraceGrows DEF ObserveExpansion, Quiet
<1>5. ASSUME NEW type \in Annotations, Annotate(type)
      PROVE  Grown(trace, trace')
  <2>1. trace'.events = Append(trace.events, [type |-> type]) /\ trace'.known = trace.known
    BY <1>0, <1>5 DEF Annotate, TraceType
  <2> QED
    BY <1>0, <2>1 DEF Grown, TraceType
<1>6. CASE Reset
  BY <1>6 DEF Reset, ClearedTrace
<1>7. ASSUME NEW clear \in BOOLEAN, Collect(clear)
      PROVE  \/ trace' = trace
             \/ trace' = NoTrace /\ reply'.type = "payload" /\ reply'.events = trace.events
  BY <1>7 DEF Collect, ClearedTrace
<1>8. CASE NoteExpandCall \/ RefuseCollect \/ UNCHANGED vars
  BY <1>1, <1>8 DEF NoteExpandCall, RefuseCollect, vars
<1> QED
  BY <1>1, <1>2, <1>3, <1>4, <1>5, <1>6, <1>7, <1>8 DEF Next

\* No call, in any order, takes a settled node of the trace back to pending.
THEOREM NeverBackToPendingAlways == Spec => NeverBackToPending
<1>1. TypeOK /\ [Next]_vars =>
        [\A n \in Node : trace.known[n] \in Settled =>
            trace'.known[n] \in Settled \/ trace' = NoTrace]_vars
  BY StepGrowsOrDrops DEF Grown
<1> QED
  BY <1>1, TypeCorrect, PTL DEF Spec, NeverBackToPending

\* No call, in any order, loses or changes a logged event that was not delivered
\* first, other than an explicit reset.
THEOREM LogKeptAlways == Spec => LogKept
<1>1. TypeOK /\ [Next]_vars =>
        [\/ /\ Len(trace.events) <= Len(trace'.events)
            /\ \A i \in DOMAIN trace.events : trace'.events[i] = trace.events[i]
         \/ reply'.type = "reset"
         \/ reply'.type = "payload" /\ reply'.events = trace.events]_vars
  BY StepGrowsOrDrops DEF Grown
<1> QED
  BY <1>1, TypeCorrect, PTL DEF Spec, LogKept

----
(* The counters.                                                           *)

LEMMA QuietKeepsNumbered ==
    ASSUME NEW t \in TraceType, NEW u \in TraceType, NEW k, Numbered(t, k), Quiet(t, u)
    PROVE  Numbered(u, k)
<1>1. /\ DOMAIN t.events = 1..Len(t.events) /\ Len(t.events) \in Nat
      /\ DOMAIN u.events = 1..Len(u.events) /\ Len(u.events) \in Nat
      /\ DOMAIN t.events \subseteq DOMAIN u.events
  BY DEF TraceType, Quiet, Grown
<1>2. {i \in DOMAIN u.events : u.events[i].type = "iteration"}
        = {i \in DOMAIN t.events : t.events[i].type = "iteration"}
  BY <1>1 DEF Quiet, Grown
<1>3. \A i \in DOMAIN t.events : u.events[i] = t.events[i]
  BY DEF Quiet, Grown
<1> QED
  BY <1>2, <1>3 DEF Numbered

LEMMA LogIterationNumbers ==
    ASSUME TypeOK, Numbered(trace, iteration)
    PROVE  Numbered(LogIteration(trace), iteration + 1)
<1> DEFINE t == trace
           u == LogIteration(trace)
           e == [type |-> "iteration", step |-> iteration + 1]
           len == Len(t.events)
           old == {i \in DOMAIN t.events : t.events[i].type = "iteration"}
           new == {i \in DOMAIN u.events : u.events[i].type = "iteration"}
<1>1. /\ u.events = Append(t.events, e)
      /\ t.events \in Seq(Entry) /\ len \in Nat /\ iteration \in Nat
  BY DEF LogIteration, TypeOK, TraceType
<1>2. /\ DOMAIN t.events = 1..len
      /\ DOMAIN u.events = 1..(len + 1)
      /\ \A i \in 1..len : u.events[i] = t.events[i]
      /\ u.events[len + 1] = e
  BY <1>1
<1>3. new = old \union {len + 1}
  BY <1>2
<1>4. {t.events[i].step : i \in old} = 1..iteration
  BY DEF Numbered
<1>5. \A i \in old : t.events[i].step \in 1..iteration
  BY <1>4
<1>6. {u.events[i].step : i \in new} = {t.events[i].step : i \in old} \union {iteration + 1}
  BY <1>2, <1>3
<1>7. {u.events[i].step : i \in new} = 1..(iteration + 1)
  <2>1. 1..(iteration + 1) = (1..iteration) \union {iteration + 1}
    BY <1>1
  <2> HIDE DEF u, t, old, new
  <2> QED
    BY <2>1, <1>4, <1>6
<1>8. \A i, j \in new : i < j => u.events[i].step < u.events[j].step
  <2> SUFFICES ASSUME NEW i \in new, NEW j \in new, i < j
               PROVE  u.events[i].step < u.events[j].step
    OBVIOUS
  <2>1. i \in old /\ i \in 1..len
    BY <1>1, <1>2, <1>3
  <2>2. CASE j \in old
    BY <2>1, <2>2, <1>2 DEF Numbered
  <2>3. CASE j = len + 1
    BY <2>1, <2>3, <1>1, <1>2, <1>5
  <2> QED
    BY <2>2, <2>3, <1>3
<1> QED
  BY <1>7, <1>8 DEF Numbered

LEMMA NoTraceNumbered == Numbered(NoTrace, 0)
<1>1. DOMAIN NoTrace.events = {}
  BY DEF NoTrace
<1> QED
  BY <1>1 DEF Numbered

Counters ==
    /\ iteration = summary.resolveCalls + summary.lookaheadSteps
    /\ summary.resolveCalls = summary.resolved + summary.ambiguous + summary.notFound

LEMMA InitCounters == Init => CountersMatchLog
  BY NoTraceNumbered DEF Init, CountersMatchLog, NoSummary

LEMMA NextNumbered ==
    ASSUME TypeOK, Numbered(trace, iteration), [Next]_vars
    PROVE  Numbered(trace', iteration')
<1> USE ConstantsAssumption
<1>0. trace \in TraceType /\ LogIteration(trace) \in TraceType
  BY LogIterationType DEF TypeOK
<1>1. ASSUME NEW d \in AnchorDecisions, ObserveAnchorDecision(d)
      PROVE  Numbered(trace', iteration')
  <2>1. AnchorTrace(d) \in TraceType /\ Quiet(LogIteration(trace), AnchorTrace(d))
    BY AnchorTraceType, AnchorTraceGrows
  <2> QED
    BY <1>0, <1>1, <2>1, LogIterationNumbers, QuietKeepsNumbered DEF ObserveAnchorDecision
<1>2. ASSUME NEW d \in FrontierDecisions, ObserveFrontierDecision(d)
      PROVE  Numbered(trace', iteration')
  <2>1. FrontierTrace(d) \in TraceType /\ Quiet(LogIteration(trace), FrontierTrace(d))
    BY FrontierTraceType, FrontierTraceGrows
  <2> QED
    BY <1>0, <1>2, <2>1, LogIterationNumbers, QuietKeepsNumbered DEF ObserveFrontierDecision
<1>3. ASSUME NEW x \in Expansions, ObserveExpansion(x)
      PROVE  Numbered(trace', iteration')
  <2>1. ExpansionTrace(x) \in TraceType /\ Quiet(trace, ExpansionTrace(x))
    BY ExpansionTraceType, ExpansionTraceGrows
  <2> QED
    BY <1>0, <1>3, <2>1, QuietKeepsNumbered DEF ObserveExpansion
<1>4. ASSUME NEW type \in Annotations, Annotate(type)
      PROVE  Numbered(trace', iteration')
  <2>1. /\ trace'.events = Append(trace.events, [type |-> type])
        /\ trace'.known = trace.known
        /\ type # "iteration"
    BY <1>0, <1>4 DEF Annotate, TraceType
  <2>2. trace' \in TraceType
    BY <1>4, NextTypeOK DEF Next, TypeOK
  <2>3. Quiet(trace, trace')
    BY <1>0, <2>1 DEF Quiet, Grown, TraceType
  <2> QED
    BY <1>0, <1>4, <2>2, <2>3, QuietKeepsNumbered DEF Annotate
<1>5. CASE Reset
  BY <1>5, NoTraceNumbered DEF Reset, ClearedTrace
<1>6. ASSUME NEW clear \in BOOLEAN, Collect(clear)
      PROVE  Numbered(trace', iteration')
  BY <1>6, NoTraceNumbered DEF Collect, ClearedTrace
<1>7. CASE NoteExpandCall \/ RefuseCollect \/ UNCHANGED vars
  BY <1>7 DEF NoteExpandCall, RefuseCollect, vars
<1> QED
  BY <1>1, <1>2, <1>3, <1>4, <1>5, <1>6, <1>7 DEF Next

LEMMA NextCounters ==
    ASSUME TypeOK, Counters, [Next]_vars
    PROVE  Counters'
<1> USE ConstantsAssumption
<1>1. ASSUME NEW d \in AnchorDecisions, ObserveAnchorDecision(d)
      PROVE  Counters'
  <2>1. d.status \in {"resolved", "ambiguous", "not_found"}
    BY DEF AnchorDecision
  <2>2. /\ iteration' = iteration + 1
        /\ summary'.resolveCalls = summary.resolveCalls + 1
        /\ summary'.lookaheadSteps = summary.lookaheadSteps
        /\ summary'.notFound = summary.notFound + (IF d.status = "not_found" THEN 1 ELSE 0)
        /\ summary'.ambiguous = summary.ambiguous + (IF d.status = "ambiguous" THEN 1 ELSE 0)
        /\ summary'.resolved = summary.resolved + (IF d.status = "resolved" THEN 1 ELSE 0)
    BY <1>1 DEF ObserveAnchorDecision, TypeOK, Summary
  <2> QED
    BY <2>1, <2>2 DEF Counters, TypeOK, Summary
<1>2. ASSUME NEW d \in FrontierDecisions, ObserveFrontierDecision(d)
      PROVE  Counters'
  <2>1. /\ iteration' = iteration + 1
        /\ summary'.lookaheadSteps = summary.lookaheadSteps + 1
        /\ summary'.resolveCalls = summary.resolveCalls
        /\ summary'.notFound = summary.notFound
        /\ summary'.ambiguous = summary.ambiguous
        /\ summary'.resolved = summary.resolved
    BY <1>2 DEF ObserveFrontierDecision, TypeOK, Summary
  <2> QED
    BY <2>1 DEF Counters, TypeOK, Summary
<1>3. CASE Reset
  BY <1>3 DEF Reset, Counters, NoSummary
<1>4. ASSUME NEW clear \in BOOLEAN, Collect(clear)
      PROVE  Counters'
  <2>1. CASE clear
    BY <1>4, <2>1 DEF Collect, Counters, NoSummary
  <2>2. CASE ~clear
    BY <1>4, <2>2 DEF Collect, Counters, TypeOK, Summary
  <2> QED
    BY <2>1, <2>2
<1>5. CASE NoteExpandCall
  <2>1. /\ iteration' = iteration
        /\ summary'.lookaheadSteps = summary.lookaheadSteps
        /\ summary'.resolveCalls = summary.resolveCalls
        /\ summary'.notFound = summary.notFound
        /\ summary'.ambiguous = summary.ambiguous
        /\ summary'.resolved = summary.resolved
    BY <1>5 DEF NoteExpandCall, TypeOK, Summary
  <2> QED
    BY <2>1 DEF Counters
<1>6. ASSUME NEW x \in Expansions, ObserveExpansion(x)
      PROVE  Counters'
  BY <1>6 DEF Counters, ObserveExpansion
<1>7. ASSUME NEW type \in Annotations, Annotate(type)
      PROVE  Counters'
  BY <1>7 DEF Counters, Annotate
<1>8. CASE RefuseCollect \/ UNCHANGED vars
  BY <1>8 DEF RefuseCollect, vars, Counters
<1> QED
  BY <1>1, <1>2, <1>3, <1>4, <1>5, <1>6, <1>7, <1>8 DEF Next

\* Whatever the calls and their order, iterations are numbered from 1 in every
\* trace, and the counters agree with each other and with the log.
THEOREM CountersMatchLogAlways == Spec => []CountersMatchLog
<1>1. TypeOK /\ CountersMatchLog /\ [Next]_vars => CountersMatchLog'
  <2> SUFFICES ASSUME TypeOK, CountersMatchLog, [Next]_vars
               PROVE  CountersMatchLog'
    OBVIOUS
  <2>1. Numbered(trace', iteration')
    BY NextNumbered DEF CountersMatchLog
  <2>2. Counters'
    BY NextCounters DEF CountersMatchLog, Counters
  <2> QED
    BY <2>1, <2>2 DEF CountersMatchLog, Counters, Numbered
<1> QED
  BY <1>1, InitCounters, TypeCorrect, PTL DEF Spec
====
